CONSTANTS
  MAX_NUM_PROCESS = 3
  NUM_TERMINALS = 2
  Windows = {"background"}
SPECIFICATION Spec
CHECK_DEADLOCK FALSE
PROPERTY
  ExecuteReturnsFromHalt
