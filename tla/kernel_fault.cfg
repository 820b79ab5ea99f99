CONSTANTS
  MAX_NUM_PROCESS = 3
  NUM_TERMINALS = 2
  Windows = {"fault"}
SPECIFICATION Spec
CHECK_DEADLOCK FALSE
INVARIANT
  ExceptionFlag
