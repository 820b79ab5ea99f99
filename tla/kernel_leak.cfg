CONSTANTS
  MAX_NUM_PROCESS = 4
  NUM_TERMINALS = 3
  Windows = {"destroy", "fault", "tss"}
SPECIFICATION Spec
CHECK_DEADLOCK FALSE
INVARIANTS
  RelaunchPossible
  FreeSlotsClean
