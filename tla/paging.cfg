CONSTANTS
  MAX_NUM_PROCESS = 3
SPECIFICATION Spec
INVARIANTS
  MapsAccepted
PROPERTIES
  ImplementsSpaces
