CONSTANTS
  NUM_TERMINALS = 2
  NUM_COLS = 2
  NUM_ROWS = 2
  FKeys = {"F1", "F2"}
  MaxHeld = 2
  Repeats = FALSE
  MaxMarks = 2
SPECIFICATION Spec
INVARIANTS
  CursorFollows
  KeysMeanWhatIsHeld
PROPERTIES
  ImplementsScreens
