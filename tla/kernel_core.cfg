CONSTANTS
  MAX_NUM_PROCESS = 3
  NUM_TERMINALS = 3
  Windows <- SafeWindows
SPECIFICATION FairSpec
INVARIANTS
  TypeOK
  NoCrash
  OwnContext
  TopsResumable
  CountsAgree
  VideoFollowsDisplay
  DisplayedLive
  ExceptionFlag
PROPERTIES
  ExecuteReturnsFromHalt
  TerminalsServed
  HaltCompletes
  ImplementsSessions
