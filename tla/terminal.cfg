CONSTANTS
  BUFFER_SIZE = 3
  MAX_ARG_BUF = 5
  Requests <- MCRequests
  Windows = {"late", "fault"}
SPECIFICATION FairSpec
INVARIANTS
  NoStaleEnter
  NoStaleData
  ReturnsWhatItCopied
  WholeLine
PROPERTIES
  EnterEndsRead
