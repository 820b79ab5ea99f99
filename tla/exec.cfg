CONSTANTS
  MAX_COMMAND_LENGTH = 5
  SPACE = 3
  MAX_FILE_NAME_LENGTH = 2
  BLOCK_SIZE = 3
  WORD = 24
  NumDataBlocks = 3
  FILE_HEADER_SIZE = 2
  LOADER_BUFFER_SIZE = 2
  ElfBlocks = {0}
  Images <- MCImages
  Commands <- MCCommands
  Requests <- MCRequests
  Numbers <- MCNumbers
  Lengths <- MCLengths
SPECIFICATION Spec
CHECK_DEADLOCK FALSE
INVARIANTS
  ExecutesWhatIsNamed
  ArgumentsDelivered
  ReadsTheRange
  ListsTheDirectory
PROPERTIES
  CallsEnd
