CONSTANTS
  FILE_ARRAY_SIZE = 4
  Names <- MCNames
  Dentries <- MCDentries
  FileType <- MCFileType
  InodeIdx <- MCInodeIdx
  Length <- MCLength
  BadPositions <- MCBad
  Shell = "shell"
  WORD = 8
  MaxBytes = 2
  Holes = TRUE
SPECIFICATION Spec
PROPERTIES
  OpenTouchesOnlyItsOwn
