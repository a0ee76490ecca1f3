CONSTANTS
  ReadSize = 90
  NameLen = 8
  NONE = NONE
  NULL = NULL
  CORRUPT = CORRUPT
  ERROR = ERROR
  PANIC = PANIC
  Archives <- MCArchives
SPECIFICATION YpfSpec
INVARIANTS
  HashValidated
CHECK_DEADLOCK FALSE
