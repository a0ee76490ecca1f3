CONSTANTS
  Limit = 4
  MaxIdx = 3
  MaxVars = 1
  MaxBlocks = 1
  NULL = NULL
SPECIFICATION FairSpec
PROPERTIES
  FreeTerminates
CHECK_DEADLOCK FALSE
