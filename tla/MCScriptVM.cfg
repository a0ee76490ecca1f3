CONSTANTS
  Limit = 4
  MaxIdx = 2
  MaxVars = 2
  MaxBlocks = 3
  NULL = NULL
SPECIFICATION FairSpec
INVARIANTS
  TypeOK
  ValuesOwned
  NoLeak
PROPERTIES
  FreedAll
  FreeTerminates
CHECK_DEADLOCK FALSE
