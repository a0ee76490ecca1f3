CONSTANTS
  Limit = 4
  MaxIdx = 2
  MaxVars = 2
  MaxBlocks = 3
  NULL = NULL
SPECIFICATION Spec
INVARIANTS
  DefMatches
CHECK_DEADLOCK FALSE
