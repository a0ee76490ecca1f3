CONSTANTS
  Files <- MCFiles
  MaxIdx = 2
  MAX_YSC_COMMANDS = 2
  MAX_YSC_ARGS = 1
  YSTL_MAX_SCRIPTS = 2
  NULL = NULL
SPECIFICATION Spec
INVARIANTS
  TypeOK
  AllFound
  Released
  ParsersAgree
CHECK_DEADLOCK FALSE
