CONSTANTS
  p1 = p1
  p2 = p2
  lp = lp
  ln = ln
  Paths <- MCPaths
  LongPaths <- MCLongPaths
  Names <- MCNames
  LongNames <- MCLongNames
  ScriptNames <- MCScriptNames
  Images <- AllImages
  MaxArchives = 2
  NULL = NULL
SPECIFICATION Spec
INVARIANTS
  TypeOK
  IndexSound
  HandlesSound
CHECK_DEADLOCK FALSE
PROPERTIES
  VFSSpec
