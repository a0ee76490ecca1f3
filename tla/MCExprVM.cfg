CONSTANTS
  StackSize = 4
  MaxLen = 8
SPECIFICATION Spec
INVARIANTS
  TypeOK
  StackOwnsHeap
  NoFault
  NothingLeft
CHECK_DEADLOCK FALSE
