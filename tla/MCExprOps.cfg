CONSTANTS
  W = 5
  P = 3
  Unit = 16
  NumberBufSize = 5
  Ints <- MCInts
  Floats <- MCFloats
  Texts <- MCTexts
  NaN = 1000003
  MaxOps = 2
SPECIFICATION OpsSpec
INVARIANTS
  OpsTypeOK
  TextsRight
  Ordered
  NumbersExact
CHECK_DEADLOCK FALSE
