CONSTANTS
  Keys = {1, 2}
  Files <- MCFiles
  MaxCount = 2
  MaxArgs = 2
  Lens = {0, 8188, 8189}
  WRONG = WRONG
  NONE = NONE
  HexSize = 8192
  LineSize = 5
  Chars <- MCChars
  EXIT <- MCExit
  Inputs <- MCInputs
SPECIFICATION ListSpec
INVARIANTS
  TypeOK
  KeyRight
  ListedAll
  HexFits
  AllReleased
  ReplReads
CHECK_DEADLOCK FALSE
