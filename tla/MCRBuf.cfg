\* Words of 3 bits; the buffer is smaller than half a word.
CONSTANTS
  Size = 3
  Word = 8
  Base = 5
  Lengths <- MCLengths
  Configs <- MCConfigs
SPECIFICATION Spec
INVARIANTS
  TypeOK
  AddGetAndSizesReturn
  PeekReturnsContent
  TakenBytesZeroed
PROPERTIES
  ImplementsQueue
