\* Words of 3 bits; the buffer is larger than half a word.
CONSTANTS
  Size = 6
  Word = 8
  Base = 5
  Lengths <- MCLengths
  Configs <- MCConfigs
SPECIFICATION Spec
INVARIANTS
  PeekReturnsContent
