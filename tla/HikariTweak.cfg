\* As HikariLight.cfg: what is said of a mode without tweak functions.
CONSTANTS
  Posters = {p1, p2}
  Registered = {sole, wave}
  NoMode = NoMode
  Unknown = Unknown
  HeapSize = 3
  MaxPosts = 2
SPECIFICATION Spec
INVARIANTS
  TweakIsHarmless
CHECK_DEADLOCK FALSE
