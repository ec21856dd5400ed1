\* As HikariLight.cfg: what the comments at the end of a switch say of the
\* fifo.
CONSTANTS
  Posters = {p1, p2}
  Registered = {sole, wave}
  NoMode = NoMode
  Unknown = Unknown
  HeapSize = 3
  MaxPosts = 2
SPECIFICATION Spec
INVARIANTS
  OutdatedActionsDropped
CHECK_DEADLOCK FALSE
