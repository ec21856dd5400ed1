\* Two posters with two calls each, in all orders; two modes with an
\* entry; a heap that runs out.
CONSTANTS
  Posters = {p1, p2}
  Registered = {sole, wave}
  NoMode = NoMode
  Unknown = Unknown
  HeapSize = 3
  MaxPosts = 2
SPECIFICATION FairSpec
INVARIANTS
  TypeOK
  PostersCounted
  CountedActionsDropped
  OneOutdatedPerPoster
  ResourcesFollowMode
  HeapAccounted
PROPERTIES
  SwitchEnds
CHECK_DEADLOCK FALSE
