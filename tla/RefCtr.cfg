\* Three clients, all interleavings of their get/cas loops.  Nothing else is
\* bounded: the object is initialised, cleaned up and recycled for ever.
CONSTANTS
  Clients = {c1, c2, c3}
SPECIFICATION FairSpec
INVARIANTS
  TypeOK
  CountsReferences
  RecycledOncePerLife
  StrangersStopAtGet
PROPERTIES
  NoReferenceAfterCleanup
  ImplementsAbs
  LockFree
