SPECIFICATION Spec
CONSTANTS
  NoMode = NoMode
  Views <- MCViews
CHECK_DEADLOCK FALSE
INVARIANTS
  TypeOK
  SlabsFollowMode
  LedsFollowMode
PROPERTIES
  PlaybackUndisturbed
  ShownInTheEnd
