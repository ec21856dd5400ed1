SPECIFICATION Spec
CONSTANTS
  N = 6
  MaxDepth = 4
  MAX_NEST_DEPTH = 5
INVARIANTS
  TypeOK
  TransitionFollowsTree
  PathFits
PROPERTIES
  ImplementsHsmAbs
