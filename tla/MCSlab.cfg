\* A graph that is built and changed between the calls.
CONSTANTS
  t = t
  w = w
  c = c
  d = d
  Slabs = {t, w, c, d}
  TypeOf <- MCTypeOf
  Length <- MCLength
  Edges <- MCEdges
  Stimuli <- MCStimuli
  HeapSize = 7
SPECIFICATION FairSpec
INVARIANTS
  TypeOK
  RefsAreHolders
  DelayHoldsLast
PROPERTIES
  ResetReachesDelays
  CallsReturn
CHECK_DEADLOCK FALSE
