\* A delay is cleared while it holds events.
CONSTANTS
  t = t
  w = w
  c = c
  d = d
  Slabs = {t, w, c, d}
  TypeOf <- MCTypeOf
  Length <- MCLength
  Edges <- MCEdges
  Stimuli <- MCStimuli
  HeapSize = 7
SPECIFICATION Spec
INVARIANTS
  NothingLeaked
CHECK_DEADLOCK FALSE
