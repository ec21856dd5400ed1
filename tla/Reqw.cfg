\* One request, two waiters (with and without timeout), two handlers and one
\* canceller.
CONSTANTS
  Waiters = {w1, w2}
  Handlers = {h1, h2}
  Cancellers = {c1}
SPECIFICATION FairSpec
INVARIANTS
  TypeOK
  NoOops
  NotRecycledWhileUsed
  RecycledWhenOver
PROPERTIES
  OutcomeIsFinal
  WaitersReleased
  EventuallyRecycled
CHECK_DEADLOCK FALSE
