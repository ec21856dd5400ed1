------------------------------- MODULE HsmAbs -------------------------------
(***************************************************************************)
(* What lib/hsm promises the handlers (hsm.h, and the book it names): the  *)
(* states that were entered and not exited are always a state and those    *)
(* around it.  A transition first exits, one after the other and the inner *)
(* state first, then enters, the outer state first.  How the states to     *)
(* exit and to enter are found is not visible here.                        *)
(***************************************************************************)
EXTENDS HsmChart

VARIABLES
  chart,
  active,               \* the states entered and not exited
  keep,                 \* those of them that are not to be exited
  goal,                 \* where the transition goes, or went
  busy                  \* before the end of hsm_init or hsm_dispatch

absvars == <<chart, active, keep, goal, busy>>

\* What is around the goal has been entered.
Reached == active = AroundIn(chart)[goal]

AbsInit ==
  /\ chart \in Trees
  /\ active = {}
  /\ keep = {}
  /\ goal = hsm_top
  /\ busy = TRUE

\* The innermost state is exited.
Exit(s) ==
  /\ busy
  /\ s \in active \ keep
  /\ \A t \in active : chart[t] # s
  /\ active' = active \ {s}
  /\ UNCHANGED <<chart, keep, goal, busy>>

\* When nothing is left to exit, a state directly inside is entered, on the
\* way to the goal.
EnterInside(s) ==
  /\ busy
  /\ active = keep
  /\ s \in AroundIn(chart)[goal] \ active
  /\ active = AroundIn(chart)[chart[s]]
  /\ active' = active \cup {s}
  /\ keep' = active'
  /\ UNCHANGED <<chart, goal, busy>>

\* The initial transition of the state reached, at first that of the machine.
GoInside(target) ==
  /\ busy
  /\ Reached
  /\ active = keep
  /\ target # goal
  /\ AroundIn(chart)[goal] \subseteq AroundIn(chart)[target]
  /\ goal' = target
  /\ UNCHANGED <<chart, active, keep, busy>>

Return ==
  /\ busy
  /\ Reached
  /\ active = keep
  /\ goal # hsm_top
  /\ busy' = FALSE
  /\ UNCHANGED <<chart, active, keep, goal>>

\* One of the active states takes an event for a transition.
Transition(source, target) ==
  /\ ~busy
  /\ source \in active
  /\ goal' = target
  /\ keep' = KeptIn(chart, source, target)
  /\ busy' = TRUE
  /\ UNCHANGED <<chart, active>>

AbsNext ==
  \/ \E s \in States : Exit(s) \/ EnterInside(s) \/ GoInside(s)
  \/ \E s, t \in States : Transition(s, t)
  \/ Return

AbsSpec == AbsInit /\ [][AbsNext]_absvars
=============================================================================
