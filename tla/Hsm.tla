--------------------------------- MODULE Hsm ---------------------------------
(***************************************************************************)
(* lib/hsm/hsm.c: a hierarchical state machine.  A state is a handler; its *)
(* parent is known only by calling it with an event it does not handle,    *)
(* which leaves the parent in me->state.  hsm_dispatch has to find out     *)
(* with such calls which states a transition exits and enters, and keeps   *)
(* the states to enter in an array, path, of CONFIG_HSM_MAX_NEST_DEPTH     *)
(* elements.                                                               *)
(*                                                                         *)
(* All charts are looked at together: the tree is chosen in Init, and the  *)
(* handlers' answers are chosen when they are called (who handles an event *)
(* and where its transition goes, where an initial transition goes if      *)
(* there is one, and whether an exit is handled or left to the parent).    *)
(* The handlers keep to what the header asks: an event they do not handle  *)
(* they give to their parent, and an initial transition goes to a state    *)
(* inside.                                                                 *)
(*                                                                         *)
(* A call of HSM_EXIT that is not handled and one that is handled and      *)
(* followed by the empty signal leave the same in me->state.  A step is    *)
(* one turn of a loop, or the calls between two loops.                     *)
(***************************************************************************)
EXTENDS HsmChart, Integers, Sequences, SequencesExt

CONSTANT MAX_NEST_DEPTH \* CONFIG_HSM_MAX_NEST_DEPTH

ASSUME SizesAssumption ==
  /\ N \in Nat \ {0}
  /\ MaxDepth \in 1..N
  /\ MAX_NEST_DEPTH \in Nat \ {0, 1}

VARIABLES
  parent,               \* the chart
  state,                \* me->state
  src, tmp, path, ip,   \* the locals of hsm_dispatch, those of hsm_init
  pc,                   \* place in hsm_init or hsm_dispatch
  high,                 \* history: the largest index written in path
  calls,                \* history: exit and entry handlers called ...
  due,                  \* ... and the set of those to be called, by the chart
  active                \* history: the states entered and not exited

NoPath == [i \in 0..N |-> hsm_top]

hist == <<high, calls, due, active>>
vars == <<parent, state, src, tmp, path, ip, pc, high, calls, due, active>>

(***************************************************************************)
(* The chart.                                                              *)
(***************************************************************************)
Around(s) == AroundIn(parent)[s]
Inside(s) == {t \in States \ {s} : s \in Around(t)}

Exits(set)   == {"exit"} \X set
Entries(set) == {"entry"} \X set

\* The order of the calls of a transition: exits, the inner state first, then
\* entries, the outer state first.  Of two states that one state is in, the
\* inner one has the larger number.
Before(call, other) ==
  \/ call[1] = "exit" /\ (other[1] = "exit" => call[2] > other[2])
  \/ call[1] = "entry" /\ other[1] = "entry" /\ call[2] < other[2]

Kept(source, target) == KeptIn(parent, source, target)

\* What a transition owes, by the chart: leave everything else that it is in,
\* enter everything else down to the target.
Owed(current, source, target) ==
  Exits(Around(current) \ Kept(source, target))
    \cup Entries(Around(target) \ Kept(source, target))

(***************************************************************************)
(* Calls of handlers: what they leave in me->state.                        *)
(***************************************************************************)
\* HSM_TRIG(s, HSM_EMPTY_SIGNAL); hsm_top ignores it.
Empty(s, now) == IF s = hsm_top THEN now ELSE parent[s]

Called(signal, s) ==
  /\ calls' = Append(calls, <<signal, s>>)
  /\ active' = IF signal = "entry" THEN active \cup {s} ELSE active \ {s}

Written(i) == high' = IF i > high THEN i ELSE high

-----------------------------------------------------------------------------
\* Every variable has its type; ip stays in the range of path.
TypeOK ==
  /\ parent \in [States -> Nodes]
  /\ {state, src, tmp} \subseteq Nodes
  /\ path \in [0..N -> Nodes]
  /\ ip \in -1..N
  /\ pc \in {"new", "idle", "out", "search", "match", "climb", "enter",
             "init"}
  /\ high \in 0..N
  /\ calls \in Seq({"exit", "entry"} \X States)
  /\ due \subseteq {"exit", "entry"} \X States
  /\ active \subseteq States

Init ==
  /\ parent \in Charts
  /\ state = hsm_top
  /\ src = hsm_top
  /\ tmp = hsm_top
  /\ path = NoPath
  /\ ip = -1
  /\ pc = "new"
  /\ high = 0
  /\ calls = <<>>
  /\ due = {}
  /\ active = {}

(***************************************************************************)
(* Initial transitions: in hsm_init the topmost one, then those of the     *)
(* states that were entered.                                               *)
(***************************************************************************)
\* A transition to target inside tmp: path[0] = target, and the empty signal.
InitialTransition(target) ==
  /\ path' = [path EXCEPT ![0] = target]
  /\ state' = parent[target]
  /\ ip' = 0
  /\ pc' = "climb"

\* hsm_init: the initial pseudo state's transition must be taken.
hsm_init(target) ==
  /\ pc = "new"
  /\ InitialTransition(target)
  /\ tmp' = hsm_top
  /\ due' = Entries(Around(target))
  /\ UNCHANGED <<parent, src, high, calls, active>>

\* while (me->state != tmp) path[++ip] = me->state, and the empty signal.
Climb ==
  /\ pc = "climb"
  /\ state # tmp
  /\ ip' = ip + 1
  /\ path' = [path EXCEPT ![ip + 1] = state]
  /\ state' = Empty(state, state)
  /\ Written(ip + 1)
  /\ UNCHANGED <<parent, src, tmp, pc, calls, due, active>>

ClimbEnd ==
  /\ pc = "climb"
  /\ state = tmp
  /\ state' = path[0]
  /\ pc' = "enter"
  /\ UNCHANGED <<parent, src, tmp, path, ip, hist>>

\* Mutant: the loop steps by two.
Enter_by_two ==
  /\ pc = "enter"
  /\ ip >= 0
  /\ Called("entry", path[ip])
  /\ ip' = ip - 2
  /\ UNCHANGED <<parent, state, src, tmp, path, pc, high, due>>

\* HSM_ENTER(path[ip]), from the outermost state to the innermost.
Enter ==
  /\ pc = "enter"
  /\ ip >= 0
  /\ Called("entry", path[ip])
  /\ ip' = ip - 1
  /\ UNCHANGED <<parent, state, src, tmp, path, pc, high, due>>

EnterEnd ==
  /\ pc = "enter"
  /\ ip < 0
  /\ tmp' = path[0]
  /\ state' = path[0]
  /\ pc' = "init"
  /\ UNCHANGED <<parent, src, path, ip, hist>>

\* The state entered has an initial transition.
DrillDown(target) ==
  /\ pc = "init"
  /\ target \in Inside(tmp)
  /\ InitialTransition(target)
  /\ due' = due \cup Entries(Around(target) \ Around(tmp))
  /\ UNCHANGED <<parent, src, tmp, high, calls, active>>

\* It has none: hsm_init or hsm_dispatch returns, and its locals are gone.
Settle ==
  /\ pc = "init"
  /\ state' = tmp
  /\ pc' = "idle"
  /\ src' = hsm_top /\ tmp' = hsm_top /\ path' = NoPath /\ ip' = -1
  /\ high' = 0 /\ calls' = <<>> /\ due' = {}
  /\ UNCHANGED <<parent, active>>

(***************************************************************************)
(* hsm_dispatch.                                                           *)
(***************************************************************************)
\* The event climbs from me->state to the state that handles it with a
\* transition, source.  (Handled otherwise or ignored, it changes nothing:
\* me->state is restored from tmp.)
Dispatch(source, target) ==
  /\ pc = "idle"
  /\ source \in Around(state)
  /\ src' = source
  /\ tmp' = state
  /\ state' = target
  /\ path' = [path EXCEPT ![0] = target, ![1] = state]
  /\ Written(1)
  /\ ip' = -1
  /\ pc' = "out"
  /\ due' = Owed(state, source, target)
  /\ UNCHANGED <<parent, calls, active>>

\* Exit the current state and those around it, up to the source.
ExitToSource ==
  /\ pc = "out"
  /\ tmp # src
  /\ Called("exit", tmp)
  /\ tmp' = parent[tmp]
  /\ state' = parent[tmp]
  /\ UNCHANGED <<parent, src, path, ip, pc, high, due>>

\* The source is exited, and what is in path below `upto` is to be entered.
LeaveSource(upto) ==
  /\ Called("exit", src)
  /\ ip' = upto
  /\ pc' = "enter"
  /\ UNCHANGED <<path, high>>

\* Source and target are not more than one level apart, or siblings.
Near ==
  /\ pc = "out"
  /\ tmp = src
  /\ LET target == path[0] IN
     \/ /\ src = target                      \* to itself
        /\ LeaveSource(0) /\ tmp' = target
        /\ state' \in {src, parent[src]}     \* exit handled, or not
     \/ /\ src # target
        /\ src = parent[target]              \* to a state directly inside
        /\ state' = src /\ tmp' = src
        /\ ip' = 0 /\ pc' = "enter"
        /\ UNCHANGED <<path, high, calls, active>>
     \/ /\ src # target
        /\ parent[src] = parent[target]      \* siblings
        /\ LeaveSource(0) /\ tmp' = parent[target]
        /\ state' = parent[src]
     \/ /\ src # parent[target]
        /\ parent[src] = target              \* to the state directly around
        /\ LeaveSource(-1) /\ tmp' = parent[target]
        /\ state' = parent[src]
  /\ UNCHANGED <<parent, src, due>>

\* Mutant: the search begins one element too far.
Far_offset ==
  /\ pc = "out"
  /\ tmp = src
  /\ LET target == path[0] IN
     /\ src \notin {target, parent[target]}
     /\ parent[src] \notin {target, parent[target]}
     /\ ip' = 2
     /\ path' = [path EXCEPT ![1] = parent[target], ![2] = parent[target]]
     /\ tmp' = parent[src]
     /\ state' = Empty(parent[target], parent[src])
     /\ pc' = "search"
  /\ UNCHANGED <<parent, src, hist>>

\* Otherwise look for the source around the target.
Far ==
  /\ pc = "out"
  /\ tmp = src
  /\ LET target == path[0] IN
     /\ src \notin {target, parent[target]}
     /\ parent[src] \notin {target, parent[target]}
     /\ ip' = 1
     /\ path' = [path EXCEPT ![1] = parent[target]]
     /\ tmp' = parent[src]
     /\ state' = Empty(parent[target], parent[src])
     /\ pc' = "search"
  /\ UNCHANGED <<parent, src, hist>>

\* path[ip] gave its parent.
Search ==
  /\ pc = "search"
  /\ path[ip] # hsm_top
  /\ path' = [path EXCEPT ![ip + 1] = state]
  /\ Written(ip + 1)
  /\ IF state = src
     THEN /\ ip' = ip                  \* found: it is not exited, nor entered
          /\ pc' = "enter"
          /\ UNCHANGED state
     ELSE /\ ip' = ip + 1
          /\ state' = Empty(state, state)
          /\ UNCHANGED pc
  /\ UNCHANGED <<parent, src, tmp, calls, due, active>>

\* Mutant: tmp is taken from me->state again after the exit.
SearchEnd_state ==
  /\ pc = "search"
  /\ path[ip] = hsm_top
  /\ Called("exit", src)
  /\ state' \in {state, parent[src]}
  /\ tmp' = state'
  /\ pc' = "match"
  /\ UNCHANGED <<parent, src, path, ip, high, due>>

\* hsm_top has been reached.  The source is exited, tmp is its parent.
SearchEnd ==
  /\ pc = "search"
  /\ path[ip] = hsm_top
  /\ Called("exit", src)
  /\ state' \in {state, parent[src]}         \* exit handled, or not
  /\ pc' = "match"
  /\ UNCHANGED <<parent, src, tmp, path, ip, high, due>>

\* Mutant: the common state itself is entered again.
Match_common ==
  /\ pc = "match"
  /\ \E i \in 0..ip :
       /\ path[i] = tmp
       /\ \A j \in (i + 1)..ip : path[j] # tmp
       /\ tmp # hsm_top
       /\ ip' = i
  /\ pc' = "enter"
  /\ UNCHANGED <<parent, state, src, tmp, path, hist>>

\* tmp is in path: what is below it is to be entered.
Match ==
  /\ pc = "match"
  /\ \E i \in 0..ip :
       /\ path[i] = tmp
       /\ \A j \in (i + 1)..ip : path[j] # tmp
       /\ ip' = i - 1
  /\ pc' = "enter"
  /\ UNCHANGED <<parent, state, src, tmp, path, hist>>

\* It is not: exit it.
ExitUp ==
  /\ pc = "match"
  /\ \A i \in 0..ip : path[i] # tmp
  /\ Called("exit", tmp)
  /\ tmp' = Empty(tmp, state)
  /\ state' = Empty(tmp, state)
  /\ UNCHANGED <<parent, src, path, ip, pc, high, due>>

Next ==
  \/ \E t \in States : hsm_init(t) \/ DrillDown(t)
  \/ \E s, t \in States : Dispatch(s, t)
  \/ Climb \/ ClimbEnd \/ Enter \/ EnterEnd \/ Settle
  \/ ExitToSource \/ Near \/ Far \/ Search \/ SearchEnd \/ Match \/ ExitUp

Spec == Init /\ [][Next]_vars

-----------------------------------------------------------------------------
\* hsm_is_in: me->state, or one of at most MAX_NEST_DEPTH states around it.
hsm_is_in(s) ==
  LET up[l \in 0..MAX_NEST_DEPTH] ==
        IF l = 0 THEN state ELSE Empty(up[l - 1], up[l - 1])
  IN  s = hsm_top \/ \E l \in 0..MAX_NEST_DEPTH : up[l] = s

\* A transition calls the exit handlers of the states it leaves, innermost
\* first, then the entry handlers of those it enters, outermost first: what
\* the tree asks for, found out by calls of handlers (hsm.c:74-200).  No
\* handler is called too early, twice or in vain, and none is missing when
\* the initial transitions are looked for.  Between dispatches hsm_is_in is
\* true of hsm_top and of the states entered and not exited, and of no other.
TransitionFollowsTree ==
  /\ \A i, j \in DOMAIN calls : i < j => Before(calls[i], calls[j])
  /\ Range(calls) \subseteq due
  /\ \A call \in Range(calls), left \in due \ Range(calls) :
       Before(call, left)
  /\ pc = "init" => Range(calls) = due
  /\ pc = "idle" =>
       \A s \in Nodes : hsm_is_in(s) <=> s \in {hsm_top} \cup active

\* No element beyond the end of path is written (hsm.c:55-58, 89-90, 120,
\* 125, 182-185; the assertions on ip come after the writes).  It holds of
\* charts whose depth is less than CONFIG_HSM_MAX_NEST_DEPTH; in those of just
\* this depth hsm_top, which is put in path too, does not fit.
PathFits ==
  high < MAX_NEST_DEPTH

\* What is kept and where it goes, as HsmAbs sees it.
KeepOf == IF pc \in {"out", "search", "match"} THEN Kept(src, path[0])
                                              ELSE active
GoalOf == IF pc \in {"new", "idle"} THEN state ELSE path[0]

Abs == INSTANCE HsmAbs WITH
  chart <- parent, keep <- KeepOf, goal <- GoalOf, busy <- pc # "idle"

\* What the handlers see: each step is the exit of the innermost state, the
\* entry of a state directly inside on the way to the target, the beginning or
\* the end of a transition, or nothing (hsm.c:44-200 implements HsmAbs).  It
\* says nothing of a chart that does not fit path, see PathFits.
ImplementsHsmAbs == Abs!AbsSpec
=============================================================================
