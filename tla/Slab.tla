-------------------------------- MODULE Slab --------------------------------
(***************************************************************************)
(* lib/slab: the light graph.  Slabs ("Smart LED Animation Blocks") are    *)
(* connected to a directed graph; an event given to one of them is         *)
(* processed, forwarded, delayed or turned into another event, and so      *)
(* travels down to the LEDs.                                               *)
(*                                                                         *)
(* Events are allocated and counted by hand: slab_stim takes a reference   *)
(* for the slab it stimulates, and whoever does not pass the event on has  *)
(* to release it.  slab_stim_childs stimulates all children and releases.  *)
(* Every call of it is the last thing its caller does, or is followed by   *)
(* another one (slab_waver), so that the recursion is a stack of           *)
(* slab_stim_childs calls: stack, its top first.                           *)
(*                                                                         *)
(* One thread at a time is inside the graph here.  Values (colours, times) *)
(* are left out: what an event is, and who holds it, does not depend on    *)
(* them.                                                                   *)
(***************************************************************************)
EXTENDS Naturals, Sequences, FiniteSets, SequencesExt

CONSTANTS
  Slabs,                \* the slabs an application has
  TypeOf,               \* the type of each, one of Types
  Length,               \* delay_periods of the delays
  Edges,                \* <<parent, child>>: connections it may make
  Stimuli,              \* <<slab, event id>>: events it may send itself
  HeapSize              \* events the heap has room for

Types     == {"LED", "NOTIFIER", "TICKER", "GLOWER", "WAVER", "HSV2RGB",
              "RGB2HSV", "DELAY"}
EventIds  == {"RESET", "TICK", "RGB", "HSV"}
Addresses == 1..HeapSize
Delays    == {s \in Slabs : TypeOf[s] = "DELAY"}
NULL      == 0

ASSUME GraphAssumption ==
  /\ IsFiniteSet(Slabs)
  /\ TypeOf \in [Slabs -> Types]
  /\ Length \in [Delays -> Nat \ {0}]
  /\ Edges \subseteq Slabs \X Slabs
  /\ Stimuli \subseteq Slabs \X EventIds
  /\ HeapSize \in Nat

VARIABLES
  alive,                \* slabs created and not destroyed
  childs,               \* slab->childs
  evts,                 \* the events in the heap: id and num_refs
  queue, idx,           \* of each delay
  stack,                \* calls of slab_stim_childs, the innermost first
  halted,               \* an allocation has failed (__ASSERT)
  heard,                \* history: the last events each delay was given
  dropped,              \* history: references given up without a release
  last                  \* history: the last call into the graph

graph == <<alive, childs>>
hist  == <<heard, dropped, last>>
vars  == <<alive, childs, evts, queue, idx, stack, halted, heard, dropped, last>>

Unused == [id |-> "none", refs |-> 0]
Cells(d) == 0..(Length[d] - 1)

\* Every variable has its type.
TypeOK ==
  /\ alive \subseteq Slabs
  /\ childs \in [Slabs -> Seq(Slabs)]
  /\ evts \in [Addresses -> [id : EventIds, refs : Nat \ {0}] \cup {Unused}]
  /\ \A d \in Delays : queue[d] \in [Cells(d) -> Addresses \cup {NULL}]
  /\ \A d \in Delays : idx[d] \in Cells(d)
  /\ \A i \in 1..Len(stack) :
       /\ stack[i].slab \in alive
       /\ stack[i].evt \in Addresses
       /\ stack[i].rest \in Seq(Slabs)
  /\ halted \in BOOLEAN

Empty(d) == [i \in Cells(d) |-> NULL]

Init ==
  /\ alive = {}
  /\ childs = [s \in Slabs |-> <<>>]
  /\ evts = [a \in Addresses |-> Unused]
  /\ queue = [d \in Delays |-> Empty(d)]
  /\ idx = [d \in Delays |-> 0]
  /\ stack = <<>>
  /\ halted = FALSE
  /\ heard = [d \in Delays |-> <<>>]
  /\ dropped = [a \in Addresses |-> 0]
  /\ last = <<>>

InList(x, seq) == \E i \in 1..Len(seq) : seq[i] = x

(***************************************************************************)
(* slab_event.c: on the events es of the heap.                             *)
(***************************************************************************)
FreeIn(es) == {a \in Addresses : es[a] = Unused}
New(es)    == CHOOSE a \in FreeIn(es) : \A b \in FreeIn(es) : a <= b

\* slab_event_create and, as each caller does next, slab_event_acquire.
Created(es, id)  == [es EXCEPT ![New(es)] = [id |-> id, refs |-> 1]]
Acquired(es, a)  == [es EXCEPT ![a].refs = @ + 1]
Released(es, a)  == IF es[a].refs <= 1 THEN [es EXCEPT ![a] = Unused]
                                       ELSE [es EXCEPT ![a].refs = @ - 1]

\* The events a delay gives up when its queue is cleared or freed.
DroppedBy(d) == [a \in Addresses |->
  dropped[a] + Cardinality({i \in Cells(d) : queue[d][i] = a})]

(***************************************************************************)
(* What slab s does with event a, the heap being es and the calls it has   *)
(* to return to below: the functions slab_<type>_stim.                     *)
(***************************************************************************)
Frame(s, a) == [slab |-> s, evt |-> a, rest |-> childs[s]]

\* slab_stim_childs(s, a).
Forward(s, a, es, below) ==
  /\ evts' = es
  /\ stack' = <<Frame(s, a)>> \o below
  /\ UNCHANGED <<queue, idx, heard, dropped, halted>>

Fail ==
  /\ halted' = TRUE
  /\ UNCHANGED <<evts, queue, idx, stack, heard, dropped>>

\* The ticker does not forward ticks, it makes its own.
Swallow(s, a, es, below) ==
  /\ evts' = Released(es, a)
  /\ stack' = below
  /\ UNCHANGED <<queue, idx, heard, dropped, halted>>

\* glower and waver: a tick makes a new HSV event, then goes on itself.
Generate(s, a, es, below) ==
  IF FreeIn(es) = {} THEN Fail
  ELSE /\ evts' = Created(es, "HSV")
       /\ stack' = <<Frame(s, New(es)), Frame(s, a)>> \o below
       /\ UNCHANGED <<queue, idx, heard, dropped, halted>>

\* Mutant: the event that is replaced is not released.
Convert_kept(s, a, es, below, id) ==
  IF FreeIn(es) = {} THEN Fail
  ELSE /\ evts' = Created(es, id)
       /\ stack' = <<Frame(s, New(es))>> \o below
       /\ UNCHANGED <<queue, idx, heard, dropped, halted>>

\* hsv2rgb and rgb2hsv: the event is replaced.
Convert(s, a, es, below, id) ==
  LET freed == Released(es, a) IN
  IF FreeIn(freed) = {} THEN Fail
  ELSE /\ evts' = Created(freed, id)
       /\ stack' = <<Frame(s, New(freed))>> \o below
       /\ UNCHANGED <<queue, idx, heard, dropped, halted>>

\* Mutant: the index wraps one too late.
Delay_unwrapped(s, a, es, below) ==
  LET out == queue[s][idx[s]] IN
  /\ evts' = es
  /\ queue' = [queue EXCEPT ![s][idx[s]] = a]
  /\ idx' = [idx EXCEPT ![s] = IF @ + 1 > Length[s] THEN 0 ELSE @ + 1]
  /\ stack' = IF out = NULL THEN below ELSE <<Frame(s, out)>> \o below
  /\ UNCHANGED <<heard, dropped, halted>>

\* Mutant: the index is advanced between reading and writing.
Delay_advanced(s, a, es, below) ==
  LET out  == queue[s][idx[s]]
      next == (idx[s] + 1) % Length[s] IN
  /\ evts' = es
  /\ queue' = [queue EXCEPT ![s][next] = a]
  /\ idx' = [idx EXCEPT ![s] = next]
  /\ heard' = [heard EXCEPT ![s] =
       IF Len(@) = Length[s] THEN Append(Tail(@), a) ELSE Append(@, a)]
  /\ stack' = IF out = NULL THEN below ELSE <<Frame(s, out)>> \o below
  /\ UNCHANGED <<dropped, halted>>

\* process_delay: the event changes places with the oldest one.
Delay(s, a, es, below) ==
  LET out == queue[s][idx[s]] IN
  /\ evts' = es
  /\ queue' = [queue EXCEPT ![s][idx[s]] = a]
  /\ idx' = [idx EXCEPT ![s] = IF @ + 1 >= Length[s] THEN 0 ELSE @ + 1]
  /\ heard' = [heard EXCEPT ![s] =
       IF Len(@) = Length[s] THEN Append(Tail(@), a) ELSE Append(@, a)]
  /\ stack' = IF out = NULL THEN below ELSE <<Frame(s, out)>> \o below
  /\ UNCHANGED <<dropped, halted>>

\* Mutant: only the index is reset.
Clear_index(s, a, es, below) ==
  /\ evts' = es
  /\ idx' = [idx EXCEPT ![s] = 0]
  /\ heard' = [heard EXCEPT ![s] = <<>>]
  /\ stack' = <<Frame(s, a)>> \o below
  /\ UNCHANGED <<queue, dropped, halted>>

\* reset_queue, and the reset goes on.
Clear(s, a, es, below) ==
  /\ evts' = es
  /\ queue' = [queue EXCEPT ![s] = Empty(s)]
  /\ idx' = [idx EXCEPT ![s] = 0]
  /\ heard' = [heard EXCEPT ![s] = <<>>]
  /\ dropped' = DroppedBy(s)
  /\ stack' = <<Frame(s, a)>> \o below
  /\ UNCHANGED halted

\* The switches over the slab's type and the event's id.
Process(s, a, es, below) ==
  LET id == es[a].id IN
  CASE TypeOf[s] = "TICKER" /\ id = "TICK" -> Swallow(s, a, es, below)
    [] TypeOf[s] \in {"GLOWER", "WAVER"} /\ id = "TICK" ->
         Generate(s, a, es, below)
    [] TypeOf[s] = "HSV2RGB" /\ id = "HSV" -> Convert(s, a, es, below, "RGB")
    [] TypeOf[s] = "RGB2HSV" /\ id = "RGB" -> Convert(s, a, es, below, "HSV")
    [] TypeOf[s] = "DELAY" /\ id = "RESET" -> Clear(s, a, es, below)
    [] TypeOf[s] = "DELAY" /\ id # "RESET" -> Delay(s, a, es, below)
    [] OTHER -> Forward(s, a, es, below)

(***************************************************************************)
(* Calls by the application, one at a time.                                *)
(***************************************************************************)
Idle == stack = <<>> /\ ~halted

\* With a slab of `set` its children are in it.
Closed(set) ==
  \A p \in set : \A i \in 1..Len(childs[p]) : childs[p][i] \in set

\* The slabs that s reaches, s among them.
Below(s) == {x \in Slabs :
  \A set \in SUBSET Slabs : s \in set /\ Closed(set) => x \in set}

\* No destroyed slab is among them: the application keeps to that.
Whole(s) == Below(s) \subseteq alive

\* A new slab has no children, a new delay an empty queue.  It is not taken
\* for the destroyed slab that a parent may still list.
slab_create(s) ==
  /\ Idle
  /\ s \notin alive
  /\ \A p \in alive : ~InList(s, childs[p])
  /\ alive' = alive \cup {s}
  /\ childs' = [childs EXCEPT ![s] = <<>>]
  /\ queue' = [d \in Delays |-> IF d = s THEN Empty(d) ELSE queue[d]]
  /\ idx' = [d \in Delays |-> IF d = s THEN 0 ELSE idx[d]]
  /\ heard' = [d \in Delays |-> IF d = s THEN <<>> ELSE heard[d]]
  /\ UNCHANGED <<evts, stack, halted, dropped, last>>

\* Frees the list of children and the queue.  The slab stays in the lists of
\* its parents: a mode's destructor destroys these after it.
slab_destroy(s) ==
  /\ Idle
  /\ s \in alive
  /\ alive' = alive \ {s}
  /\ childs' = [childs EXCEPT ![s] = <<>>]
  /\ dropped' = IF s \in Delays THEN DroppedBy(s) ELSE dropped
  /\ queue' = [d \in Delays |-> IF d = s THEN Empty(d) ELSE queue[d]]
  /\ heard' = [d \in Delays |-> IF d = s THEN <<>> ELSE heard[d]]
  /\ UNCHANGED <<evts, idx, stack, halted, last>>

\* A child is listed once.
slab_connect(slab, connect_to) ==
  /\ Idle
  /\ {slab, connect_to} \subseteq alive
  /\ ~InList(slab, childs[connect_to])
  /\ childs' = [childs EXCEPT ![connect_to] = Append(@, slab)]
  /\ UNCHANGED <<alive, evts, queue, idx, stack, halted, hist>>

\* Takes out every entry of the child: it has one.
slab_disconnect(slab, disconnect_from) ==
  /\ Idle
  /\ {slab, disconnect_from} \subseteq alive
  /\ \E i \in 1..Len(childs[disconnect_from]) :
       /\ childs[disconnect_from][i] = slab
       /\ childs' = [childs EXCEPT ![disconnect_from] = RemoveAt(@, i)]
  /\ UNCHANGED <<alive, evts, queue, idx, stack, halted, hist>>

\* slab_stim(s, slab_event_create(id)).
slab_stim(s, id) ==
  /\ Idle
  /\ Whole(s)
  /\ last' = <<s, id>>
  /\ IF FreeIn(evts) = {} THEN Fail
     ELSE Process(s, New(evts), Created(evts, id), <<>>)
  /\ UNCHANGED graph

\* The ticker's work: a tick for its children.
work_tick(s) ==
  /\ Idle
  /\ TypeOf[s] = "TICKER" /\ Whole(s)
  /\ last' = <<s, "TICK">>
  /\ IF FreeIn(evts) = {} THEN Fail
     ELSE Forward(s, New(evts), Created(evts, "TICK"), <<>>)
  /\ UNCHANGED graph

(***************************************************************************)
(* slab_stim_childs goes on: the next child, or the release at the end.    *)
(***************************************************************************)
Running == stack # <<>> /\ ~halted

\* Mutant: the list of children is not advanced.
StimChild_again ==
  /\ Running
  /\ LET top == Head(stack) IN
     /\ top.rest # <<>>
     /\ Process(Head(top.rest), top.evt, Acquired(evts, top.evt), stack)
  /\ UNCHANGED <<graph, last>>

StimChild ==
  /\ Running
  /\ LET top == Head(stack) IN
     /\ top.rest # <<>>
     /\ Process(Head(top.rest), top.evt, Acquired(evts, top.evt),
                <<[top EXCEPT !.rest = Tail(@)]>> \o Tail(stack))
  /\ UNCHANGED <<graph, last>>

StimReturn ==
  /\ Running
  /\ Head(stack).rest = <<>>
  /\ evts' = Released(evts, Head(stack).evt)
  /\ stack' = Tail(stack)
  /\ UNCHANGED <<graph, queue, idx, halted, hist>>

Next ==
  \/ \E s \in Slabs : slab_create(s) \/ slab_destroy(s) \/ work_tick(s)
  \/ \E e \in Edges : slab_connect(e[2], e[1]) \/ slab_disconnect(e[2], e[1])
  \/ \E stimulus \in Stimuli : slab_stim(stimulus[1], stimulus[2])
  \/ StimChild
  \/ StimReturn

Spec == Init /\ [][Next]_vars

\* A thread that is inside the graph runs on.
FairSpec == Spec /\ WF_vars(StimChild \/ StimReturn)

-----------------------------------------------------------------------------
(***************************************************************************)
(* Properties.                                                             *)
(***************************************************************************)
FramesOf(a) == Cardinality({i \in 1..Len(stack) : stack[i].evt = a})
CellsOf(a)  == Cardinality({c \in {<<d, i>> : d \in Delays, i \in UNION {Cells(d) : d \in Delays}} :
                 c[2] \in Cells(c[1]) /\ queue[c[1]][c[2]] = a})

\* num_refs is the number of calls and delay cells that hold the event (and
\* of references a cleared delay gave up): so an event is destroyed when, and
\* only when, nobody holds it, on every path through the graph, and none is
\* used after it was freed.
RefsAreHolders == ~halted =>
  \A a \in Addresses : evts[a].refs = FramesOf(a) + CellsOf(a) + dropped[a]

\* The ring of a delay holds the last events it was given, the oldest where
\* the next one goes: what comes out went in Length events ago.
DelayHoldsLast == \A d \in Delays : \A i \in 1..Length[d] :
  queue[d][(idx[d] + Length[d] - i) % Length[d]] =
    IF i <= Len(heard[d]) THEN heard[d][Len(heard[d]) + 1 - i] ELSE NULL

\* A reset given to a slab reaches every delay below it, along every path,
\* before the call returns.
ResetReachesDelays ==
  [][Running /\ stack' = <<>> /\ last[2] = "RESET" =>
       \A d \in Delays \cap Below(last[1]) : queue'[d] = Empty(d)]_vars

\* "Call this on events that should not be forwarded" (slab_event.h:54-55):
\* when no call is in progress, only delays keep events.
NothingLeaked == Idle => \A a \in Addresses : evts[a].refs = CellsOf(a)

\* A call into the graph returns.
CallsReturn == Running ~> (stack = <<>> \/ halted)
=============================================================================
