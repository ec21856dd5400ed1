-------------------------- MODULE HikariLightProofs --------------------------
(***************************************************************************)
(* For any finite set of posters, any modes, any heap and any number of    *)
(* posts: the type invariant of HikariLight and all its safety invariants. *)
(*                                                                         *)
(* None of them is inductive by itself.  What a switch achieves rests on   *)
(* the order of its steps: Stamps says from which step on there is no      *)
(* action of the old mode left in a hand and in the fifo, OneEach that   *)
(* each poster has at most one left that slipped through the flag,         *)
(* Resources who has the light resources at each step.                     *)
(***************************************************************************)
EXTENDS HikariLight, FiniteSetTheorems, TLAPS

\* The steps of a switch until the wait is over, and until the fifo is empty.
Before == {"destruct", "construct", "wait"}

\* An action is in the hand of its poster until it is in the fifo, and is
\* the current one until it is freed; a switch has a mode to switch to, and
\* nothing is accepted while it lasts.
Places ==
  /\ \A p \in Posters : pc[p] \in {"count", "alloc", "put"} =>
       hand[p] \in Action /\ hand[p].poster = p
  /\ item = Nothing <=> loop = "get"
  /\ loop \in {"destruct", "construct"} => item.mode \in Registered
  /\ accepting <=> ~Switching

Stamps ==
  /\ loop \notin Before =>
       \A p \in Posters : pc[p] \in {"alloc", "put"} => hand[p].counted = epoch
  /\ loop \notin Before \cup {"empty"} =>
       \A i \in 1..Len(fifo) : fifo[i].counted = epoch

Resources ==
  /\ halt \notin {"already_used", "not_found"}
  /\ loop \notin {"construct", "wait", "empty", "reopen"} =>
       (resources = "used" <=> api # NoMode)
  /\ loop = "construct" /\ halt = "no" => resources # "used"
  /\ loop \in {"wait", "empty", "reopen"} /\ halt = "no" =>
       resources = "used" /\ api # NoMode

\* Positions of the fifo, and posters, with an action whose poster read the
\* flag before the switch.
OldIn(queue) == {i \in 1..Len(queue) : queue[i].checked < epoch}
OldHands     == {p \in Posters : /\ pc[p] \in {"count", "alloc", "put"}
                                 /\ hand[p].checked < epoch}

\* A poster has at most one of them, in the fifo or still in its hand.
OneEach ==
  loop \notin Before \cup {"empty"} =>
    /\ \A i, j \in OldIn(fifo) : fifo[i].poster = fifo[j].poster => i = j
    /\ \A p \in OldHands, i \in OldIn(fifo) : fifo[i].poster # p

IInv == /\ TypeOK /\ Places
        /\ PostersCounted /\ HeapAccounted
        /\ Stamps /\ Resources /\ OneEach

-----------------------------------------------------------------------------
(***************************************************************************)
(* Facts used in several places.                                           *)
(***************************************************************************)
\* A set of posters can be counted, and one poster more or less is one more
\* or less.
LEMMA PosterCount ==
  ASSUME NEW S \in SUBSET Posters, NEW p \in Posters
  PROVE  /\ IsFiniteSet(S)
         /\ Cardinality(S) \in Nat
         /\ Cardinality(Posters) \in Nat
         /\ Cardinality(S) <= Cardinality(Posters)
         /\ p \notin S => Cardinality(S \cup {p}) = Cardinality(S) + 1
         /\ p \in S => /\ Cardinality(S \ {p}) = Cardinality(S) - 1
                       /\ Cardinality(S) > 0
<1>1. IsFiniteSet(S) /\ IsFiniteSet(Posters)
  BY FS_Subset, ModesAssumption
<1>2. Cardinality(S) \in Nat /\ Cardinality(Posters) \in Nat
  BY <1>1, FS_CardinalityType
<1>3. Cardinality(S) <= Cardinality(Posters)
  BY <1>1, FS_Subset
<1>4. p \notin S => Cardinality(S \cup {p}) = Cardinality(S) + 1
  BY <1>1, FS_AddElement
<1>5. p \in S => Cardinality(S \ {p}) = Cardinality(S) - 1
  BY <1>1, FS_RemoveElement
<1>6. p \in S => Cardinality(S) > 0
  BY <1>1, <1>2, FS_EmptySet
<1> QED BY <1>1, <1>2, <1>3, <1>4, <1>5, <1>6

\* What the hikari_light thread leaves alone.
LEMMA LoopFrame ==
  ASSUME LoopStep
  PROVE  UNCHANGED <<posting, pc, hand, posts>>
BY DEF LoopStep, LoopGet, ProcessTweak, KeepMode, BeginSwitch, Destruct,
       Construct, WaitForPosters, EmptyFifo, EndSwitch, FreeItem, ble

\* What a poster leaves alone.
LEMMA PosterFrame ==
  ASSUME NEW p \in Posters, PostCheck(p) \/ PosterStep(p)
  PROVE  UNCHANGED <<accepting, mode, api, loop, item, resources, epoch, lost>>
BY DEF PostCheck, PosterStep, PostCount, PostAlloc, PostPut, PostUncount, light

\* What main leaves alone.
LEMMA MainFrame ==
  ASSUME light_resource_init
  PROVE  UNCHANGED <<fifo, accepting, posting, mode, api, heap, pc, hand, loop,
                     item, halt, posts, epoch, lost>>
BY DEF light_resource_init, light, ble

\* The stamps of an action are there, and counting leaves its poster.
LEMMA ActionFields ==
  ASSUME NEW a \in Action
  PROVE  /\ a # Nothing
         /\ a.mode \in Modes /\ a.checked \in Nat /\ a.counted \in Nat
         /\ \A n \in Nat : /\ [a EXCEPT !.counted = n] \in Action
                           /\ [a EXCEPT !.counted = n].poster = a.poster
BY DEF Action, Nothing

-----------------------------------------------------------------------------
(***************************************************************************)
(* The initial states.                                                     *)
(***************************************************************************)
LEMMA InitEstablishes == Init => IInv
<1> SUFFICES ASSUME Init PROVE IInv
  OBVIOUS
<1>1. TypeOK
  BY ModesAssumption DEF Init, TypeOK, Nothing
<1>2. Places
  BY DEF Init, Places, Switching
<1>3. Cardinality({p \in Posters : Counted(p)}) = 0
  <2>1. {p \in Posters : Counted(p)} = {}
    BY DEF Init, Counted
  <2> QED BY <2>1, FS_EmptySet
<1>4. PostersCounted
  BY <1>3 DEF Init, PostersCounted
<1>5. HeapAccounted
  <2>1. {p \in Posters : pc[p] = "put"} = {}
    BY DEF Init
  <2>2. Cardinality({p \in Posters : pc[p] = "put"}) = 0
    BY <2>1, FS_EmptySet
  <2>3. heap = HeapSize /\ Len(fifo) = 0 /\ lost = 0 /\ item = Nothing
    BY DEF Init
  <2> QED BY <2>2, <2>3, ModesAssumption DEF HeapAccounted
<1>6. Stamps
  BY DEF Init, Stamps
<1>7. Resources
  BY DEF Init, Resources
<1>8. OneEach
  <2>1. OldIn(fifo) = {}
    BY DEF Init, OldIn
  <2> QED BY <2>1 DEF OneEach
<1> QED BY <1>1, <1>2, <1>4, <1>5, <1>6, <1>7, <1>8 DEF IInv

-----------------------------------------------------------------------------
(***************************************************************************)
(* Each part of the invariant is kept by every step.                       *)
(***************************************************************************)
LEMMA TypeStep == IInv /\ Next => TypeOK'
<1> SUFFICES ASSUME IInv, Next PROVE TypeOK'
  OBVIOUS
<1> USE DEF IInv, TypeOK
<1>1. ASSUME NEW p \in Posters, PostCheck(p)
      PROVE  TypeOK'
  <2>1. PICK type \in {"mode_set", "tweak"}, m \in Modes :
          /\ posts[p] < MaxPosts
          /\ posts' = [posts EXCEPT ![p] = @ + 1]
          /\ IF accepting
             THEN /\ pc' = [pc EXCEPT ![p] = "count"]
                  /\ hand' = [hand EXCEPT ![p] =
                       [type |-> type, mode |-> m, poster |-> p,
                        checked |-> epoch, counted |-> 0]]
             ELSE pc' = [pc EXCEPT ![p] = "idle"] /\ UNCHANGED hand
    BY <1>1 DEF PostCheck, At
  <2>2. [type |-> type, mode |-> m, poster |-> p, checked |-> epoch,
         counted |-> 0] \in Action
    BY DEF Action
  <2>3. pc' \in [Posters -> {"idle", "count", "alloc", "put", "uncount"}]
    BY <2>1
  <2>4. hand' \in [Posters -> Action \cup {Nothing}]
    BY <2>1, <2>2
  <2>5. posts' \in [Posters -> 0..MaxPosts]
    BY <2>1, ModesAssumption
  <2> QED BY <1>1, <2>3, <2>4, <2>5, PosterFrame DEF PostCheck
<1>2. ASSUME NEW p \in Posters, PostCount(p)
      PROVE  TypeOK'
  <2>1. hand[p] \in Action
    BY <1>2 DEF PostCount, At, Places
  <2>2. [hand[p] EXCEPT !.counted = epoch] \in Action
    BY <2>1, ActionFields
  <2>3. hand' \in [Posters -> Action \cup {Nothing}]
    BY <1>2, <2>2 DEF PostCount
  <2> QED BY <1>2, <2>3 DEF PostCount, At, light
<1>3. ASSUME NEW p \in Posters, PostAlloc(p)
      PROVE  TypeOK'
  <2>1. /\ heap' \in 0..HeapSize /\ posting' \in Nat
        /\ halt' \in {halt, "no_memory"}
    BY <1>3, ModesAssumption DEF PostAlloc, Halt
  <2>2. pc' \in [Posters -> {"idle", "count", "alloc", "put", "uncount"}]
    BY <1>3 DEF PostAlloc, At
  <2> QED BY <1>3, <2>1, <2>2 DEF PostAlloc, light
<1>4. ASSUME NEW p \in Posters, PostPut(p)
      PROVE  TypeOK'
  <2>1. hand[p] \in Action
    BY <1>4 DEF PostPut, At, Places
  <2> QED BY <1>4, <2>1 DEF PostPut, At, light
<1>5. ASSUME NEW p \in Posters, PostUncount(p)
      PROVE  TypeOK'
  BY <1>5 DEF PostUncount, At, light
<1>6. CASE LoopGet
  <2>1. Head(fifo) \in Action /\ Tail(fifo) \in Seq(Action)
    BY <1>6 DEF LoopGet
  <2> QED BY <1>6, <2>1 DEF LoopGet, LoopAt, ble
<1>7. CASE ProcessTweak \/ KeepMode \/ BeginSwitch
  <2>1. CASE ProcessTweak
    <3>1. halt' \in {halt, "null_api"}
      BY <2>1 DEF ProcessTweak, Halt
    <3> QED BY <2>1, <3>1 DEF ProcessTweak, LoopAt, ble
  <2>2. CASE KeepMode
    BY <2>2 DEF KeepMode, LoopAt, ble
  <2>3. CASE BeginSwitch
    <3>0. accepting' \in BOOLEAN
      BY <2>3, Zenon DEF BeginSwitch
    <3>1. epoch' \in Nat /\ loop' = "destruct"
      BY <2>3 DEF BeginSwitch, LoopAt
    <3>2. UNCHANGED <<fifo, posting, mode, api, item, heap, resources, pc, hand,
                      posts, halt, lost>>
      BY <2>3 DEF BeginSwitch, ble
    <3> QED BY <3>0, <3>1, <3>2
  <2> QED BY <1>7, <2>1, <2>2, <2>3
<1>8. CASE Destruct
  BY <1>8 DEF Destruct, ReturnResult, LoopAt, Halt, ble
<1>9. CASE Construct
  <2>1. item.mode \in Registered
    BY <1>9 DEF Construct, LoopAt, Places
  <2>2. halt' \in {halt, "not_registered", "already_used"}
    BY <1>9 DEF Construct, UseResult, Halt
  <2>3. /\ resources' \in {resources, "used"}
        /\ mode' \in {mode, item.mode}
        /\ api' \in {api, item.mode}
    BY <1>9 DEF Construct
  <2> QED BY <1>9, <2>1, <2>2, <2>3 DEF Construct, LoopAt, ble
<1>10. CASE WaitForPosters \/ EndSwitch
  BY <1>10 DEF WaitForPosters, EndSwitch, LoopAt, ble
<1>11. CASE EmptyFifo
  <2>1. /\ fifo # <<>> => Tail(fifo) \in Seq(Action)
        /\ lost + 1 \in Nat
    OBVIOUS
  <2>2. /\ fifo' \in Seq(Action) /\ lost' \in Nat
        /\ loop' \in {"empty", "reopen"}
    BY <1>11, <2>1 DEF EmptyFifo, LoopAt
  <2> QED BY <1>11, <2>2 DEF EmptyFifo, ble
<1>12. CASE FreeItem
  <2>1. item # Nothing
    BY <1>12 DEF FreeItem, LoopAt, Places
  <2>2. {p \in Posters : pc[p] = "put"} \in SUBSET Posters
    OBVIOUS
  <2>3. Cardinality({p \in Posters : pc[p] = "put"}) \in Nat
    BY <2>2, FS_Subset, FS_CardinalityType, ModesAssumption
  <2>4. heap + 1 \in 0..HeapSize
    BY <2>1, <2>3, ModesAssumption DEF HeapAccounted
  <2> QED BY <1>12, <2>4 DEF FreeItem, LoopAt, ble
<1>13. CASE light_resource_init
  BY <1>13, MainFrame DEF light_resource_init
<1> QED BY <1>1, <1>2, <1>3, <1>4, <1>5, <1>6, <1>7, <1>8, <1>9, <1>10, <1>11,
           <1>12, <1>13 DEF Next, PosterStep, LoopStep

LEMMA PlacesStep == IInv /\ Next => Places'
<1> SUFFICES ASSUME IInv, Next PROVE Places'
  OBVIOUS
<1> USE DEF IInv, TypeOK
<1>1. ASSUME NEW p \in Posters, PostCheck(p) \/ PosterStep(p)
      PROVE  Places'
  <2>1. UNCHANGED <<accepting, loop, item>>
    BY <1>1, PosterFrame
  <2>2. ASSUME PostCheck(p), NEW q \in Posters,
               pc'[q] \in {"count", "alloc", "put"}
        PROVE  hand'[q] \in Action /\ hand'[q].poster = q
    <3>1. PICK type \in {"mode_set", "tweak"}, m \in Modes :
            IF accepting
            THEN hand' = [hand EXCEPT ![p] =
                   [type |-> type, mode |-> m, poster |-> p,
                    checked |-> epoch, counted |-> 0]]
            ELSE pc' = [pc EXCEPT ![p] = "idle"] /\ UNCHANGED hand
      BY <2>2 DEF PostCheck, At
    <3>2. [type |-> type, mode |-> m, poster |-> p, checked |-> epoch,
           counted |-> 0] \in Action
      BY DEF Action
    <3>3. \A r \in Posters \ {p} : pc'[r] = pc[r]
      BY <2>2 DEF PostCheck, At
    <3> QED BY <2>2, <3>1, <3>2, <3>3 DEF Places
  <2>3. ASSUME PostCount(p), NEW q \in Posters,
               pc'[q] \in {"count", "alloc", "put"}
        PROVE  hand'[q] \in Action /\ hand'[q].poster = q
    <3>1. hand[p] \in Action /\ hand[p].poster = p
      BY <2>3 DEF PostCount, At, Places
    <3>2. /\ [hand[p] EXCEPT !.counted = epoch] \in Action
          /\ [hand[p] EXCEPT !.counted = epoch].poster = p
      BY <3>1, ActionFields
    <3> QED BY <2>3, <3>2 DEF PostCount, At, Places
  <2>4. ASSUME PostAlloc(p) \/ PostPut(p) \/ PostUncount(p), NEW q \in Posters,
               pc'[q] \in {"count", "alloc", "put"}
        PROVE  hand'[q] \in Action /\ hand'[q].poster = q
    BY <2>4 DEF PostAlloc, PostPut, PostUncount, At, Places
  <2> QED BY <1>1, <2>1, <2>2, <2>3, <2>4 DEF Places, Switching, PosterStep
<1>2. CASE LoopStep
  <2>1. \A p \in Posters : pc'[p] \in {"count", "alloc", "put"}
                             => hand'[p] \in Action /\ hand'[p].poster = p
    BY <1>2, LoopFrame DEF Places
  <2>2. CASE LoopGet
    <3>1. Head(fifo) \in Action
      BY <2>2 DEF LoopGet
    <3>2. item' # Nothing
      BY <2>2, <3>1, ActionFields DEF LoopGet
    <3> QED BY <2>1, <2>2, <3>2 DEF LoopGet, LoopAt, Places, Switching
  <2>3. CASE ProcessTweak \/ KeepMode \/ Destruct \/ Construct \/ WaitForPosters
             \/ EmptyFifo
    BY <2>1, <2>3 DEF ProcessTweak, KeepMode, Destruct, Construct,
                      WaitForPosters, EmptyFifo, LoopAt, Places, Switching
  <2>4. CASE BeginSwitch \/ EndSwitch
    BY <2>1, <2>4 DEF BeginSwitch, EndSwitch, LoopAt, Places, Switching
  <2>5. CASE FreeItem
    BY <2>1, <2>5 DEF FreeItem, LoopAt, Places, Switching
  <2> QED BY <1>2, <2>2, <2>3, <2>4, <2>5 DEF LoopStep
<1>3. CASE light_resource_init
  BY <1>3, MainFrame DEF Places, Switching
<1> QED BY <1>1, <1>2, <1>3 DEF Next

LEMMA CountStep == IInv /\ Next => PostersCounted'
<1> DEFINE C == {q \in Posters : Counted(q)}
<1> SUFFICES ASSUME IInv, Next, halt' = "no"
             PROVE  posting' = Cardinality(C')
  BY DEF PostersCounted
<1> USE DEF IInv, TypeOK
<1>0. halt = "no" /\ posting = Cardinality(C)
  BY DEF Next, PostersCounted
<1>1. ASSUME NEW p \in Posters, PostCheck(p) \/ PostPut(p)
      PROVE  posting' = Cardinality(C')
  <2>1. C' = C
    BY <1>1 DEF PostCheck, PostPut, At, Counted
  <2> QED BY <1>0, <1>1, <2>1 DEF PostCheck, PostPut
<1>2. ASSUME NEW p \in Posters, PostAlloc(p)
      PROVE  posting' = Cardinality(C')
  <2>1. heap > 0
    BY <1>2 DEF PostAlloc, Halt
  <2>2. C' = C
    BY <1>2, <2>1 DEF PostAlloc, At, Counted
  <2> QED BY <1>0, <1>2, <2>1, <2>2 DEF PostAlloc
<1>3. ASSUME NEW p \in Posters, PostCount(p)
      PROVE  posting' = Cardinality(C')
  <2>1. p \notin C /\ C' = C \cup {p}
    BY <1>3 DEF PostCount, At, Counted
  <2>2. Cardinality(C') = Cardinality(C) + 1
    BY <2>1, PosterCount
  <2> QED BY <1>0, <1>3, <2>2 DEF PostCount
<1>4. ASSUME NEW p \in Posters, PostUncount(p)
      PROVE  posting' = Cardinality(C')
  <2>1. p \in C /\ C' = C \ {p}
    BY <1>4 DEF PostUncount, At, Counted
  <2>2. Cardinality(C') = Cardinality(C) - 1 /\ Cardinality(C) > 0
    BY <2>1, PosterCount
  <2> QED BY <1>0, <1>4, <2>2 DEF PostUncount
<1>5. CASE LoopStep \/ light_resource_init
  <2>1. UNCHANGED <<posting, pc>>
    BY <1>5, LoopFrame, MainFrame
  <2>2. C' = C
    BY <2>1 DEF Counted
  <2> QED BY <1>0, <2>1, <2>2
<1> QED BY <1>1, <1>2, <1>3, <1>4, <1>5 DEF Next, PosterStep

LEMMA HeapStep == IInv /\ Next => HeapAccounted'
<1> DEFINE P    == {q \in Posters : pc[q] = "put"}
           Held == IF item = Nothing THEN 0 ELSE 1
<1> SUFFICES ASSUME IInv, Next
             PROVE  HeapSize = heap' + Len(fifo') + lost' + Cardinality(P') + Held'
  BY DEF HeapAccounted
<1> USE DEF IInv, TypeOK
<1>0. HeapSize = heap + Len(fifo) + lost + Cardinality(P) + Held
  BY DEF HeapAccounted
<1>1. /\ heap \in Nat /\ Len(fifo) \in Nat /\ lost \in Nat /\ Held \in Nat
      /\ Cardinality(P) \in Nat
  <2>1. IsFiniteSet(P)
    BY FS_Subset, ModesAssumption
  <2>2. Cardinality(P) \in Nat
    BY <2>1, FS_CardinalityType
  <2> QED BY <2>2, ModesAssumption
<1> HIDE DEF P, Held
<1>2. ASSUME UNCHANGED <<heap, fifo, lost>>, P' = P, Held' = Held
      PROVE  HeapSize = heap' + Len(fifo') + lost' + Cardinality(P') + Held'
  BY <1>0, <1>2
<1>3. ASSUME NEW p \in Posters, PostCheck(p) \/ PostCount(p) \/ PostUncount(p)
      PROVE  HeapSize = heap' + Len(fifo') + lost' + Cardinality(P') + Held'
  <2>1. P' = P
    BY <1>3 DEF PostCheck, PostCount, PostUncount, At, P
  <2>2. UNCHANGED <<heap, fifo, lost, item>>
    BY <1>3 DEF PostCheck, PostCount, PostUncount, light
  <2> QED BY <1>2, <2>1, <2>2 DEF Held
<1>4. ASSUME NEW p \in Posters, PostAlloc(p)
      PROVE  HeapSize = heap' + Len(fifo') + lost' + Cardinality(P') + Held'
  <2>0. UNCHANGED <<fifo, lost, Held>>
    BY <1>4 DEF PostAlloc, light, Held
  <2>1. CASE heap > 0
    <3>1. p \notin P /\ P' = P \cup {p}
      BY <1>4, <2>1 DEF PostAlloc, At, P
    <3>2. Cardinality(P') = Cardinality(P) + 1
      <4>1. P \in SUBSET Posters
        BY DEF P
      <4> QED BY <3>1, <4>1, PosterCount
    <3>3. heap' = heap - 1
      BY <1>4, <2>1 DEF PostAlloc
    <3> QED BY <1>0, <1>1, <2>0, <3>2, <3>3
  <2>2. CASE ~(heap > 0)
    <3>1. P' = P /\ heap' = heap
      BY <1>4, <2>2 DEF PostAlloc, At, P
    <3> QED BY <1>2, <2>0, <3>1
  <2> QED BY <2>1, <2>2
<1>5. ASSUME NEW p \in Posters, PostPut(p)
      PROVE  HeapSize = heap' + Len(fifo') + lost' + Cardinality(P') + Held'
  <2>1. p \in P /\ P' = P \ {p}
    BY <1>5 DEF PostPut, At, P
  <2>2. Cardinality(P') = Cardinality(P) - 1
    <3>1. P \in SUBSET Posters
      BY DEF P
    <3> QED BY <2>1, <3>1, PosterCount
  <2>3. hand[p] \in Action
    BY <1>5 DEF PostPut, At, Places
  <2>4. Len(fifo') = Len(fifo) + 1
    BY <1>5, <2>3 DEF PostPut
  <2>5. UNCHANGED <<heap, lost, Held>>
    BY <1>5 DEF PostPut, light, Held
  <2> QED BY <1>0, <1>1, <2>2, <2>4, <2>5
<1>6. CASE LoopGet
  <2>1. P' = P
    BY <1>6 DEF LoopGet, ble, P
  <2>2. item = Nothing /\ Head(fifo) \in Action
    BY <1>6 DEF LoopGet, LoopAt, Places
  <2>3. Held = 0 /\ Held' = 1
    BY <1>6, <2>2, ActionFields DEF LoopGet, Held
  <2>4. Len(fifo') = Len(fifo) - 1
    BY <1>6 DEF LoopGet
  <2>5. UNCHANGED <<heap, lost>>
    BY <1>6 DEF LoopGet
  <2> QED BY <1>0, <1>1, <2>1, <2>3, <2>4, <2>5
<1>7. CASE EmptyFifo
  <2>0. UNCHANGED <<heap, P, Held>>
    BY <1>7 DEF EmptyFifo, ble, P, Held
  <2>1. CASE fifo # <<>>
    <3>1. Len(fifo') = Len(fifo) - 1 /\ lost' = lost + 1
      BY <1>7, <2>1 DEF EmptyFifo
    <3> QED BY <1>0, <1>1, <2>0, <3>1
  <2>2. CASE fifo = <<>>
    <3>1. UNCHANGED <<fifo, lost>>
      BY <1>7, <2>2 DEF EmptyFifo
    <3> QED BY <1>2, <2>0, <3>1
  <2> QED BY <2>1, <2>2
<1>8. CASE FreeItem
  <2>1. Held = 1 /\ Held' = 0
    BY <1>8 DEF FreeItem, LoopAt, Places, Held
  <2>2. UNCHANGED <<fifo, lost, P>> /\ heap' = heap + 1
    BY <1>8 DEF FreeItem, ble, P
  <2> QED BY <1>0, <1>1, <2>1, <2>2
<1>9. CASE ProcessTweak \/ KeepMode \/ BeginSwitch \/ Destruct \/ Construct
           \/ WaitForPosters \/ EndSwitch
  <2>1. UNCHANGED <<heap, fifo, lost, item, pc>>
    BY <1>9 DEF ProcessTweak, KeepMode, BeginSwitch, Destruct, Construct,
                WaitForPosters, EndSwitch, ble
  <2> QED BY <1>2, <2>1 DEF P, Held
<1>10. CASE light_resource_init
  BY <1>2, <1>10, MainFrame DEF P, Held
<1> QED BY <1>3, <1>4, <1>5, <1>6, <1>7, <1>8, <1>9, <1>10
        DEF Next, PosterStep, LoopStep

LEMMA StampsStep == IInv /\ Next => Stamps'
<1> SUFFICES ASSUME IInv, Next PROVE Stamps'
  OBVIOUS
<1> USE DEF IInv, TypeOK
<1>1. ASSUME NEW p \in Posters, PostCheck(p)
      PROVE  Stamps'
  <2>1. UNCHANGED <<fifo, loop, epoch>>
    BY <1>1, PosterFrame DEF PostCheck
  <2>2. ASSUME NEW q \in Posters, pc'[q] \in {"alloc", "put"}
        PROVE  pc[q] = pc'[q] /\ hand'[q] = hand[q]
    BY <1>1, <2>2 DEF PostCheck, At
  <2> QED BY <2>1, <2>2 DEF Stamps
<1>2. ASSUME NEW p \in Posters, PostCount(p)
      PROVE  Stamps'
  <2>1. UNCHANGED <<fifo, loop, epoch>>
    BY <1>2, PosterFrame DEF PostCount, PosterStep
  <2>2. hand[p] \in Action
    BY <1>2 DEF PostCount, At, Places
  <2>3. hand' = [hand EXCEPT ![p] = [hand[p] EXCEPT !.counted = epoch]]
    BY <1>2 DEF PostCount
  <2>4. hand'[p].counted = epoch
    BY <2>2, <2>3 DEF Action
  <2>5. ASSUME NEW q \in Posters \ {p}
        PROVE  pc'[q] = pc[q] /\ hand'[q] = hand[q]
    BY <1>2, <2>3 DEF PostCount, At
  <2> QED BY <2>1, <2>4, <2>5 DEF Stamps
<1>3. ASSUME NEW p \in Posters, PostAlloc(p) \/ PostUncount(p)
      PROVE  Stamps'
  <2>1. UNCHANGED <<fifo, loop, epoch, hand>>
    BY <1>3, PosterFrame DEF PostAlloc, PostUncount, PosterStep
  <2>2. ASSUME NEW q \in Posters, pc'[q] \in {"alloc", "put"}
        PROVE  pc[q] \in {"alloc", "put"}
    BY <1>3, <2>2 DEF PostAlloc, PostUncount, At
  <2> QED BY <2>1, <2>2 DEF Stamps
<1>4. ASSUME NEW p \in Posters, PostPut(p)
      PROVE  Stamps'
  <2>1. UNCHANGED <<loop, epoch>> /\ fifo' = Append(fifo, hand[p])
    BY <1>4, PosterFrame DEF PostPut, PosterStep
  <2>2. hand[p] \in Action /\ pc[p] = "put"
    BY <1>4 DEF PostPut, At, Places
  <2>3. /\ Len(fifo') = Len(fifo) + 1
        /\ \A i \in 1..Len(fifo') :
             fifo'[i] = IF i <= Len(fifo) THEN fifo[i] ELSE hand[p]
    BY <2>1, <2>2
  <2>4. ASSUME NEW q \in Posters, pc'[q] \in {"alloc", "put"}
        PROVE  pc[q] = pc'[q] /\ hand'[q] = hand[q]
    BY <1>4, <2>4 DEF PostPut, At
  <2>5. ASSUME loop' \notin Before, NEW q \in Posters, pc'[q] \in {"alloc", "put"}
        PROVE  hand'[q].counted = epoch'
    BY <2>1, <2>4, <2>5 DEF Stamps
  <2>6. ASSUME loop' \notin Before \cup {"empty"}, NEW i \in 1..Len(fifo')
        PROVE  fifo'[i].counted = epoch'
    <3>1. hand[p].counted = epoch
      BY <2>1, <2>2, <2>6 DEF Stamps
    <3>2. CASE i <= Len(fifo)
      BY <2>1, <2>3, <2>6, <3>2 DEF Stamps
    <3>3. CASE ~(i <= Len(fifo))
      BY <2>1, <2>3, <2>6, <3>1, <3>3
    <3> QED BY <3>2, <3>3
  <2> QED BY <2>5, <2>6 DEF Stamps
<1>5. CASE LoopStep
  <2>1. UNCHANGED <<pc, hand>>
    BY <1>5, LoopFrame
  <2>2. CASE LoopGet
    <3>1. /\ fifo # <<>> /\ fifo' = Tail(fifo) /\ epoch' = epoch
          /\ loop = "get" /\ loop' = "process"
      BY <2>2 DEF LoopGet, LoopAt
    <3>2. \A i \in 1..Len(fifo') : i + 1 \in 1..Len(fifo) /\ fifo'[i] = fifo[i + 1]
      BY <3>1
    <3> QED BY <2>1, <3>1, <3>2 DEF Stamps, Before
  <2>3. CASE BeginSwitch
    BY <2>1, <2>3 DEF BeginSwitch, LoopAt, Stamps, Before
  <2>4. CASE WaitForPosters
    <3>1. /\ posting = 0 /\ halt = "no"
          /\ UNCHANGED <<fifo, epoch>> /\ loop' = "empty"
      BY <2>4 DEF WaitForPosters, LoopAt, Next
    <3>2. \A p \in Posters : ~Counted(p)
      <4> DEFINE C == {p \in Posters : Counted(p)}
      <4>1. Cardinality(C) = 0 /\ IsFiniteSet(C)
        BY <3>1, FS_Subset, ModesAssumption DEF PostersCounted
      <4>2. C = {}
        BY <4>1, FS_EmptySet
      <4> QED BY <4>2
    <3> QED BY <2>1, <3>1, <3>2 DEF Stamps, Before, Counted
  <2>5. CASE EmptyFifo
    <3>1. epoch' = epoch /\ loop = "empty" /\ loop' \in {"empty", "reopen"}
      BY <2>5 DEF EmptyFifo, LoopAt
    <3>2. loop' = "reopen" => fifo' = <<>>
      BY <2>5 DEF EmptyFifo, LoopAt
    <3> QED BY <2>1, <3>1, <3>2 DEF Stamps, Before
  <2>6. CASE ProcessTweak \/ KeepMode \/ EndSwitch \/ FreeItem
    BY <2>1, <2>6 DEF ProcessTweak, KeepMode, EndSwitch, FreeItem, LoopAt,
                      Stamps, Before
  <2>7. CASE Destruct \/ Construct
    BY <2>1, <2>7 DEF Destruct, Construct, LoopAt, Stamps, Before
  <2> QED BY <1>5, <2>2, <2>3, <2>4, <2>5, <2>6, <2>7 DEF LoopStep
<1>6. CASE light_resource_init
  BY <1>6, MainFrame DEF Stamps
<1> QED BY <1>1, <1>2, <1>3, <1>4, <1>5, <1>6 DEF Next, PosterStep

LEMMA ResourcesStep == IInv /\ Next => Resources'
<1> SUFFICES ASSUME IInv, Next PROVE Resources'
  OBVIOUS
<1> USE DEF IInv, TypeOK
<1>0. halt = "no"
  BY DEF Next
<1>1. ASSUME NEW p \in Posters, PostCheck(p) \/ PosterStep(p)
      PROVE  Resources'
  <2>1. UNCHANGED <<loop, resources, api>>
    BY <1>1, PosterFrame
  <2>2. halt' \in {"no", "no_memory"}
    BY <1>0, <1>1 DEF PostCheck, PosterStep, PostCount, PostAlloc, PostPut,
                      PostUncount, Halt
  <2> QED BY <1>0, <2>1, <2>2 DEF Resources
<1>2. CASE LoopGet \/ KeepMode \/ BeginSwitch \/ WaitForPosters \/ EmptyFifo
           \/ EndSwitch \/ FreeItem
  <2>1. UNCHANGED <<resources, api, halt>>
    BY <1>2 DEF LoopGet, KeepMode, BeginSwitch, WaitForPosters, EmptyFifo,
                EndSwitch, FreeItem
  <2>2. \/ loop' \in {"process", "free", "destruct", "get"}
             /\ loop \in {"get", "process", "free"}
        \/ loop' \in {"empty", "reopen"} /\ loop \in {"wait", "empty"}
        \/ loop' = "free" /\ loop = "reopen"
    BY <1>2 DEF LoopGet, KeepMode, BeginSwitch, WaitForPosters, EmptyFifo,
                EndSwitch, FreeItem, LoopAt
  <2> QED BY <1>0, <2>1, <2>2 DEF Resources
<1>3. CASE ProcessTweak
  <2>1. /\ UNCHANGED <<resources, api>> /\ halt' \in {"no", "null_api"}
        /\ loop = "process" /\ loop' = "free"
    BY <1>0, <1>3 DEF ProcessTweak, LoopAt, Halt
  <2> QED BY <2>1 DEF Resources
<1>4. CASE Destruct
  <2>1. loop = "destruct" /\ loop' = "construct"
    BY <1>4 DEF Destruct, LoopAt
  <2>2. resources = "used" <=> api # NoMode
    BY <2>1 DEF Resources
  <2>3. halt' = "no" /\ resources' # "used"
    BY <1>0, <1>4, <2>2 DEF Destruct, ReturnResult
  <2> QED BY <2>1, <2>3 DEF Resources
<1>5. CASE Construct
  <2>1. loop = "construct" /\ loop' = "wait"
    BY <1>5 DEF Construct, LoopAt
  <2>2. resources # "used"
    BY <1>0, <2>1 DEF Resources
  <2>3. item.mode # NoMode
    BY <2>1, ModesAssumption DEF Places
  <2>4. \/ halt' = "no" /\ resources' = "used" /\ api' = item.mode
        \/ halt' = "not_registered"
    BY <1>0, <1>5, <2>2 DEF Construct, UseResult, Halt
  <2> QED BY <2>1, <2>3, <2>4 DEF Resources
<1>6. CASE light_resource_init
  <2>1. resources = "unregistered" /\ resources' = "free"
    BY <1>6 DEF light_resource_init
  <2> QED BY <1>0, <1>6, <2>1, MainFrame DEF Resources
<1> QED BY <1>1, <1>2, <1>3, <1>4, <1>5, <1>6 DEF Next, LoopStep

LEMMA OneEachStep == IInv /\ Next => OneEach'
<1> SUFFICES ASSUME IInv, Next PROVE OneEach'
  OBVIOUS
<1> USE DEF IInv, TypeOK
<1>1. ASSUME UNCHANGED <<fifo, loop, epoch>>, OldHands' \subseteq OldHands
      PROVE  OneEach'
  BY <1>1 DEF OneEach, OldIn
<1>2. ASSUME NEW p \in Posters, PostCheck(p)
      PROVE  OneEach'
  <2>1. UNCHANGED <<fifo, loop, epoch>>
    BY <1>2, PosterFrame DEF PostCheck
  <2>2. \A q \in Posters \ {p} : pc'[q] = pc[q] /\ hand'[q] = hand[q]
    BY <1>2 DEF PostCheck, At
  <2>3. pc'[p] \in {"count", "alloc", "put"} => ~(hand'[p].checked < epoch)
    BY <1>2 DEF PostCheck, At
  <2>4. OldHands' \subseteq OldHands
    BY <2>1, <2>2, <2>3 DEF OldHands
  <2> QED BY <1>1, <2>1, <2>4
<1>3. ASSUME NEW p \in Posters, PostCount(p)
      PROVE  OneEach'
  <2>1. UNCHANGED <<fifo, loop, epoch>>
    BY <1>3, PosterFrame DEF PostCount, PosterStep
  <2>2. hand[p] \in Action /\ pc[p] = "count"
    BY <1>3 DEF PostCount, At, Places
  <2>3. hand' = [hand EXCEPT ![p] = [hand[p] EXCEPT !.counted = epoch]]
    BY <1>3 DEF PostCount
  <2>4. hand'[p].checked = hand[p].checked
    BY <2>2, <2>3 DEF Action
  <2>5. \A q \in Posters \ {p} : pc'[q] = pc[q] /\ hand'[q] = hand[q]
    BY <1>3, <2>3 DEF PostCount, At
  <2>6. OldHands' \subseteq OldHands
    BY <2>1, <2>2, <2>4, <2>5 DEF OldHands
  <2> QED BY <1>1, <2>1, <2>6
<1>4. ASSUME NEW p \in Posters, PostAlloc(p) \/ PostUncount(p)
      PROVE  OneEach'
  <2>1. UNCHANGED <<fifo, loop, epoch, hand>>
    BY <1>4, PosterFrame DEF PostAlloc, PostUncount, PosterStep
  <2>2. ASSUME NEW q \in Posters, pc'[q] \in {"count", "alloc", "put"}
        PROVE  pc[q] \in {"count", "alloc", "put"}
    BY <1>4, <2>2 DEF PostAlloc, PostUncount, At
  <2>3. OldHands' \subseteq OldHands
    BY <2>1, <2>2 DEF OldHands
  <2> QED BY <1>1, <2>1, <2>3
<1>5. ASSUME NEW p \in Posters, PostPut(p), loop \notin Before \cup {"empty"}
      PROVE  OneEach'
  <2> DEFINE new == Len(fifo) + 1
  <2>1. UNCHANGED <<loop, epoch>> /\ fifo' = Append(fifo, hand[p])
    BY <1>5, PosterFrame DEF PostPut, PosterStep
  <2>2. /\ hand[p] \in Action /\ hand[p].poster = p
        /\ pc[p] = "put" /\ pc'[p] = "uncount"
    BY <1>5 DEF PostPut, At, Places
  <2>3. \A q \in Posters \ {p} : pc'[q] = pc[q] /\ hand'[q] = hand[q]
    BY <1>5 DEF PostPut, At
  <2>4. /\ Len(fifo') = new /\ Len(fifo) \in Nat /\ fifo'[new] = hand[p]
        /\ \A i \in 1..Len(fifo) : fifo'[i] = fifo[i]
    BY <2>1, <2>2
  <2>5. OldHands' = OldHands \ {p}
    BY <2>1, <2>2, <2>3 DEF OldHands
  \* What was old stays so; the new one is old if the poster's hand was.
  <2>6. ASSUME NEW i \in (OldIn(fifo))'
        PROVE  \/ i \in OldIn(fifo) /\ fifo'[i] = fifo[i]
               \/ i = new /\ p \in OldHands
    <3>1. i \in 1..Len(fifo') /\ fifo'[i].checked < epoch
      BY <2>1, <2>6 DEF OldIn
    <3>2. CASE i = new
      BY <2>2, <2>4, <3>1, <3>2 DEF OldHands
    <3>3. CASE i # new
      <4>1. i \in 1..Len(fifo)
        BY <2>4, <3>1, <3>3
      <4> QED BY <2>4, <3>1, <4>1 DEF OldIn
    <3> QED BY <3>2, <3>3
  <2>7. /\ \A i, j \in OldIn(fifo) : fifo[i].poster = fifo[j].poster => i = j
        /\ \A q \in OldHands, i \in OldIn(fifo) : fifo[i].poster # q
    BY <1>5 DEF OneEach
  <2>8. ASSUME NEW i \in (OldIn(fifo))', NEW j \in (OldIn(fifo))',
               fifo'[i].poster = fifo'[j].poster
        PROVE  i = j
    BY <2>2, <2>4, <2>6, <2>7, <2>8
  <2>9. ASSUME NEW q \in OldHands', NEW i \in (OldIn(fifo))'
        PROVE  fifo'[i].poster # q
    BY <2>2, <2>4, <2>5, <2>6, <2>7, <2>9
  <2> QED BY <2>8, <2>9 DEF OneEach
<1>6. CASE LoopGet
  <2>1. /\ fifo # <<>> /\ fifo' = Tail(fifo) /\ epoch' = epoch
        /\ loop = "get" /\ UNCHANGED <<pc, hand>>
    BY <1>6 DEF LoopGet, LoopAt, ble
  <2>2. \A i \in 1..Len(fifo') : /\ i + 1 \in 1..Len(fifo)
                                /\ fifo'[i] = fifo[i + 1]
    BY <2>1
  <2>3. ASSUME NEW i \in (OldIn(fifo))'
        PROVE  /\ i \in Int
               /\ i + 1 \in OldIn(fifo) /\ fifo'[i] = fifo[i + 1]
    BY <2>1, <2>2, <2>3 DEF OldIn
  <2>4. /\ \A i, j \in OldIn(fifo) : fifo[i].poster = fifo[j].poster => i = j
        /\ \A q \in OldHands, i \in OldIn(fifo) : fifo[i].poster # q
    BY <2>1 DEF OneEach, Before
  <2>5. OldHands' = OldHands
    BY <2>1 DEF OldHands
  <2>6. ASSUME NEW i \in (OldIn(fifo))', NEW j \in (OldIn(fifo))',
               fifo'[i].poster = fifo'[j].poster
        PROVE  i = j
    <3>1. i + 1 = j + 1
      BY <2>3, <2>4, <2>6
    <3> QED BY <2>3, <3>1
  <2>7. ASSUME NEW q \in OldHands', NEW i \in (OldIn(fifo))'
        PROVE  fifo'[i].poster # q
    BY <2>3, <2>4, <2>5, <2>7
  <2> QED BY <2>6, <2>7 DEF OneEach
<1>7. CASE EmptyFifo
  <2>1. loop' = "reopen" => fifo' = <<>>
    BY <1>7 DEF EmptyFifo, LoopAt
  <2>2. loop' \in {"empty", "reopen"}
    BY <1>7 DEF EmptyFifo, LoopAt
  <2>3. loop' = "reopen" => (OldIn(fifo))' = {}
    BY <2>1 DEF OldIn
  <2> QED BY <2>2, <2>3 DEF OneEach
<1>8. CASE BeginSwitch \/ Destruct \/ Construct \/ WaitForPosters
  BY <1>8 DEF BeginSwitch, Destruct, Construct, WaitForPosters, LoopAt, Before,
              OneEach
<1>9. CASE ProcessTweak \/ KeepMode \/ EndSwitch \/ FreeItem
  <2>1. /\ UNCHANGED <<fifo, epoch, pc, hand>>
        /\ loop \notin Before \cup {"empty"}
    BY <1>9 DEF ProcessTweak, KeepMode, EndSwitch, FreeItem, LoopAt, Before, ble
  <2> QED BY <2>1 DEF OneEach, OldIn, OldHands
<1>10. CASE light_resource_init
  BY <1>10, MainFrame DEF OneEach, OldIn, OldHands
<1>11. ASSUME NEW p \in Posters, PostPut(p), loop \in Before \cup {"empty"}
       PROVE  OneEach'
  BY <1>11, PosterFrame DEF OneEach, PosterStep
<1> QED BY <1>2, <1>3, <1>4, <1>5, <1>6, <1>7, <1>8, <1>9, <1>10, <1>11
        DEF Next, PosterStep, LoopStep

-----------------------------------------------------------------------------
(***************************************************************************)
(* The theorems.                                                           *)
(***************************************************************************)
\* The invariant holds of every state of hikari_light.c's threads, whoever
\* posts what and when.
THEOREM Invariance == Spec => []IInv
<1>1. IInv /\ UNCHANGED vars => IInv'
  BY DEF IInv, vars, TypeOK, Places, PostersCounted, HeapAccounted, Stamps,
         Resources, OneEach, OldIn, OldHands, Counted, Switching
<1>2. IInv /\ [Next]_vars => IInv'
  BY <1>1, TypeStep, PlacesStep, CountStep, HeapStep, StampsStep, ResourcesStep,
     OneEachStep DEF IInv
<1> QED BY InitEstablishes, <1>2, PTL DEF Spec

\* Every variable of hikari_light.c keeps its type; the heap never has more
\* free blocks than it began with.
THEOREM TypeCorrect == Spec => []TypeOK
BY Invariance, PTL DEF IInv

\* num_threads_posting_actions counts exactly the threads between its two
\* uses in post_action, for which try_switching_mode waits.
THEOREM CountCorrect == Spec => []PostersCounted
BY Invariance, PTL DEF IInv

\* No action whose poster had counted itself when the switch began is left
\* in the fifo when actions are accepted again.
THEOREM DropCorrect == Spec => []CountedActionsDropped
<1>1. IInv => CountedActionsDropped
  BY DEF IInv, Places, Stamps, Before, Switching, CountedActionsDropped
<1> QED BY Invariance, <1>1, PTL

\* Of the outdated actions no two that survive a switch are of the same
\* poster.
THEOREM OutdatedBounded == Spec => []OneOutdatedPerPoster
<1>1. ASSUME IInv, accepting
      PROVE  \A i, j \in 1..Len(fifo) :
               Outdated(i) /\ Outdated(j) /\ fifo[i].poster = fifo[j].poster
                 => i = j
  <2>1. loop \notin Before \cup {"empty"}
    BY <1>1 DEF IInv, Places, Switching, Before
  <2>2. \A i, j \in OldIn(fifo) : fifo[i].poster = fifo[j].poster => i = j
    BY <1>1, <2>1 DEF IInv, OneEach
  <2>3. \A i \in 1..Len(fifo) : Outdated(i) => i \in OldIn(fifo)
    BY DEF Outdated, OldIn
  <2> QED BY <2>2, <2>3
<1>2. IInv => OneOutdatedPerPoster
  BY <1>1 DEF OneOutdatedPerPoster
<1> QED BY Invariance, <1>2, PTL

\* A constructor finds all resources free (or not yet registered), and when
\* no switch is on they are in use exactly if there is a mode.
THEOREM ResourcesCorrect == Spec => []ResourcesFollowMode
<1>1. IInv => ResourcesFollowMode
  BY DEF IInv, TypeOK, Resources, ResourcesFollowMode, Switching
<1> QED BY Invariance, <1>1, PTL

\* Every block of the heap is free, on its way, the current action, or was
\* dropped by a switch.
THEOREM HeapCorrect == Spec => []HeapAccounted
BY Invariance, PTL DEF IInv
=============================================================================
