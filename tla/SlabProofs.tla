----------------------------- MODULE SlabProofs -----------------------------
(***************************************************************************)
(* For any graph of slabs, with cycles or without, any delays and any heap:*)
(* the type invariant of Slab, its count of references, what a delay       *)
(* holds, and that a reset gets everywhere.                                *)
(*                                                                         *)
(* A call is cut where slab_stim_childs goes on, and what comes then is    *)
(* Process, which is given a reference to the event that no call and no    *)
(* cell has yet: Accounts says what the heap is at that point.             *)
(***************************************************************************)
EXTENDS Slab, FiniteSetTheorems, SequenceTheorems, TLAPS

FrameSet == [slab : Slabs, evt : Addresses, rest : Seq(Slabs)]
HeapSet  == [Addresses -> [id : EventIds, refs : Nat \ {0}] \cup {Unused}]

QueueType(q) ==
  /\ DOMAIN q = Delays
  /\ \A d \in Delays : q[d] \in [Cells(d) -> Addresses \cup {NULL}]

CellsOK ==
  /\ QueueType(queue)
  /\ DOMAIN idx = Delays /\ \A d \in Delays : idx[d] \in Cells(d)
  /\ DOMAIN heard = Delays
  /\ \A d \in Delays : heard[d] \in Seq(Addresses) /\ Len(heard[d]) <= Length[d]
  /\ dropped \in [Addresses -> Nat]

\* A delay that does not exist holds nothing.
Vacant == \A d \in Delays \ alive : queue[d] = Empty(d)

\* The slabs a call may still get to are all alive.
Within(stk, set) == \A i \in 1..Len(stk) :
  /\ stk[i].slab \in set
  /\ \A j \in 1..Len(stk[i].rest) : stk[i].rest[j] \in set

Walks == \E set \in SUBSET alive : Closed(set) /\ Within(stack, set)

IInv ==
  /\ TypeOK /\ CellsOK /\ stack \in Seq(FrameSet)
  /\ Vacant /\ Walks
  /\ RefsAreHolders /\ DelayHoldsLast

\* While a reset is on its way, all calls are about it, and a delay that it
\* has not emptied is below a child that has still to be stimulated.
Ahead(stk, d) == \E i \in 1..Len(stk) : \E j \in 1..Len(stk[i].rest) :
  d \in Below(stk[i].rest[j])

ResetOnItsWay ==
  stack # <<>> /\ ~halted /\ last[2] = "RESET" =>
    /\ \A i \in 1..Len(stack) : evts[stack[i].evt].id = "RESET"
    /\ \A d \in Delays \cap Below(last[1]) : queue[d] = Empty(d) \/ Ahead(stack, d)

-----------------------------------------------------------------------------
(***************************************************************************)
(* Counting calls.                                                         *)
(***************************************************************************)
FramesIn(stk, a) == Cardinality({i \in 1..Len(stk) : stk[i].evt = a})
One(test) == IF test THEN 1 ELSE 0

LEMMA FramesType ==
  ASSUME NEW stk \in Seq(FrameSet), NEW a
  PROVE  /\ IsFiniteSet({i \in 1..Len(stk) : stk[i].evt = a})
         /\ FramesIn(stk, a) \in Nat
<1>1. IsFiniteSet(1..Len(stk))
  BY FS_Interval
<1>2. {i \in 1..Len(stk) : stk[i].evt = a} \in SUBSET (1..Len(stk))
  OBVIOUS
<1>3. IsFiniteSet({i \in 1..Len(stk) : stk[i].evt = a})
  BY <1>1, <1>2, FS_Subset
<1> QED BY <1>3, FS_CardinalityType DEF FramesIn

\* One more call on the stack holds one more reference.
LEMMA FramesPush ==
  ASSUME NEW stk \in Seq(FrameSet), NEW f \in FrameSet, NEW a
  PROVE  /\ <<f>> \o stk \in Seq(FrameSet)
         /\ FramesIn(<<f>> \o stk, a) = FramesIn(stk, a) + One(f.evt = a)
<1> DEFINE more == <<f>> \o stk
           S == {i \in 1..Len(stk) : stk[i].evt = a}
           T == {i \in 1..Len(more) : more[i].evt = a}
           T1 == T \ {1}
<1>1. /\ more \in Seq(FrameSet) /\ Len(more) = Len(stk) + 1
      /\ more[1] = f /\ Len(stk) \in Nat
      /\ \A i \in 1..Len(stk) : more[i + 1] = stk[i]
  OBVIOUS
<1>2. IsFiniteSet(S) /\ IsFiniteSet(T) /\ Cardinality(S) \in Nat
  BY <1>1, FramesType DEF FramesIn
<1>3. Cardinality(S) = Cardinality(T1)
  <2> DEFINE g == [i \in S |-> i + 1]
  <2>1. \A i \in S : i \in Nat /\ g[i] = i + 1 /\ g[i] \in T1
    BY <1>1
  <2>2. \A i \in T1 : i - 1 \in S /\ g[i - 1] = i
    <3> SUFFICES ASSUME NEW i \in T1 PROVE i - 1 \in S /\ g[i - 1] = i
      OBVIOUS
    <3>1. i - 1 \in 1..Len(stk) /\ (i - 1) + 1 = i
      BY <1>1
    <3>2. more[i] = stk[i - 1]
      BY <1>1, <3>1
    <3> QED BY <3>1, <3>2
  <2>3. g \in [S -> T1]
    BY <2>1
  <2>4. \A i, j \in S : g[i] = g[j] => i = j
    BY <2>1
  <2> HIDE DEF g
  <2>5. g \in Bijection(S, T1)
    BY <2>2, <2>3, <2>4 DEF Bijection, Injection, IsInjective, Surjection
  <2> QED BY <1>2, <2>5, FS_Bijection DEF ExistsBijection
<1>4. 1 \in T <=> f.evt = a
  BY <1>1
<1>5. Cardinality(T1) = IF 1 \in T THEN Cardinality(T) - 1 ELSE Cardinality(T)
  BY <1>2, FS_RemoveElement
<1>6. Cardinality(T) \in Nat
  BY <1>2, FS_CardinalityType
<1>7. Cardinality(T) = Cardinality(S) + One(f.evt = a)
  <2> HIDE DEF S, T, T1, more
  <2>1. CASE 1 \in T
    BY <2>1, <1>2, <1>3, <1>4, <1>5, <1>6 DEF One
  <2>2. CASE 1 \notin T
    BY <2>2, <1>2, <1>3, <1>4, <1>5, <1>6 DEF One
  <2> QED BY <2>1, <2>2
<1> QED BY <1>1, <1>7 DEF FramesIn

\* The first call on the stack and the others.
LEMMA FramesPop ==
  ASSUME NEW stk \in Seq(FrameSet), stk # <<>>, NEW a
  PROVE  /\ Head(stk) \in FrameSet /\ Tail(stk) \in Seq(FrameSet)
         /\ stk = <<Head(stk)>> \o Tail(stk)
         /\ FramesIn(stk, a) = FramesIn(Tail(stk), a) + One(Head(stk).evt = a)
<1>1. Head(stk) \in FrameSet /\ Tail(stk) \in Seq(FrameSet)
  BY HeadTailProperties
<1>2. stk = <<Head(stk)>> \o Tail(stk)
  <2> DEFINE again == <<Head(stk)>> \o Tail(stk)
  <2>0. <<Head(stk)>> \in Seq(FrameSet) /\ Len(<<Head(stk)>>) = 1
        /\ <<Head(stk)>>[1] = stk[1]
    BY <1>1
  <2>1. Len(stk) \in Nat /\ Len(Tail(stk)) = Len(stk) - 1
        /\ \A i \in 1..Len(Tail(stk)) : Tail(stk)[i] = stk[i + 1]
    BY HeadTailProperties, LenProperties
  <2>2. again \in Seq(FrameSet) /\ Len(again) = Len(stk)
    BY <1>1, <2>0, <2>1, ConcatProperties
  <2>3. \A i \in 1..Len(stk) : stk[i] = again[i]
    <3> SUFFICES ASSUME NEW i \in 1..Len(stk) PROVE stk[i] = again[i]
      OBVIOUS
    <3>1. again[i] = IF i <= 1 THEN stk[1] ELSE Tail(stk)[i - 1]
      BY <1>1, <2>0, <2>1, ConcatProperties
    <3>2. CASE i = 1
      BY <3>1, <3>2
    <3>3. CASE i # 1
      <4>1. i - 1 \in 1..Len(Tail(stk)) /\ (i - 1) + 1 = i /\ ~(i <= 1)
        BY <2>1, <3>3
      <4> QED BY <2>1, <3>1, <4>1
    <3> QED BY <3>2, <3>3
  <2> HIDE DEF again
  <2>4. stk = again
    BY <2>2, <2>3, SeqEqual
  <2> QED BY <2>4 DEF again
<1>3. \A f \in FrameSet, tl \in Seq(FrameSet) : stk = <<f>> \o tl =>
        FramesIn(stk, a) = FramesIn(tl, a) + One(f.evt = a)
  <2> SUFFICES ASSUME NEW f \in FrameSet, NEW tl \in Seq(FrameSet),
                      stk = <<f>> \o tl
               PROVE  FramesIn(stk, a) = FramesIn(tl, a) + One(f.evt = a)
    OBVIOUS
  <2> QED BY FramesPush
<1> QED BY <1>1, <1>2, <1>3

(***************************************************************************)
(* Counting the cells of the delays.                                       *)
(***************************************************************************)
CellSet == {<<d, i>> : d \in Delays, i \in UNION {Cells(d) : d \in Delays}}
Held(q, a) == {c \in CellSet : c[2] \in Cells(c[1]) /\ q[c[1]][c[2]] = a}
InCells(d, cells, a) == {i \in Cells(d) : cells[i] = a}

LEMMA CellsFinite ==
  /\ \A d \in Delays : IsFiniteSet(Cells(d)) /\ Cells(d) \subseteq Nat
  /\ \A d \in Delays : \A i \in Cells(d) : <<d, i>> \in CellSet
  /\ IsFiniteSet(CellSet)
<1> DEFINE U == UNION {Cells(d) : d \in Delays}
           Sets == {Cells(d) : d \in Delays}
           Rows == {{<<d, i>> : i \in U} : d \in Delays}
<1>1. IsFiniteSet(Delays)
  <2>1. Delays \in SUBSET Slabs
    BY DEF Delays
  <2> QED BY <2>1, GraphAssumption, FS_Subset
<1>2. ASSUME NEW d \in Delays
      PROVE  IsFiniteSet(Cells(d)) /\ Cells(d) \subseteq Nat
  <2>1. Length[d] \in Nat
    BY GraphAssumption
  <2>2. 0 \in Int /\ Length[d] - 1 \in Int
    BY <2>1
  <2>3. IsFiniteSet(0..(Length[d] - 1))
    BY <2>2, FS_Interval
  <2> QED BY <2>1, <2>3 DEF Cells
<1>3. IsFiniteSet(U)
  <2> DEFINE f == [d \in Delays |-> Cells(d)]
  <2>1. f \in Surjection(Delays, Sets)
    BY DEF Surjection
  <2>2. IsFiniteSet(Sets)
    BY <1>1, <2>1, FS_Surjection
  <2>3. \A T \in Sets : IsFiniteSet(T)
    BY <1>2
  <2> QED BY <2>2, <2>3, FS_UNION
<1>4. \A R \in Rows : IsFiniteSet(R)
  <2> SUFFICES ASSUME NEW d \in Delays
               PROVE  IsFiniteSet({<<d, i>> : i \in U})
    OBVIOUS
  <2> DEFINE g == [i \in U |-> <<d, i>>]
             R == {<<d, i>> : i \in U}
  <2> HIDE DEF U
  <2>1. g \in Surjection(U, R)
    BY DEF Surjection
  <2> HIDE DEF g, R
  <2>2. IsFiniteSet(R)
    BY <1>3, <2>1, FS_Surjection
  <2> QED BY <2>2 DEF R
<1>5. IsFiniteSet(Rows)
  <2> DEFINE h == [d \in Delays |-> {<<d, i>> : i \in U}]
  <2> HIDE DEF U
  <2>1. h \in Surjection(Delays, Rows)
    BY DEF Surjection
  <2> QED BY <1>1, <2>1, FS_Surjection
<1>6. CellSet = UNION Rows
  BY DEF CellSet
<1>7. IsFiniteSet(CellSet)
  BY <1>4, <1>5, <1>6, FS_UNION
<1> QED BY <1>2, <1>7 DEF CellSet

LEMMA HeldFinite ==
  ASSUME NEW q, NEW a
  PROVE  IsFiniteSet(Held(q, a)) /\ Cardinality(Held(q, a)) \in Nat
<1>1. Held(q, a) \in SUBSET CellSet
  BY DEF Held
<1>2. IsFiniteSet(Held(q, a))
  BY <1>1, CellsFinite, FS_Subset
<1> QED BY <1>2, FS_CardinalityType

LEMMA InCellsFinite ==
  ASSUME NEW d \in Delays, NEW cells, NEW a
  PROVE  IsFiniteSet(InCells(d, cells, a)) /\ Cardinality(InCells(d, cells, a)) \in Nat
<1>1. InCells(d, cells, a) \in SUBSET Cells(d)
  BY DEF InCells
<1>2. IsFiniteSet(InCells(d, cells, a))
  BY <1>1, CellsFinite, FS_Subset
<1> QED BY <1>2, FS_CardinalityType

\* Writing a cell: the event in it gives its place to the new one.
LEMMA CellWrite ==
  ASSUME NEW q, NEW new, NEW d \in Delays, NEW i \in Cells(d), NEW a, NEW b,
         new[d][i] = a,
         \A e \in Delays : \A j \in Cells(e) :
           e # d \/ j # i => new[e][j] = q[e][j]
  PROVE  Cardinality(Held(new, b)) + One(q[d][i] = b)
           = Cardinality(Held(q, b)) + One(a = b)
<1> DEFINE S == Held(q, b)
           T == Held(new, b)
           cell == <<d, i>>
<1>1. /\ new[d][i] = a
      /\ \A e \in Delays : \A j \in Cells(e) :
           <<e, j>> # cell => new[e][j] = q[e][j]
  OBVIOUS
<1>2. cell \in CellSet /\ cell[1] = d /\ cell[2] = i
  BY CellsFinite
<1>3. (cell \in S <=> q[d][i] = b) /\ (cell \in T <=> a = b)
  BY <1>1, <1>2 DEF Held
<1>4. S \ {cell} = T \ {cell}
  <2> SUFFICES ASSUME NEW c \in CellSet, c # cell, c[2] \in Cells(c[1])
               PROVE  q[c[1]][c[2]] = new[c[1]][c[2]]
    BY DEF Held
  <2>1. c = <<c[1], c[2]>> /\ c[1] \in Delays
    BY DEF CellSet
  <2> QED BY <1>1, <2>1
<1>5. /\ IsFiniteSet(S) /\ IsFiniteSet(T)
      /\ Cardinality(S) \in Nat /\ Cardinality(T) \in Nat
  BY HeldFinite
<1>6. /\ Cardinality(S \ {cell}) = IF cell \in S THEN Cardinality(S) - 1
                                                 ELSE Cardinality(S)
      /\ Cardinality(T \ {cell}) = IF cell \in T THEN Cardinality(T) - 1
                                                 ELSE Cardinality(T)
  BY <1>5, FS_RemoveElement
<1> HIDE DEF S, T, cell
<1>7. Cardinality(S) = Cardinality(S \ {cell}) + One(q[d][i] = b)
  BY <1>3, <1>5, <1>6 DEF One
<1>8. Cardinality(T) = Cardinality(T \ {cell}) + One(a = b)
  BY <1>3, <1>5, <1>6 DEF One
<1>9. Cardinality(T) + One(q[d][i] = b) = Cardinality(S) + One(a = b)
  <2>1. Cardinality(S \ {cell}) \in Int
    BY <1>5, <1>6
  <2>2. Cardinality(T) = Cardinality(S \ {cell}) + One(a = b)
    BY <1>4, <1>8
  <2> QED BY <1>7, <2>1, <2>2 DEF One
<1> QED BY <1>9 DEF S, T

\* Clearing the cells of a delay: what they held is no longer in a cell.
LEMMA CellClear ==
  ASSUME NEW q, QueueType(q), NEW d \in Delays, NEW new, QueueType(new),
         new[d] = Empty(d), \A e \in Delays \ {d} : new[e] = q[e],
         NEW b \in Addresses
  PROVE  Cardinality(Held(new, b)) + Cardinality(InCells(d, q[d], b))
           = Cardinality(Held(q, b))
<1> DEFINE S == Held(q, b)
           T == Held(new, b)
           I == InCells(d, q[d], b)
           R == {<<d, i>> : i \in I}
<1>1. S = T \cup R /\ T \cap R = {}
  <2>1. b # NULL
    BY GraphAssumption DEF Addresses, NULL
  <2>2. ASSUME NEW c \in CellSet, c[2] \in Cells(c[1])
        PROVE  /\ c \in R <=> c[1] = d /\ q[c[1]][c[2]] = b
               /\ c \in T <=> c[1] # d /\ q[c[1]][c[2]] = b
    <3>1. c = <<c[1], c[2]>> /\ c[1] \in Delays
      BY DEF CellSet
    <3>2. c \in R <=> c[1] = d /\ q[c[1]][c[2]] = b
      BY <2>2, <3>1 DEF InCells
    <3>3. CASE c[1] = d
      BY <2>1, <2>2, <3>1, <3>2, <3>3 DEF Held, Empty
    <3>4. CASE c[1] # d
      BY <2>2, <3>1, <3>2, <3>4 DEF Held
    <3> QED BY <3>2, <3>3, <3>4
  <2>3. \A c \in R : c \in CellSet /\ c[2] \in Cells(c[1])
    BY CellsFinite DEF InCells
  <2>4. \A c \in S \cup T : c \in CellSet /\ c[2] \in Cells(c[1])
    BY DEF Held
  <2>5. \A c \in S : c \in T \cup R
    BY <2>2, <2>4 DEF Held
  <2>6. \A c \in T \cup R : c \in S
    BY <2>2, <2>3, <2>4 DEF Held
  <2>7. \A c \in T : c \notin R
    BY <2>2, <2>4
  <2> QED BY <2>5, <2>6, <2>7
<1>2. /\ IsFiniteSet(T) /\ Cardinality(T) \in Nat
      /\ IsFiniteSet(I) /\ Cardinality(I) \in Nat
  BY HeldFinite, InCellsFinite
<1>3. IsFiniteSet(R) /\ Cardinality(R) = Cardinality(I)
  <2> DEFINE g == [i \in I |-> <<d, i>>]
  <2>1. g \in Bijection(I, R)
    <3> HIDE DEF I
    <3> QED BY DEF Bijection, Injection, IsInjective, Surjection
  <2> QED BY <1>2, <2>1, FS_Bijection DEF ExistsBijection
<1>4. Cardinality(S) = Cardinality(T) + Cardinality(R) - Cardinality(T \cap R)
  BY <1>1, <1>2, <1>3, FS_Union
<1>5. Cardinality(T \cap R) = 0
  BY <1>1, FS_EmptySet
<1> HIDE DEF S, T, I, R
<1>6. Cardinality(T) + Cardinality(I) = Cardinality(S)
  BY <1>2, <1>3, <1>4, <1>5
<1> QED BY <1>6 DEF S, T, I

(***************************************************************************)
(* Numbers.                                                                *)
(***************************************************************************)
\* A set of numbers that is not empty has a least one.
LEMMA LeastNumber ==
  ASSUME NEW S \in SUBSET Nat, S # {}
  PROVE  \E n \in S : \A m \in S : n <= m
<1> DEFINE T == {0..n : n \in S}
<1>1. \A n \in Nat : 0..n \in FiniteSubsetsOf(Nat)
  <2> SUFFICES ASSUME NEW n \in Nat
               PROVE  0..n \in SUBSET Nat /\ IsFiniteSet(0..n)
    BY DEF FiniteSubsetsOf
  <2> QED BY FS_Interval
<1>2. T \subseteq FiniteSubsetsOf(Nat) /\ T # {}
  BY <1>1
<1>3. PICK x \in T : \A y \in T : ~ (<<y, x>> \in StrictSubsetOrdering(Nat))
  <2> HIDE DEF T
  <2>1. IsWellFoundedOn(StrictSubsetOrdering(Nat), FiniteSubsetsOf(Nat))
    BY FS_StrictSubsetOrderingWellFounded
  <2> QED BY <1>2, <2>1, WFMin
<1>4. PICK n \in S : x = 0..n
  OBVIOUS
<1>5. \A m \in S : n <= m
  <2> SUFFICES ASSUME NEW m \in S, m < n PROVE FALSE
    OBVIOUS
  <2>1. 0..m \subseteq 0..n /\ 0..m # 0..n /\ 0..m \subseteq Nat /\ 0..n \subseteq Nat
    <3>1. n \in 0..n /\ n \notin 0..m
      OBVIOUS
    <3> QED BY <3>1
  <2>2. <<0..m, 0..n>> \in StrictSubsetOrdering(Nat)
    BY <2>1 DEF StrictSubsetOrdering
  <2> QED BY <1>3, <1>4, <2>2
<1> QED BY <1>5

LEMMA Modulo ==
  ASSUME NEW n \in Nat \ {0}, NEW x \in Nat, x < 2 * n
  PROVE  x % n = IF x < n THEN x ELSE x - n
OBVIOUS

(***************************************************************************)
(* The heap.                                                               *)
(***************************************************************************)
LEMMA NewIsFree ==
  ASSUME NEW es \in HeapSet, FreeIn(es) # {}
  PROVE  New(es) \in Addresses /\ es[New(es)] = Unused
<1>1. FreeIn(es) \in SUBSET Nat
  BY GraphAssumption DEF FreeIn, Addresses
<1>2. \E a \in FreeIn(es) : \A b \in FreeIn(es) : a <= b
  BY <1>1, LeastNumber
<1>3. New(es) \in FreeIn(es)
  BY <1>2 DEF New
<1> QED BY <1>3 DEF FreeIn

LEMMA HeapElement ==
  ASSUME NEW es \in HeapSet, NEW a \in Addresses
  PROVE  /\ es[a].refs \in Nat
         /\ es[a].refs = 0 <=> es[a] = Unused
         /\ es[a] # Unused => es[a] \in [id : EventIds, refs : Nat \ {0}]
<1>1. es[a] \in [id : EventIds, refs : Nat \ {0}] \cup {Unused}
  BY DEF HeapSet
<1> QED BY <1>1 DEF Unused

LEMMA CreatedHeap ==
  ASSUME NEW es \in HeapSet, FreeIn(es) # {}, NEW id \in EventIds
  PROVE  /\ Created(es, id) \in HeapSet
         /\ \A b \in Addresses : Created(es, id)[b].refs = es[b].refs + One(b = New(es))
         /\ \A b \in Addresses : b # New(es) => Created(es, id)[b] = es[b]
         /\ Created(es, id)[New(es)] = [id |-> id, refs |-> 1]
         /\ New(es) \in Addresses
<1>1. New(es) \in Addresses /\ es[New(es)] = Unused
  BY NewIsFree
<1> DEFINE e == [id |-> id, refs |-> 1]
<1>2. e \in [id : EventIds, refs : Nat \ {0}]
  OBVIOUS
<1>3. Created(es, id) \in HeapSet
  BY <1>1, <1>2 DEF Created, HeapSet
<1>4. \A b \in Addresses : Created(es, id)[b] = IF b = New(es) THEN e ELSE es[b]
  BY <1>1 DEF Created, HeapSet
<1>5. \A b \in Addresses : es[b].refs \in Nat
  BY HeapElement
<1>6. \A b \in Addresses : Created(es, id)[b].refs = es[b].refs + One(b = New(es))
  BY <1>1, <1>4, <1>5 DEF One, Unused
<1> QED BY <1>1, <1>3, <1>4, <1>6

LEMMA AcquiredHeap ==
  ASSUME NEW es \in HeapSet, NEW a \in Addresses, es[a] # Unused
  PROVE  /\ Acquired(es, a) \in HeapSet
         /\ \A b \in Addresses : Acquired(es, a)[b].refs = es[b].refs + One(b = a)
         /\ \A b \in Addresses : Acquired(es, a)[b].id = es[b].id
<1>1. es[a] \in [id : EventIds, refs : Nat \ {0}]
  BY HeapElement
<1> DEFINE e == [es[a] EXCEPT !.refs = @ + 1]
<1>2. e \in [id : EventIds, refs : Nat \ {0}] /\ e.id = es[a].id
      /\ e.refs = es[a].refs + 1
  BY <1>1
<1>3. Acquired(es, a) = [es EXCEPT ![a] = e]
  BY DEF Acquired
<1> HIDE DEF e
<1>4. Acquired(es, a) \in HeapSet
  BY <1>2, <1>3 DEF HeapSet
<1>5. \A b \in Addresses : Acquired(es, a)[b] = IF b = a THEN e ELSE es[b]
  BY <1>3 DEF HeapSet
<1>6. \A b \in Addresses : es[b].refs \in Nat
  BY HeapElement
<1> QED BY <1>2, <1>4, <1>5, <1>6 DEF One

LEMMA ReleasedHeap ==
  ASSUME NEW es \in HeapSet, NEW a \in Addresses, es[a] # Unused
  PROVE  /\ Released(es, a) \in HeapSet
         /\ \A b \in Addresses : es[b].refs = Released(es, a)[b].refs + One(b = a)
         /\ \A b \in Addresses :
              Released(es, a)[b] # Unused => Released(es, a)[b].id = es[b].id
<1>1. es[a] \in [id : EventIds, refs : Nat \ {0}]
  BY HeapElement
<1>2. \A b \in Addresses : es[b].refs \in Nat
  BY HeapElement
<1>3. CASE es[a].refs <= 1
  <2>1. Released(es, a) = [es EXCEPT ![a] = Unused] /\ es[a].refs = 1
    BY <1>1, <1>3 DEF Released
  <2>2. Released(es, a) \in HeapSet
    BY <2>1 DEF HeapSet
  <2>3. \A b \in Addresses : Released(es, a)[b] = IF b = a THEN Unused ELSE es[b]
    BY <2>1 DEF HeapSet
  <2> QED BY <1>2, <2>1, <2>2, <2>3 DEF One, Unused
<1>4. CASE ~(es[a].refs <= 1)
  <2> DEFINE e == [es[a] EXCEPT !.refs = @ - 1]
  <2>1. e \in [id : EventIds, refs : Nat \ {0}] /\ e.id = es[a].id
        /\ es[a].refs = e.refs + 1
    BY <1>1, <1>4
  <2>2. Released(es, a) = [es EXCEPT ![a] = e]
    BY <1>4 DEF Released
  <2> HIDE DEF e
  <2>3. Released(es, a) \in HeapSet
    BY <2>1, <2>2 DEF HeapSet
  <2>4. \A b \in Addresses : Released(es, a)[b] = IF b = a THEN e ELSE es[b]
    BY <2>2 DEF HeapSet
  <2> QED BY <1>2, <2>1, <2>3, <2>4 DEF One
<1> QED BY <1>3, <1>4

(***************************************************************************)
(* What slab s does with event a.                                          *)
(***************************************************************************)
\* Calls, cells and what was given up hold the events; of a there is one
\* reference more.
Accounts(es, stk, q, dr, a) == \A b \in Addresses :
  es[b].refs = FramesIn(stk, b) + Cardinality(Held(q, b)) + dr[b] + One(b = a)

Ready(s, a, es, below) ==
  /\ s \in Slabs /\ a \in Addresses
  /\ es \in HeapSet /\ below \in Seq(FrameSet)
  /\ childs \in [Slabs -> Seq(Slabs)]
  /\ CellsOK /\ DelayHoldsLast /\ halted = FALSE
  /\ Accounts(es, below, queue, dropped, a)

Handled(s, below) ==
  /\ evts' \in HeapSet /\ stack' \in Seq(FrameSet)
  /\ CellsOK' /\ DelayHoldsLast' /\ halted' = FALSE
  /\ Accounts(evts', stack', queue', dropped', NULL)
  /\ \A d \in Delays \ {s} : queue'[d] = queue[d]
  /\ \A set : s \in set /\ Closed(set) /\ Within(below, set) => Within(stack', set)

LEMMA NoNull ==
  NULL \notin Addresses /\ \A b \in Addresses : One(b = NULL) = 0
BY GraphAssumption DEF NULL, Addresses, One

LEMMA WithinPush ==
  ASSUME NEW stk \in Seq(FrameSet), NEW f \in FrameSet, NEW set
  PROVE  Within(<<f>> \o stk, set) <=>
           /\ f.slab \in set
           /\ \A j \in 1..Len(f.rest) : f.rest[j] \in set
           /\ Within(stk, set)
<1> DEFINE more == <<f>> \o stk
<1>1. /\ Len(more) = Len(stk) + 1 /\ Len(stk) \in Nat /\ more[1] = f
      /\ \A i \in 1..Len(stk) : more[i + 1] = stk[i]
  OBVIOUS
<1> DEFINE Ok(x) == x.slab \in set /\ \A j \in 1..Len(x.rest) : x.rest[j] \in set
<1> HIDE DEF more
<1>2. ASSUME Ok(f), \A i \in 1..Len(stk) : Ok(stk[i]), NEW i \in 1..Len(more)
      PROVE  Ok(more[i])
  <2>1. CASE i = 1
    BY <1>1, <1>2, <2>1
  <2>2. CASE i # 1
    <3>1. i - 1 \in 1..Len(stk) /\ (i - 1) + 1 = i
      BY <1>1, <2>2
    <3>2. more[i] = stk[i - 1]
      BY <1>1, <3>1
    <3>3. Ok(stk[i - 1])
      BY <1>2, <3>1
    <3> QED BY <3>2, <3>3
  <2> QED BY <2>1, <2>2
<1>3. ASSUME \A i \in 1..Len(more) : Ok(more[i])
      PROVE  Ok(f) /\ \A i \in 1..Len(stk) : Ok(stk[i])
  <2>1. Ok(f)
    <3>1. 1 \in 1..Len(more)
      BY <1>1
    <3>2. Ok(more[1])
      BY <1>3, <3>1
    <3> QED BY <1>1, <3>2
  <2>2. ASSUME NEW i \in 1..Len(stk) PROVE Ok(stk[i])
    <3>1. i + 1 \in 1..Len(more) /\ more[i + 1] = stk[i]
      BY <1>1
    <3>2. Ok(more[i + 1])
      BY <1>3, <3>1
    <3> QED BY <3>1, <3>2
  <2> QED BY <2>1, <2>2
<1> DEFINE AllOk(s) == \A i \in 1..Len(s) : Ok(s[i])
<1>4. (Within(stk, set) <=> AllOk(stk)) /\ (Within(more, set) <=> AllOk(more))
  BY DEF Within
<1>5. AllOk(more) <=> Ok(f) /\ AllOk(stk)
  BY <1>2, <1>3
<1>6. Within(more, set) <=> Ok(f) /\ Within(stk, set)
  <2> HIDE DEF Ok, AllOk
  <2> QED BY <1>4, <1>5
<1> QED BY <1>6 DEF more

\* slab_stim_childs is called.
LEMMA Pushed ==
  ASSUME NEW s \in Slabs, NEW a \in Addresses, NEW stk \in Seq(FrameSet),
         childs \in [Slabs -> Seq(Slabs)]
  PROVE  LET more == <<Frame(s, a)>> \o stk IN
         /\ Frame(s, a) \in FrameSet /\ more \in Seq(FrameSet)
         /\ \A b : FramesIn(more, b) = FramesIn(stk, b) + One(b = a)
         /\ \A set : s \in set /\ Closed(set) /\ Within(stk, set) => Within(more, set)
<1> DEFINE f == Frame(s, a)
<1>1. f \in FrameSet /\ f.evt = a /\ f.slab = s /\ f.rest = childs[s]
  BY DEF Frame, FrameSet
<1> HIDE DEF f
<1>2. <<f>> \o stk \in Seq(FrameSet)
  BY <1>1, FramesPush
<1>3. ASSUME NEW b
      PROVE  FramesIn(<<f>> \o stk, b) = FramesIn(stk, b) + One(b = a)
  <2>1. One(f.evt = b) = One(b = a)
    BY <1>1 DEF One
  <2> QED BY <1>1, <2>1, FramesPush
<1>4. ASSUME NEW set, s \in set, Closed(set), Within(stk, set)
      PROVE  Within(<<f>> \o stk, set)
  <2>1. \A j \in 1..Len(f.rest) : f.rest[j] \in set
    BY <1>1, <1>4 DEF Closed
  <2> QED BY <1>1, <1>4, <2>1, WithinPush
<1> QED BY <1>1, <1>2, <1>3, <1>4 DEF f

\* The numbers that the accounts are made of.
LEMMA Numbers ==
  ASSUME CellsOK, NEW stk \in Seq(FrameSet), NEW b \in Addresses
  PROVE  /\ FramesIn(stk, b) \in Nat /\ dropped[b] \in Nat
         /\ Cardinality(Held(queue, b)) \in Nat
BY FramesType, HeldFinite DEF CellsOK

\* The event is in use.
LEMMA ReadyUsed ==
  ASSUME NEW s, NEW a, NEW es, NEW below, Ready(s, a, es, below)
  PROVE  es[a] # Unused
<1>1. a \in Addresses /\ below \in Seq(FrameSet) /\ CellsOK /\ es \in HeapSet
  BY DEF Ready
<1>2. es[a].refs = FramesIn(below, a) + Cardinality(Held(queue, a)) + dropped[a] + 1
  BY <1>1 DEF Ready, Accounts, One
<1>3. es[a].refs # 0
  BY <1>1, <1>2, Numbers
<1> QED BY <1>1, <1>3, HeapElement

LEMMA CellsKept ==
  ASSUME CellsOK, DelayHoldsLast, halted = FALSE,
         UNCHANGED <<queue, idx, heard, dropped, halted>>
  PROVE  CellsOK' /\ DelayHoldsLast' /\ halted' = FALSE
BY DEF CellsOK, QueueType, DelayHoldsLast

LEMMA PairIsConcat ==
  ASSUME NEW S, NEW f \in S, NEW g \in S
  PROVE  <<f, g>> = <<f>> \o <<g>>
<1> DEFINE both == <<f>> \o <<g>>
<1>1. <<f>> \in Seq(S) /\ <<g>> \in Seq(S) /\ <<f, g>> \in Seq(S)
      /\ Len(<<f>>) = 1 /\ Len(<<g>>) = 1 /\ Len(<<f, g>>) = 2
  OBVIOUS
<1>2. both \in Seq(S) /\ Len(both) = 2 /\ both[1] = f /\ both[2] = g
  BY <1>1
<1> HIDE DEF both
<1>3. \A i \in 1..2 : <<f, g>>[i] = both[i]
  BY <1>2
<1>4. <<f, g>> = both
  BY <1>1, <1>2, <1>3, SeqEqual
<1> QED BY <1>4 DEF both

LEMMA ForwardHandles ==
  ASSUME NEW s, NEW a, NEW es, NEW below,
         Ready(s, a, es, below), Forward(s, a, es, below)
  PROVE  Handled(s, below)
<1>1. /\ s \in Slabs /\ a \in Addresses /\ below \in Seq(FrameSet) /\ CellsOK
      /\ childs \in [Slabs -> Seq(Slabs)] /\ es \in HeapSet
      /\ evts' = es /\ stack' = <<Frame(s, a)>> \o below
      /\ queue' = queue /\ dropped' = dropped
  BY DEF Ready, Forward
<1>2. CellsOK' /\ DelayHoldsLast' /\ halted' = FALSE
  BY CellsKept DEF Ready, Forward
<1>3. Accounts(evts', stack', queue', dropped', NULL)
  <2> SUFFICES ASSUME NEW b \in Addresses
               PROVE  es[b].refs = FramesIn(stack', b) + Cardinality(Held(queue, b))
                                     + dropped[b] + One(b = NULL)
    BY <1>1 DEF Accounts
  <2>1. es[b].refs = FramesIn(below, b) + Cardinality(Held(queue, b)) + dropped[b]
                       + One(b = a)
    BY DEF Ready, Accounts
  <2>2. FramesIn(stack', b) = FramesIn(below, b) + One(b = a)
    BY <1>1, Pushed
  <2>3. One(b = a) \in Nat /\ One(b = NULL) = 0
    BY NoNull DEF One
  <2>5. FramesIn(below, b) \in Nat /\ dropped[b] \in Nat
        /\ Cardinality(Held(queue, b)) \in Nat
    BY <1>1, Numbers
  <2> QED BY <2>1, <2>2, <2>3, <2>5
<1> QED BY <1>1, <1>2, <1>3, Pushed DEF Handled

LEMMA SwallowHandles ==
  ASSUME NEW s, NEW a, NEW es, NEW below,
         Ready(s, a, es, below), Swallow(s, a, es, below)
  PROVE  Handled(s, below)
<1>1. /\ s \in Slabs /\ a \in Addresses /\ below \in Seq(FrameSet) /\ CellsOK
      /\ es \in HeapSet /\ es[a] # Unused
      /\ evts' = Released(es, a) /\ stack' = below
      /\ queue' = queue /\ dropped' = dropped
  BY ReadyUsed DEF Ready, Swallow
<1>2. CellsOK' /\ DelayHoldsLast' /\ halted' = FALSE
  BY CellsKept DEF Ready, Swallow
<1>3. evts' \in HeapSet
  BY <1>1, ReleasedHeap
<1>4. Accounts(evts', stack', queue', dropped', NULL)
  <2> SUFFICES ASSUME NEW b \in Addresses
               PROVE  evts'[b].refs = FramesIn(below, b) + Cardinality(Held(queue, b))
                                     + dropped[b] + One(b = NULL)
    BY <1>1 DEF Accounts
  <2>1. es[b].refs = FramesIn(below, b) + Cardinality(Held(queue, b)) + dropped[b]
                       + One(b = a)
    BY DEF Ready, Accounts
  <2>2. es[b].refs = evts'[b].refs + One(b = a)
    BY <1>1, ReleasedHeap
  <2>3. One(b = a) \in Nat /\ One(b = NULL) = 0
    BY NoNull DEF One
  <2>4. evts'[b].refs \in Nat
    BY <1>3, HeapElement
  <2>5. FramesIn(below, b) \in Nat /\ dropped[b] \in Nat
        /\ Cardinality(Held(queue, b)) \in Nat
    BY <1>1, Numbers
  <2> QED BY <2>1, <2>2, <2>3, <2>4, <2>5
<1> QED BY <1>1, <1>2, <1>3, <1>4 DEF Handled

LEMMA GenerateHandles ==
  ASSUME NEW s, NEW a, NEW es, NEW below, FreeIn(es) # {},
         Ready(s, a, es, below), Generate(s, a, es, below)
  PROVE  Handled(s, below)
<1> DEFINE new == New(es)
           mid == <<Frame(s, a)>> \o below
<1>1. /\ s \in Slabs /\ a \in Addresses /\ below \in Seq(FrameSet) /\ CellsOK
      /\ childs \in [Slabs -> Seq(Slabs)] /\ es \in HeapSet
      /\ evts' = Created(es, "HSV")
      /\ stack' = <<Frame(s, new), Frame(s, a)>> \o below
      /\ queue' = queue /\ dropped' = dropped
  BY DEF Ready, Generate
<1>2. CellsOK' /\ DelayHoldsLast' /\ halted' = FALSE
  BY CellsKept DEF Ready, Generate
<1>3. /\ evts' \in HeapSet /\ new \in Addresses
      /\ \A b \in Addresses : evts'[b].refs = es[b].refs + One(b = new)
  <2>1. "HSV" \in EventIds
    BY DEF EventIds
  <2> QED BY <1>1, <2>1, CreatedHeap
<1>4. /\ mid \in Seq(FrameSet)
      /\ \A b : FramesIn(mid, b) = FramesIn(below, b) + One(b = a)
      /\ \A set : s \in set /\ Closed(set) /\ Within(below, set) => Within(mid, set)
      /\ Frame(s, a) \in FrameSet
  BY <1>1, Pushed
<1>5. stack' = <<Frame(s, new)>> \o mid
  <2>1. Frame(s, new) \in FrameSet
    BY <1>1, <1>3, Pushed
  <2>2. <<Frame(s, new), Frame(s, a)>> = <<Frame(s, new)>> \o <<Frame(s, a)>>
    BY <1>4, <2>1, PairIsConcat
  <2>3. <<Frame(s, new)>> \in Seq(FrameSet) /\ <<Frame(s, a)>> \in Seq(FrameSet)
    BY <2>1, <1>4
  <2> QED BY <1>1, <2>2, <2>3, ConcatAssociative
<1> HIDE DEF mid, new
<1>6. /\ stack' \in Seq(FrameSet)
      /\ \A b : FramesIn(stack', b) = FramesIn(mid, b) + One(b = new)
      /\ \A set : s \in set /\ Closed(set) /\ Within(mid, set) => Within(stack', set)
  <2> HIDE DEF mid, new
  <2> DEFINE more == <<Frame(s, new)>> \o mid
  <2>1. /\ more \in Seq(FrameSet)
        /\ \A b : FramesIn(more, b) = FramesIn(mid, b) + One(b = new)
        /\ \A set : s \in set /\ Closed(set) /\ Within(mid, set) => Within(more, set)
    BY <1>1, <1>3, <1>4, Pushed
  <2> HIDE DEF more
  <2>2. stack' = more
    BY <1>5 DEF more
  <2> QED BY <2>1, <2>2
<1>7. Accounts(evts', stack', queue', dropped', NULL)
  <2> SUFFICES ASSUME NEW b \in Addresses
               PROVE  evts'[b].refs = FramesIn(stack', b) + Cardinality(Held(queue, b))
                                     + dropped[b] + One(b = NULL)
    BY <1>1 DEF Accounts
  <2>1. es[b].refs = FramesIn(below, b) + Cardinality(Held(queue, b)) + dropped[b]
                       + One(b = a)
    BY DEF Ready, Accounts
  <2>2. One(b = a) \in Nat /\ One(b = new) \in Nat /\ One(b = NULL) = 0
    BY NoNull DEF One
  <2>3. /\ evts'[b].refs = es[b].refs + One(b = new)
        /\ FramesIn(stack', b) = FramesIn(below, b) + One(b = a) + One(b = new)
    BY <1>3, <1>4, <1>6
  <2>5. FramesIn(below, b) \in Nat /\ dropped[b] \in Nat
        /\ Cardinality(Held(queue, b)) \in Nat
    BY <1>1, Numbers
  <2> QED BY <2>1, <2>2, <2>3, <2>5
<1>8. \A set : s \in set /\ Closed(set) /\ Within(below, set) => Within(stack', set)
  BY <1>4, <1>6
<1> QED BY <1>1, <1>2, <1>3, <1>6, <1>7, <1>8 DEF Handled

LEMMA ConvertHandles ==
  ASSUME NEW s, NEW a, NEW es, NEW below, NEW id \in EventIds,
         FreeIn(Released(es, a)) # {},
         Ready(s, a, es, below), Convert(s, a, es, below, id)
  PROVE  Handled(s, below)
<1> DEFINE freed == Released(es, a)
           new == New(freed)
<1>1. /\ s \in Slabs /\ a \in Addresses /\ below \in Seq(FrameSet) /\ CellsOK
      /\ childs \in [Slabs -> Seq(Slabs)] /\ es \in HeapSet /\ es[a] # Unused
      /\ evts' = Created(freed, id)
      /\ stack' = <<Frame(s, new)>> \o below
      /\ queue' = queue /\ dropped' = dropped
  BY ReadyUsed DEF Ready, Convert
<1>2. CellsOK' /\ DelayHoldsLast' /\ halted' = FALSE
  BY CellsKept DEF Ready, Convert
<1>3. /\ freed \in HeapSet
      /\ \A b \in Addresses : es[b].refs = freed[b].refs + One(b = a)
  BY <1>1, ReleasedHeap
<1> HIDE DEF freed
<1>4. /\ evts' \in HeapSet /\ new \in Addresses
      /\ \A b \in Addresses : evts'[b].refs = freed[b].refs + One(b = new)
  BY <1>1, <1>3, CreatedHeap DEF freed
<1> HIDE DEF new
<1>5. /\ stack' \in Seq(FrameSet)
      /\ \A b : FramesIn(stack', b) = FramesIn(below, b) + One(b = new)
      /\ \A set : s \in set /\ Closed(set) /\ Within(below, set) => Within(stack', set)
  BY <1>1, <1>4, Pushed
<1>6. Accounts(evts', stack', queue', dropped', NULL)
  <2> SUFFICES ASSUME NEW b \in Addresses
               PROVE  evts'[b].refs = FramesIn(stack', b) + Cardinality(Held(queue, b))
                                     + dropped[b] + One(b = NULL)
    BY <1>1 DEF Accounts
  <2>1. es[b].refs = FramesIn(below, b) + Cardinality(Held(queue, b)) + dropped[b]
                       + One(b = a)
    BY DEF Ready, Accounts
  <2>2. One(b = a) \in Nat /\ One(b = new) \in Nat /\ One(b = NULL) = 0
    BY NoNull DEF One
  <2>3. /\ evts'[b].refs = freed[b].refs + One(b = new)
        /\ es[b].refs = freed[b].refs + One(b = a)
        /\ FramesIn(stack', b) = FramesIn(below, b) + One(b = new)
    BY <1>3, <1>4, <1>5
  <2>4. freed[b].refs \in Nat
    BY <1>3, HeapElement
  <2>5. FramesIn(below, b) \in Nat /\ dropped[b] \in Nat
        /\ Cardinality(Held(queue, b)) \in Nat
    BY <1>1, Numbers
  <2> QED BY <2>1, <2>2, <2>3, <2>4, <2>5
<1> QED BY <1>1, <1>2, <1>4, <1>5, <1>6 DEF Handled

\* The cell that was written i writes ago, before and after the next write.
LEMMA RingIndex ==
  ASSUME NEW n \in Nat \ {0}, NEW k \in 0..(n - 1), NEW i \in 1..n
  PROVE  LET next == IF k + 1 >= n THEN 0 ELSE k + 1
             cell == (next + n - i) % n
         IN  /\ next \in 0..(n - 1) /\ cell \in 0..(n - 1)
             /\ (k + n - i) % n \in 0..(n - 1)
             /\ i = 1 => cell = k
             /\ i > 1 => cell # k /\ cell = (k + n - (i - 1)) % n
<1> DEFINE next == IF k + 1 >= n THEN 0 ELSE k + 1
<1>1. next \in 0..(n - 1) /\ ((next = 0 /\ k = n - 1) \/ next = k + 1)
  OBVIOUS
<1>2. ASSUME NEW x \in Nat, x < 2 * n
      PROVE  x % n = IF x < n THEN x ELSE x - n
  BY <1>2, Modulo
<1> HIDE DEF next
<1>3. (next + n - i) % n = IF next + n - i < n THEN next + n - i ELSE next + n - i - n
  <2>1. next + n - i \in Nat /\ next + n - i < 2 * n /\ next \in Int
    BY <1>1
  <2> QED BY <1>2, <2>1
<1>4. (k + n - i) % n = IF k + n - i < n THEN k + n - i ELSE k + n - i - n
  <2>1. k + n - i \in Nat /\ k + n - i < 2 * n
    OBVIOUS
  <2> QED BY <1>2, <2>1
<1>5. i > 1 => (k + n - (i - 1)) % n =
        IF k + n - (i - 1) < n THEN k + n - (i - 1) ELSE k + n - (i - 1) - n
  <2>1. i > 1 => k + n - (i - 1) \in Nat /\ k + n - (i - 1) < 2 * n
    OBVIOUS
  <2> QED BY <1>2, <2>1
<1> QED BY <1>1, <1>3, <1>4, <1>5 DEF next

LEMMA DelayHandles ==
  ASSUME NEW s, NEW a, NEW es, NEW below, s \in Delays,
         Ready(s, a, es, below), Delay(s, a, es, below)
  PROVE  Handled(s, below)
<1> DEFINE n == Length[s]
           k == idx[s]
           out == queue[s][k]
           next == IF k + 1 >= n THEN 0 ELSE k + 1
           now == IF Len(heard[s]) = n THEN Append(Tail(heard[s]), a)
                                       ELSE Append(heard[s], a)
<1>1. /\ s \in Slabs /\ a \in Addresses /\ below \in Seq(FrameSet) /\ CellsOK
      /\ childs \in [Slabs -> Seq(Slabs)] /\ es \in HeapSet
      /\ evts' = es /\ dropped' = dropped /\ halted' = FALSE
      /\ queue' = [queue EXCEPT ![s][k] = a]
      /\ idx' = [idx EXCEPT ![s] = next]
      /\ heard' = [heard EXCEPT ![s] = now]
      /\ stack' = IF out = NULL THEN below ELSE <<Frame(s, out)>> \o below
  BY DEF Ready, Delay
<1>2. /\ n \in Nat \ {0} /\ k \in 0..(n - 1) /\ Cells(s) = 0..(n - 1)
      /\ heard[s] \in Seq(Addresses) /\ Len(heard[s]) <= n
      /\ queue[s] \in [Cells(s) -> Addresses \cup {NULL}]
  BY <1>1, GraphAssumption DEF CellsOK, Cells, QueueType
<1>3. /\ DOMAIN queue' = Delays /\ DOMAIN idx' = Delays /\ DOMAIN heard' = Delays
      /\ \A d \in Delays \ {s} :
           queue'[d] = queue[d] /\ idx'[d] = idx[d] /\ heard'[d] = heard[d]
      /\ queue'[s] = [queue[s] EXCEPT ![k] = a] /\ idx'[s] = next /\ heard'[s] = now
  BY <1>1 DEF CellsOK, QueueType
<1>4. next \in 0..(n - 1)
  BY <1>2
<1>5. /\ now \in Seq(Addresses) /\ Len(now) <= n
      /\ Len(now) = IF Len(heard[s]) = n THEN n ELSE Len(heard[s]) + 1
      /\ now[Len(now)] = a
      /\ \A i \in 2..Len(now) : now[Len(now) + 1 - i] = heard[s][Len(heard[s]) + 2 - i]
  <2> DEFINE h == heard[s]
  <2> HIDE DEF n
  <2>1. CASE Len(h) = n
    <3>1. /\ Tail(h) \in Seq(Addresses) /\ Len(Tail(h)) = n - 1
          /\ \A i \in 1..Len(Tail(h)) : Tail(h)[i] = h[i + 1]
      <4>1. h # <<>>
        BY <1>2, <2>1
      <4> QED BY <1>2, <2>1, <4>1, HeadTailProperties
    <3> DEFINE t == Tail(h)
    <3> HIDE DEF t
    <3>2. /\ now = Append(t, a) /\ t \in Seq(Addresses) /\ Len(t) = n - 1
          /\ \A i \in 1..Len(t) : t[i] = h[i + 1]
      BY <2>1, <3>1 DEF t
    <3>3. /\ now \in Seq(Addresses) /\ Len(now) = n /\ now[n] = a
          /\ \A i \in 1..(n - 1) : now[i] = t[i]
      <4> HIDE DEF now
      <4> QED BY <1>1, <1>2, <3>2
    <3>4. ASSUME NEW i \in 2..n PROVE now[n + 1 - i] = h[n + 2 - i]
      <4>1. n + 1 - i \in 1..(n - 1) /\ (n + 1 - i) + 1 = n + 2 - i
        BY <1>2
      <4> HIDE DEF now, h
      <4> QED BY <3>2, <3>3, <4>1
    <3> HIDE DEF now, h
    <3> QED BY <1>2, <2>1, <3>3, <3>4 DEF h
  <2>2. CASE Len(h) # n
    <3>1. now = Append(h, a) /\ Len(h) + 1 <= n /\ Len(h) \in Nat
      BY <1>2, <2>2
    <3>2. /\ now \in Seq(Addresses) /\ Len(now) = Len(h) + 1 /\ now[Len(h) + 1] = a
          /\ \A i \in 1..Len(h) : now[i] = h[i]
      <4> HIDE DEF now
      <4> QED BY <1>1, <1>2, <3>1
    <3>3. ASSUME NEW i \in 2..Len(now)
          PROVE  now[Len(now) + 1 - i] = h[Len(h) + 2 - i]
      <4>1. Len(h) + 2 - i \in 1..Len(h)
        BY <3>1, <3>2
      <4> HIDE DEF now, h
      <4> QED BY <3>1, <3>2, <4>1
    <3> HIDE DEF now, h
    <3> QED BY <1>2, <2>2, <3>1, <3>2, <3>3 DEF h
  <2> QED BY <2>1, <2>2
<1> HIDE DEF n, k, next, now
<1>6. QueueType(queue')
  BY <1>1, <1>2, <1>3 DEF QueueType, CellsOK
<1>7. CellsOK'
  <2>1. \A d \in Delays : idx'[d] \in Cells(d)
    BY <1>1, <1>2, <1>3, <1>4 DEF CellsOK
  <2>2. \A d \in Delays : heard'[d] \in Seq(Addresses) /\ Len(heard'[d]) <= Length[d]
    BY <1>1, <1>3, <1>5 DEF CellsOK, n
  <2>3. dropped' \in [Addresses -> Nat]
    BY <1>1 DEF CellsOK
  <2> QED BY <1>3, <1>6, <2>1, <2>2, <2>3 DEF CellsOK
<1>8. ASSUME NEW i \in 1..n
      PROVE  queue'[s][(next + n - i) % n] =
               IF i <= Len(now) THEN now[Len(now) + 1 - i] ELSE NULL
  <2> DEFINE cell == (next + n - i) % n
  <2>1. cell \in 0..(n - 1) /\ (i = 1 => cell = k)
        /\ (i > 1 => cell # k /\ cell = (k + n - (i - 1)) % n)
    BY <1>2, RingIndex DEF next
  <2>2. CASE i = 1
    <3>1. cell = k /\ queue'[s][k] = a
      BY <1>2, <1>3, <2>1, <2>2
    <3>2. Len(now) \in Nat \ {0} /\ i <= Len(now) /\ Len(now) + 1 - i = Len(now)
      BY <1>2, <1>5, <2>2
    <3> QED BY <1>5, <3>1, <3>2
  <2>3. CASE i # 1
    <3>1. i > 1 /\ i - 1 \in 1..n /\ i \in Nat
      BY <1>2, <2>3
    <3>2. queue'[s][cell] = queue[s][(k + n - (i - 1)) % n]
      <4> HIDE DEF cell
      <4> QED BY <1>2, <1>3, <2>1, <3>1
    <3>3. queue[s][(k + n - (i - 1)) % n] =
            IF i - 1 <= Len(heard[s]) THEN heard[s][Len(heard[s]) + 1 - (i - 1)] ELSE NULL
      <4>1. DelayHoldsLast
        BY DEF Ready
      <4> DEFINE m == i - 1
      <4>2. m \in 1..n
        BY <3>1
      <4> HIDE DEF m
      <4>3. queue[s][(k + n - m) % n] =
              IF m <= Len(heard[s]) THEN heard[s][Len(heard[s]) + 1 - m] ELSE NULL
        BY <4>1, <4>2 DEF DelayHoldsLast, n, k
      <4> QED BY <4>3 DEF m
    <3>4. Len(heard[s]) + 1 - (i - 1) = Len(heard[s]) + 2 - i /\ Len(heard[s]) \in Nat
      BY <1>2, <3>1
    <3>5. i - 1 <= Len(heard[s]) <=> i <= Len(now)
      BY <1>2, <1>5, <3>1, <3>4
    <3>6. i <= Len(now) => now[Len(now) + 1 - i] = heard[s][Len(heard[s]) + 2 - i]
      BY <1>5, <3>1
    <3> QED BY <3>2, <3>3, <3>4, <3>5, <3>6
  <2> QED BY <2>2, <2>3
<1>9. DelayHoldsLast'
  <2> SUFFICES ASSUME NEW d \in Delays, NEW i \in 1..Length[d]
               PROVE  queue'[d][(idx'[d] + Length[d] - i) % Length[d]] =
                        IF i <= Len(heard'[d]) THEN heard'[d][Len(heard'[d]) + 1 - i]
                                               ELSE NULL
    BY DEF DelayHoldsLast
  <2>1. CASE d = s
    BY <1>3, <1>8, <2>1 DEF n
  <2>2. CASE d # s
    BY <1>3, <2>2 DEF DelayHoldsLast, Ready
  <2> QED BY <2>1, <2>2
<1>10. /\ stack' \in Seq(FrameSet)
       /\ \A b \in Addresses : FramesIn(stack', b) = FramesIn(below, b) + One(b = out)
       /\ \A set : s \in set /\ Closed(set) /\ Within(below, set) => Within(stack', set)
  <2>1. CASE out = NULL
    <3>1. \A b \in Addresses : One(b = out) = 0
      BY <2>1, NoNull
    <3>2. \A b \in Addresses : FramesIn(below, b) \in Nat
      BY <1>1, FramesType
    <3> QED BY <1>1, <2>1, <3>1, <3>2
  <2>2. CASE out # NULL
    <3> DEFINE more == <<Frame(s, out)>> \o below
    <3>1. out \in Addresses
      BY <1>2, <2>2
    <3> HIDE DEF out
    <3>2. /\ more \in Seq(FrameSet)
          /\ \A b : FramesIn(more, b) = FramesIn(below, b) + One(b = out)
          /\ \A set : s \in set /\ Closed(set) /\ Within(below, set) => Within(more, set)
      BY <1>1, <3>1, Pushed
    <3> HIDE DEF more
    <3>3. stack' = more
      BY <1>1, <2>2 DEF more
    <3> QED BY <3>2, <3>3
  <2> QED BY <2>1, <2>2
<1>11. Accounts(evts', stack', queue', dropped', NULL)
  <2> SUFFICES ASSUME NEW b \in Addresses
               PROVE  es[b].refs = FramesIn(stack', b) + Cardinality(Held(queue', b))
                                     + dropped[b] + One(b = NULL)
    BY <1>1 DEF Accounts
  <2>1. es[b].refs = FramesIn(below, b) + Cardinality(Held(queue, b)) + dropped[b]
                       + One(b = a)
    BY DEF Ready, Accounts
  <2>2. One(b = a) \in Nat /\ One(b = out) \in Nat /\ One(b = NULL) = 0
    BY NoNull DEF One
  <2>3. FramesIn(stack', b) = FramesIn(below, b) + One(b = out)
    BY <1>10
  <2>4. Cardinality(Held(queue', b)) + One(b = out)
          = Cardinality(Held(queue, b)) + One(b = a)
    <3>1. Cardinality(Held(queue', b)) + One(queue[s][k] = b)
            = Cardinality(Held(queue, b)) + One(a = b)
      <4>1. k \in Cells(s) /\ queue'[s][k] = a
        BY <1>2, <1>3
      <4>2. \A e \in Delays : \A j \in Cells(e) :
              e # s \/ j # k => queue'[e][j] = queue[e][j]
        BY <1>2, <1>3
      <4> QED BY <4>1, <4>2, CellWrite
    <3>2. One(queue[s][k] = b) = One(b = out) /\ One(a = b) = One(b = a)
      BY DEF One
    <3> QED BY <1>1, <3>1, <3>2
  <2>5. /\ FramesIn(below, b) \in Nat /\ dropped[b] \in Nat
        /\ Cardinality(Held(queue, b)) \in Nat /\ Cardinality(Held(queue', b)) \in Nat
    BY <1>1, Numbers, HeldFinite
  <2> QED BY <2>1, <2>2, <2>3, <2>4, <2>5
<1> QED BY <1>1, <1>3, <1>7, <1>9, <1>10, <1>11 DEF Handled

\* An empty queue, of whatever index, is that of a delay that heard nothing.
LEMMA EmptyHoldsNothing ==
  ASSUME NEW d \in Delays, NEW k \in Cells(d), NEW i \in 1..Length[d]
  PROVE  Empty(d)[(k + Length[d] - i) % Length[d]] =
           IF i <= Len(<<>>) THEN <<>>[Len(<<>>) + 1 - i] ELSE NULL
<1>1. Length[d] \in Nat \ {0}
  BY GraphAssumption
<1>2. (k + Length[d] - i) % Length[d] \in Cells(d)
  BY <1>1, RingIndex DEF Cells
<1>3. ~(i <= Len(<<>>))
  BY <1>1
<1> QED BY <1>2, <1>3 DEF Empty

\* A delay is emptied: its queue is given up, reference by reference.
LEMMA GivenUp ==
  ASSUME CellsOK, NEW d \in Delays, QueueType(queue)', queue'[d] = Empty(d),
         \A e \in Delays \ {d} : queue'[e] = queue[e],
         dropped' = DroppedBy(d)
  PROVE  /\ dropped' \in [Addresses -> Nat]
         /\ \A b \in Addresses : Cardinality(Held(queue', b)) + dropped'[b]
              = Cardinality(Held(queue, b)) + dropped[b]
<1>1. ASSUME NEW b \in Addresses
      PROVE  /\ dropped'[b] = dropped[b] + Cardinality(InCells(d, queue[d], b))
             /\ Cardinality(InCells(d, queue[d], b)) \in Nat
             /\ dropped[b] \in Nat
  <2>1. dropped'[b] = dropped[b] + Cardinality(InCells(d, queue[d], b))
    BY DEF DroppedBy, InCells
  <2>2. Cardinality(InCells(d, queue[d], b)) \in Nat
    BY InCellsFinite
  <2>3. dropped[b] \in Nat
    BY DEF CellsOK
  <2> QED BY <2>1, <2>2, <2>3
<1>2. dropped' \in [Addresses -> Nat]
  <2>1. dropped' = [b \in Addresses |-> dropped[b] + Cardinality(InCells(d, queue[d], b))]
    BY DEF DroppedBy, InCells
  <2>2. \A b \in Addresses :
          dropped[b] + Cardinality(InCells(d, queue[d], b)) \in Nat
    BY <1>1
  <2> QED BY <2>1, <2>2
<1>3. ASSUME NEW b \in Addresses
      PROVE  Cardinality(Held(queue', b)) + Cardinality(InCells(d, queue[d], b))
               = Cardinality(Held(queue, b))
  BY CellClear DEF CellsOK, QueueType
<1>4. ASSUME NEW b \in Addresses
      PROVE  Cardinality(Held(queue', b)) + dropped'[b]
               = Cardinality(Held(queue, b)) + dropped[b]
  BY <1>1, <1>3, HeldFinite
<1> QED BY <1>2, <1>4

LEMMA ClearHandles ==
  ASSUME NEW s, NEW a, NEW es, NEW below, s \in Delays,
         Ready(s, a, es, below), Clear(s, a, es, below)
  PROVE  Handled(s, below)
<1>1. /\ s \in Slabs /\ a \in Addresses /\ below \in Seq(FrameSet) /\ CellsOK
      /\ childs \in [Slabs -> Seq(Slabs)] /\ es \in HeapSet
      /\ evts' = es /\ stack' = <<Frame(s, a)>> \o below /\ halted' = FALSE
      /\ queue' = [queue EXCEPT ![s] = Empty(s)]
      /\ idx' = [idx EXCEPT ![s] = 0]
      /\ heard' = [heard EXCEPT ![s] = <<>>]
      /\ dropped' = DroppedBy(s)
  BY DEF Ready, Clear
<1>2. /\ DOMAIN queue' = Delays /\ DOMAIN idx' = Delays /\ DOMAIN heard' = Delays
      /\ \A d \in Delays \ {s} :
           queue'[d] = queue[d] /\ idx'[d] = idx[d] /\ heard'[d] = heard[d]
      /\ queue'[s] = Empty(s) /\ idx'[s] = 0 /\ heard'[s] = <<>>
  BY <1>1 DEF CellsOK, QueueType
<1>3. Empty(s) \in [Cells(s) -> Addresses \cup {NULL}] /\ 0 \in Cells(s)
  BY GraphAssumption DEF Empty, Cells
<1>4. QueueType(queue)'
  BY <1>1, <1>2, <1>3 DEF QueueType, CellsOK
<1>5. dropped' \in [Addresses -> Nat]
      /\ \A b \in Addresses : Cardinality(Held(queue', b)) + dropped'[b]
              = Cardinality(Held(queue, b)) + dropped[b]
  BY <1>1, <1>2, <1>4, GivenUp
<1>6. CellsOK'
  <2>1. \A d \in Delays : idx'[d] \in Cells(d)
    BY <1>1, <1>2, <1>3 DEF CellsOK
  <2>2. \A d \in Delays : heard'[d] \in Seq(Addresses) /\ Len(heard'[d]) <= Length[d]
    <3>1. <<>> \in Seq(Addresses) /\ Len(<<>>) <= Length[s]
      BY GraphAssumption
    <3> QED BY <1>1, <1>2, <3>1 DEF CellsOK
  <2> QED BY <1>2, <1>4, <1>5, <2>1, <2>2 DEF CellsOK
<1>7. DelayHoldsLast'
  <2> SUFFICES ASSUME NEW d \in Delays, NEW i \in 1..Length[d]
               PROVE  queue'[d][(idx'[d] + Length[d] - i) % Length[d]] =
                        IF i <= Len(heard'[d]) THEN heard'[d][Len(heard'[d]) + 1 - i]
                                               ELSE NULL
    BY DEF DelayHoldsLast
  <2>1. CASE d = s
    BY <1>2, <1>3, <2>1, EmptyHoldsNothing
  <2>2. CASE d # s
    BY <1>2, <2>2 DEF DelayHoldsLast, Ready
  <2> QED BY <2>1, <2>2
<1>8. /\ stack' \in Seq(FrameSet)
      /\ \A b : FramesIn(stack', b) = FramesIn(below, b) + One(b = a)
      /\ \A set : s \in set /\ Closed(set) /\ Within(below, set) => Within(stack', set)
  BY <1>1, Pushed
<1>9. Accounts(evts', stack', queue', dropped', NULL)
  <2> SUFFICES ASSUME NEW b \in Addresses
               PROVE  es[b].refs = FramesIn(stack', b) + Cardinality(Held(queue', b))
                                     + dropped'[b] + One(b = NULL)
    BY <1>1 DEF Accounts
  <2>1. es[b].refs = FramesIn(below, b) + Cardinality(Held(queue, b)) + dropped[b]
                       + One(b = a)
    BY DEF Ready, Accounts
  <2>2. One(b = a) \in Nat /\ One(b = NULL) = 0
    BY NoNull DEF One
  <2>3. FramesIn(stack', b) = FramesIn(below, b) + One(b = a)
        /\ Cardinality(Held(queue', b)) + dropped'[b]
             = Cardinality(Held(queue, b)) + dropped[b]
    BY <1>5, <1>8
  <2>4. /\ FramesIn(below, b) \in Nat /\ dropped[b] \in Nat /\ dropped'[b] \in Nat
        /\ Cardinality(Held(queue, b)) \in Nat /\ Cardinality(Held(queue', b)) \in Nat
    BY <1>1, <1>5, Numbers, HeldFinite
  <2> QED BY <2>1, <2>2, <2>3, <2>4
<1> QED BY <1>1, <1>2, <1>6, <1>7, <1>8, <1>9 DEF Handled

\* The switches: whatever the slab does, what it must do is done, or there
\* was no room for an event.
LEMMA ProcessHandles ==
  ASSUME NEW s, NEW a, NEW es, NEW below,
         Ready(s, a, es, below), Process(s, a, es, below)
  PROVE  Handled(s, below) \/ Fail
<1> DEFINE id == es[a].id
<1>1. "RGB" \in EventIds /\ "HSV" \in EventIds
  BY DEF EventIds
<1>2. TypeOf[s] = "DELAY" => s \in Delays
  BY DEF Ready, Delays
<1>3. CASE TypeOf[s] = "TICKER" /\ id = "TICK"
  <2>1. Swallow(s, a, es, below)
    BY <1>3 DEF Process
  <2> QED BY <2>1, SwallowHandles
<1>4. CASE TypeOf[s] \in {"GLOWER", "WAVER"} /\ id = "TICK"
  <2>1. Generate(s, a, es, below)
    BY <1>4 DEF Process
  <2>2. CASE FreeIn(es) = {}
    BY <2>1, <2>2 DEF Generate
  <2>3. CASE FreeIn(es) # {}
    BY <2>1, <2>3, GenerateHandles
  <2> QED BY <2>2, <2>3
<1>5. CASE TypeOf[s] = "HSV2RGB" /\ id = "HSV"
  <2>1. Convert(s, a, es, below, "RGB")
    BY <1>5 DEF Process
  <2>2. CASE FreeIn(Released(es, a)) = {}
    BY <2>1, <2>2 DEF Convert
  <2>3. CASE FreeIn(Released(es, a)) # {}
    BY <1>1, <2>1, <2>3, ConvertHandles
  <2> QED BY <2>2, <2>3
<1>6. CASE TypeOf[s] = "RGB2HSV" /\ id = "RGB"
  <2>1. Convert(s, a, es, below, "HSV")
    BY <1>6 DEF Process
  <2>2. CASE FreeIn(Released(es, a)) = {}
    BY <2>1, <2>2 DEF Convert
  <2>3. CASE FreeIn(Released(es, a)) # {}
    BY <1>1, <2>1, <2>3, ConvertHandles
  <2> QED BY <2>2, <2>3
<1>7. CASE TypeOf[s] = "DELAY" /\ id = "RESET"
  <2>1. Clear(s, a, es, below)
    BY <1>7 DEF Process
  <2> QED BY <1>2, <1>7, <2>1, ClearHandles
<1>8. CASE TypeOf[s] = "DELAY" /\ id # "RESET"
  <2>1. Delay(s, a, es, below)
    BY <1>8 DEF Process
  <2> QED BY <1>2, <1>8, <2>1, DelayHandles
<1>9. CASE /\ ~(TypeOf[s] = "TICKER" /\ id = "TICK")
           /\ ~(TypeOf[s] \in {"GLOWER", "WAVER"} /\ id = "TICK")
           /\ ~(TypeOf[s] = "HSV2RGB" /\ id = "HSV")
           /\ ~(TypeOf[s] = "RGB2HSV" /\ id = "RGB")
           /\ TypeOf[s] # "DELAY"
  <2>1. Forward(s, a, es, below)
    BY <1>9 DEF Process
  <2> QED BY <2>1, ForwardHandles
<1> QED BY <1>3, <1>4, <1>5, <1>6, <1>7, <1>8, <1>9

-----------------------------------------------------------------------------
(***************************************************************************)
(* The invariant.                                                          *)
(***************************************************************************)
LEMMA HoldersCounted ==
  ASSUME RefsAreHolders, halted = FALSE, CellsOK, stack \in Seq(FrameSet)
  PROVE  Accounts(evts, stack, queue, dropped, NULL)
<1> SUFFICES ASSUME NEW b \in Addresses
             PROVE  evts[b].refs = FramesIn(stack, b) + Cardinality(Held(queue, b))
                                     + dropped[b] + One(b = NULL)
  BY DEF Accounts
<1>1. evts[b].refs = FramesOf(b) + CellsOf(b) + dropped[b]
  BY DEF RefsAreHolders
<1>2. FramesOf(b) = FramesIn(stack, b) /\ CellsOf(b) = Cardinality(Held(queue, b))
  BY DEF FramesOf, FramesIn, CellsOf, Held, CellSet
<1>3. /\ FramesIn(stack, b) \in Nat /\ Cardinality(Held(queue, b)) \in Nat
      /\ dropped[b] \in Nat
  BY Numbers
<1>4. One(b = NULL) = 0
  BY NoNull
<1> QED BY <1>1, <1>2, <1>3, <1>4

\* There was no room: nothing has changed.
LEMMA FailKeeps ==
  ASSUME IInv, Fail, UNCHANGED graph
  PROVE  IInv'
<1>1. /\ evts' = evts /\ queue' = queue /\ idx' = idx /\ stack' = stack
      /\ heard' = heard /\ dropped' = dropped /\ halted' = TRUE
      /\ alive' = alive /\ childs' = childs
  BY DEF Fail, graph
<1>2. TypeOK'
  BY <1>1 DEF IInv, TypeOK
<1>3. CellsOK' /\ stack' \in Seq(FrameSet) /\ Vacant'
  BY <1>1 DEF IInv, CellsOK, QueueType, Vacant
<1>4. Walks'
  BY <1>1 DEF IInv, Walks, Within, Closed
<1>5. RefsAreHolders' /\ DelayHoldsLast'
  BY <1>1 DEF IInv, RefsAreHolders, DelayHoldsLast
<1> QED BY <1>2, <1>3, <1>4, <1>5 DEF IInv

\* A call goes on with slab s, which is one of those it may get to.
LEMMA Called ==
  ASSUME IInv, NEW s, NEW below, NEW set \in SUBSET alive,
         s \in set, Closed(set), Within(below, set), UNCHANGED graph,
         Handled(s, below) \/ Fail
  PROVE  IInv'
<1>1. CASE Handled(s, below)
  <2>1. Closed(set)' /\ set \in SUBSET alive' /\ alive' = alive
    BY DEF Closed, graph
  <2>2. Within(stack', set)
    BY <1>1 DEF Handled
  <2>3. Walks'
    BY <2>1, <2>2 DEF Walks, Within
  <2>4. RefsAreHolders'
    <3> SUFFICES ASSUME NEW b \in Addresses
                 PROVE  evts'[b].refs = FramesOf(b)' + CellsOf(b)' + dropped'[b]
      BY DEF RefsAreHolders
    <3>1. evts'[b].refs = FramesIn(stack', b) + Cardinality(Held(queue', b))
                            + dropped'[b] + One(b = NULL)
      BY <1>1 DEF Handled, Accounts
    <3>2. FramesOf(b)' = FramesIn(stack', b) /\ CellsOf(b)' = Cardinality(Held(queue', b))
      BY DEF FramesOf, FramesIn, CellsOf, Held, CellSet
    <3>3. /\ FramesIn(stack', b) \in Nat /\ Cardinality(Held(queue', b)) \in Nat
          /\ dropped'[b] \in Nat
      BY <1>1, FramesType, HeldFinite DEF Handled, CellsOK
    <3>4. One(b = NULL) = 0
      BY NoNull
    <3> QED BY <3>1, <3>2, <3>3, <3>4
  <2>5. Vacant'
    <3>1. s \in alive
      OBVIOUS
    <3> QED BY <1>1, <2>1, <3>1 DEF IInv, Vacant, Handled, Empty
  <2>6. TypeOK'
    <3>1. alive' \subseteq Slabs /\ childs' \in [Slabs -> Seq(Slabs)]
      BY DEF IInv, TypeOK, graph
    <3>2. evts' \in [Addresses -> [id : EventIds, refs : Nat \ {0}] \cup {Unused}]
      BY <1>1 DEF Handled, HeapSet
    <3>3. /\ \A d \in Delays : queue'[d] \in [Cells(d) -> Addresses \cup {NULL}]
          /\ \A d \in Delays : idx'[d] \in Cells(d)
      BY <1>1 DEF Handled, CellsOK, QueueType
    <3>4. \A i \in 1..Len(stack') :
            /\ stack'[i].slab \in alive'
            /\ stack'[i].evt \in Addresses
            /\ stack'[i].rest \in Seq(Slabs)
      <4> SUFFICES ASSUME NEW i \in 1..Len(stack')
                   PROVE  /\ stack'[i].slab \in alive'
                          /\ stack'[i].evt \in Addresses
                          /\ stack'[i].rest \in Seq(Slabs)
        OBVIOUS
      <4>1. stack'[i] \in FrameSet
        BY <1>1, ElementOfSeq DEF Handled
      <4>2. stack'[i].slab \in set
        BY <2>2 DEF Within
      <4> QED BY <2>1, <4>1, <4>2 DEF FrameSet
    <3>5. halted' \in BOOLEAN
      BY <1>1 DEF Handled
    <3> QED BY <3>1, <3>2, <3>3, <3>4, <3>5 DEF TypeOK
  <2> QED BY <1>1, <2>3, <2>4, <2>5, <2>6 DEF IInv, Handled
<1>2. CASE Fail
  BY <1>2, FailKeeps
<1> QED BY <1>1, <1>2

\* The reverse, after a step.
LEMMA CountedHolders ==
  ASSUME CellsOK', stack' \in Seq(FrameSet),
         \A b \in Addresses : evts'[b].refs =
           FramesIn(stack', b) + Cardinality(Held(queue', b)) + dropped'[b]
  PROVE  RefsAreHolders'
<1> SUFFICES ASSUME NEW b \in Addresses
             PROVE  evts'[b].refs = FramesOf(b)' + CellsOf(b)' + dropped'[b]
  BY DEF RefsAreHolders
<1>1. FramesOf(b)' = FramesIn(stack', b) /\ CellsOf(b)' = Cardinality(Held(queue', b))
  BY DEF FramesOf, FramesIn, CellsOf, Held, CellSet
<1> QED BY <1>1

LEMMA NoFrames ==
  <<>> \in Seq(FrameSet) /\ \A a : FramesIn(<<>>, a) = 0
<1>1. \A a : {i \in 1..Len(<<>>) : <<>>[i].evt = a} = {}
  OBVIOUS
<1>2. \A a : FramesIn(<<>>, a) = 0
  BY <1>1, FS_EmptySet DEF FramesIn
<1> QED BY <1>2

LEMMA HeldSame ==
  ASSUME NEW q, NEW new, \A d \in Delays : new[d] = q[d], NEW a
  PROVE  Held(new, a) = Held(q, a)
<1>1. \A c \in CellSet : c[1] \in Delays
  BY DEF CellSet
<1> QED BY <1>1 DEF Held

LEMMA Initially == Init => IInv
<1> SUFFICES ASSUME Init PROVE IInv
  OBVIOUS
<1> USE DEF Init
<1>1. \A d \in Delays : Length[d] \in Nat \ {0} /\ 0 \in Cells(d)
  BY GraphAssumption DEF Cells
<1>2. \A d \in Delays : Empty(d) \in [Cells(d) -> Addresses \cup {NULL}]
  BY DEF Empty
<1>3. CellsOK
  BY <1>1, <1>2 DEF CellsOK, QueueType
<1>4. TypeOK
  <2>1. evts \in [Addresses -> [id : EventIds, refs : Nat \ {0}] \cup {Unused}]
    OBVIOUS
  <2>2. childs \in [Slabs -> Seq(Slabs)]
    OBVIOUS
  <2>3. halted \in BOOLEAN
    BY Zenon
  <2>4. alive \subseteq Slabs /\ \A i \in 1..Len(stack) : FALSE
    OBVIOUS
  <2> QED BY <1>3, <2>1, <2>2, <2>3, <2>4 DEF TypeOK, CellsOK, QueueType
<1>5. Vacant /\ Walks
  <2>1. Closed({}) /\ Within(stack, {}) /\ {} \in SUBSET alive
    BY DEF Closed, Within
  <2> QED BY <2>1 DEF Vacant, Walks
<1>6. RefsAreHolders
  <2> SUFFICES ASSUME NEW b \in Addresses
               PROVE  evts[b].refs = FramesOf(b) + CellsOf(b) + dropped[b]
    BY DEF RefsAreHolders
  <2>1. FramesOf(b) = 0
    BY NoFrames DEF FramesOf, FramesIn
  <2>2. CellsOf(b) = 0
    <3>1. CellsOf(b) = Cardinality(Held(queue, b))
      BY DEF CellsOf, Held, CellSet
    <3>2. \A c \in CellSet : c[2] \in Cells(c[1]) => queue[c[1]][c[2]] = NULL
      BY DEF CellSet, Empty
    <3>3. b # NULL
      BY NoNull
    <3>4. Held(queue, b) = {}
      BY <3>2, <3>3 DEF Held
    <3> QED BY <3>1, <3>4, FS_EmptySet
  <2>3. evts[b].refs = 0 /\ dropped[b] = 0
    BY DEF Unused
  <2> QED BY <2>1, <2>2, <2>3
<1>7. DelayHoldsLast
  <2> SUFFICES ASSUME NEW d \in Delays, NEW i \in 1..Length[d]
               PROVE  queue[d][(idx[d] + Length[d] - i) % Length[d]] =
                        IF i <= Len(heard[d]) THEN heard[d][Len(heard[d]) + 1 - i] ELSE NULL
    BY DEF DelayHoldsLast
  <2>1. queue[d] = Empty(d) /\ idx[d] = 0 /\ heard[d] = <<>>
    OBVIOUS
  <2> QED BY <1>1, <2>1, EmptyHoldsNothing
<1> QED BY <1>3, <1>4, <1>5, <1>6, <1>7, NoFrames DEF IInv

\* A call of slab_stim_childs goes on with its next child.
LEMMA Advanced ==
  ASSUME NEW stk \in Seq(FrameSet), stk # <<>>, Head(stk).rest # <<>>
  PROVE  LET top   == Head(stk)
             below == <<[top EXCEPT !.rest = Tail(@)]>> \o Tail(stk)
         IN  /\ below \in Seq(FrameSet)
             /\ top.evt \in Addresses /\ Head(top.rest) \in Slabs
             /\ \A b : FramesIn(below, b) = FramesIn(stk, b)
             /\ FramesIn(stk, top.evt) > 0
             /\ \A set : Within(stk, set) =>
                  Within(below, set) /\ Head(top.rest) \in set
<1> DEFINE top == Head(stk)
           t == Tail(stk)
           f == [top EXCEPT !.rest = Tail(@)]
<1>1. top \in FrameSet /\ t \in Seq(FrameSet) /\ stk = <<top>> \o t
      /\ \A b : FramesIn(stk, b) = FramesIn(t, b) + One(top.evt = b)
  BY FramesPop
<1>2. top.evt \in Addresses /\ top.rest \in Seq(Slabs) /\ top.rest # <<>>
      /\ top.slab \in Slabs
  BY <1>1 DEF FrameSet
<1>3. /\ Head(top.rest) \in Slabs /\ Tail(top.rest) \in Seq(Slabs)
      /\ Len(Tail(top.rest)) = Len(top.rest) - 1
      /\ \A j \in 1..Len(Tail(top.rest)) : Tail(top.rest)[j] = top.rest[j + 1]
      /\ Head(top.rest) = top.rest[1] /\ Len(top.rest) \in Nat \ {0}
  <2> DEFINE r == top.rest
  <2> HIDE DEF r
  <2>1. r \in Seq(Slabs) /\ r # <<>>
    BY <1>2 DEF r
  <2>2. Head(r) = r[1]
    BY <2>1
  <2>3. Len(r) \in Nat \ {0}
    BY <2>1
  <2>4. /\ Head(r) \in Slabs /\ Tail(r) \in Seq(Slabs)
        /\ Len(Tail(r)) = Len(r) - 1
        /\ \A j \in 1..Len(Tail(r)) : Tail(r)[j] = r[j + 1]
    BY <2>1, HeadTailProperties
  <2> QED BY <2>2, <2>3, <2>4 DEF r
<1>4. /\ f \in FrameSet /\ f.evt = top.evt /\ f.slab = top.slab
      /\ f.rest = Tail(top.rest)
  <2> HIDE DEF top
  <2> QED BY <1>1, <1>3 DEF FrameSet
<1> DEFINE below == <<f>> \o t
<1> HIDE DEF top, t, f
<1>5. below \in Seq(FrameSet)
      /\ \A b : FramesIn(below, b) = FramesIn(t, b) + One(f.evt = b)
  BY <1>1, <1>4, FramesPush
<1>6. \A b : FramesIn(below, b) = FramesIn(stk, b)
  BY <1>1, <1>4, <1>5
<1>7. FramesIn(stk, top.evt) > 0
  <2>1. FramesIn(t, top.evt) \in Nat /\ One(top.evt = top.evt) = 1
    BY <1>1, FramesType DEF One
  <2>2. FramesIn(stk, top.evt) = FramesIn(t, top.evt) + One(top.evt = top.evt)
    BY <1>1
  <2> QED BY <2>1, <2>2
<1>8. ASSUME NEW set, Within(stk, set)
      PROVE  Within(below, set) /\ Head(top.rest) \in set
  <2>1. /\ top.slab \in set /\ Within(t, set)
        /\ \A j \in 1..Len(top.rest) : top.rest[j] \in set
    <3>1. Within(<<top>> \o t, set)
      BY <1>1, <1>8
    <3> QED BY <1>1, <3>1, WithinPush
  <2>2. \A j \in 1..Len(f.rest) : f.rest[j] \in set
    <3> SUFFICES ASSUME NEW j \in 1..Len(f.rest) PROVE f.rest[j] \in set
      OBVIOUS
    <3>1. j + 1 \in 1..Len(top.rest) /\ f.rest[j] = top.rest[j + 1]
      BY <1>3, <1>4
    <3> QED BY <2>1, <3>1
  <2>3. Within(below, set)
    BY <1>1, <1>4, <2>1, <2>2, WithinPush
  <2>4. Head(top.rest) \in set
    BY <1>3, <2>1
  <2> QED BY <2>3, <2>4
<1> QED BY <1>2, <1>3, <1>5, <1>6, <1>7, <1>8 DEF top, t, f

\* The invariant, once more, for a step that leaves the calls to be made.
LEMMA StimChildKeeps ==
  ASSUME IInv, StimChild PROVE IInv'
<1> DEFINE top == Head(stack)
           a == top.evt
           s == Head(top.rest)
           below == <<[top EXCEPT !.rest = Tail(@)]>> \o Tail(stack)
           es == Acquired(evts, a)
<1>1. /\ stack \in Seq(FrameSet) /\ stack # <<>> /\ top.rest # <<>>
      /\ halted = FALSE /\ CellsOK /\ DelayHoldsLast
      /\ evts \in HeapSet /\ childs \in [Slabs -> Seq(Slabs)]
      /\ Process(s, a, es, below) /\ UNCHANGED graph
  BY DEF IInv, TypeOK, HeapSet, StimChild, Running
<1>2. /\ below \in Seq(FrameSet) /\ a \in Addresses /\ s \in Slabs
      /\ \A b : FramesIn(below, b) = FramesIn(stack, b)
      /\ FramesIn(stack, a) > 0
      /\ \A set : Within(stack, set) => Within(below, set) /\ s \in set
  BY <1>1, Advanced
<1> HIDE DEF top, a, s, below, es
<1>3. Accounts(evts, stack, queue, dropped, NULL)
  BY <1>1, HoldersCounted DEF IInv
<1>4. evts[a] # Unused
  <2>1. evts[a].refs = FramesIn(stack, a) + Cardinality(Held(queue, a)) + dropped[a] + 0
    BY <1>2, <1>3, NoNull DEF Accounts
  <2>2. evts[a].refs > 0
    BY <1>1, <1>2, <2>1, Numbers
  <2> QED BY <1>1, <1>2, <2>2, HeapElement
<1>5. es \in HeapSet /\ \A b \in Addresses : es[b].refs = evts[b].refs + One(b = a)
  BY <1>1, <1>2, <1>4, AcquiredHeap DEF es
<1>6. Accounts(es, below, queue, dropped, a)
  <2> SUFFICES ASSUME NEW b \in Addresses
               PROVE  es[b].refs = FramesIn(below, b) + Cardinality(Held(queue, b))
                                     + dropped[b] + One(b = a)
    BY DEF Accounts
  <2>1. evts[b].refs = FramesIn(stack, b) + Cardinality(Held(queue, b)) + dropped[b] + 0
    BY <1>3, NoNull DEF Accounts
  <2>2. es[b].refs = evts[b].refs + One(b = a) /\ FramesIn(below, b) = FramesIn(stack, b)
    BY <1>2, <1>5
  <2>3. /\ FramesIn(stack, b) \in Nat /\ dropped[b] \in Nat
        /\ Cardinality(Held(queue, b)) \in Nat
    BY <1>1, Numbers
  <2> QED BY <2>1, <2>2, <2>3
<1>7. Ready(s, a, es, below)
  BY <1>1, <1>2, <1>5, <1>6 DEF Ready
<1>8. Handled(s, below) \/ Fail
  BY <1>1, <1>7, ProcessHandles
<1>9. PICK set \in SUBSET alive : Closed(set) /\ Within(stack, set)
  BY DEF IInv, Walks
<1>10. s \in set /\ Within(below, set)
  BY <1>2, <1>9
<1> QED BY <1>1, <1>8, <1>9, <1>10, Called

LEMMA StimReturnKeeps ==
  ASSUME IInv, StimReturn PROVE IInv'
<1> DEFINE top == Head(stack)
           a == top.evt
           t == Tail(stack)
<1>1. /\ stack \in Seq(FrameSet) /\ stack # <<>> /\ halted = FALSE /\ CellsOK
      /\ evts \in HeapSet
      /\ evts' = Released(evts, a) /\ stack' = t
      /\ alive' = alive /\ childs' = childs /\ queue' = queue /\ idx' = idx
      /\ heard' = heard /\ dropped' = dropped /\ halted' = halted
  BY DEF IInv, TypeOK, HeapSet, StimReturn, Running, graph, hist
<1>2. /\ top \in FrameSet /\ t \in Seq(FrameSet) /\ stack = <<top>> \o t
      /\ \A b : FramesIn(stack, b) = FramesIn(t, b) + One(a = b)
  BY <1>1, FramesPop
<1>3. a \in Addresses
  BY <1>2 DEF FrameSet
<1> HIDE DEF top, a, t
<1>4. ASSUME NEW b \in Addresses
      PROVE  /\ evts[b].refs = FramesIn(t, b) + One(a = b)
                  + Cardinality(Held(queue, b)) + dropped[b]
             /\ FramesIn(t, b) \in Nat /\ dropped[b] \in Nat
             /\ Cardinality(Held(queue, b)) \in Nat
             /\ One(a = b) = One(b = a) /\ One(a = b) \in Nat
  <2>1. Accounts(evts, stack, queue, dropped, NULL)
    BY <1>1, HoldersCounted DEF IInv
  <2>2. evts[b].refs = FramesIn(stack, b) + Cardinality(Held(queue, b)) + dropped[b] + 0
    BY <2>1, NoNull DEF Accounts
  <2>3. FramesIn(stack, b) = FramesIn(t, b) + One(a = b)
    BY <1>2
  <2>4. One(a = b) = One(b = a) /\ One(a = b) \in Nat
    BY DEF One
  <2>5. /\ FramesIn(t, b) \in Nat /\ dropped[b] \in Nat
        /\ Cardinality(Held(queue, b)) \in Nat
    BY <1>1, <1>2, Numbers
  <2> QED BY <2>2, <2>3, <2>4, <2>5
<1>5. evts[a] # Unused
  <2>1. evts[a].refs > 0
    BY <1>3, <1>4 DEF One
  <2> QED BY <1>1, <1>3, <2>1, HeapElement
<1>6. evts' \in HeapSet /\ \A b \in Addresses : evts[b].refs = evts'[b].refs + One(b = a)
  BY <1>1, <1>3, <1>5, ReleasedHeap
<1>7. ASSUME NEW b \in Addresses
      PROVE  evts'[b].refs =
               FramesIn(stack', b) + Cardinality(Held(queue', b)) + dropped'[b]
  <2>1. evts'[b].refs \in Nat
    BY <1>6, HeapElement
  <2>2. evts[b].refs = evts'[b].refs + One(b = a)
    BY <1>6
  <2>3. FramesIn(stack', b) = FramesIn(t, b) /\ Held(queue', b) = Held(queue, b)
        /\ dropped'[b] = dropped[b]
    BY <1>1
  <2> QED BY <1>4, <2>1, <2>2, <2>3
<1>8. CellsOK' /\ DelayHoldsLast' /\ Vacant'
  BY <1>1 DEF IInv, CellsOK, QueueType, DelayHoldsLast, Vacant, Empty, Cells
<1>9. stack' \in Seq(FrameSet)
  BY <1>1, <1>2
<1>10. RefsAreHolders'
  BY <1>7, <1>8, <1>9, CountedHolders
<1>11. PICK set \in SUBSET alive : Closed(set) /\ Within(stack, set)
  BY DEF IInv, Walks
<1>12. Within(t, set)
  <2>1. Within(<<top>> \o t, set)
    BY <1>2, <1>11
  <2> QED BY <1>2, <2>1, WithinPush
<1>13. Walks'
  <2>1. Closed(set)'
    BY <1>1, <1>11 DEF Closed
  <2> QED BY <1>1, <1>12, <2>1 DEF Walks, Within
<1>14. TypeOK'
  <2>1. \A i \in 1..Len(stack') :
          /\ stack'[i].slab \in alive'
          /\ stack'[i].evt \in Addresses
          /\ stack'[i].rest \in Seq(Slabs)
    <3> SUFFICES ASSUME NEW i \in 1..Len(t)
                 PROVE  /\ t[i].slab \in alive /\ t[i].evt \in Addresses
                        /\ t[i].rest \in Seq(Slabs)
      BY <1>1
    <3>1. t[i] \in FrameSet
      BY <1>2, ElementOfSeq
    <3>2. t[i].slab \in set
      BY <1>12 DEF Within
    <3> QED BY <3>1, <3>2 DEF FrameSet
  <2>2. /\ alive' \subseteq Slabs /\ childs' \in [Slabs -> Seq(Slabs)]
        /\ evts' \in [Addresses -> [id : EventIds, refs : Nat \ {0}] \cup {Unused}]
        /\ halted' \in BOOLEAN
    BY <1>1, <1>6 DEF IInv, TypeOK, HeapSet
  <2> QED BY <1>8, <2>1, <2>2 DEF TypeOK, CellsOK, QueueType
<1> QED BY <1>8, <1>9, <1>10, <1>13, <1>14 DEF IInv

\* A slab and what is below it: no child leads out.
LEMMA BelowClosed ==
  ASSUME childs \in [Slabs -> Seq(Slabs)], NEW s \in Slabs
  PROVE  s \in Below(s) /\ Closed(Below(s))
<1>1. s \in Below(s)
  BY DEF Below
<1>2. ASSUME NEW p \in Below(s), NEW i \in 1..Len(childs[p])
      PROVE  childs[p][i] \in Below(s)
  <2>1. p \in Slabs
    BY DEF Below
  <2>2. childs[p][i] \in Slabs
    BY <2>1, ElementOfSeq
  <2>3. ASSUME NEW set \in SUBSET Slabs, s \in set, Closed(set)
        PROVE  childs[p][i] \in set
    BY <2>3 DEF Below, Closed
  <2> QED BY <2>2, <2>3 DEF Below
<1> QED BY <1>1, <1>2 DEF Closed

\* A new event for slab s, from outside.
LEMMA Started ==
  ASSUME IInv, Idle, FreeIn(evts) # {}, NEW s \in Slabs, NEW id \in EventIds
  PROVE  Ready(s, New(evts), Created(evts, id), <<>>)
<1> DEFINE a == New(evts)
           es == Created(evts, id)
<1>1. /\ stack = <<>> /\ halted = FALSE /\ CellsOK /\ DelayHoldsLast
      /\ evts \in HeapSet /\ childs \in [Slabs -> Seq(Slabs)]
      /\ stack \in Seq(FrameSet)
  BY DEF IInv, TypeOK, HeapSet, Idle
<1>2. /\ es \in HeapSet /\ a \in Addresses
      /\ \A b \in Addresses : es[b].refs = evts[b].refs + One(b = a)
  BY <1>1, CreatedHeap
<1> HIDE DEF a, es
<1>3. Accounts(es, <<>>, queue, dropped, a)
  <2> SUFFICES ASSUME NEW b \in Addresses
               PROVE  es[b].refs = FramesIn(<<>>, b) + Cardinality(Held(queue, b))
                                     + dropped[b] + One(b = a)
    BY DEF Accounts
  <2>1. Accounts(evts, stack, queue, dropped, NULL)
    BY <1>1, HoldersCounted DEF IInv
  <2>2. evts[b].refs = FramesIn(<<>>, b) + Cardinality(Held(queue, b)) + dropped[b] + 0
    BY <1>1, <2>1, NoNull DEF Accounts
  <2>3. /\ dropped[b] \in Nat /\ Cardinality(Held(queue, b)) \in Nat
        /\ FramesIn(<<>>, b) = 0
    BY <1>1, Numbers, NoFrames
  <2>4. es[b].refs = evts[b].refs + One(b = a)
    BY <1>2
  <2> QED BY <2>2, <2>3, <2>4
<1> QED BY <1>1, <1>2, <1>3, NoFrames DEF Ready, a, es

LEMMA SlabStimKeeps ==
  ASSUME IInv, NEW stimulus \in Stimuli, slab_stim(stimulus[1], stimulus[2])
  PROVE  IInv'
<1> DEFINE s == stimulus[1]
           id == stimulus[2]
<1>1. s \in Slabs /\ id \in EventIds
  BY GraphAssumption
<1> HIDE DEF s, id
<1>2. /\ Idle /\ Whole(s) /\ UNCHANGED graph
      /\ IF FreeIn(evts) = {} THEN Fail
         ELSE Process(s, New(evts), Created(evts, id), <<>>)
  BY DEF slab_stim, s, id
<1>3. /\ stack = <<>> /\ halted = FALSE /\ childs \in [Slabs -> Seq(Slabs)]
  BY <1>2 DEF IInv, TypeOK, Idle
<1>4. CASE FreeIn(evts) = {}
  BY <1>2, <1>4, FailKeeps
<1>5. CASE FreeIn(evts) # {}
  <2>1. Ready(s, New(evts), Created(evts, id), <<>>)
    BY <1>1, <1>2, <1>5, Started
  <2>2. Handled(s, <<>>) \/ Fail
    BY <1>2, <1>5, <2>1, ProcessHandles
  <2>3. s \in Below(s) /\ Closed(Below(s)) /\ Below(s) \in SUBSET alive
    BY <1>1, <1>2, <1>3, BelowClosed DEF Whole
  <2>4. Within(<<>>, Below(s))
    BY DEF Within
  <2> QED BY <1>2, <2>2, <2>3, <2>4, Called
<1> QED BY <1>4, <1>5

LEMMA WorkTickKeeps ==
  ASSUME IInv, NEW s \in Slabs, work_tick(s)
  PROVE  IInv'
<1>2. /\ Idle /\ Whole(s) /\ UNCHANGED graph
      /\ IF FreeIn(evts) = {} THEN Fail
         ELSE Forward(s, New(evts), Created(evts, "TICK"), <<>>)
  BY DEF work_tick
<1>3. /\ stack = <<>> /\ halted = FALSE /\ childs \in [Slabs -> Seq(Slabs)]
  BY <1>2 DEF IInv, TypeOK, Idle
<1>4. CASE FreeIn(evts) = {}
  BY <1>2, <1>4, FailKeeps
<1>5. CASE FreeIn(evts) # {}
  <2>1. Ready(s, New(evts), Created(evts, "TICK"), <<>>)
    BY <1>2, <1>5, Started DEF EventIds
  <2>2. Handled(s, <<>>)
    BY <1>2, <1>5, <2>1, ForwardHandles
  <2>3. s \in Below(s) /\ Closed(Below(s)) /\ Below(s) \in SUBSET alive
    BY <1>2, <1>3, BelowClosed DEF Whole
  <2>4. Within(<<>>, Below(s))
    BY DEF Within
  <2> QED BY <1>2, <2>2, <2>3, <2>4, Called
<1> QED BY <1>4, <1>5

LEMMA Regrouped ==
  ASSUME NEW r, NEW f \in Nat, NEW q \in Nat, NEW n \in Nat,
         NEW q1 \in Nat, NEW n1 \in Nat, r = f + q + n + 0, q1 + n1 = q + n
  PROVE  r = f + q1 + n1
OBVIOUS

\* Between the calls the graph is built: nothing is on the stack.
LEMMA BuildKeeps ==
  ASSUME IInv, Idle, alive' \subseteq Slabs, childs' \in [Slabs -> Seq(Slabs)],
         evts' = evts, stack' = stack, halted' = halted,
         CellsOK', Vacant', DelayHoldsLast',
         \A b \in Addresses : Cardinality(Held(queue', b)) + dropped'[b]
           = Cardinality(Held(queue, b)) + dropped[b]
  PROVE  IInv'
<1>1. /\ stack = <<>> /\ halted = FALSE /\ CellsOK /\ stack \in Seq(FrameSet)
      /\ stack' \in Seq(FrameSet)
  BY DEF IInv, Idle
<1>2. TypeOK'
  <2>1. \A i \in 1..Len(stack') : FALSE
    BY <1>1
  <2>2. /\ halted' \in BOOLEAN
        /\ evts' \in [Addresses -> [id : EventIds, refs : Nat \ {0}] \cup {Unused}]
    BY DEF IInv, TypeOK
  <2> QED BY <2>1, <2>2 DEF TypeOK, CellsOK, QueueType
<1>3. Walks'
  <2>1. Closed({})' /\ Within(stack', {}) /\ {} \in SUBSET alive'
    BY <1>1 DEF Closed, Within
  <2> QED BY <2>1 DEF Walks
<1>4. ASSUME NEW b \in Addresses
      PROVE  evts'[b].refs =
               FramesIn(stack', b) + Cardinality(Held(queue', b)) + dropped'[b]
  <2>1. Accounts(evts, stack, queue, dropped, NULL)
    BY <1>1, HoldersCounted DEF IInv
  <2>2. evts[b].refs = FramesIn(stack, b) + Cardinality(Held(queue, b)) + dropped[b] + 0
    BY <2>1, NoNull DEF Accounts
  <2>3. FramesIn(stack', b) = FramesIn(stack, b) /\ evts'[b] = evts[b]
    OBVIOUS
  <2>4. /\ FramesIn(stack, b) \in Nat /\ dropped[b] \in Nat
        /\ Cardinality(Held(queue, b)) \in Nat
    BY <1>1, Numbers
  <2>5. dropped'[b] \in Nat /\ Cardinality(Held(queue', b)) \in Nat
    BY HeldFinite DEF CellsOK
  <2>6. Cardinality(Held(queue', b)) + dropped'[b]
          = Cardinality(Held(queue, b)) + dropped[b]
    OBVIOUS
  <2> DEFINE r == evts[b].refs
             f == FramesIn(stack, b)
             q == Cardinality(Held(queue, b))
             q1 == Cardinality(Held(queue', b))
             n == dropped[b]
             n1 == dropped'[b]
  <2>7. r = f + q + n + 0 /\ q1 + n1 = q + n
    BY <2>2, <2>6
  <2>8. f \in Nat /\ q \in Nat /\ q1 \in Nat /\ n \in Nat /\ n1 \in Nat
    BY <2>4, <2>5
  <2> HIDE DEF r, f, q, q1, n, n1
  <2>9. r = f + q1 + n1
    BY <2>7, <2>8, Regrouped
  <2> QED BY <2>3, <2>9 DEF r, f, q1, n1
<1>5. RefsAreHolders'
  BY <1>1, <1>4, CountedHolders
<1> QED BY <1>1, <1>2, <1>3, <1>5 DEF IInv

LEMMA SlabCreateKeeps ==
  ASSUME IInv, NEW s \in Slabs, slab_create(s)
  PROVE  IInv'
<1>1. /\ Idle /\ s \notin alive /\ alive' = alive \cup {s}
      /\ childs' = [childs EXCEPT ![s] = <<>>]
      /\ queue' = [d \in Delays |-> IF d = s THEN Empty(d) ELSE queue[d]]
      /\ idx' = [d \in Delays |-> IF d = s THEN 0 ELSE idx[d]]
      /\ heard' = [d \in Delays |-> IF d = s THEN <<>> ELSE heard[d]]
      /\ evts' = evts /\ stack' = stack /\ halted' = halted /\ dropped' = dropped
  BY DEF slab_create
<1>2. /\ CellsOK /\ Vacant /\ DelayHoldsLast
      /\ alive \subseteq Slabs /\ childs \in [Slabs -> Seq(Slabs)]
  BY DEF IInv, TypeOK
<1>3. \A d \in Delays : queue'[d] = queue[d]
  BY <1>1, <1>2 DEF Vacant
<1>4. \A d \in Delays : 0 \in Cells(d) /\ Length[d] \in Nat \ {0}
  BY GraphAssumption DEF Cells
<1>5. CellsOK'
  <2>1. QueueType(queue')
    BY <1>1, <1>2, <1>3 DEF CellsOK, QueueType
  <2>2. DOMAIN idx' = Delays /\ \A d \in Delays : idx'[d] \in Cells(d)
    BY <1>1, <1>2, <1>4 DEF CellsOK
  <2>3. /\ DOMAIN heard' = Delays
        /\ \A d \in Delays : heard'[d] \in Seq(Addresses) /\ Len(heard'[d]) <= Length[d]
    BY <1>1, <1>2, <1>4 DEF CellsOK
  <2> QED BY <1>1, <1>2, <2>1, <2>2, <2>3 DEF CellsOK
<1>6. Vacant'
  BY <1>1, <1>2, <1>3 DEF Vacant, Empty
<1>7. DelayHoldsLast'
  <2> SUFFICES ASSUME NEW d \in Delays, NEW i \in 1..Length[d]
               PROVE  queue'[d][(idx'[d] + Length[d] - i) % Length[d]] =
                        IF i <= Len(heard'[d]) THEN heard'[d][Len(heard'[d]) + 1 - i]
                                               ELSE NULL
    BY DEF DelayHoldsLast
  <2>1. CASE d = s
    <3>1. queue'[d] = Empty(d) /\ idx'[d] = 0 /\ heard'[d] = <<>>
      BY <1>1, <2>1
    <3> QED BY <1>4, <3>1, EmptyHoldsNothing
  <2>2. CASE d # s
    <3>1. queue'[d] = queue[d] /\ idx'[d] = idx[d] /\ heard'[d] = heard[d]
      BY <1>1, <2>2
    <3> QED BY <1>2, <3>1 DEF DelayHoldsLast
  <2> QED BY <2>1, <2>2
<1>8. alive' \subseteq Slabs /\ childs' \in [Slabs -> Seq(Slabs)]
  BY <1>1, <1>2
<1>9. \A b \in Addresses : Cardinality(Held(queue', b)) + dropped'[b]
        = Cardinality(Held(queue, b)) + dropped[b]
  <2>1. \A b : Held(queue', b) = Held(queue, b)
    BY <1>3, HeldSame
  <2> QED BY <1>1, <2>1
<1> QED BY <1>1, <1>5, <1>6, <1>7, <1>8, <1>9, BuildKeeps

LEMMA SlabDestroyKeeps ==
  ASSUME IInv, NEW s \in Slabs, slab_destroy(s)
  PROVE  IInv'
<1>1. /\ Idle /\ alive' = alive \ {s}
      /\ childs' = [childs EXCEPT ![s] = <<>>]
      /\ dropped' = IF s \in Delays THEN DroppedBy(s) ELSE dropped
      /\ queue' = [d \in Delays |-> IF d = s THEN Empty(d) ELSE queue[d]]
      /\ heard' = [d \in Delays |-> IF d = s THEN <<>> ELSE heard[d]]
      /\ evts' = evts /\ stack' = stack /\ halted' = halted /\ idx' = idx
  BY DEF slab_destroy
<1>2. /\ CellsOK /\ Vacant /\ DelayHoldsLast
      /\ alive \subseteq Slabs /\ childs \in [Slabs -> Seq(Slabs)]
  BY DEF IInv, TypeOK
<1>3. \A d \in Delays : Empty(d) \in [Cells(d) -> Addresses \cup {NULL}]
  BY DEF Empty
<1>4. QueueType(queue)'
  BY <1>1, <1>2, <1>3 DEF CellsOK, QueueType
<1>5. /\ dropped' \in [Addresses -> Nat]
      /\ \A b \in Addresses : Cardinality(Held(queue', b)) + dropped'[b]
           = Cardinality(Held(queue, b)) + dropped[b]
  <2>1. CASE s \in Delays
    <3>1. /\ queue'[s] = Empty(s) /\ dropped' = DroppedBy(s)
          /\ \A e \in Delays \ {s} : queue'[e] = queue[e]
      BY <1>1, <2>1
    <3> QED BY <1>2, <1>4, <2>1, <3>1, GivenUp
  <2>2. CASE s \notin Delays
    <3>1. \A d \in Delays : queue'[d] = queue[d]
      BY <1>1, <2>2
    <3>2. \A b : Held(queue', b) = Held(queue, b)
      BY <3>1, HeldSame
    <3> QED BY <1>1, <1>2, <2>2, <3>2 DEF CellsOK
  <2> QED BY <2>1, <2>2
<1>6. CellsOK'
  <2>1. \A d \in Delays : Length[d] \in Nat
    BY GraphAssumption
  <2>2. /\ DOMAIN heard' = Delays
        /\ \A d \in Delays : heard'[d] \in Seq(Addresses) /\ Len(heard'[d]) <= Length[d]
    BY <1>1, <1>2, <2>1 DEF CellsOK
  <2>3. DOMAIN idx' = Delays /\ \A d \in Delays : idx'[d] \in Cells(d)
    BY <1>1, <1>2 DEF CellsOK
  <2> QED BY <1>4, <1>5, <2>2, <2>3 DEF CellsOK
<1>7. Vacant'
  BY <1>1, <1>2 DEF Vacant, Empty
<1>8. DelayHoldsLast'
  <2> SUFFICES ASSUME NEW d \in Delays, NEW i \in 1..Length[d]
               PROVE  queue'[d][(idx'[d] + Length[d] - i) % Length[d]] =
                        IF i <= Len(heard'[d]) THEN heard'[d][Len(heard'[d]) + 1 - i]
                                               ELSE NULL
    BY DEF DelayHoldsLast
  <2>1. CASE d = s
    <3>1. queue'[d] = Empty(d) /\ heard'[d] = <<>> /\ idx'[d] \in Cells(d)
      BY <1>1, <1>2, <2>1 DEF CellsOK
    <3> QED BY <3>1, EmptyHoldsNothing
  <2>2. CASE d # s
    <3>1. queue'[d] = queue[d] /\ idx'[d] = idx[d] /\ heard'[d] = heard[d]
      BY <1>1, <2>2
    <3> QED BY <1>2, <3>1 DEF DelayHoldsLast
  <2> QED BY <2>1, <2>2
<1>9. alive' \subseteq Slabs /\ childs' \in [Slabs -> Seq(Slabs)]
  BY <1>1, <1>2
<1> QED BY <1>1, <1>5, <1>6, <1>7, <1>8, <1>9, BuildKeeps

\* A connection is made or taken away.
LEMMA ListKeeps ==
  ASSUME IInv, Idle, childs' \in [Slabs -> Seq(Slabs)],
         UNCHANGED <<alive, evts, queue, idx, stack, halted, hist>>
  PROVE  IInv'
<1>1. /\ alive' = alive /\ evts' = evts /\ queue' = queue /\ idx' = idx
      /\ stack' = stack /\ halted' = halted /\ heard' = heard /\ dropped' = dropped
  BY DEF hist
<1>2. CellsOK' /\ Vacant' /\ DelayHoldsLast'
  BY <1>1 DEF IInv, CellsOK, QueueType, Vacant, DelayHoldsLast, Empty
<1>3. alive' \subseteq Slabs
  BY <1>1 DEF IInv, TypeOK
<1> QED BY <1>1, <1>2, <1>3, BuildKeeps

LEMMA ConnectKeeps ==
  ASSUME IInv, NEW e \in Edges,
         slab_connect(e[2], e[1]) \/ slab_disconnect(e[2], e[1])
  PROVE  IInv'
<1>1. e[1] \in Slabs /\ e[2] \in Slabs /\ childs \in [Slabs -> Seq(Slabs)]
  BY GraphAssumption DEF IInv, TypeOK
<1> DEFINE p == e[1]
           child == e[2]
<1> HIDE DEF p, child
<1>2. p \in Slabs /\ child \in Slabs
  BY <1>1 DEF p, child
<1>3. CASE slab_connect(child, p)
  <2>1. /\ Idle /\ childs' = [childs EXCEPT ![p] = Append(@, child)]
        /\ UNCHANGED <<alive, evts, queue, idx, stack, halted, hist>>
    BY <1>3 DEF slab_connect
  <2>2. Append(childs[p], child) \in Seq(Slabs)
    BY <1>1, <1>2
  <2>3. childs' \in [Slabs -> Seq(Slabs)]
    BY <1>1, <1>2, <2>1, <2>2
  <2> QED BY <2>1, <2>3, ListKeeps
<1>4. CASE slab_disconnect(child, p)
  <2>1. /\ Idle
        /\ UNCHANGED <<alive, evts, queue, idx, stack, halted, hist>>
    BY <1>4 DEF slab_disconnect
  <2>2. PICK i \in 1..Len(childs[p]) : childs' = [childs EXCEPT ![p] = RemoveAt(@, i)]
    BY <1>4 DEF slab_disconnect
  <2>3. RemoveAt(childs[p], i) \in Seq(Slabs)
    <3> DEFINE list == childs[p]
    <3>1. list \in Seq(Slabs)
      BY <1>1, <1>2
    <3> HIDE DEF list
    <3>2. i \in 1..Len(list) /\ Len(list) \in Nat
      BY <3>1 DEF list
    <3>3. SubSeq(list, 1, i - 1) \in Seq(Slabs)
      <4>1. \A j \in 1..(i - 1) : list[j] \in Slabs
        BY <3>1, <3>2
      <4>2. i - 1 \in Int
        BY <3>2
      <4> QED BY <4>1, <4>2, SubSeqProperties
    <3>4. SubSeq(list, i + 1, Len(list)) \in Seq(Slabs)
      <4>1. \A j \in (i + 1)..Len(list) : list[j] \in Slabs
        BY <3>1, <3>2
      <4>2. i + 1 \in Int /\ Len(list) \in Int
        BY <3>2
      <4> QED BY <4>1, <4>2, SubSeqProperties
    <3> QED BY <3>3, <3>4, ConcatProperties DEF RemoveAt, list
  <2>4. childs' \in [Slabs -> Seq(Slabs)]
    BY <1>1, <1>2, <2>2, <2>3
  <2> QED BY <2>1, <2>4, ListKeeps
<1> QED BY <1>3, <1>4 DEF p, child
LEMMA StepKeeps == IInv /\ [Next]_vars => IInv'
<1> SUFFICES ASSUME IInv, [Next]_vars PROVE IInv'
  OBVIOUS
<1>1. ASSUME NEW s \in Slabs, slab_create(s) PROVE IInv'
  BY <1>1, SlabCreateKeeps
<1>2. ASSUME NEW s \in Slabs, slab_destroy(s) PROVE IInv'
  BY <1>2, SlabDestroyKeeps
<1>3. ASSUME NEW s \in Slabs, work_tick(s) PROVE IInv'
  BY <1>3, WorkTickKeeps
<1>4. ASSUME NEW e \in Edges,
             slab_connect(e[2], e[1]) \/ slab_disconnect(e[2], e[1])
      PROVE  IInv'
  BY <1>4, ConnectKeeps
<1>5. ASSUME NEW stimulus \in Stimuli, slab_stim(stimulus[1], stimulus[2])
      PROVE  IInv'
  BY <1>5, SlabStimKeeps
<1>6. CASE StimChild
  BY <1>6, StimChildKeeps
<1>7. CASE StimReturn
  BY <1>7, StimReturnKeeps
<1>8. CASE UNCHANGED vars
  <2>1. /\ alive' = alive /\ childs' = childs /\ evts' = evts /\ queue' = queue
        /\ idx' = idx /\ stack' = stack /\ halted' = halted /\ heard' = heard
        /\ dropped' = dropped
    BY <1>8 DEF vars
  <2>2. TypeOK'
    BY <2>1 DEF IInv, TypeOK
  <2>3. CellsOK' /\ stack' \in Seq(FrameSet) /\ Vacant'
    BY <2>1 DEF IInv, CellsOK, QueueType, Vacant
  <2>4. Walks'
    BY <2>1 DEF IInv, Walks, Within, Closed
  <2>5. RefsAreHolders'
    BY <2>1 DEF IInv, RefsAreHolders, FramesOf, CellsOf
  <2>6. DelayHoldsLast'
    BY <2>1 DEF IInv, DelayHoldsLast
  <2> QED BY <2>6, <2>2, <2>3, <2>4, <2>5 DEF IInv
<1> QED BY <1>1, <1>2, <1>3, <1>4, <1>5, <1>6, <1>7, <1>8 DEF Next

\* The invariant holds in every behaviour of the graph.
THEOREM Invariance == Spec => []IInv
<1>1. Init => IInv
  BY Initially
<1>2. IInv /\ [Next]_vars => IInv'
  BY StepKeeps
<1> QED BY <1>1, <1>2, PTL DEF Spec

\* Every variable has its type: the calls in progress are about slabs that
\* exist and events of the heap, whatever the graph looks like.
THEOREM TypeCorrect == Spec => []TypeOK
<1>1. IInv => TypeOK
  BY DEF IInv
<1> QED BY <1>1, Invariance, PTL

\* slab_event.c, slab_stim_childs, process_delay and their callers: an event
\* has as many references as calls and cells hold it (and as cleared delays
\* gave up), in any graph.  So it is freed when, and only when, the last
\* holder lets it go.
THEOREM RefsCorrect == Spec => []RefsAreHolders
<1>1. IInv => RefsAreHolders
  BY DEF IInv
<1> QED BY <1>1, Invariance, PTL

\* process_delay: the ring of a delay holds the last events it was given,
\* in their order, for every length.
THEOREM DelayCorrect == Spec => []DelayHoldsLast
<1>1. IInv => DelayHoldsLast
  BY DEF IInv
<1> QED BY <1>1, Invariance, PTL

-----------------------------------------------------------------------------
(***************************************************************************)
(* A reset gets everywhere.                                                *)
(***************************************************************************)
Calls(stk) == {stk[i] : i \in 1..Len(stk)}

LEMMA CallsPush ==
  ASSUME NEW stk \in Seq(FrameSet), NEW f \in FrameSet
  PROVE  Calls(<<f>> \o stk) = {f} \cup Calls(stk)
<1> DEFINE more == <<f>> \o stk
<1>1. /\ Len(more) = Len(stk) + 1 /\ Len(stk) \in Nat /\ more[1] = f
      /\ \A i \in 1..Len(stk) : more[i + 1] = stk[i]
  OBVIOUS
<1> HIDE DEF more
<1>2. ASSUME NEW i \in 1..Len(more) PROVE more[i] \in {f} \cup Calls(stk)
  <2>1. CASE i = 1
    BY <1>1, <2>1
  <2>2. CASE i # 1
    <3>1. i - 1 \in 1..Len(stk) /\ (i - 1) + 1 = i
      BY <1>1, <2>2
    <3>2. more[i] = stk[i - 1]
      BY <1>1, <3>1
    <3> QED BY <3>1, <3>2 DEF Calls
  <2> QED BY <2>1, <2>2
<1>3. f \in Calls(more)
  <2>1. 1 \in 1..Len(more)
    BY <1>1
  <2> QED BY <1>1, <2>1 DEF Calls
<1>4. ASSUME NEW i \in 1..Len(stk) PROVE stk[i] \in Calls(more)
  <2>1. i + 1 \in 1..Len(more) /\ more[i + 1] = stk[i]
    BY <1>1
  <2> QED BY <2>1 DEF Calls
<1>5. Calls(more) = {f} \cup Calls(stk)
  BY <1>2, <1>3, <1>4 DEF Calls
<1> QED BY <1>5 DEF more

\* The slabs that a call has still to stimulate.
Rest(f) == {f.rest[j] : j \in 1..Len(f.rest)}

LEMMA AheadCalls ==
  ASSUME NEW stk, NEW d
  PROVE  Ahead(stk, d) <=> \E f \in Calls(stk) : \E c \in Rest(f) : d \in Below(c)
BY DEF Ahead, Calls, Rest

LEMMA CallsCounted ==
  ASSUME NEW stk \in Seq(FrameSet), NEW f \in Calls(stk)
  PROVE  f \in FrameSet /\ FramesIn(stk, f.evt) # 0
<1> PICK i \in 1..Len(stk) : f = stk[i]
  BY DEF Calls
<1>1. f \in FrameSet
  BY ElementOfSeq
<1>2. {k \in 1..Len(stk) : stk[k].evt = f.evt} # {}
  OBVIOUS
<1>3. IsFiniteSet({k \in 1..Len(stk) : stk[k].evt = f.evt})
  BY FramesType
<1> QED BY <1>1, <1>2, <1>3, FS_EmptySet DEF FramesIn

\* What is below a slab is the slab or below one of its children.
LEMMA BelowChildren ==
  ASSUME childs \in [Slabs -> Seq(Slabs)], NEW s \in Slabs, NEW a,
         NEW d \in Below(s), d # s
  PROVE  \E c \in Rest(Frame(s, a)) : d \in Below(c)
<1> DEFINE kids == Rest(Frame(s, a))
           set == {s} \cup UNION {Below(c) : c \in kids}
<1>1. kids = {childs[s][j] : j \in 1..Len(childs[s])}
  BY DEF Rest, Frame
<1>2. \A c \in kids : c \in Slabs
  BY <1>1, ElementOfSeq
<1> HIDE DEF kids
<1>3. \A c \in kids : c \in Below(c) /\ Closed(Below(c))
  BY <1>2, BelowClosed
<1>4. Closed(set)
  <2> SUFFICES ASSUME NEW p \in set, NEW j \in 1..Len(childs[p])
               PROVE  childs[p][j] \in set
    BY DEF Closed
  <2>1. CASE p = s
    <3>1. childs[p][j] \in kids
      BY <1>1, <2>1
    <3> QED BY <1>3, <3>1
  <2>2. CASE p # s
    <3>1. PICK c \in kids : p \in Below(c)
      BY <2>2
    <3>2. childs[p][j] \in Below(c)
      BY <1>3, <3>1 DEF Closed
    <3> QED BY <3>2
  <2> QED BY <2>1, <2>2
<1>5. set \in SUBSET Slabs /\ s \in set
  BY DEF Below
<1>6. d \in set
  BY <1>4, <1>5 DEF Below
<1> QED BY <1>6 DEF kids

\* A reset that slab s is given goes on to its children, and is emptied out
\* of it when it is a delay.
LEMMA ResetProcessed ==
  ASSUME NEW s \in Slabs, NEW a, NEW es, NEW below, es[a].id = "RESET",
         Process(s, a, es, below), DOMAIN queue = Delays
  PROVE  /\ evts' = es /\ halted' = halted
         /\ stack' = <<Frame(s, a)>> \o below
         /\ s \in Delays => queue'[s] = Empty(s)
         /\ \A d \in Delays \ {s} : queue'[d] = queue[d]
<1>1. CASE TypeOf[s] = "DELAY"
  <2>1. Clear(s, a, es, below)
    BY <1>1 DEF Process
  <2> QED BY <2>1 DEF Clear
<1>2. CASE TypeOf[s] # "DELAY"
  <2>1. Forward(s, a, es, below)
    BY <1>2 DEF Process
  <2> QED BY <1>2, <2>1 DEF Forward, Delays
<1> QED BY <1>1, <1>2

\* The delays of a set are empty, or ahead of the calls of stk.
Reached(q, stk, set) == \A d \in Delays \cap set : q[d] = Empty(d) \/ Ahead(stk, d)
AllReset(es, stk) == \A f \in Calls(stk) : es[f.evt].id = "RESET"

LEMMA ResetSplit ==
  ResetOnItsWay <=>
    (stack # <<>> /\ ~halted /\ last[2] = "RESET" =>
       AllReset(evts, stack) /\ Reached(queue, stack, Below(last[1])))
BY DEF ResetOnItsWay, AllReset, Calls, Reached

LEMMA ResetAfter ==
  ASSUME childs' = childs, AllReset(evts', stack'),
         Reached(queue', stack', Below(last'[1]))
  PROVE  ResetOnItsWay'
<1>2. Below(last[1])' = Below(last'[1])
  BY DEF Below, Closed
<1>3. \A i \in 1..Len(stack') : evts'[stack'[i].evt].id = "RESET"
  BY DEF AllReset, Calls
<1>4. ASSUME NEW d \in Delays, d \in Below(last[1])'
      PROVE  (queue[d] = Empty(d) \/ Ahead(stack, d))'
  <2>1. d \in Below(last'[1])
    BY <1>4, <1>2
  <2>2. queue'[d] = Empty(d) \/ Ahead(stack', d)
    BY <2>1 DEF Reached
  <2>3. Ahead(stack', d) => Ahead(stack, d)'
    BY DEF Ahead, Below, Closed
  <2> QED BY <2>2, <2>3 DEF Empty
<1> QED BY <1>3, <1>4 DEF ResetOnItsWay

\* Nothing to be shown where no call is left, or one has failed, or the call
\* is about another event.
LEMMA ResetNotAbout ==
  stack' = <<>> \/ halted' = TRUE \/ last'[2] # "RESET" => ResetOnItsWay'
BY DEF ResetOnItsWay

LEMMA ResetStimChild ==
  ASSUME IInv, ResetOnItsWay, StimChild
  PROVE  ResetOnItsWay' /\ (last[2] = "RESET" => stack' # <<>>)
<1> DEFINE top == Head(stack)
           t == Tail(stack)
           a == top.evt
           s == Head(top.rest)
           f == [top EXCEPT !.rest = Tail(@)]
           below == <<f>> \o t
           es == Acquired(evts, a)
           set == Below(last[1])
<1>1. /\ stack \in Seq(FrameSet) /\ stack # <<>> /\ top.rest # <<>>
      /\ halted = FALSE /\ CellsOK
      /\ evts \in HeapSet /\ childs \in [Slabs -> Seq(Slabs)]
      /\ Process(s, a, es, below) /\ childs' = childs /\ last' = last
  BY DEF IInv, TypeOK, HeapSet, StimChild, Running, graph
<1> SUFFICES ASSUME last[2] = "RESET" PROVE ResetOnItsWay' /\ stack' # <<>>
  BY <1>1, ResetNotAbout
<1>2. AllReset(evts, stack) /\ Reached(queue, stack, set)
  BY <1>1, ResetSplit
<1>3. /\ top \in FrameSet /\ t \in Seq(FrameSet) /\ stack = <<top>> \o t
  BY <1>1, FramesPop
<1>4. /\ below \in Seq(FrameSet) /\ a \in Addresses /\ s \in Slabs
  BY <1>1, Advanced
<1>5. /\ f \in FrameSet /\ f.evt = a
      /\ Rest(top) = {s} \cup Rest(f)
  <2> DEFINE r == top.rest
  <2>1. r \in Seq(Slabs) /\ r # <<>> /\ top \in FrameSet
    BY <1>1, <1>3 DEF FrameSet
  <2>2. f.rest = Tail(r) /\ f.evt = a /\ s = Head(r)
    BY <2>1 DEF FrameSet
  <2> HIDE DEF r
  <2>3. /\ Tail(r) \in Seq(Slabs) /\ Len(Tail(r)) = Len(r) - 1
        /\ \A j \in 1..Len(Tail(r)) : Tail(r)[j] = r[j + 1]
        /\ Len(r) \in Nat \ {0}
    <3>1. Len(r) \in Nat \ {0}
      BY <2>1
    <3> QED BY <2>1, <3>1, HeadTailProperties
  <2>4. Head(r) = r[1]
    BY <2>1
  <2>5. f \in FrameSet
    BY <2>1, <2>3 DEF r, FrameSet
  <2>6. {r[j] : j \in 1..Len(r)} = {r[1]} \cup {Tail(r)[j] : j \in 1..Len(Tail(r))}
    <3>1. ASSUME NEW j \in 1..Len(r), j # 1
          PROVE  j - 1 \in 1..Len(Tail(r)) /\ Tail(r)[j - 1] = r[j]
      <4>1. j - 1 \in 1..Len(Tail(r)) /\ (j - 1) + 1 = j
        BY <2>3, <3>1
      <4> QED BY <2>3, <4>1
    <3>2. \A j \in 1..Len(Tail(r)) : j + 1 \in 1..Len(r) /\ Tail(r)[j] = r[j + 1]
      BY <2>3
    <3>3. 1 \in 1..Len(r)
      BY <2>3
    <3> QED BY <3>1, <3>2, <3>3
  <2> QED BY <2>2, <2>4, <2>5, <2>6 DEF Rest, r
<1>6. Calls(stack) = {top} \cup Calls(t) /\ Calls(below) = {f} \cup Calls(t)
  <2>1. Calls(<<top>> \o t) = {top} \cup Calls(t)
    BY <1>3, CallsPush
  <2>2. Calls(stack) = {top} \cup Calls(t)
    BY <1>3, <2>1
  <2> QED BY <1>3, <1>5, <2>2, CallsPush
<1> HIDE DEF top, t, s, f, below, es, set, a
<1>7. evts[a].id = "RESET" /\ a = top.evt
  BY <1>2, <1>6 DEF AllReset, a
<1>8. \A b \in Addresses : es[b].id = evts[b].id
  <2>1. evts[a] # Unused
    <3>1. "RESET" # "none"
      OBVIOUS
    <3> QED BY <1>7, <3>1 DEF Unused
  <2> QED BY <1>1, <1>4, <2>1, AcquiredHeap DEF es
<1>9. /\ evts' = es /\ halted' = halted
      /\ stack' = <<Frame(s, a)>> \o below
      /\ s \in Delays => queue'[s] = Empty(s)
      /\ \A d \in Delays \ {s} : queue'[d] = queue[d]
  <2>1. es[a].id = "RESET"
    BY <1>4, <1>7, <1>8
  <2>2. DOMAIN queue = Delays
    BY <1>1 DEF CellsOK, QueueType
  <2> QED BY <1>1, <1>4, <2>1, <2>2, ResetProcessed
<1>10. Frame(s, a) \in FrameSet /\ Frame(s, a).evt = a
  BY <1>1, <1>4, Pushed DEF Frame
<1>11. Calls(stack') = {Frame(s, a), f} \cup Calls(t)
  <2>1. Calls(<<Frame(s, a)>> \o below) = {Frame(s, a)} \cup Calls(below)
    BY <1>4, <1>10, CallsPush
  <2>2. Calls(stack') = {Frame(s, a)} \cup Calls(below)
    BY <1>9, <2>1
  <2> QED BY <1>6, <2>2
<1>12. AllReset(evts', stack')
  <2>1. ASSUME NEW c \in Calls(t) PROVE es[c.evt].id = "RESET"
    <3>1. c \in Calls(stack)
      BY <1>6
    <3>2. c.evt \in Addresses /\ evts[c.evt].id = "RESET"
      BY <1>1, <1>2, <3>1, CallsCounted DEF AllReset, FrameSet
    <3> QED BY <1>8, <3>2
  <2>2. es[a].id = "RESET"
    BY <1>4, <1>7, <1>8
  <2> QED BY <1>5, <1>9, <1>10, <1>11, <2>1, <2>2 DEF AllReset
<1>13. Reached(queue', stack', set)
  <2> SUFFICES ASSUME NEW d \in Delays, d \in set
               PROVE  queue'[d] = Empty(d) \/ Ahead(stack', d)
    BY DEF Reached
  <2>1. CASE d = s
    BY <1>9, <2>1
  <2>2. CASE d # s /\ queue[d] = Empty(d)
    BY <1>9, <2>2
  <2>3. CASE d # s /\ Ahead(stack, d)
    <3>1. PICK g \in Calls(stack) : \E c \in Rest(g) : d \in Below(c)
      BY <2>3, AheadCalls
    <3>2. PICK c \in Rest(g) : d \in Below(c)
      BY <3>1
    <3>3. CASE g \in Calls(t)
      BY <1>11, <3>2, <3>3, AheadCalls
    <3>4. CASE g = top /\ c \in Rest(f)
      BY <1>11, <3>2, <3>4, AheadCalls
    <3>5. CASE g = top /\ c = s
      <4>1. \E k \in Rest(Frame(s, a)) : d \in Below(k)
        BY <1>1, <1>4, <2>3, <3>2, <3>5, BelowChildren
      <4> QED BY <1>11, <4>1, AheadCalls
    <3> QED BY <1>5, <1>6, <3>1, <3>2, <3>3, <3>4, <3>5
  <2> QED BY <1>2, <2>1, <2>2, <2>3 DEF Reached
<1>14. set = Below(last'[1])
  BY <1>1 DEF set
<1>15. stack' # <<>>
  <2>1. Calls(<<>>) = {}
    BY DEF Calls
  <2> QED BY <1>11, <2>1
<1> QED BY <1>1, <1>12, <1>13, <1>14, <1>15, ResetAfter

LEMMA ResetStimReturn ==
  ASSUME IInv, ResetOnItsWay, StimReturn, IInv'
  PROVE  /\ ResetOnItsWay'
         /\ stack' = <<>> /\ last[2] = "RESET" =>
              \A d \in Delays \cap Below(last[1]) : queue'[d] = Empty(d)
<1> DEFINE top == Head(stack)
           t == Tail(stack)
           a == top.evt
           set == Below(last[1])
<1>1. /\ stack \in Seq(FrameSet) /\ stack # <<>> /\ top.rest = <<>>
      /\ halted = FALSE /\ halted' = FALSE /\ CellsOK /\ evts \in HeapSet
      /\ evts' = Released(evts, a) /\ stack' = t /\ queue' = queue
      /\ childs' = childs /\ last' = last
  BY DEF IInv, TypeOK, HeapSet, StimReturn, Running, graph, hist
<1>2. /\ top \in FrameSet /\ t \in Seq(FrameSet) /\ stack = <<top>> \o t
  BY <1>1, FramesPop
<1>3. Calls(stack) = {top} \cup Calls(t) /\ a \in Addresses
  <2>1. Calls(<<top>> \o t) = {top} \cup Calls(t)
    BY <1>2, CallsPush
  <2> QED BY <1>2, <2>1 DEF FrameSet
<1>4. Rest(top) = {}
  BY <1>1 DEF Rest
<1> HIDE DEF top, t, a, set
<1>5. CASE last[2] # "RESET"
  BY <1>1, <1>5, ResetNotAbout
<1>6. CASE last[2] = "RESET"
  <2>1. AllReset(evts, stack) /\ Reached(queue, stack, set)
    BY <1>1, <1>6, ResetSplit DEF set
  <2>2. Reached(queue', stack', set)
    <3> SUFFICES ASSUME NEW d \in Delays, d \in set, Ahead(stack, d)
                 PROVE  Ahead(t, d)
      BY <1>1, <2>1 DEF Reached
    <3> QED BY <1>3, <1>4, AheadCalls
  <2>3. AllReset(evts', stack')
    <3> SUFFICES ASSUME NEW f \in Calls(t) PROVE evts'[f.evt].id = "RESET"
      BY <1>1 DEF AllReset
    <3>1. f.evt \in Addresses /\ FramesIn(t, f.evt) # 0
      BY <1>2, CallsCounted DEF FrameSet
    <3>2. evts'[f.evt].refs # 0
      <4>1. evts'[f.evt].refs = FramesOf(f.evt)' + CellsOf(f.evt)' + dropped'[f.evt]
        BY <1>1, <3>1 DEF IInv, RefsAreHolders
      <4>2. FramesOf(f.evt)' = FramesIn(t, f.evt)
            /\ CellsOf(f.evt)' = Cardinality(Held(queue', f.evt))
        BY <1>1 DEF FramesOf, FramesIn, CellsOf, Held, CellSet
      <4>3. /\ FramesIn(t, f.evt) \in Nat /\ Cardinality(Held(queue', f.evt)) \in Nat
            /\ dropped'[f.evt] \in Nat
        BY <1>2, <3>1, FramesType, HeldFinite DEF IInv, CellsOK
      <4> QED BY <3>1, <4>1, <4>2, <4>3
    <3>3. evts'[f.evt] # Unused
      BY <3>2 DEF Unused
    <3>4. evts[a] # Unused
      <4>1. evts[top.evt].id = "RESET"
        BY <1>3, <2>1 DEF AllReset
      <4> QED BY <4>1 DEF Unused, a
    <3>5. evts'[f.evt].id = evts[f.evt].id
      BY <1>1, <1>3, <3>1, <3>3, <3>4, ReleasedHeap
    <3> QED BY <1>3, <2>1, <3>5 DEF AllReset
  <2>4. ResetOnItsWay'
    BY <1>1, <2>2, <2>3, ResetAfter DEF set
  <2>5. ASSUME stack' = <<>>, NEW d \in Delays, d \in set PROVE queue'[d] = Empty(d)
    <3>1. ~Ahead(stack', d)
      BY <2>5 DEF Ahead
    <3> QED BY <2>2, <2>5, <3>1 DEF Reached
  <2> QED BY <2>4, <2>5 DEF set
<1> QED BY <1>5, <1>6

LEMMA ResetStimulus ==
  ASSUME IInv, NEW stimulus \in Stimuli, slab_stim(stimulus[1], stimulus[2])
  PROVE  ResetOnItsWay'
<1> DEFINE s == stimulus[1]
           id == stimulus[2]
           a == New(evts)
           es == Created(evts, id)
<1>1. s \in Slabs /\ id \in EventIds
  BY GraphAssumption
<1> HIDE DEF s, id
<1>2. /\ Idle /\ UNCHANGED graph /\ last' = <<s, id>>
      /\ IF FreeIn(evts) = {} THEN Fail ELSE Process(s, a, es, <<>>)
  BY DEF slab_stim, s, id
<1>3. /\ childs' = childs /\ childs \in [Slabs -> Seq(Slabs)]
      /\ evts \in HeapSet /\ CellsOK /\ last'[1] = s /\ last'[2] = id
  BY <1>2 DEF IInv, TypeOK, HeapSet, graph
<1>4. CASE FreeIn(evts) = {}
  BY <1>2, <1>4, ResetNotAbout DEF Fail
<1>5. CASE id # "RESET"
  BY <1>3, <1>5, ResetNotAbout
<1>6. CASE FreeIn(evts) # {} /\ id = "RESET"
  <2>1. es[a].id = "RESET" /\ a \in Addresses
    <3>1. es[a] = [id |-> id, refs |-> 1] /\ a \in Addresses
      BY <1>1, <1>3, <1>6, CreatedHeap
    <3> HIDE DEF es, a
    <3> QED BY <1>6, <3>1
  <2> HIDE DEF a, es
  <2>2. /\ evts' = es /\ stack' = <<Frame(s, a)>> \o <<>>
        /\ s \in Delays => queue'[s] = Empty(s)
    BY <1>1, <1>2, <1>3, <1>6, <2>1, ResetProcessed DEF CellsOK, QueueType
  <2>3. Frame(s, a) \in FrameSet /\ Frame(s, a).evt = a
    BY <1>1, <1>3, <2>1, NoFrames, Pushed DEF Frame
  <2>4. Calls(stack') = {Frame(s, a)}
    <3>1. Calls(<<>>) = {}
      BY DEF Calls
    <3>2. Calls(<<Frame(s, a)>> \o <<>>) = {Frame(s, a)} \cup Calls(<<>>)
      BY <2>3, NoFrames, CallsPush
    <3> QED BY <2>2, <3>1, <3>2
  <2>5. AllReset(evts', stack')
    BY <2>1, <2>2, <2>3, <2>4 DEF AllReset
  <2>6. Reached(queue', stack', Below(s))
    <3> SUFFICES ASSUME NEW d \in Delays, d \in Below(s)
                 PROVE  queue'[d] = Empty(d) \/ Ahead(stack', d)
      BY DEF Reached
    <3>1. CASE d = s
      BY <2>2, <3>1
    <3>2. CASE d # s
      <4>1. \E c \in Rest(Frame(s, a)) : d \in Below(c)
        BY <1>1, <1>3, <3>2, BelowChildren
      <4> QED BY <2>4, <4>1, AheadCalls
    <3> QED BY <3>1, <3>2
  <2> QED BY <1>3, <2>5, <2>6, ResetAfter
<1> QED BY <1>4, <1>5, <1>6

\* The property's action.
ResetStep ==
  Running /\ stack' = <<>> /\ last[2] = "RESET" =>
    \A d \in Delays \cap Below(last[1]) : queue'[d] = Empty(d)

LEMMA ResetKeeps ==
  ASSUME IInv, ResetOnItsWay, [Next]_vars, IInv'
  PROVE  ResetOnItsWay' /\ ResetStep
<1>1. ASSUME stack' = <<>>, ~Running PROVE ResetOnItsWay' /\ ResetStep
  BY <1>1, ResetNotAbout DEF ResetStep
<1>2. ASSUME Idle, stack' = stack PROVE ResetOnItsWay' /\ ResetStep
  BY <1>1, <1>2 DEF Idle, Running
<1>3. ASSUME NEW s \in Slabs, slab_create(s) \/ slab_destroy(s)
      PROVE  ResetOnItsWay' /\ ResetStep
  <2>1. Idle /\ stack' = stack
    BY <1>3 DEF slab_create, slab_destroy
  <2> QED BY <1>2, <2>1
<1>4. ASSUME NEW e \in Edges,
             slab_connect(e[2], e[1]) \/ slab_disconnect(e[2], e[1])
      PROVE  ResetOnItsWay' /\ ResetStep
  <2>1. Idle /\ stack' = stack
    BY <1>4 DEF slab_connect, slab_disconnect
  <2> QED BY <1>2, <2>1
<1>5. ASSUME NEW s \in Slabs, work_tick(s) PROVE ResetOnItsWay' /\ ResetStep
  <2>1. Idle /\ last' = <<s, "TICK">>
    BY <1>5 DEF work_tick
  <2>2. last'[2] # "RESET"
    BY <2>1
  <2> QED BY <2>1, <2>2, ResetNotAbout DEF ResetStep, Running, Idle
<1>6. ASSUME NEW stimulus \in Stimuli, slab_stim(stimulus[1], stimulus[2])
      PROVE  ResetOnItsWay' /\ ResetStep
  <2>1. ~Running
    BY <1>6 DEF slab_stim, Idle, Running
  <2> QED BY <1>6, <2>1, ResetStimulus DEF ResetStep
<1>7. CASE StimChild
  BY <1>7, ResetStimChild DEF ResetStep
<1>8. CASE StimReturn
  BY <1>8, ResetStimReturn DEF ResetStep
<1>9. CASE UNCHANGED vars
  <2>1. /\ childs' = childs /\ evts' = evts /\ queue' = queue /\ stack' = stack
        /\ halted' = halted /\ last' = last
    BY <1>9 DEF vars
  <2>2. ResetOnItsWay'
    BY <2>1 DEF ResetOnItsWay, Ahead, Below, Closed, Empty
  <2> QED BY <2>1, <2>2 DEF ResetStep, Running
<1> QED BY <1>3, <1>4, <1>5, <1>6, <1>7, <1>8, <1>9 DEF Next

\* slab_stim_childs, process_delay: when the call that stimulated a slab with
\* a reset returns, no delay below that slab holds an event, over however
\* many paths and around whatever cycle it is below it.
THEOREM ResetCorrect == Spec => ResetReachesDelays
<1>1. Init => ResetOnItsWay
  BY DEF Init, ResetOnItsWay
<1>2. IInv /\ ResetOnItsWay /\ [Next]_vars /\ IInv' => ResetOnItsWay' /\ [ResetStep]_vars
  BY ResetKeeps
<1> QED BY <1>1, <1>2, Invariance, PTL DEF Spec, ResetReachesDelays, ResetStep
=============================================================================
