------------------------------ MODULE HsmProofs ------------------------------
(***************************************************************************)
(* What is proved about Hsm, for charts of any size and depth: its types,  *)
(* that a transition exits and enters the states that the chart asks for,  *)
(* in order, and that path is long enough.                                 *)
(*                                                                         *)
(* The provers cannot use induction theorems that take a predicate.  Here  *)
(* it is done with a set of numbers and its smallest one (Smallest,        *)
(* Reaches): for the states around a state, for the chain that they are    *)
(* and for the loop of hsm_is_in.                                          *)
(***************************************************************************)
EXTENDS Hsm, FiniteSetTheorems, SequenceTheorems, WellFoundedInduction, TLAPS

Less == {pair \in Nat \X Nat : pair[1] < pair[2]}

\* A set of numbers has a smallest one.
LEMMA Smallest ==
  ASSUME NEW T \in SUBSET Nat, T # {}
  PROVE  \E x \in T : \A y \in T : x <= y
<1>1. IsWellFoundedOn(Less, Nat)
  BY NatLessThanWellFounded, Zenon DEF OpToRel, Less
<1>2. PICK x \in T : \A y \in T : ~(<<y, x>> \in Less)
  BY <1>1, WFMin, Zenon
<1>3. \A y \in T : ~(y < x)
  BY <1>2 DEF Less
<1> QED
  BY <1>3

\* Induction, for a set of numbers.
LEMMA Reaches ==
  ASSUME NEW T \in SUBSET Nat, 0 \in T,
         NEW n \in Nat, \A k \in 0..(n - 1) : k \in T => k + 1 \in T
  PROVE  n \in T
<1> SUFFICES ASSUME n \notin T PROVE FALSE
  OBVIOUS
<1> DEFINE U == {k \in Nat : k \notin T /\ k <= n}
<1>1. U \in SUBSET Nat /\ U # {}
  BY DEF U
<1>2. PICK k \in U : \A y \in U : k <= y
  BY <1>1, Smallest
<1>3. k # 0 /\ k \in Nat
  BY <1>2
<1>4. k - 1 \in 0..(n - 1) /\ k - 1 \notin U
  BY <1>2, <1>3
<1>5. k - 1 \in T
  BY <1>4
<1>6. (k - 1) + 1 \in T
  BY <1>4, <1>5
<1> QED
  BY <1>2, <1>3, <1>6

-----------------------------------------------------------------------------
(***************************************************************************)
(* The states around a state.                                              *)
(***************************************************************************)
Chart(chart) == chart \in [States -> Nodes] /\ \A s \in States : chart[s] < s

\* `around` is right up to state n.
RightTo(chart, around, n) ==
  /\ around \in [0..n -> SUBSET States]
  /\ around[0] = {}
  /\ \A s \in 1..n : around[s] = {s} \cup around[chart[s]]

LEMMA AroundExists ==
  ASSUME NEW chart, Chart(chart)
  PROVE  \E around : RightTo(chart, around, N)
<1> DEFINE T == {n \in Nat : n <= N => \E around : RightTo(chart, around, n)}
<1>0. N \in Nat
  BY SizesAssumption
<1>1. 0 \in T
  <2> DEFINE around == [s \in 0..0 |-> {}]
  <2>1. RightTo(chart, around, 0)
    BY DEF RightTo
  <2> QED
    BY <2>1
<1>2. ASSUME NEW k \in 0..(N - 1), k \in T PROVE k + 1 \in T
  <2>1. PICK around : RightTo(chart, around, k)
    BY <1>0, <1>2
  <2> DEFINE more == [s \in 0..(k + 1) |->
                        IF s = k + 1 THEN {s} \cup around[chart[s]]
                                     ELSE around[s]]
  <2>2. k + 1 \in States /\ chart[k + 1] \in 0..k
    BY <1>0 DEF Chart, States, Nodes, hsm_top
  <2>3. around[chart[k + 1]] \in SUBSET States
    BY <2>1, <2>2 DEF RightTo
  <2>4. more \in [0..(k + 1) -> SUBSET States]
    BY <1>0, <2>1, <2>2, <2>3 DEF RightTo
  <2>5. more[0] = {}
    BY <2>1, <1>2 DEF RightTo
  <2>6. ASSUME NEW s \in 1..(k + 1)
        PROVE  more[s] = {s} \cup more[chart[s]]
    <3>1. s \in States /\ chart[s] \in 0..(s - 1)
      BY <1>0, <1>2 DEF Chart, States, Nodes, hsm_top
    <3>2. more[chart[s]] = around[chart[s]]
      <4>1. chart[s] \in 0..(k + 1) /\ chart[s] # k + 1
        BY <3>1, <1>0, <1>2
      <4> QED
        BY <4>1, Zenon
    <3>3. CASE s = k + 1
      <4>1. more[s] = {s} \cup around[chart[s]]
        <5>1. s \in 0..(k + 1)
          BY <1>0, <1>2
        <5> QED
          BY <3>3, <5>1
      <4> QED
        BY <4>1, <3>2, Zenon
    <3>4. CASE s # k + 1
      <4>1. s \in 1..k
        BY <3>4, <1>0, <1>2
      <4>2. around[s] = {s} \cup around[chart[s]]
        BY <4>1, <2>1 DEF RightTo
      <4>3. more[s] = around[s]
        BY <3>4
      <4> QED
        BY <4>2, <4>3, <3>2
    <3> QED
      BY <3>3, <3>4
  <2>7. RightTo(chart, more, k + 1)
    BY <2>4, <2>5, <2>6 DEF RightTo
  <2> QED
    BY <2>7
<1>3. N \in T
  <2> HIDE DEF T
  <2>1. T \in SUBSET Nat
    BY DEF T
  <2> QED
    BY <1>0, <1>1, <1>2, <2>1, Reaches
<1> QED
  BY <1>0, <1>3

\* The definition by recursion says what it seems to say.
LEMMA AroundRecursive ==
  ASSUME NEW chart, Chart(chart)
  PROVE  /\ AroundIn(chart) \in [Nodes -> SUBSET States]
         /\ AroundIn(chart)[hsm_top] = {}
         /\ \A s \in States :
              AroundIn(chart)[s] = {s} \cup AroundIn(chart)[chart[s]]
<1> DEFINE Is(g) == g = [s \in Nodes |->
                           IF s = hsm_top THEN {} ELSE {s} \cup g[chart[s]]]
<1>0. /\ Nodes = 0..N /\ States = 1..N /\ hsm_top = 0
      /\ \A s \in States : chart[s] \in Nodes
  BY SizesAssumption DEF Nodes, States, hsm_top, Chart
<1>1. PICK around : RightTo(chart, around, N)
  BY AroundExists
<1>2. Is(around)
  <2>1. around = [s \in Nodes |-> around[s]]
    BY <1>0, <1>1 DEF RightTo
  <2>2. \A s \in Nodes : around[s] = IF s = hsm_top THEN {}
                                     ELSE {s} \cup around[chart[s]]
    BY <1>0, <1>1 DEF RightTo
  <2> QED
    BY <2>1, <2>2
<1>3. AroundIn(chart) = CHOOSE g : Is(g)
  BY DEF AroundIn
<1>4. Is(AroundIn(chart))
  <2> HIDE DEF Is
  <2> QED
    BY <1>2, <1>3
<1> DEFINE f == AroundIn(chart)
<1>5. /\ f[hsm_top] = {}
      /\ \A s \in States : f[s] = {s} \cup f[chart[s]]
  <2>1. Is(f)
    BY <1>4
  <2>2. f = [s \in Nodes |-> IF s = hsm_top THEN {} ELSE {s} \cup f[chart[s]]]
    BY <2>1
  <2> HIDE DEF f, Is
  <2>3. \A s \in Nodes : f[s] = IF s = hsm_top THEN {} ELSE {s} \cup f[chart[s]]
    BY <2>2
  <2>4. hsm_top \in Nodes /\ \A s \in States : s \in Nodes /\ s # hsm_top
    BY <1>0, SizesAssumption
  <2> QED
    BY <2>3, <2>4
<1> HIDE DEF f
<1>6. \A s \in Nodes : f[s] \subseteq States
  <2> DEFINE T == {n \in Nat : n <= N => \A s \in 0..n : f[s] \subseteq States}
  <2>0. N \in Nat
    BY SizesAssumption
  <2>1. 0 \in T
    BY <1>0, <1>5
  <2>2. ASSUME NEW k \in 0..(N - 1), k \in T PROVE k + 1 \in T
    <3>1. k + 1 \in States /\ chart[k + 1] \in 0..k
      BY <2>0, <1>0 DEF Chart
    <3>2. f[k + 1] \subseteq States
      BY <1>5, <2>0, <2>2, <3>1
    <3> QED
      BY <2>0, <2>2, <3>2
  <2>3. N \in T
    <3> HIDE DEF T
    <3>1. T \in SUBSET Nat
      BY DEF T
    <3> QED
      BY <2>0, <2>1, <2>2, <3>1, Reaches
  <2> QED
    BY <1>0, <2>0, <2>3
<1>7. DOMAIN f = Nodes /\ f = [s \in DOMAIN f |-> f[s]]
  <2>1. f = [s \in Nodes |-> IF s = hsm_top THEN {} ELSE {s} \cup f[chart[s]]]
    BY <1>4 DEF f
  <2> QED
    BY <2>1
<1>8. f \in [Nodes -> SUBSET States]
  BY <1>6, <1>7
<1> QED
  BY <1>5, <1>8 DEF f

-----------------------------------------------------------------------------
(***************************************************************************)
(* Chains: the states around one state, the inner ones with the larger     *)
(* numbers.                                                                *)
(***************************************************************************)
\* t is s, around it, or hsm_top.
Within(t, s) == t = hsm_top \/ t \in Around(s)

LEMMA Numbers ==
  /\ Nodes = 0..N /\ States = 1..N /\ hsm_top = 0 /\ N \in Nat
  /\ \A s \in States : s \in Nat /\ s \in Nodes /\ s # hsm_top /\ s > 0
  /\ \A s \in Nodes : s \in Nat /\ (s # hsm_top => s \in States)
<1> QED
  BY SizesAssumption DEF Nodes, States, hsm_top

LEMMA KeptIs ==
  ASSUME NEW source, NEW target
  PROVE  Kept(source, target) =
           IF source = target THEN Around(source) \ {source}
                              ELSE Around(source) \cap Around(target)
<1> QED
  BY DEF Kept, KeptIn, Around

LEMMA AroundIs ==
  ASSUME Chart(parent)
  PROVE  /\ Around(hsm_top) = {}
         /\ \A s \in Nodes : Around(s) \in SUBSET States
         /\ \A s \in States : /\ parent[s] \in Nodes /\ parent[s] < s
                              /\ Around(s) = {s} \cup Around(parent[s])
<1>1. \A s \in States : parent[s] \in Nodes /\ parent[s] < s
  BY DEF Chart
<1>2. /\ Around(hsm_top) = {}
      /\ \A s \in States : Around(s) = {s} \cup Around(parent[s])
      /\ \A s \in Nodes : Around(s) \in SUBSET States
  BY AroundRecursive DEF Around
<1> QED
  BY <1>1, <1>2

\* What is around s has a smaller number, and the states around one of them,
\* t, are those with numbers up to t.
ChainOf(s) ==
  /\ \A t \in Around(s) : t <= s
  /\ \A t \in Around(s) : Around(t) = {u \in Around(s) : u <= t}

LEMMA Chains ==
  ASSUME Chart(parent)
  PROVE  \A s \in Nodes : ChainOf(s)
<1> DEFINE T == {n \in Nat : n <= N => \A s \in 0..n : ChainOf(s)}
<1>1. 0 \in T
  <2>1. ChainOf(hsm_top)
    BY AroundIs DEF ChainOf
  <2> QED
    BY <2>1, Numbers
<1>2. ASSUME NEW k \in 0..(N - 1), k \in T PROVE k + 1 \in T
  <2> DEFINE s == k + 1
             p == parent[s]
  <2>1. s \in States /\ p \in 0..k /\ Around(s) = {s} \cup Around(p)
        /\ k \in Nat /\ k <= N /\ p < s
    BY Numbers, AroundIs
  <2>2. ChainOf(p) /\ Around(p) \subseteq States /\ p \in Nodes
    BY <1>2, <2>1, AroundIs, Numbers
  <2> HIDE DEF s, p
  <2>3. /\ s \in Nat /\ p \in Nat
        /\ \A t \in Around(p) : t \in Nat /\ t < s
    BY <2>1, <2>2, Numbers DEF ChainOf
  <2>4. \A t \in Around(s) : t <= s
    BY <2>1, <2>3
  <2>5. ASSUME NEW t \in Around(s)
        PROVE  Around(t) = {u \in Around(s) : u <= t}
    <3>1. CASE t = s
      BY <3>1, <2>4
    <3>2. CASE t # s
      <4>1. t \in Around(p) /\ t \in Nat /\ t < s
        BY <3>2, <2>1, <2>3
      <4>2. Around(t) = {u \in Around(p) : u <= t}
        BY <4>1, <2>2 DEF ChainOf
      <4>3. ~(s <= t)
        BY <4>1, <2>3
      <4> QED
        BY <4>2, <4>3, <2>1
    <3> QED
      BY <3>1, <3>2
  <2>6. ChainOf(s)
    BY <2>4, <2>5 DEF ChainOf
  <2>7. \A r \in 0..s : r \in 0..k \/ r = s
    BY <2>1 DEF s
  <2> QED
    BY <1>2, <2>1, <2>6, <2>7 DEF s
<1>3. N \in T
  <2> HIDE DEF T
  <2>1. T \in SUBSET Nat
    BY DEF T
  <2> QED
    BY <1>1, <1>2, <2>1, Numbers, Reaches
<1> QED
  BY <1>3, Numbers

\* The same for hsm_top and what is around, and the finite depth.
LEMMA WithinChain ==
  ASSUME Chart(parent), NEW s \in Nodes, NEW t \in Nodes, Within(t, s)
  PROVE  /\ t <= s
         /\ Around(t) = {u \in Around(s) : u <= t}
         /\ Around(t) \subseteq Around(s)
<1>1. CASE t \in Around(s)
  BY <1>1, Chains DEF ChainOf
<1>2. CASE t = hsm_top
  <2>1. Around(t) = {} /\ Around(s) \subseteq States
    BY <1>2, AroundIs
  <2>2. \A u \in Around(s) : ~(u <= t)
    BY <2>1, <1>2, Numbers
  <2> QED
    BY <1>2, <2>1, <2>2, Numbers
<1> QED
  BY <1>1, <1>2 DEF Within

\* Of two states around one, the inner one is around the outer one or both
\* are the same: what lies beyond one of them has larger numbers.
LEMMA ChainParent ==
  ASSUME Chart(parent), NEW s \in States, NEW t \in Around(s)
  PROVE  /\ t \in States /\ parent[t] \in Nodes /\ parent[t] < t
         /\ Within(parent[t], s)
         /\ \A u \in Around(s) : u \in Around(parent[t]) <=> u < t
         /\ \A u \in Around(s) : u \in Around(t) <=> u <= t
         /\ s \in Around(s)
<1>1. /\ t \in States /\ parent[t] \in Nodes /\ parent[t] < t
      /\ Around(t) = {t} \cup Around(parent[t])
      /\ Around(s) \subseteq States /\ s \in Around(s)
  BY AroundIs, Numbers
<1>2. Around(t) = {u \in Around(s) : u <= t}
  BY Chains, Numbers DEF ChainOf
<1>3. Within(parent[t], s)
  <2>1. CASE parent[t] = hsm_top
    BY <2>1 DEF Within
  <2>2. CASE parent[t] # hsm_top
    <3>1. parent[t] \in Around(parent[t])
      BY <2>2, <1>1, Numbers, AroundIs
    <3> QED
      BY <3>1, <1>1, <1>2 DEF Within
  <2> QED
    BY <2>1, <2>2
<1>4. \A u \in Around(parent[t]) : u <= parent[t]
  BY <1>1, Chains DEF ChainOf
<1>5. ASSUME NEW u \in Around(s)
      PROVE  u \in Around(parent[t]) <=> u < t
  <2>1. u \in Nat /\ t \in Nat /\ parent[t] \in Nat
    BY <1>1, Numbers
  <2>2. u \in Around(parent[t]) => u < t
    BY <2>1, <1>1, <1>4
  <2>3. u < t => u \in Around(parent[t])
    BY <2>1, <1>1, <1>2
  <2> QED
    BY <2>2, <2>3
<1> QED
  BY <1>1, <1>2, <1>3, <1>5

-----------------------------------------------------------------------------
(***************************************************************************)
(* The invariant.                                                          *)
(***************************************************************************)
\* p holds a target and, up to index n, the states around it, one after the
\* other, with hsm_top at the end; as many as numbers and depth allow.
PathIn(chart, p, n) ==
  /\ p[0] \in States
  /\ \A i \in 0..n :
       /\ p[i] \in Nodes
       /\ p[i] \in {hsm_top} \cup AroundIn(chart)[p[0]]
       /\ i + p[i] <= N
       /\ i + Cardinality(AroundIn(chart)[p[i]]) <= MaxDepth
  /\ \A i, j \in 0..n : i < j => p[j] < p[i]
  /\ \A i \in 0..n : \A s \in AroundIn(chart)[p[0]] :
       p[i] <= s => \E j \in 0..i : p[j] = s

PathTo(n) == PathIn(parent, path, n)

\* What p[0..n] holds.
PathSet(p, n) == {p[i] : i \in 0..n}

\* The calls so far are in order, and no call is left out before them.
InTurn ==
  /\ \A i, j \in DOMAIN calls : i < j => Before(calls[i], calls[j])
  /\ Range(calls) \subseteq due
  /\ \A call \in Range(calls), left \in due \ Range(calls) :
       Before(call, left)

Left == due \ Range(calls)

\* Nothing is entered but t and what is around it.
DueWithin(t) == \A s \in States : <<"entry", s>> \in due => s \in Around(t)

\* The calls that are left when the states around tmp are still to be exited.
LeftFrom(s) ==
  Left = Exits(Around(s) \ Kept(src, path[0]))
           \cup Entries(Around(path[0]) \ Kept(src, path[0]))

AtRest ==
  pc \in {"new", "idle"} =>
    calls = <<>> /\ due = {} /\ (pc = "idle" => state \in States)

AtClimb ==
  pc = "climb" =>
    /\ ip >= 0 /\ PathTo(ip) /\ path[ip] \in States
    /\ state = parent[path[ip]] /\ Within(tmp, state)
    /\ Left = Entries(Around(path[0]) \ Around(tmp))
    /\ DueWithin(path[0])

AtEnter ==
  pc = "enter" =>
    /\ path[0] \in States
    /\ ip >= 0 => PathTo(ip) /\ path[ip] \in States
    /\ Left = Entries(PathSet(path, ip))
    /\ DueWithin(path[0])

AtInit == pc = "init" => tmp \in States /\ Left = {} /\ DueWithin(tmp)

AtOut ==
  pc = "out" =>
    /\ path[0] \in States /\ tmp \in States /\ src \in Around(tmp)
    /\ LeftFrom(tmp) /\ DueWithin(path[0])

AtSearch ==
  pc = "search" =>
    /\ src \in States /\ tmp = parent[src]
    /\ ip >= 1 /\ PathTo(ip) /\ src \notin PathSet(path, ip)
    /\ path[ip] # hsm_top => state = parent[path[ip]]
    /\ LeftFrom(src) /\ DueWithin(path[0])

AtMatch ==
  pc = "match" =>
    /\ src \in States /\ Within(tmp, src) /\ tmp < src
    /\ ip >= 0 /\ PathTo(ip) /\ path[ip] = hsm_top
    /\ \A s \in Around(src) : tmp < s => s \notin Around(path[0])
    /\ LeftFrom(tmp) /\ DueWithin(path[0])

Places == /\ AtRest /\ AtClimb /\ AtEnter /\ AtInit
          /\ AtOut /\ AtSearch /\ AtMatch

IInv == TypeOK /\ parent \in Charts /\ InTurn /\ high <= MaxDepth /\ Places

LEMMA ChartsAre ==
  ASSUME parent \in Charts
  PROVE  /\ Chart(parent)
         /\ \A s \in States : Cardinality(Around(s)) <= MaxDepth
<1>1. /\ parent \in Trees
      /\ \A s \in States : Cardinality(Around(s)) <= MaxDepth
  BY Zenon DEF Charts, Around
<1> QED
  BY <1>1 DEF Chart, Trees

\* A state is one level deeper than its parent.
LEMMA Depth ==
  ASSUME Chart(parent)
  PROVE  /\ \A s \in Nodes : Cardinality(Around(s)) \in Nat
         /\ \A s \in States :
              Cardinality(Around(s)) = Cardinality(Around(parent[s])) + 1
<1>1. ASSUME NEW s \in Nodes
      PROVE  IsFiniteSet(Around(s)) /\ Cardinality(Around(s)) \in Nat
  <2>1. Around(s) \subseteq States
    BY AroundIs
  <2>2. IsFiniteSet(States)
    BY FS_Interval, SizesAssumption DEF States
  <2>3. IsFiniteSet(Around(s))
    BY <2>1, <2>2, FS_Subset
  <2> QED
    BY <2>3, FS_CardinalityType
<1>2. ASSUME NEW s \in States
      PROVE  Cardinality(Around(s)) = Cardinality(Around(parent[s])) + 1
  <2>1. parent[s] \in Nodes /\ parent[s] < s /\ s \in Nat
        /\ parent[s] \in Nat
        /\ Around(s) = Around(parent[s]) \cup {s}
    BY AroundIs, Numbers
  <2>2. \A t \in Around(parent[s]) : t \in Nat /\ t <= parent[s]
    BY <2>1, Chains, AroundIs, Numbers DEF ChainOf
  <2>3. s \notin Around(parent[s])
    BY <2>1, <2>2
  <2>4. IsFiniteSet(Around(parent[s]))
    BY <1>1, <2>1
  <2> QED
    BY <2>1, <2>3, <2>4, FS_AddElement
<1> QED
  BY <1>1, <1>2

-----------------------------------------------------------------------------
(***************************************************************************)
(* The path.                                                               *)
(***************************************************************************)
Paths == [0..N -> Nodes]

\* A path begins with its target ...
LEMMA PathStart ==
  ASSUME parent \in Charts, NEW p \in Paths, p[0] \in States
  PROVE  PathIn(parent, p, 0)
<1>1. Chart(parent) /\ Cardinality(Around(p[0])) <= MaxDepth
      /\ Cardinality(Around(p[0])) \in Nat
  BY ChartsAre, Depth, Numbers
<1>2. p[0] \in Around(p[0]) /\ p[0] \in Nodes /\ p[0] <= N /\ p[0] \in Nat
  BY <1>1, AroundIs, Numbers
<1>3. \A s \in Around(p[0]) : s \in Nat /\ s <= p[0]
  BY <1>1, <1>2, Chains, AroundIs, Numbers DEF ChainOf
<1>4. \A i \in 0..0 : i = 0
  OBVIOUS
<1>5. ASSUME NEW i \in 0..0
      PROVE  /\ p[i] \in Nodes
             /\ p[i] \in {hsm_top} \cup Around(p[0])
             /\ i + p[i] <= N
             /\ i + Cardinality(Around(p[i])) <= MaxDepth
  BY <1>1, <1>2, <1>4, SizesAssumption
<1>6. ASSUME NEW s \in Around(p[0]), p[0] <= s
      PROVE  \E j \in 0..0 : p[j] = s
  BY <1>2, <1>3, <1>6
<1> QED
  BY <1>2, <1>4, <1>5, <1>6 DEF PathIn, Around

Longer(p, n) == [p EXCEPT ![n + 1] = parent[p[n]]]

\* ... goes on with the parent of its last state, for which there is room ...
LEMMA PathMore ==
  ASSUME parent \in Charts, NEW p \in Paths, NEW n \in 0..N,
         PathIn(parent, p, n), p[n] \in States
  PROVE  /\ n + 1 \in 0..N /\ n + 1 <= MaxDepth
         /\ Longer(p, n) \in Paths /\ Longer(p, n)[n + 1] = parent[p[n]]
         /\ \A i \in 0..n : Longer(p, n)[i] = p[i]
         /\ PathIn(parent, Longer(p, n), n + 1)
<1> DEFINE q == Longer(p, n)
           last == p[n]
           next == parent[p[n]]
<1>0. Chart(parent) /\ N \in Nat /\ MaxDepth \in Nat /\ n \in Nat
  BY ChartsAre, SizesAssumption
<1>1. /\ p[0] \in States
      /\ \A i \in 0..n : /\ p[i] \in Nodes /\ p[i] \in Nat
                         /\ p[i] \in {hsm_top} \cup Around(p[0])
                         /\ i + p[i] <= N
                         /\ i + Cardinality(Around(p[i])) <= MaxDepth
      /\ \A i, j \in 0..n : i < j => p[j] < p[i]
      /\ \A i \in 0..n : \A s \in Around(p[0]) :
           p[i] <= s => \E j \in 0..i : p[j] = s
  BY Numbers DEF PathIn, Around
<1>2. /\ last \in Nat /\ last > 0 /\ n + last <= N
      /\ n + Cardinality(Around(last)) <= MaxDepth
      /\ last \in Around(p[0])
  BY <1>0, <1>1, Numbers
<1>3. /\ next \in Nodes /\ next \in Nat /\ next < last
      /\ next \in {hsm_top} \cup Around(p[0])
      /\ \A s \in Around(p[0]) : s \in Around(next) <=> s < last
  BY <1>0, <1>1, <1>2, ChainParent, Numbers DEF Within
<1>4. /\ Cardinality(Around(last)) = Cardinality(Around(next)) + 1
      /\ Cardinality(Around(next)) \in Nat
  BY <1>0, <1>3, Depth
<1>5. n + 1 \in 0..N /\ n + 1 <= MaxDepth
  BY <1>0, <1>2, <1>4
<1>6. q \in Paths /\ q[n + 1] = next /\ \A i \in 0..n : q[i] = p[i]
  BY <1>0, <1>3, <1>5 DEF Paths, Longer
<1> HIDE DEF q
<1>7. q[0] = p[0]
  BY <1>0, <1>6
<1> HIDE DEF last, next
<1>8. ASSUME NEW i \in 0..(n + 1)
      PROVE  /\ q[i] \in Nodes
             /\ q[i] \in {hsm_top} \cup Around(q[0])
             /\ i + q[i] <= N
             /\ i + Cardinality(Around(q[i])) <= MaxDepth
  <2>1. CASE i = n + 1
    <3>1. i + next <= N
      BY <2>1, <1>0, <1>2, <1>3
    <3>2. i + Cardinality(Around(next)) <= MaxDepth
      BY <2>1, <1>0, <1>2, <1>4
    <3> QED
      BY <2>1, <3>1, <3>2, <1>3, <1>6, <1>7, Zenon
  <2>2. CASE i # n + 1
    <3>1. i \in 0..n
      BY <2>2, <1>0
    <3>2. q[i] = p[i]
      BY <3>1, <1>6
    <3> QED
      BY <3>1, <3>2, <1>1, <1>7, Zenon
  <2> QED
    BY <2>1, <2>2
<1>9. ASSUME NEW i \in 0..(n + 1), NEW j \in 0..(n + 1), i < j
      PROVE  q[j] < q[i]
  <2>1. i \in 0..n /\ q[i] = p[i] /\ i \in Nat /\ j \in Nat
    BY <1>0, <1>6, <1>9
  <2>2. CASE j = n + 1
    <3>1. last <= p[i] /\ p[i] \in Nat
      <4>1. CASE i = n
        BY <4>1, <2>1, <1>1 DEF last
      <4>2. CASE i # n
        BY <4>2, <2>1, <1>0, <1>1, <1>2 DEF last
      <4> QED
        BY <4>1, <4>2
    <3>2. next < p[i]
      BY <3>1, <1>2, <1>3
    <3> QED
      BY <2>1, <2>2, <3>2, <1>6, Zenon
  <2>3. CASE j # n + 1
    <3>1. j \in 0..n
      BY <2>3, <1>0
    <3>2. p[j] < p[i]
      BY <3>1, <2>1, <1>1, <1>9
    <3> QED
      BY <3>1, <3>2, <2>1, <1>6, Zenon
  <2> QED
    BY <2>2, <2>3
<1>10. ASSUME NEW i \in 0..(n + 1), NEW s \in Around(q[0]), q[i] <= s
       PROVE  \E j \in 0..i : q[j] = s
  <2>0. s \in Around(p[0]) /\ s \in Nat
    BY <1>0, <1>1, <1>7, AroundIs, Numbers
  <2>1. CASE i = n + 1
    <3>1. next <= s
      BY <2>1, <1>6, <1>10
    <3>2. CASE s < last
      <4>1. s \in Around(next)
        BY <3>2, <2>0, <1>3
      <4>2. s <= next
        BY <4>1, <1>0, <1>3, Chains DEF ChainOf
      <4>3. s = next
        BY <4>2, <3>1, <2>0, <1>3
      <4>4. i \in 0..i
        BY <2>1, <1>0
      <4> QED
        BY <4>3, <4>4, <2>1, <1>6, Zenon
    <3>3. CASE last <= s
      <4>1. \E j \in 0..n : p[j] = s
        BY <3>3, <2>0, <1>0, <1>1 DEF last
      <4>2. PICK j \in 0..n : p[j] = s
        BY <4>1
      <4>3. j \in 0..i /\ q[j] = s
        BY <4>2, <2>1, <1>0, <1>6
      <4> QED
        BY <4>3
    <3> QED
      BY <3>2, <3>3, <2>0, <1>2
  <2>2. CASE i # n + 1
    <3>1. i \in 0..n /\ p[i] <= s
      BY <2>2, <1>0, <1>6, <1>10
    <3>2. PICK j \in 0..i : p[j] = s
      BY <3>1, <2>0, <1>1
    <3>3. j \in 0..n
      BY <3>1, <3>2, <1>0
    <3> QED
      BY <3>2, <3>3, <1>6
  <2> QED
    BY <2>1, <2>2
<1>11. PathIn(parent, q, n + 1)
  <2>1. \A i \in 0..(n + 1) :
             /\ q[i] \in Nodes
             /\ q[i] \in {hsm_top} \cup Around(q[0])
             /\ i + q[i] <= N
             /\ i + Cardinality(Around(q[i])) <= MaxDepth
    BY <1>8
  <2>2. \A i, j \in 0..(n + 1) : i < j => q[j] < q[i]
    BY <1>9
  <2>3. \A i \in 0..(n + 1) : \A s \in Around(q[0]) :
          q[i] <= s => \E j \in 0..i : q[j] = s
    BY <1>10
  <2>4. q[0] \in States
    BY <1>1, <1>7
  <2> QED
    BY <2>1, <2>2, <2>3, <2>4, Zenon DEF PathIn, Around
<1> QED
  BY <1>5, <1>6, <1>11 DEF next, q

\* ... and its beginnings are paths.
LEMMA PathLess ==
  ASSUME NEW p \in Paths, NEW n \in 0..N, PathIn(parent, p, n), NEW m \in 0..n
  PROVE  PathIn(parent, p, m)
<1>1. \A i \in 0..m : i \in 0..n
  BY SizesAssumption
<1> QED
  BY <1>1, Zenon DEF PathIn

\* The states around the target down to the last one, or without it.
LEMMA PathSegment ==
  ASSUME parent \in Charts, NEW p \in Paths, NEW n \in 0..N,
         PathIn(parent, p, n)
  PROVE  /\ Around(p[0]) \ Around(p[n]) = PathSet(p, n - 1)
         /\ p[n] \in States =>
              Around(p[0]) \ Around(parent[p[n]]) = PathSet(p, n)
<1>0. Chart(parent) /\ N \in Nat /\ n \in Nat
  BY ChartsAre, SizesAssumption
<1>1. /\ p[0] \in States
      /\ \A i \in 0..n : /\ p[i] \in Nodes /\ p[i] \in Nat
                         /\ p[i] \in {hsm_top} \cup Around(p[0])
      /\ \A i, j \in 0..n : i < j => p[j] < p[i]
      /\ \A i \in 0..n : \A s \in Around(p[0]) :
           p[i] <= s => \E j \in 0..i : p[j] = s
      /\ \A s \in Around(p[0]) : s \in Nat
  BY <1>0, AroundIs, Numbers DEF PathIn, Around
<1>2. /\ n \in 0..n
      /\ Within(p[n], p[0])
      /\ p[0] \in Nodes /\ p[n] \in Nodes /\ p[n] \in Nat
  BY <1>0, <1>1, Numbers DEF Within
<1>3. Around(p[n]) = {u \in Around(p[0]) : u <= p[n]}
  BY <1>0, <1>2, WithinChain
<1>4. \A i \in 0..n : i < n => p[i] \in Around(p[0]) /\ p[n] < p[i]
  BY <1>0, <1>1, <1>2, Numbers
<1>5. ASSUME NEW s \in Around(p[0]), s \notin Around(p[n])
      PROVE  s \in PathSet(p, n - 1)
  <2>1. p[n] < s /\ s \in Nat
    BY <1>1, <1>2, <1>3, <1>5
  <2>2. \E j \in 0..n : p[j] = s
    BY <1>1, <1>2, <2>1
  <2>3. PICK j \in 0..n : p[j] = s
    BY <2>2
  <2>4. j # n
    BY <2>1, <2>3, <1>2
  <2>5. j \in 0..(n - 1)
    BY <2>4, <1>0
  <2> QED
    BY <2>3, <2>5 DEF PathSet
<1>6. ASSUME NEW s \in PathSet(p, n - 1)
      PROVE  s \in Around(p[0]) /\ s \notin Around(p[n])
  <2>1. PICK i \in 0..(n - 1) : s = p[i]
    BY <1>6 DEF PathSet
  <2>2. i \in 0..n /\ i < n
    BY <1>0
  <2>3. s \in Around(p[0]) /\ p[n] < s /\ s \in Nat
    BY <1>1, <1>4, <2>1, <2>2
  <2> QED
    BY <2>3, <1>2, <1>3
<1>7. Around(p[0]) \ Around(p[n]) = PathSet(p, n - 1)
  BY <1>5, <1>6
<1>8. PathSet(p, n) = PathSet(p, n - 1) \cup {p[n]}
  <2>1. 0..n = (0..(n - 1)) \cup {n}
    BY <1>0
  <2> QED
    BY <2>1 DEF PathSet
<1>9. ASSUME p[n] \in States
      PROVE  Around(p[0]) \ Around(parent[p[n]]) = PathSet(p, n)
  <2>1. Around(p[n]) = {p[n]} \cup Around(parent[p[n]])
        /\ parent[p[n]] \in Nodes /\ parent[p[n]] < p[n]
        /\ parent[p[n]] \in Nat
    BY <1>0, <1>9, AroundIs, Numbers
  <2>2. \A s \in Around(parent[p[n]]) : s \in Nat /\ s <= parent[p[n]]
    BY <1>0, <2>1, Chains, AroundIs, Numbers DEF ChainOf
  <2>3. p[n] \notin Around(parent[p[n]])
    BY <2>1, <2>2, <1>2
  <2>4. p[n] \in Around(p[0])
    BY <1>2, <1>9, Numbers DEF Within
  <2> QED
    BY <1>7, <1>8, <2>1, <2>3, <2>4
<1> QED
  BY <1>7, <1>9

\* A path that has reached hsm_top holds all that is around its target.
LEMMA PathComplete ==
  ASSUME parent \in Charts, NEW p \in Paths, NEW n \in 0..N,
         PathIn(parent, p, n), p[n] = hsm_top
  PROVE  \A s \in States :
           s \in Around(p[0]) <=> \E i \in 0..n : p[i] = s
<1>1. Around(p[0]) = PathSet(p, n - 1)
  <2>1. Around(p[n]) = {}
    BY ChartsAre, AroundIs
  <2>2. Around(p[0]) \ Around(p[n]) = PathSet(p, n - 1)
    BY PathSegment
  <2> QED
    BY <2>1, <2>2, Zenon
<1>2. n \in Nat /\ hsm_top \notin States
  BY SizesAssumption, Numbers
<1>3. ASSUME NEW s \in States, NEW i \in 0..n, p[i] = s
      PROVE  i \in 0..(n - 1)
  BY <1>2, <1>3
<1>4. \A i \in 0..(n - 1) : i \in 0..n
  BY <1>2
<1> QED
  BY <1>1, <1>3, <1>4 DEF PathSet

\* The entries before the one of index n.
LEMMA PathNext ==
  ASSUME NEW p \in Paths, NEW n \in 0..N, PathIn(parent, p, n)
  PROVE  /\ PathSet(p, n) = PathSet(p, n - 1) \cup {p[n]}
         /\ p[n] \in Nat
         /\ \A s \in PathSet(p, n - 1) : s \in Nat /\ p[n] < s
<1>0. n \in Nat /\ n \in 0..n
  BY SizesAssumption
<1>1. 0..n = (0..(n - 1)) \cup {n}
  BY <1>0
<1>2. \A i \in 0..(n - 1) : i \in 0..n /\ i < n
  BY <1>0
<1>3. \A i \in 0..n : p[i] \in Nat
  BY Numbers DEF PathIn
<1>4. \A i \in 0..(n - 1) : p[n] < p[i]
  BY <1>0, <1>2 DEF PathIn
<1> QED
  BY <1>0, <1>1, <1>2, <1>3, <1>4 DEF PathSet

LEMMA PathEmpty ==
  ASSUME NEW p, NEW n \in Int, n < 0
  PROVE  PathSet(p, n) = {}
<1>1. 0..n = {}
  OBVIOUS
<1> QED
  BY <1>1 DEF PathSet

-----------------------------------------------------------------------------
(***************************************************************************)
(* The calls.                                                              *)
(***************************************************************************)
CallType == {"exit", "entry"} \X States

\* The next call is one that is left and comes before the others left.
LEMMA CallNext ==
  ASSUME InTurn, calls \in Seq(CallType), NEW c \in Left,
         due \subseteq CallType,
         \A e \in Left \ {c} : Before(c, e),
         calls' = Append(calls, c), due' = due
  PROVE  /\ InTurn' /\ Left' = Left \ {c}
         /\ calls' \in Seq(CallType)
<1>1. c \in CallType /\ c \in due /\ c \notin Range(calls)
  BY DEF Left
<1> DEFINE n == Len(calls)
<1>2. n \in Nat /\ DOMAIN calls = 1..n
  BY LenProperties
<1>3. /\ calls' \in Seq(CallType) /\ Len(calls') = n + 1
      /\ \A i \in 1..n : calls'[i] = calls[i]
      /\ calls'[n + 1] = c
  BY <1>1, AppendProperties
<1>4. DOMAIN calls' = 1..(n + 1)
  BY <1>3, LenProperties
<1> HIDE DEF n
<1>5. 1..(n + 1) = (1..n) \cup {n + 1}
  BY <1>2
<1>6. Range(calls') = Range(calls) \cup {c}
  BY <1>2, <1>3, <1>4, <1>5 DEF Range
<1>7. \A i \in 1..n : calls[i] \in Range(calls)
  BY <1>2 DEF Range
<1>8. ASSUME NEW i \in 1..(n + 1), NEW j \in 1..(n + 1), i < j
      PROVE  Before(calls'[i], calls'[j])
  <2>1. i \in 1..n
    BY <1>2, <1>8
  <2>2. CASE j = n + 1
    <3>1. Before(calls[i], c)
      BY <1>1, <1>7, <2>1 DEF InTurn
    <3> QED
      BY <3>1, <2>1, <2>2, <1>3, Zenon
  <2>3. CASE j # n + 1
    <3>1. j \in 1..n
      BY <2>3, <1>2
    <3>2. Before(calls[i], calls[j])
      BY <3>1, <2>1, <1>2, <1>8 DEF InTurn
    <3> QED
      BY <3>1, <3>2, <2>1, <1>3, Zenon
  <2> QED
    BY <2>2, <2>3
<1>9. Left' = Left \ {c}
  BY <1>6 DEF Left
<1>10. Range(calls') \subseteq due'
  BY <1>1, <1>6 DEF InTurn
<1>11. ASSUME NEW e \in Range(calls'), NEW f \in due' \ Range(calls')
       PROVE  Before(e, f)
  <2>1. f \in due /\ f \notin Range(calls) /\ f # c
    BY <1>6, <1>11
  <2>2. CASE e = c
    BY <2>1, <2>2 DEF Left
  <2>3. CASE e \in Range(calls)
    BY <2>1, <2>3 DEF InTurn
  <2> QED
    BY <1>6, <2>2, <2>3
<1>12. InTurn'
  BY <1>4, <1>8, <1>10, <1>11, Zenon DEF InTurn
<1> QED
  BY <1>3, <1>9, <1>12

\* More entries are owed when nothing is left.
LEMMA OweMore ==
  ASSUME InTurn, Left = {}, calls' = calls, NEW S,
         \A e \in Range(calls), s \in S : Before(e, <<"entry", s>>),
         \A s \in S : <<"entry", s>> \notin due,
         due' = due \cup Entries(S)
  PROVE  InTurn' /\ Left' = Entries(S)
<1>1. Range(calls) = due
  BY DEF InTurn, Left
<1>2. \A e \in Entries(S) : \E s \in S : e = <<"entry", s>>
  BY DEF Entries
<1>3. Left' = Entries(S)
  BY <1>1, <1>2 DEF Left
<1>4. due' \ Range(calls) = Entries(S)
  BY <1>1, <1>2
<1> QED
  BY <1>1, <1>2, <1>3, <1>4 DEF InTurn

\* The innermost of the states that are still to be exited is exited.
LEMMA ExitNext ==
  ASSUME Chart(parent), InTurn, calls \in Seq(CallType), due \subseteq CallType,
         NEW s \in States, LeftFrom(s), s \notin Kept(src, path[0]),
         Called("exit", s), due' = due
  PROVE  /\ InTurn' /\ calls' \in Seq(CallType)
         /\ Left' = Exits(Around(parent[s]) \ Kept(src, path[0]))
                      \cup Entries(Around(path[0]) \ Kept(src, path[0]))
<1> DEFINE c == <<"exit", s>>
           K == Kept(src, path[0])
<1>1. /\ s \in Nat /\ parent[s] \in Nodes /\ parent[s] \in Nat
      /\ Around(s) = {s} \cup Around(parent[s])
      /\ parent[s] < s
  BY AroundIs, Numbers
<1>2. \A t \in Around(parent[s]) : t \in Nat /\ t < s
  BY <1>1, Chains, AroundIs, Numbers DEF ChainOf
<1>3. s \notin Around(parent[s])
  BY <1>2
<1> HIDE DEF K
<1>4. Left = Exits(Around(s) \ K) \cup Entries(Around(path[0]) \ K)
  BY DEF LeftFrom, K
<1>5. c \in Left
  BY <1>1, <1>4 DEF K, Exits
<1>6. ASSUME NEW e \in Left \ {c}
      PROVE  Before(c, e)
  <2>1. CASE e \in Exits(Around(s) \ K)
    <3>1. PICK t \in Around(s) : e = <<"exit", t>>
      BY <2>1 DEF Exits
    <3>2. t # s
      BY <3>1, <1>6
    <3>3. t < s
      BY <3>1, <3>2, <1>1, <1>2
    <3> QED
      BY <3>1, <3>3 DEF Before
  <2>2. CASE e \in Entries(Around(path[0]) \ K)
    BY <2>2 DEF Before, Entries
  <2> QED
    BY <1>4, <2>1, <2>2
<1>7. calls' = Append(calls, c)
  BY DEF Called
<1>8. InTurn' /\ Left' = Left \ {c} /\ calls' \in Seq(CallType)
  <2> HIDE DEF c
  <2> QED
    BY <1>5, <1>6, <1>7, CallNext
<1>9. Exits(Around(s) \ K) \ {c} = Exits(Around(parent[s]) \ K)
  BY <1>1, <1>3 DEF Exits
<1>10. c \notin Entries(Around(path[0]) \ K)
  BY DEF Entries
<1> QED
  BY <1>4, <1>8, <1>9, <1>10 DEF K

-----------------------------------------------------------------------------
(***************************************************************************)
(* The invariant holds at the start, and every step keeps it.              *)
(***************************************************************************)
LEMMA Types ==
  ASSUME IInv
  PROVE  /\ Chart(parent) /\ parent \in Charts
         /\ N \in Nat /\ N > 0 /\ MaxDepth \in 1..N
         /\ path \in Paths /\ ip \in -1..N /\ ip \in Int
         /\ state \in Nodes /\ src \in Nodes /\ tmp \in Nodes
         /\ calls \in Seq(CallType) /\ due \subseteq CallType
         /\ high \in 0..MaxDepth
         /\ InTurn
<1>1. TypeOK /\ parent \in Charts /\ InTurn /\ high <= MaxDepth
  BY DEF IInv
<1>2. Chart(parent)
  BY <1>1, ChartsAre
<1>3. N \in Nat /\ N > 0 /\ MaxDepth \in 1..N
  BY SizesAssumption
<1> QED
  BY <1>1, <1>2, <1>3 DEF TypeOK, Paths, CallType

LEMMA SameChart ==
  ASSUME parent' = parent
  PROVE  \A s : Around(s)' = Around(s)
<1> QED
  BY DEF Around

LEMMA Start ==
  ASSUME Init
  PROVE  IInv
<1>1. TypeOK
  <2>1. Chart(parent)
    BY ChartsAre DEF Init
  <2>2. <<>> \in Seq({"exit", "entry"} \X States)
    BY EmptySeq
  <2>3. NoPath \in [0..N -> Nodes]
    BY Numbers DEF NoPath
  <2>4. hsm_top \in Nodes /\ -1 \in -1..N /\ 0 \in 0..N
    BY Numbers
  <2> QED
    BY <2>1, <2>2, <2>3, <2>4 DEF Init, TypeOK, Chart
<1>2. InTurn
  BY DEF Init, InTurn, Range
<1>3. Places
  BY DEF Init, Places, AtRest, AtClimb, AtEnter, AtInit, AtOut, AtSearch,
         AtMatch
<1> QED
  BY <1>1, <1>2, <1>3, SizesAssumption DEF Init, IInv

\* The initial transition to a target in tmp.
LEMMA InitialStep ==
  ASSUME IInv, NEW target \in States, InitialTransition(target),
         parent' = parent, calls' = calls, high' = high, active' = active,
         src' \in Nodes, tmp' \in Nodes,
         due' \subseteq CallType, InTurn',
         Within(tmp', parent[target]),
         Left' = Entries(Around(target) \ Around(tmp')),
         \A s \in States : <<"entry", s>> \in due' => s \in Around(target)
  PROVE  IInv'
<1>1. path' \in Paths /\ path'[0] = target
  <2>1. path \in Paths /\ 0 \in 0..N /\ target \in Nodes
    BY Types, Numbers
  <2> QED
    BY <2>1 DEF InitialTransition, Paths
<1>2. PathIn(parent, path', 0)
  BY <1>1, Types, PathStart
<1>3. state' = parent[target] /\ ip' = 0 /\ pc' = "climb"
  BY DEF InitialTransition
<1>4. TypeOK'
  <2>1. parent[target] \in Nodes
    BY Types DEF Chart
  <2>2. 0 \in -1..N
    BY Types
  <2>3. parent' \in [States -> Nodes] /\ calls' \in Seq({"exit", "entry"} \X States)
        /\ high' \in 0..N /\ active' \subseteq States
    BY DEF IInv, TypeOK
  <2> QED
    BY <1>1, <1>3, <2>1, <2>2, <2>3 DEF TypeOK, CallType, Paths
<1>5. AtClimb'
  <2>1. PathTo(ip)'
    BY <1>2, <1>3, Zenon DEF PathTo
  <2>2. path'[ip'] = target /\ state' = parent'[path'[ip']]
    BY <1>1, <1>3
  <2>3. Within(tmp, state)'
    BY <1>3, SameChart DEF Within
  <2>4. Left' = Entries(Around(path[0]) \ Around(tmp))'
    BY <1>1, SameChart DEF Around, Entries
  <2>5. DueWithin(path[0])'
    BY <1>1, SameChart DEF DueWithin, Around
  <2>6. ip' >= 0
    BY <1>3
  <2> QED
    BY <2>1, <2>2, <2>3, <2>4, <2>5, <2>6 DEF AtClimb
<1>6. Places'
  BY <1>3, <1>5 DEF Places, AtRest, AtClimb, AtEnter, AtInit, AtOut, AtSearch,
         AtMatch
<1> QED
  BY <1>4, <1>6, Types DEF IInv

LEMMA hsm_initStep ==
  ASSUME IInv, NEW target \in States, hsm_init(target)
  PROVE  IInv'
<1>1. /\ pc = "new" /\ tmp' = hsm_top /\ due' = Entries(Around(target))
      /\ UNCHANGED <<parent, src, high, calls, active>>
      /\ InitialTransition(target)
  BY DEF hsm_init
<1>2. calls = <<>> /\ due = {}
  BY <1>1 DEF IInv, Places, AtRest
<1>3. Left = {} /\ Range(calls) = {}
  BY <1>2 DEF Left, Range
<1>4. due' = due \cup Entries(Around(target))
  BY <1>1, <1>2
<1>5. Around(target) \subseteq States /\ Around(hsm_top) = {}
  BY Types, AroundIs, Numbers
<1>6. InTurn' /\ Left' = Entries(Around(target))
  <2>1. calls' = calls
    BY <1>1
  <2> QED
    BY <1>2, <1>3, <1>4, <2>1, Types, OweMore
<1>7. due' \subseteq CallType
      /\ \A s \in States : <<"entry", s>> \in due' => s \in Around(target)
  BY <1>1, <1>5 DEF Entries, CallType
<1>8. Around(tmp') = {}
  BY <1>1, <1>5
<1>9. Within(tmp', parent[target])
  BY <1>1 DEF Within
<1>10. Left' = Entries(Around(target) \ Around(tmp'))
  BY <1>6, <1>8
<1>11. src' \in Nodes /\ tmp' \in Nodes
  BY <1>1, Types, Numbers
<1> QED
  BY <1>1, <1>6, <1>7, <1>9, <1>10, <1>11, InitialStep

LEMMA DrillDownStep ==
  ASSUME IInv, NEW target \in States, DrillDown(target)
  PROVE  IInv'
<1> DEFINE S == Around(target) \ Around(tmp)
<1>1. /\ pc = "init" /\ target \in Inside(tmp)
      /\ due' = due \cup Entries(S)
      /\ UNCHANGED <<parent, src, tmp, high, calls, active>>
      /\ InitialTransition(target)
  BY DEF DrillDown
<1>2. tmp \in States /\ Left = {} /\ DueWithin(tmp)
  BY <1>1 DEF IInv, Places, AtInit
<1>3. tmp \in Around(target) /\ tmp # target
  BY <1>1 DEF Inside
<1>4. /\ Around(target) \in SUBSET States
      /\ Around(target) = {target} \cup Around(parent[target])
  BY Types, AroundIs, Numbers
<1>5. /\ tmp \in Nat
      /\ \A u \in Around(target) : u \in Nat /\ (u \in Around(tmp) <=> u <= tmp)
  BY <1>2, <1>3, <1>4, Types, ChainParent, Numbers
<1>6. Around(tmp) \subseteq Around(target)
  BY <1>3, Types, WithinChain, Numbers DEF Within
<1>7. ASSUME NEW e \in Range(calls), NEW s \in S
      PROVE  Before(e, <<"entry", s>>)
  <2>1. e \in due /\ e \in CallType
    BY <1>7, Types DEF InTurn
  <2>2. CASE e[1] = "exit"
    BY <2>2 DEF Before
  <2>3. CASE e[1] = "entry"
    <3>1. e = <<"entry", e[2]>> /\ e[2] \in States
      BY <2>1, <2>3 DEF CallType
    <3>2. e[2] \in Around(tmp)
      BY <2>1, <3>1, <1>2 DEF DueWithin
    <3>3. e[2] \in Nat /\ e[2] <= tmp /\ s \in Nat /\ tmp < s
      BY <3>2, <1>5, <1>6
    <3>4. ~(s <= tmp) /\ e[2] < s
      BY <3>3, <1>2, Numbers
    <3> QED
      BY <2>3, <3>4, Zenon DEF Before
  <2> QED
    BY <2>1, <2>2, <2>3 DEF CallType
<1>8. \A s \in S : <<"entry", s>> \notin due
  BY <1>2, <1>4 DEF DueWithin
<1> HIDE DEF S
<1>9. InTurn' /\ Left' = Entries(S)
  <2>1. calls' = calls /\ InTurn
    BY <1>1, Types
  <2> QED
    BY <1>1, <1>2, <1>7, <1>8, <2>1, OweMore
<1>10. due' \subseteq CallType
       /\ \A s \in States : <<"entry", s>> \in due' => s \in Around(target)
  <2>1. due \subseteq CallType
    BY Types
  <2> QED
    BY <1>1, <1>2, <1>4, <1>6, <2>1 DEF Entries, CallType, DueWithin, S
<1>11. Within(tmp', parent[target])
  BY <1>1, <1>3, <1>4 DEF Within
<1>12. Left' = Entries(Around(target) \ Around(tmp'))
  BY <1>1, <1>9 DEF S
<1>13. src' \in Nodes /\ tmp' \in Nodes
  BY <1>1, Types
<1> QED
  BY <1>1, <1>9, <1>10, <1>11, <1>12, <1>13, InitialStep

LEMMA ClimbStep ==
  ASSUME IInv, Climb
  PROVE  IInv'
<1>1. /\ pc = "climb" /\ pc' = "climb" /\ state # tmp
      /\ ip' = ip + 1
      /\ path' = [path EXCEPT ![ip + 1] = state]
      /\ state' = Empty(state, state)
      /\ Written(ip + 1)
      /\ parent' = parent /\ src' = src /\ tmp' = tmp
      /\ calls' = calls /\ due' = due /\ active' = active
  BY DEF Climb
<1>2. /\ ip >= 0 /\ PathIn(parent, path, ip) /\ path[ip] \in States
      /\ state = parent[path[ip]] /\ Within(tmp, state)
      /\ Left = Entries(Around(path[0]) \ Around(tmp))
      /\ DueWithin(path[0])
  BY <1>1 DEF IInv, Places, AtClimb, PathTo
<1>3. ip \in 0..N
  BY <1>2, Types
<1>4. /\ ip + 1 \in 0..N /\ ip + 1 <= MaxDepth
      /\ path' \in Paths /\ path'[ip + 1] = state
      /\ \A i \in 0..ip : path'[i] = path[i]
      /\ PathIn(parent, path', ip + 1)
  <2>1. path' = Longer(path, ip)
    BY <1>1, <1>2, Zenon DEF Longer
  <2>2. path \in Paths /\ parent \in Charts
    BY Types
  <2>3. /\ ip + 1 \in 0..N /\ ip + 1 <= MaxDepth
        /\ path' \in Paths /\ path'[ip + 1] = parent[path[ip]]
        /\ \A i \in 0..ip : path'[i] = path[i]
        /\ PathIn(parent, path', ip + 1)
    BY <1>2, <1>3, <2>1, <2>2, PathMore
  <2> QED
    BY <2>3, <1>2
<1>5. path'[0] = path[0]
  BY <1>3, <1>4
<1>6. state \in States
  <2>1. CASE state = hsm_top
    BY <2>1, <1>1, <1>2, Types, AroundIs DEF Within
  <2> QED
    BY <2>1, Types, Numbers
<1>7. state' = parent[state] /\ state' \in Nodes
  BY <1>1, <1>6, Numbers, Types, AroundIs DEF Empty
<1>8. Within(tmp, parent[state])
  BY <1>1, <1>2, <1>6, Types, AroundIs DEF Within
<1>9. TypeOK' /\ high' <= MaxDepth
  <2>1. high' \in 0..N /\ high' <= MaxDepth
    BY <1>1, <1>4, Types DEF Written
  <2>2. ip' \in -1..N
    BY <1>1, <1>4, Types
  <2>3. parent' \in [States -> Nodes] /\ calls' \in Seq({"exit", "entry"} \X States)
        /\ due' \subseteq {"exit", "entry"} \X States
        /\ active' \subseteq States
        /\ src' \in Nodes /\ tmp' \in Nodes
    BY <1>1 DEF IInv, TypeOK
  <2> QED
    BY <1>1, <1>4, <1>7, <2>1, <2>2, <2>3 DEF TypeOK, Paths
<1>10. AtClimb'
  <2>1. PathTo(ip)'
    BY <1>1, <1>4, Zenon DEF PathTo
  <2>2. path'[ip'] \in States /\ state' = parent'[path'[ip']]
    BY <1>1, <1>4, <1>6, <1>7
  <2>3. Within(tmp, state)'
    BY <1>1, <1>7, <1>8, SameChart DEF Within
  <2>4. Left' = Entries(Around(path[0]) \ Around(tmp))'
    BY <1>1, <1>2, <1>5, SameChart DEF Around, Entries, Left
  <2>5. DueWithin(path[0])'
    BY <1>1, <1>2, <1>5, SameChart DEF DueWithin, Around
  <2>6. ip' >= 0
    BY <1>1, <1>3
  <2> QED
    BY <2>1, <2>2, <2>3, <2>4, <2>5, <2>6 DEF AtClimb
<1>11. Places'
  BY <1>1, <1>10 DEF Places, AtRest, AtClimb, AtEnter, AtInit, AtOut, AtSearch,
         AtMatch
<1>12. InTurn'
  BY <1>1, Types DEF InTurn
<1> QED
  BY <1>1, <1>9, <1>11, <1>12, Types DEF IInv

\* What the entry of the states in path needs.
LEMMA ToEnter ==
  ASSUME Chart(parent), parent' = parent, pc' = "enter", path'[0] \in States,
         ip' >= 0 => PathIn(parent, path', ip') /\ path'[ip'] \in States,
         Left' = Entries(PathSet(path', ip')),
         \A s \in States : <<"entry", s>> \in due' => s \in Around(path'[0])
  PROVE  Places'
<1>1. ip' >= 0 => PathTo(ip)' /\ path'[ip'] \in States
  BY Zenon DEF PathTo
<1>2. DueWithin(path[0])'
  BY SameChart DEF DueWithin, Around
<1>3. AtEnter'
  BY <1>1, <1>2 DEF AtEnter
<1> QED
  BY <1>3 DEF Places, AtRest, AtClimb, AtEnter, AtInit, AtOut, AtSearch,
         AtMatch

LEMMA ClimbEndStep ==
  ASSUME IInv, ClimbEnd
  PROVE  IInv'
<1>1. /\ pc = "climb" /\ pc' = "enter" /\ state = tmp
      /\ state' = path[0]
      /\ UNCHANGED <<parent, src, tmp, path, ip, hist>>
  BY DEF ClimbEnd
<1>2. /\ ip >= 0 /\ PathIn(parent, path, ip) /\ path[ip] \in States
      /\ state = parent[path[ip]]
      /\ Left = Entries(Around(path[0]) \ Around(tmp))
      /\ DueWithin(path[0])
  BY <1>1 DEF IInv, Places, AtClimb, PathTo
<1>3. ip \in 0..N /\ path[0] \in States
  BY <1>2, Types DEF PathIn
<1>4. Left = Entries(PathSet(path, ip))
  <2>1. Around(path[0]) \ Around(parent[path[ip]]) = PathSet(path, ip)
    BY <1>2, <1>3, Types, PathSegment
  <2> QED
    BY <2>1, <1>1, <1>2
<1>5. TypeOK' /\ InTurn' /\ high' <= MaxDepth
  <2>1. state' \in Nodes
    BY <1>1, <1>3, Numbers
  <2> QED
    BY <1>1, <2>1 DEF IInv, TypeOK, InTurn, hist
<1>6. Places'
  <2>1. path' = path /\ ip' = ip /\ Left' = Left /\ due' = due
    BY <1>1 DEF hist, Left
  <2> QED
    BY <1>1, <1>2, <1>3, <1>4, <2>1, Types, ToEnter DEF DueWithin
<1> QED
  BY <1>1, <1>5, <1>6, Types DEF IInv

LEMMA EnterStep ==
  ASSUME IInv, Enter
  PROVE  IInv'
<1> DEFINE c == <<"entry", path[ip]>>
<1>1. /\ pc = "enter" /\ pc' = "enter" /\ ip >= 0
      /\ calls' = Append(calls, c) /\ ip' = ip - 1
      /\ active' = active \cup {path[ip]}
      /\ UNCHANGED <<parent, state, src, tmp, path, high, due>>
  BY DEF Enter, Called
<1>2. /\ PathIn(parent, path, ip) /\ path[ip] \in States
      /\ Left = Entries(PathSet(path, ip))
      /\ DueWithin(path[0]) /\ path[0] \in States
  BY <1>1 DEF IInv, Places, AtEnter, PathTo
<1>3. ip \in 0..N /\ ip - 1 \in -1..N
  BY <1>1, Types
<1>4. /\ PathSet(path, ip) = PathSet(path, ip - 1) \cup {path[ip]}
      /\ path[ip] \in Nat
      /\ \A s \in PathSet(path, ip - 1) : s \in Nat /\ path[ip] < s
  BY <1>2, <1>3, Types, PathNext
<1>5. c \in Left
  BY <1>2, <1>4 DEF Entries
<1>6. ASSUME NEW e \in Left \ {c}
      PROVE  Before(c, e)
  <2>1. PICK s \in PathSet(path, ip) : e = <<"entry", s>>
    BY <1>2 DEF Entries
  <2>2. s # path[ip]
    BY <2>1, <1>6
  <2>3. path[ip] < s
    BY <2>1, <2>2, <1>4
  <2> QED
    BY <2>1, <2>3 DEF Before
<1>7. InTurn' /\ Left' = Left \ {c} /\ calls' \in Seq(CallType)
  <2> HIDE DEF c
  <2> QED
    BY <1>1, <1>5, <1>6, Types, CallNext
<1>8. Left' = Entries(PathSet(path, ip - 1))
  <2>1. path[ip] \notin PathSet(path, ip - 1)
    BY <1>4
  <2> QED
    BY <2>1, <1>2, <1>4, <1>7 DEF Entries
<1>9. TypeOK' /\ high' <= MaxDepth
  BY <1>1, <1>2, <1>3, <1>7 DEF IInv, TypeOK, CallType
<1>10. ASSUME ip' >= 0
       PROVE  PathIn(parent, path', ip') /\ path'[ip'] \in States
  <2>1. ip - 1 \in 0..ip /\ ip \in 0..ip /\ ip - 1 < ip
    BY <1>1, <1>3, <1>10
  <2>2. PathIn(parent, path, ip - 1)
    BY <2>1, <1>2, <1>3, Types, PathLess
  <2>3. path[ip] < path[ip - 1] /\ path[ip - 1] \in Nodes
    BY <2>1, <1>2 DEF PathIn
  <2>4. path[ip - 1] # hsm_top
    BY <2>3, <1>4, Numbers
  <2> QED
    BY <2>2, <2>3, <2>4, <1>1, Numbers
<1>11. Places'
  <2>1. path' = path /\ due' = due /\ parent' = parent /\ pc' = "enter"
        /\ path'[0] \in States
    BY <1>1, <1>2
  <2>2. Left' = Entries(PathSet(path', ip'))
    BY <1>1, <1>8
  <2>3. \A s \in States : <<"entry", s>> \in due' => s \in Around(path'[0])
    BY <2>1, <1>2 DEF DueWithin
  <2> QED
    BY <2>1, <2>2, <2>3, <1>10, Types, ToEnter
<1> QED
  BY <1>1, <1>7, <1>9, <1>11, Types DEF IInv

LEMMA EnterEndStep ==
  ASSUME IInv, EnterEnd
  PROVE  IInv'
<1>1. /\ pc = "enter" /\ pc' = "init" /\ ip < 0
      /\ tmp' = path[0] /\ state' = path[0]
      /\ UNCHANGED <<parent, src, path, ip, hist>>
  BY DEF EnterEnd
<1>2. /\ path[0] \in States /\ DueWithin(path[0])
      /\ Left = Entries(PathSet(path, ip))
  BY <1>1 DEF IInv, Places, AtEnter
<1>3. Left = {}
  <2>1. PathSet(path, ip) = {}
    BY <1>1, Types, PathEmpty
  <2> QED
    BY <2>1, <1>2 DEF Entries
<1>4. TypeOK' /\ InTurn' /\ high' <= MaxDepth
  <2>1. path[0] \in Nodes
    BY <1>2, Numbers
  <2> QED
    BY <1>1, <2>1 DEF IInv, TypeOK, InTurn, hist
<1>5. AtInit'
  <2>1. due' = due /\ calls' = calls /\ parent' = parent
    BY <1>1 DEF hist
  <2>2. DueWithin(tmp)'
    BY <1>1, <1>2, <2>1, SameChart DEF DueWithin, Around
  <2> QED
    BY <1>1, <1>2, <1>3, <2>1, <2>2 DEF AtInit, Left
<1>6. Places'
  BY <1>1, <1>5 DEF Places, AtRest, AtClimb, AtEnter, AtInit, AtOut, AtSearch,
         AtMatch
<1> QED
  BY <1>1, <1>4, <1>6, Types DEF IInv

LEMMA SettleStep ==
  ASSUME IInv, Settle
  PROVE  IInv'
<1>1. /\ pc = "init" /\ pc' = "idle" /\ state' = tmp
      /\ src' = hsm_top /\ tmp' = hsm_top /\ path' = NoPath /\ ip' = -1
      /\ high' = 0 /\ calls' = <<>> /\ due' = {} /\ parent' = parent
      /\ active' = active
  BY DEF Settle
<1>2. tmp \in States
  BY <1>1 DEF IInv, Places, AtInit
<1>3. TypeOK'
  <2>1. <<>> \in Seq({"exit", "entry"} \X States)
    BY EmptySeq
  <2>2. NoPath \in [0..N -> Nodes]
    BY Numbers DEF NoPath
  <2>3. hsm_top \in Nodes /\ -1 \in -1..N /\ 0 \in 0..N /\ tmp \in Nodes
    BY Numbers, <1>2
  <2> QED
    BY <1>1, <2>1, <2>2, <2>3 DEF IInv, TypeOK
<1>4. InTurn' /\ high' <= MaxDepth
  BY <1>1, Types DEF InTurn, Range
<1>5. Places'
  BY <1>1, <1>2 DEF Places, AtRest, AtClimb, AtEnter, AtInit, AtOut, AtSearch,
         AtMatch
<1> QED
  BY <1>1, <1>3, <1>4, <1>5, Types DEF IInv

LEMMA DispatchStep ==
  ASSUME IInv, NEW source \in States, NEW target \in States,
         Dispatch(source, target)
  PROVE  IInv'
<1>1. /\ pc = "idle" /\ pc' = "out" /\ source \in Around(state)
      /\ src' = source /\ tmp' = state /\ state' = target /\ ip' = -1
      /\ path' = [path EXCEPT ![0] = target, ![1] = state]
      /\ Written(1) /\ due' = Owed(state, source, target)
      /\ parent' = parent /\ calls' = calls /\ active' = active
  BY DEF Dispatch
<1>2. calls = <<>> /\ due = {} /\ state \in States
  BY <1>1 DEF IInv, Places, AtRest
<1>3. path' \in Paths /\ path'[0] = target
  <2>1. path \in Paths /\ 0 \in 0..N /\ 1 \in 0..N /\ 0 # 1
        /\ target \in Nodes /\ state \in Nodes
    BY Types, Numbers
  <2> QED
    BY <1>1, <2>1 DEF Paths
<1>4. Around(state) \subseteq States /\ Around(target) \subseteq States
  BY <1>2, Types, AroundIs, Numbers
<1>5. Owed(state, source, target) \subseteq CallType
      /\ \A s \in States : <<"entry", s>> \in Owed(state, source, target)
                             => s \in Around(target)
  BY <1>4 DEF Owed, Exits, Entries, CallType
<1>6. TypeOK' /\ high' <= MaxDepth
  <2>1. high' \in 0..N /\ high' <= MaxDepth
    BY <1>1, Types DEF Written
  <2>2. source \in Nodes /\ target \in Nodes /\ state \in Nodes
        /\ -1 \in -1..N
    BY Types, Numbers
  <2> QED
    BY <1>1, <1>3, <1>5, <2>1, <2>2 DEF IInv, TypeOK, Paths, CallType
<1>7. Range(calls') = {} /\ DOMAIN calls' = {}
  BY <1>1, <1>2 DEF Range
<1>8. InTurn'
  BY <1>7 DEF InTurn
<1>9. AtOut'
  <2>1. LeftFrom(tmp)'
    <3>1. Left' = due'
      BY <1>7 DEF Left
    <3>2. Left' = Exits(Around(tmp') \ Kept(src', path'[0]))
                    \cup Entries(Around(path'[0]) \ Kept(src', path'[0]))
      BY <3>1, <1>1, <1>3 DEF Owed
    <3> QED
      BY <3>2, <1>1 DEF LeftFrom, Kept, Around
  <2>2. DueWithin(path[0])'
    BY <1>1, <1>3, <1>5, SameChart DEF DueWithin, Around
  <2>3. (src \in Around(tmp))'
    BY <1>1 DEF Around
  <2> QED
    BY <1>1, <1>2, <1>3, <2>1, <2>2, <2>3 DEF AtOut
<1>10. Places'
  BY <1>1, <1>9 DEF Places, AtRest, AtClimb, AtEnter, AtInit, AtOut, AtSearch,
         AtMatch
<1> QED
  BY <1>1, <1>6, <1>8, <1>10, Types DEF IInv

\* src is around tmp, and tmp is another state.
LEMMA ExitToSourceStep ==
  ASSUME IInv, ExitToSource
  PROVE  IInv'
<1>1. /\ pc = "out" /\ pc' = "out" /\ tmp # src
      /\ Called("exit", tmp) /\ tmp' = parent[tmp] /\ state' = parent[tmp]
      /\ UNCHANGED <<parent, src, path, ip, high, due>>
  BY DEF ExitToSource
<1>2. /\ path[0] \in States /\ tmp \in States /\ src \in Around(tmp)
      /\ LeftFrom(tmp) /\ DueWithin(path[0])
  BY <1>1 DEF IInv, Places, AtOut
<1>3. /\ src \in States /\ src \in Nat /\ tmp \in Nat /\ src < tmp
      /\ parent[tmp] \in Nodes
      /\ Around(tmp) = {tmp} \cup Around(parent[tmp])
  BY <1>1, <1>2, Types, AroundIs, Chains, Numbers DEF ChainOf
<1>4. tmp \notin Kept(src, path[0])
  <2>1. tmp \notin Around(src)
    BY <1>3, Types, Chains, Numbers DEF ChainOf
  <2> QED
    BY <2>1, KeptIs
<1>5. src \in Around(parent[tmp])
  BY <1>1, <1>2, <1>3
<1>6. parent[tmp] \in States
  BY <1>3, <1>5, Types, AroundIs, Numbers
<1>7. /\ InTurn' /\ calls' \in Seq(CallType)
      /\ Left' = Exits(Around(parent[tmp]) \ Kept(src, path[0]))
                   \cup Entries(Around(path[0]) \ Kept(src, path[0]))
  <2>1. due' = due
    BY <1>1
  <2> QED
    BY <1>1, <1>2, <1>4, <2>1, Types, ExitNext
<1>8. TypeOK' /\ high' <= MaxDepth
  BY <1>1, <1>3, <1>7 DEF IInv, TypeOK, CallType, Called
<1>9. AtOut'
  <2>1. LeftFrom(tmp)'
    BY <1>1, <1>7 DEF LeftFrom, Kept, Around
  <2>2. DueWithin(path[0])'
    BY <1>1, <1>2 DEF DueWithin, Around
  <2>3. (src \in Around(tmp))'
    BY <1>1, <1>5 DEF Around
  <2> QED
    BY <1>1, <1>2, <1>6, <2>1, <2>2, <2>3 DEF AtOut
<1>10. Places'
  BY <1>1, <1>9 DEF Places, AtRest, AtClimb, AtEnter, AtInit, AtOut, AtSearch,
         AtMatch
<1> QED
  BY <1>1, <1>7, <1>8, <1>10, Types DEF IInv

\* The four near cases: what is exited is the source or nothing, what is
\* entered the target or nothing.
LEMMA NearStep ==
  ASSUME IInv, Near
  PROVE  IInv'
<1> DEFINE target == path[0]
           K == Kept(src, target)
<1>1. /\ pc = "out" /\ tmp = src
      /\ parent' = parent /\ src' = src /\ due' = due
      /\ path' = path /\ high' = high /\ pc' = "enter"
  BY DEF Near, LeaveSource
<1>2. /\ target \in States /\ src \in States /\ LeftFrom(src)
      /\ DueWithin(target)
  BY <1>1 DEF IInv, Places, AtOut
<1>3. \A s \in States :
        /\ s \in Nat /\ parent[s] \in Nodes /\ parent[s] \in Nat
        /\ parent[s] < s
        /\ Around(s) = {s} \cup Around(parent[s])
        /\ Around(s) \subseteq States
        /\ s \in Nodes
        /\ \A t \in Around(parent[s]) : t \in Nat /\ t < s
  BY Types, AroundIs, Chains, Numbers DEF ChainOf
<1>4. src \notin Around(parent[src]) /\ target \notin Around(parent[target])
  BY <1>2, <1>3
<1>5. /\ PathIn(parent, path, 0)
      /\ PathSet(path, 0) = {target} /\ PathSet(path, -1) = {}
  <2>1. 0..0 = {0}
    OBVIOUS
  <2> QED
    BY <1>2, <2>1, Types, PathStart, PathEmpty DEF PathSet
<1> HIDE DEF target, K
<1>6. Left = Exits(Around(src) \ K) \cup Entries(Around(target) \ K)
  BY <1>2 DEF LeftFrom, K, target
<1> DEFINE Calls(exited, entered) ==
        /\ Around(parent[src]) \ K = {}
        /\ (src \in K) = ~exited
        /\ Around(target) \ K = IF entered THEN {target} ELSE {}
        /\ IF exited THEN Called("exit", src)
                     ELSE calls' = calls /\ active' = active
        /\ ip' = IF entered THEN 0 ELSE -1
        /\ state' \in Nodes /\ tmp' \in Nodes
<1>7. Calls(TRUE, TRUE) \/ Calls(FALSE, TRUE) \/ Calls(TRUE, FALSE)
  <2>1. ASSUME src = target, LeaveSource(0), tmp' = target,
               state' \in {src, parent[src]}
        PROVE  Calls(TRUE, TRUE)
    <3>1. K = Around(src) \ {src}
      BY <2>1, KeptIs DEF K
    <3>2. /\ Around(parent[src]) \ K = {} /\ src \notin K
          /\ Around(target) \ K = {target}
      BY <3>1, <2>1, <1>2, <1>3, <1>4
    <3>3. state' \in Nodes /\ tmp' \in Nodes
      BY <2>1, <1>2, <1>3
    <3> QED
      BY <2>1, <3>2, <3>3 DEF LeaveSource
  <2>2. ASSUME src # target, src = parent[target], state' = src, tmp' = src,
               ip' = 0, calls' = calls, active' = active
        PROVE  Calls(FALSE, TRUE)
    <3>1. K = Around(src)
      BY <2>2, <1>2, <1>3, KeptIs DEF K
    <3>2. /\ Around(parent[src]) \ K = {} /\ src \in K
          /\ Around(target) \ K = {target}
      BY <3>1, <2>2, <1>2, <1>3, <1>4
    <3>3. state' \in Nodes /\ tmp' \in Nodes
      BY <2>2, <1>2, <1>3
    <3> QED
      BY <2>2, <3>2, <3>3
  <2>3. ASSUME src # target, parent[src] = parent[target], LeaveSource(0),
               tmp' = parent[target], state' = parent[src]
        PROVE  Calls(TRUE, TRUE)
    <3>1. K = Around(parent[src])
      BY <2>3, <1>2, <1>3, KeptIs DEF K
    <3>2. /\ Around(parent[src]) \ K = {} /\ src \notin K
          /\ Around(target) \ K = {target}
      BY <3>1, <2>3, <1>2, <1>3, <1>4
    <3>3. state' \in Nodes /\ tmp' \in Nodes
      BY <2>3, <1>2, <1>3
    <3> QED
      BY <2>3, <3>2, <3>3 DEF LeaveSource
  <2>4. ASSUME src # parent[target], parent[src] = target, LeaveSource(-1),
               tmp' = parent[target], state' = parent[src]
        PROVE  Calls(TRUE, FALSE)
    <3>1. K = Around(target)
      <4>1. src # target
        BY <2>4, <1>2, <1>3
      <4> QED
        BY <4>1, <2>4, <1>2, <1>3, KeptIs DEF K
    <3>2. /\ Around(parent[src]) \ K = {} /\ src \notin K
          /\ Around(target) \ K = {}
      BY <3>1, <2>4, <1>2, <1>3, <1>4
    <3>3. state' \in Nodes /\ tmp' \in Nodes
      BY <2>4, <1>2, <1>3
    <3> QED
      BY <2>4, <3>2, <3>3 DEF LeaveSource
  <2> QED
    <3> HIDE DEF Calls
    <3> QED
      BY <1>1, <2>1, <2>2, <2>3, <2>4 DEF Near, target
<1>8. PICK exited \in BOOLEAN, entered \in BOOLEAN : Calls(exited, entered)
  BY <1>7
<1>9. /\ InTurn' /\ calls' \in Seq(CallType)
      /\ Left' = Entries(Around(target) \ K)
  <2>1. CASE exited
    <3>1. src \notin K /\ Called("exit", src)
      BY <2>1, <1>8
    <3>2. /\ InTurn' /\ calls' \in Seq(CallType)
          /\ Left' = Exits(Around(parent[src]) \ K)
                       \cup Entries(Around(target) \ K)
      BY <3>1, <1>1, <1>2, Types, ExitNext DEF K, target
    <3> QED
      BY <3>2, <1>8 DEF Exits
  <2>2. CASE ~exited
    <3>1. calls' = calls /\ due' = due /\ src \in K
      BY <2>2, <1>1, <1>8
    <3>2. Around(src) \ K = {}
      BY <3>1, <1>2, <1>3, <1>8
    <3> QED
      BY <3>1, <3>2, <1>6, Types DEF InTurn, Left, Exits
  <2> QED
    BY <2>1, <2>2
<1>10. Left' = Entries(PathSet(path', ip'))
  BY <1>1, <1>5, <1>8, <1>9
<1>11. TypeOK' /\ high' <= MaxDepth
  <2>1. ip' \in -1..N
    BY <1>8, Types
  <2> QED
    BY <1>1, <1>8, <1>9, <2>1 DEF IInv, TypeOK, CallType, Called
<1>12. Places'
  <2>1. ip' >= 0 => PathIn(parent, path', ip') /\ path'[ip'] \in States
    BY <1>1, <1>2, <1>5, <1>8 DEF target
  <2>2. \A s \in States : <<"entry", s>> \in due' => s \in Around(path'[0])
    BY <1>1, <1>2 DEF DueWithin, target
  <2>3. path'[0] \in States
    BY <1>1, <1>2 DEF target
  <2> QED
    BY <1>1, <1>10, <2>1, <2>2, <2>3, Types, ToEnter
<1> QED
  BY <1>1, <1>9, <1>11, <1>12, Types DEF IInv

\* What the search for the source needs.
LEMMA ToSearch ==
  ASSUME IInv, UNCHANGED <<parent, src, calls, due>>, pc' = "search",
         src \in States, tmp' = parent[src], path'[0] = path[0],
         LeftFrom(src), DueWithin(path[0]),
         ip' \in 1..N, PathIn(parent, path', ip'), src \notin PathSet(path', ip'),
         path'[ip'] # hsm_top => state' = parent[path'[ip']]
  PROVE  Places'
<1>1. PathTo(ip)'
  BY Zenon DEF PathTo
<1>2. DueWithin(path[0])' /\ LeftFrom(src)'
  BY DEF DueWithin, LeftFrom, Left, Kept, Around
<1>3. ip' >= 1
  BY Types
<1>4. AtSearch'
  BY <1>1, <1>2, <1>3 DEF AtSearch
<1> QED
  BY <1>4 DEF Places, AtRest, AtClimb, AtEnter, AtInit, AtOut, AtSearch,
         AtMatch

LEMMA FarStep ==
  ASSUME IInv, Far
  PROVE  IInv'
<1> DEFINE target == path[0]
<1>1. /\ pc = "out" /\ tmp = src
      /\ src # target /\ src # parent[target]
      /\ path' = [path EXCEPT ![1] = parent[target]]
      /\ state' = Empty(parent[target], parent[src])
      /\ ip' = 1 /\ tmp' = parent[src] /\ pc' = "search"
      /\ UNCHANGED <<parent, src, high, calls, due, active>>
  BY DEF Far, hist
<1>2. /\ target \in States /\ src \in States /\ LeftFrom(src)
      /\ DueWithin(target)
  BY <1>1 DEF IInv, Places, AtOut
<1>3. path' = Longer(path, 0)
  BY <1>1 DEF Longer
<1>4. /\ 1 \in 0..N /\ path' \in Paths /\ path'[1] = parent[target]
      /\ path'[0] = target /\ PathIn(parent, path', 1)
  <2>1. PathIn(parent, path, 0) /\ 0 \in 0..N
    BY <1>2, Types, PathStart
  <2> QED
    BY <2>1, <1>2, <1>3, Types, PathMore
<1>5. src \notin PathSet(path', 1)
  <2>1. 0..1 = {0, 1}
    OBVIOUS
  <2> QED
    BY <2>1, <1>1, <1>4 DEF PathSet
<1>6. parent[src] \in Nodes /\ parent[target] \in Nodes
  BY <1>2, Types DEF Chart
<1>7. /\ state' \in Nodes
      /\ parent[target] # hsm_top => state' = parent[parent[target]]
  <2>1. CASE parent[target] = hsm_top
    BY <2>1, <1>1, <1>6 DEF Empty
  <2>2. CASE parent[target] # hsm_top
    BY <2>2, <1>1, <1>6, Types, Numbers, AroundIs DEF Empty
  <2> QED
    BY <2>1, <2>2
<1>8. TypeOK' /\ InTurn' /\ high' <= MaxDepth
  <2>1. ip' \in -1..N
    BY <1>1, <1>4, Types
  <2> QED
    BY <1>1, <1>4, <1>6, <1>7, <2>1 DEF IInv, TypeOK, InTurn, Paths
<1>9. Places'
  <2>1. ip' \in 1..N /\ PathIn(parent, path', ip') /\ src \notin PathSet(path', ip')
    BY <1>1, <1>4, <1>5, Types
  <2>2. path'[ip'] # hsm_top => state' = parent[path'[ip']]
    BY <1>1, <1>4, <1>7
  <2>3. UNCHANGED <<parent, src, calls, due>>
    BY <1>1
  <2> QED
    BY <1>1, <1>2, <1>4, <2>1, <2>2, <2>3, ToSearch
<1> QED
  BY <1>1, <1>8, <1>9, Types DEF IInv

LEMMA SearchStep ==
  ASSUME IInv, Search
  PROVE  IInv'
<1> DEFINE target == path[0]
<1>1. /\ pc = "search" /\ path[ip] # hsm_top
      /\ path' = [path EXCEPT ![ip + 1] = state]
      /\ Written(ip + 1)
      /\ UNCHANGED <<parent, src, tmp, calls, due, active>>
  BY DEF Search
<1>2. /\ src \in States /\ tmp = parent[src]
      /\ ip >= 1 /\ PathIn(parent, path, ip) /\ src \notin PathSet(path, ip)
      /\ state = parent[path[ip]]
      /\ LeftFrom(src) /\ DueWithin(target)
  BY <1>1 DEF IInv, Places, AtSearch, PathTo
<1>3. ip \in 0..N /\ ip \in 0..ip /\ 0 \in 0..ip
  BY <1>2, Types
<1>4. path[ip] \in States /\ target \in States
  BY <1>1, <1>2, <1>3, Numbers DEF PathIn
<1>5. /\ ip + 1 \in 0..N /\ ip + 1 <= MaxDepth
      /\ path' \in Paths /\ path'[ip + 1] = state
      /\ \A i \in 0..ip : path'[i] = path[i]
      /\ PathIn(parent, path', ip + 1)
  <2>1. path' = Longer(path, ip)
    BY <1>1, <1>2, Zenon DEF Longer
  <2>2. path \in Paths /\ parent \in Charts
    BY Types
  <2>3. /\ ip + 1 \in 0..N /\ ip + 1 <= MaxDepth
        /\ path' \in Paths /\ path'[ip + 1] = parent[path[ip]]
        /\ \A i \in 0..ip : path'[i] = path[i]
        /\ PathIn(parent, path', ip + 1)
    BY <1>2, <1>3, <1>4, <2>1, <2>2, PathMore
  <2> QED
    BY <2>3, <1>2
<1>6. path'[0] = target /\ state \in Nodes
  BY <1>3, <1>5, Types
<1>7. high' \in 0..N /\ high' <= MaxDepth
  BY <1>1, <1>5, Types DEF Written
<1>8. InTurn'
  BY <1>1, Types DEF InTurn
<1>9. CASE state = src
  <2>1. ip' = ip /\ pc' = "enter" /\ state' = state
    BY <1>1, <1>9 DEF Search
  <2>2. TypeOK'
    BY <1>1, <1>5, <1>7, <2>1 DEF IInv, TypeOK, Paths
  <2>3. PathIn(parent, path', ip) /\ path'[ip] = path[ip]
    <3>1. ip \in 0..(ip + 1)
      BY <1>3
    <3> QED
      BY <3>1, <1>3, <1>5, PathLess
  <2>4. src # target
    BY <1>2, <1>3 DEF PathSet
  <2>5. Kept(src, target) = Around(src)
    <3>1. Within(src, target)
      <4>1. ip + 1 \in 0..(ip + 1)
        BY <1>3
      <4>2. src \in {hsm_top} \cup Around(target)
        BY <4>1, <1>5, <1>6, <1>9 DEF PathIn, Around
      <4> QED
        BY <4>2 DEF Within
    <3>2. Around(src) \subseteq Around(target)
      BY <3>1, <1>2, <1>4, Types, Numbers, WithinChain
    <3> QED
      BY <3>2, <2>4, KeptIs
  <2>6. Left = Entries(Around(target) \ Around(src))
    BY <1>2, <2>5 DEF LeftFrom, Exits
  <2>7. Around(target) \ Around(src) = PathSet(path', ip)
    BY <1>2, <1>3, <1>4, <1>5, <1>6, <1>9, <2>3, Types, PathSegment
  <2>8. Left' = Entries(PathSet(path', ip'))
    BY <1>1, <2>1, <2>6, <2>7 DEF Left
  <2>9. Places'
    <3>1. ip' >= 0 => PathIn(parent, path', ip') /\ path'[ip'] \in States
      BY <1>4, <2>1, <2>3
    <3>2. \A s \in States : <<"entry", s>> \in due' => s \in Around(path'[0])
      BY <1>1, <1>2, <1>6 DEF DueWithin
    <3>3. path'[0] \in States
      BY <1>4, <1>6
    <3> QED
      BY <1>1, <2>1, <2>8, <3>1, <3>2, <3>3, Types, ToEnter
  <2> QED
    BY <1>1, <1>7, <1>8, <2>2, <2>9, Types DEF IInv
<1>10. CASE state # src
  <2>1. ip' = ip + 1 /\ pc' = "search" /\ state' = Empty(state, state)
    BY <1>1, <1>10 DEF Search
  <2>2. state' \in Nodes /\ (state # hsm_top => state' = parent[state])
    BY <1>6, <2>1, Types, Numbers, AroundIs DEF Empty
  <2>3. TypeOK'
    <3>1. ip' \in -1..N
      BY <1>5, <2>1, Types
    <3> QED
      BY <1>1, <1>5, <1>7, <2>1, <2>2, <3>1 DEF IInv, TypeOK, Paths
  <2>4. src \notin PathSet(path', ip + 1)
    <3>1. \A i \in 0..(ip + 1) : i \in 0..ip \/ i = ip + 1
      BY <1>3
    <3> QED
      BY <3>1, <1>2, <1>5, <1>10 DEF PathSet
  <2>5. Places'
    <3>1. ip' \in 1..N
      BY <1>2, <1>5, <2>1, Types
    <3>2. PathIn(parent, path', ip') /\ src \notin PathSet(path', ip')
      BY <1>5, <2>1, <2>4
    <3>3. path'[ip'] # hsm_top => state' = parent[path'[ip']]
      BY <1>5, <2>1, <2>2
    <3>4. UNCHANGED <<parent, src, calls, due>> /\ tmp' = parent[src]
      BY <1>1, <1>2
    <3> QED
      BY <1>2, <1>6, <2>1, <3>1, <3>2, <3>3, <3>4, ToSearch
  <2> QED
    BY <1>1, <1>7, <1>8, <2>3, <2>5, Types DEF IInv
<1> QED
  BY <1>9, <1>10

\* What the search for a common state needs.
LEMMA ToMatch ==
  ASSUME IInv, UNCHANGED <<parent, src, path, ip, due>>, pc' = "match",
         src \in States, Within(tmp', src), tmp' < src,
         ip >= 0, PathIn(parent, path, ip), path[ip] = hsm_top,
         \A s \in Around(src) : tmp' < s => s \notin Around(path[0]),
         Left' = Exits(Around(tmp') \ Kept(src, path[0]))
                   \cup Entries(Around(path[0]) \ Kept(src, path[0])),
         DueWithin(path[0])
  PROVE  Places'
<1>1. PathTo(ip)'
  BY Zenon DEF PathTo
<1>2. DueWithin(path[0])' /\ LeftFrom(tmp)'
  BY DEF DueWithin, LeftFrom, Kept, Around
<1>3. Within(tmp, src)'
  BY DEF Within, Around
<1>4. (\A s \in Around(src) : tmp < s => s \notin Around(path[0]))'
  BY DEF Around
<1>5. AtMatch'
  BY <1>1, <1>2, <1>3, <1>4 DEF AtMatch
<1> QED
  BY <1>5 DEF Places, AtRest, AtClimb, AtEnter, AtInit, AtOut, AtSearch,
         AtMatch

LEMMA SearchEndStep ==
  ASSUME IInv, SearchEnd
  PROVE  IInv'
<1> DEFINE target == path[0]
<1>1. /\ pc = "search" /\ path[ip] = hsm_top
      /\ Called("exit", src) /\ pc' = "match"
      /\ state' \in {state, parent[src]}
      /\ UNCHANGED <<parent, src, tmp, path, ip, high, due>>
  BY DEF SearchEnd
<1>2. /\ src \in States /\ tmp = parent[src]
      /\ ip >= 1 /\ PathIn(parent, path, ip) /\ src \notin PathSet(path, ip)
      /\ LeftFrom(src) /\ DueWithin(target)
  BY <1>1 DEF IInv, Places, AtSearch, PathTo
<1>3. ip \in 0..N
  BY <1>2, Types
<1>4. src \notin Around(target)
  BY <1>1, <1>2, <1>3, Types, PathComplete DEF PathSet
<1>5. /\ src \in Around(src) /\ parent[src] \in Nodes /\ parent[src] < src
      /\ Around(src) = {src} \cup Around(parent[src])
      /\ Within(parent[src], src)
      /\ \A s \in Around(parent[src]) : s \in Nat /\ s <= parent[src]
      /\ parent[src] \in Nat
  BY <1>2, Types, AroundIs, Chains, ChainParent, Numbers DEF ChainOf
<1>6. src # target
  BY <1>4, <1>5
<1>7. src \notin Kept(src, target)
  BY <1>4, <1>6, KeptIs
<1>8. /\ InTurn' /\ calls' \in Seq(CallType)
      /\ Left' = Exits(Around(tmp') \ Kept(src, target))
                   \cup Entries(Around(target) \ Kept(src, target))
  <2>1. due' = due /\ tmp' = parent[src]
    BY <1>1, <1>2
  <2> QED
    BY <1>1, <1>2, <1>7, <2>1, Types, ExitNext
<1>9. TypeOK' /\ high' <= MaxDepth
  <2>1. state' \in Nodes
    BY <1>1, <1>5, Types
  <2> QED
    BY <1>1, <1>8, <2>1 DEF IInv, TypeOK, CallType, Called
<1>10. \A s \in Around(src) : tmp' < s => s \notin Around(target)
  <2>1. ASSUME NEW s \in Around(src), tmp' < s
        PROVE  s = src
    <3>1. CASE s \in Around(parent[src])
      <4>1. s \in Nat /\ s <= parent[src] /\ tmp' = parent[src]
        BY <3>1, <1>1, <1>2, <1>5
      <4>2. FALSE
        BY <4>1, <2>1, <1>5
      <4> QED
        BY <4>2
    <3> QED
      BY <3>1, <1>5
  <2> QED
    BY <2>1, <1>4
<1>11. Places'
  <2>1. UNCHANGED <<parent, src, path, ip, due>> /\ Within(tmp', src)
        /\ tmp' < src /\ ip >= 0
    BY <1>1, <1>2, <1>3, <1>5
  <2> QED
    BY <1>1, <1>2, <1>8, <1>10, <2>1, ToMatch
<1> QED
  BY <1>1, <1>8, <1>9, <1>11, Types DEF IInv

LEMMA MatchStep ==
  ASSUME IInv, Match
  PROVE  IInv'
<1> DEFINE target == path[0]
<1>1. /\ pc = "match" /\ pc' = "enter"
      /\ UNCHANGED <<parent, state, src, tmp, path, hist>>
  BY DEF Match
<1>2. PICK i \in 0..ip : path[i] = tmp /\ ip' = i - 1
  BY DEF Match
<1>3. /\ src \in States /\ Within(tmp, src) /\ tmp < src
      /\ ip >= 0 /\ PathIn(parent, path, ip)
      /\ \A s \in Around(src) : tmp < s => s \notin Around(target)
      /\ LeftFrom(tmp) /\ DueWithin(target)
  BY <1>1 DEF IInv, Places, AtMatch, PathTo
<1>4. ip \in 0..N /\ i \in 0..N /\ i \in 0..i /\ i - 1 \in -1..N
  BY <1>2, <1>3, Types
<1>5. PathIn(parent, path, i) /\ target \in States /\ target \in Nodes
      /\ Within(tmp, target)
  <2>1. PathIn(parent, path, i)
    BY <1>2, <1>3, <1>4, Types, PathLess
  <2>2. tmp \in {hsm_top} \cup Around(target)
    BY <2>1, <1>2, <1>4 DEF PathIn, Around
  <2>3. target \in States
    BY <2>1 DEF PathIn
  <2> QED
    BY <2>1, <2>2, <2>3, Numbers DEF Within
<1>6. Kept(src, target) = Around(tmp)
  <2>1. src \in Around(src) /\ src \in Nodes /\ tmp \in Nodes /\ tmp \in Nat
        /\ Around(src) \subseteq States
    BY <1>3, Types, AroundIs, Numbers
  <2>2. src # target
    <3>1. src \notin Around(target)
      BY <2>1, <1>3
    <3> QED
      BY <3>1, <2>1
  <2>3. Around(tmp) = {u \in Around(src) : u <= tmp}
        /\ Around(tmp) \subseteq Around(target)
    BY <2>1, <1>3, <1>5, Types, WithinChain
  <2>4. ASSUME NEW u \in Around(src), u \in Around(target)
        PROVE  u \in Around(tmp)
    <3>1. ~(tmp < u) /\ u \in Nat
      BY <2>1, <2>4, <1>3, Numbers
    <3> QED
      BY <3>1, <2>1, <2>3
  <2> QED
    BY <2>2, <2>3, <2>4, KeptIs
<1>7. Left = Entries(Around(target) \ Around(tmp))
  BY <1>3, <1>6 DEF LeftFrom, Exits
<1>8. Around(target) \ Around(tmp) = PathSet(path, i - 1)
  <2>1. Around(target) \ Around(path[i]) = PathSet(path, i - 1)
    BY <1>4, <1>5, Types, PathSegment
  <2> QED
    BY <2>1, <1>2
<1>9. ASSUME ip' >= 0
      PROVE  PathIn(parent, path', ip') /\ path'[ip'] \in States
  <2>1. i - 1 \in 0..i /\ i - 1 < i
    BY <1>2, <1>4, <1>9, Types
  <2>2. PathIn(parent, path, i - 1)
    BY <2>1, <1>4, <1>5, Types, PathLess
  <2>3. path[i] < path[i - 1] /\ path[i - 1] \in Nodes /\ path[i] \in Nodes
    BY <2>1, <1>4, <1>5 DEF PathIn
  <2>4. path[i - 1] # hsm_top
    BY <2>3, Numbers
  <2> QED
    BY <2>2, <2>3, <2>4, <1>1, <1>2, Numbers
<1>10. TypeOK' /\ InTurn' /\ high' <= MaxDepth
  BY <1>1, <1>2, <1>4 DEF IInv, TypeOK, InTurn, hist
<1>11. Places'
  <2>1. path' = path /\ due' = due /\ parent' = parent /\ calls' = calls
        /\ path'[0] \in States
    BY <1>1, <1>5 DEF hist
  <2>2. Left' = Entries(PathSet(path', ip'))
    BY <2>1, <1>2, <1>7, <1>8 DEF Left
  <2>3. \A s \in States : <<"entry", s>> \in due' => s \in Around(path'[0])
    BY <2>1, <1>3 DEF DueWithin
  <2> QED
    BY <1>1, <2>1, <2>2, <2>3, <1>9, Types, ToEnter
<1> QED
  BY <1>1, <1>10, <1>11, Types DEF IInv

LEMMA ExitUpStep ==
  ASSUME IInv, ExitUp
  PROVE  IInv'
<1> DEFINE target == path[0]
<1>1. /\ pc = "match" /\ pc' = "match"
      /\ \A i \in 0..ip : path[i] # tmp
      /\ Called("exit", tmp)
      /\ tmp' = Empty(tmp, state) /\ state' = Empty(tmp, state)
      /\ UNCHANGED <<parent, src, path, ip, high, due>>
  BY DEF ExitUp
<1>2. /\ src \in States /\ Within(tmp, src) /\ tmp < src
      /\ ip >= 0 /\ PathIn(parent, path, ip) /\ path[ip] = hsm_top
      /\ \A s \in Around(src) : tmp < s => s \notin Around(target)
      /\ LeftFrom(tmp) /\ DueWithin(target)
  BY <1>1 DEF IInv, Places, AtMatch, PathTo
<1>3. ip \in 0..N /\ ip \in 0..ip
  BY <1>2, Types
<1>4. tmp \in States /\ tmp # hsm_top /\ tmp \in Around(src)
  BY <1>1, <1>2, <1>3, Types, Numbers DEF Within
<1>5. tmp \notin Around(target)
  BY <1>1, <1>2, <1>3, <1>4, Types, PathComplete
<1>6. tmp' = parent[tmp] /\ state' = parent[tmp]
  BY <1>1, <1>4 DEF Empty
<1>7. /\ src \in Around(src) /\ Around(src) \subseteq States
      /\ src \in Nat /\ tmp \in Nat /\ parent[tmp] \in Nat
      /\ parent[tmp] \in Nodes /\ parent[tmp] < tmp
      /\ Within(parent[tmp], src)
      /\ \A u \in Around(src) : u \in Around(parent[tmp]) <=> u < tmp
  BY <1>2, <1>4, Types, AroundIs, ChainParent, Numbers
<1>8. tmp \notin Kept(src, target)
  <2>1. src # target
    <3>1. src \notin Around(target)
      BY <1>2, <1>7
    <3> QED
      BY <3>1, <1>7
  <2> QED
    BY <2>1, <1>5, KeptIs
<1>9. /\ InTurn' /\ calls' \in Seq(CallType)
      /\ Left' = Exits(Around(tmp') \ Kept(src, target))
                   \cup Entries(Around(target) \ Kept(src, target))
  <2>1. due' = due
    BY <1>1
  <2> QED
    BY <1>1, <1>2, <1>4, <1>6, <1>8, <2>1, Types, ExitNext
<1>10. TypeOK' /\ high' <= MaxDepth
  BY <1>1, <1>6, <1>7, <1>9 DEF IInv, TypeOK, CallType, Called
<1>11. ASSUME NEW s \in Around(src), tmp' < s
       PROVE  s \notin Around(target)
  <2>1. s \in Nat /\ parent[tmp] < s
    BY <1>6, <1>7, <1>11, Numbers
  <2>2. CASE tmp < s
    BY <2>2, <1>2
  <2>3. CASE s = tmp
    BY <2>3, <1>5
  <2>4. CASE s < tmp
    <3>1. s \in Around(parent[tmp])
      BY <2>4, <1>7
    <3>2. s <= parent[tmp]
      BY <3>1, <1>7, Types, Chains DEF ChainOf
    <3> QED
      BY <3>2, <2>1, <1>7
  <2> QED
    BY <2>1, <2>2, <2>3, <2>4, <1>7
<1>12. Places'
  <2>1. UNCHANGED <<parent, src, path, ip, due>> /\ Within(tmp', src)
        /\ tmp' < src
    BY <1>1, <1>6, <1>7, <1>2
  <2> QED
    BY <1>1, <1>2, <1>9, <1>11, <2>1, ToMatch
<1> QED
  BY <1>1, <1>9, <1>10, <1>12, Types DEF IInv

-----------------------------------------------------------------------------
\* The invariant of hsm_init and hsm_dispatch (hsm.c:44-200).
THEOREM Invariance ==
  Spec => []IInv
<1>1. Init => IInv
  BY Start
<1>2. ASSUME IInv, [Next]_vars
      PROVE  IInv'
  <2>1. CASE UNCHANGED vars
    BY <2>1, <1>2 DEF vars, IInv, TypeOK, InTurn, Places, AtRest, AtClimb,
         AtEnter, AtInit, AtOut, AtSearch, AtMatch, PathTo, DueWithin,
         LeftFrom, Left, Kept, Within, Around
  <2>2. CASE \E t \in States : hsm_init(t) \/ DrillDown(t)
    BY <2>2, <1>2, hsm_initStep, DrillDownStep
  <2>3. CASE \E s, t \in States : Dispatch(s, t)
    BY <2>3, <1>2, DispatchStep
  <2>4. CASE Climb \/ ClimbEnd \/ Enter \/ EnterEnd \/ Settle
    BY <2>4, <1>2, ClimbStep, ClimbEndStep, EnterStep, EnterEndStep, SettleStep
  <2>5. CASE ExitToSource \/ Near \/ Far \/ Search
    BY <2>5, <1>2, ExitToSourceStep, NearStep, FarStep, SearchStep
  <2>6. CASE SearchEnd \/ Match \/ ExitUp
    BY <2>6, <1>2, SearchEndStep, MatchStep, ExitUpStep
  <2> QED
    BY <1>2, <2>1, <2>2, <2>3, <2>4, <2>5, <2>6 DEF Next
<1> QED
  BY <1>1, <1>2, PTL DEF Spec

-----------------------------------------------------------------------------
(***************************************************************************)
(* hsm_is_in: its loop, from state s outwards.                             *)
(***************************************************************************)
\* up is right up to turn n of the loop.
Outwards(up, s, n) ==
  /\ up \in [0..n -> Nodes]
  /\ up[0] = s
  /\ \A l \in 1..n : up[l] = Empty(up[l - 1], up[l - 1])

LEMMA EmptyIs ==
  ASSUME Chart(parent), NEW s \in Nodes
  PROVE  Empty(s, s) \in Nodes
<1> QED
  BY AroundIs, Numbers DEF Empty

LEMMA OutwardsExists ==
  ASSUME Chart(parent), NEW s \in Nodes, NEW n \in Nat
  PROVE  \E up : Outwards(up, s, n)
<1> DEFINE T == {k \in Nat : \E up : Outwards(up, s, k)}
<1>1. 0 \in T
  <2> DEFINE up == [l \in 0..0 |-> s]
  <2>1. Outwards(up, s, 0)
    BY DEF Outwards
  <2> QED
    BY <2>1
<1>2. ASSUME NEW k \in 0..(n - 1), k \in T PROVE k + 1 \in T
  <2>1. PICK up : Outwards(up, s, k)
    BY <1>2
  <2>2. k \in Nat /\ up[k] \in Nodes /\ up[0] = s
    BY <2>1 DEF Outwards
  <2> DEFINE next == Empty(up[k], up[k])
             more == [l \in 0..(k + 1) |-> IF l = k + 1 THEN next ELSE up[l]]
  <2>3. next \in Nodes
    BY <2>2, EmptyIs
  <2> HIDE DEF next
  <2>4. more \in [0..(k + 1) -> Nodes] /\ more[0] = s
    BY <2>1, <2>2, <2>3 DEF Outwards
  <2>5. ASSUME NEW l \in 1..(k + 1)
        PROVE  more[l] = Empty(more[l - 1], more[l - 1])
    <3>1. l - 1 \in 0..(k + 1) /\ l - 1 # k + 1 /\ l \in 0..(k + 1)
      BY <2>2
    <3>2. more[l - 1] = up[l - 1]
      BY <3>1, Zenon
    <3>3. CASE l = k + 1
      <4>1. more[l] = next /\ l - 1 = k
        BY <3>1, <3>3, <2>2
      <4> QED
        BY <4>1, <3>2, Zenon DEF next
    <3>4. CASE l # k + 1
      <4>1. l \in 1..k
        BY <3>4, <2>2
      <4>2. more[l] = up[l]
        BY <3>1, <3>4, Zenon
      <4>3. up[l] = Empty(up[l - 1], up[l - 1])
        BY <4>1, <2>1 DEF Outwards
      <4> QED
        BY <4>2, <4>3, <3>2, Zenon
    <3> QED
      BY <3>3, <3>4
  <2>6. Outwards(more, s, k + 1)
    BY <2>4, <2>5 DEF Outwards
  <2> QED
    BY <2>2, <2>6
<1>3. T \in SUBSET Nat
  OBVIOUS
<1> HIDE DEF T
<1>4. n \in T
  BY <1>1, <1>2, <1>3, Reaches
<1> QED
  BY <1>4 DEF T

\* The loop meets what is around s and hsm_top, and nothing else, if its
\* turns are as many as the chart is deep.
LEMMA OutwardsMeets ==
  ASSUME parent \in Charts, NEW s \in States, NEW n \in Nat, MaxDepth <= n,
         NEW up, Outwards(up, s, n)
  PROVE  \A t \in States : (\E l \in 0..n : up[l] = t) <=> t \in Around(s)
<1> DEFINE Met(l) == /\ Within(up[l], s)
                     /\ up[l] # hsm_top =>
                          l + Cardinality(Around(up[l])) <= MaxDepth
                     /\ \A t \in Around(s) \ Around(up[l]) :
                          \E j \in 0..l : up[j] = t
           T == {l \in Nat : l <= n => Met(l)}
<1>0. /\ Chart(parent) /\ MaxDepth \in Nat /\ s \in Nodes
      /\ \A l \in 0..n : up[l] \in Nodes
      /\ up[0] = s
      /\ \A l \in 1..n : up[l] = Empty(up[l - 1], up[l - 1])
  BY ChartsAre, SizesAssumption, Numbers DEF Outwards
<1>1. 0 \in T
  <2>1. s \in Around(s) /\ Cardinality(Around(s)) <= MaxDepth
        /\ Cardinality(Around(s)) \in Nat
    BY <1>0, ChartsAre, AroundIs, Depth
  <2>2. Met(0)
    BY <1>0, <2>1 DEF Within
  <2> QED
    BY <2>2
<1>2. ASSUME NEW k \in 0..(n - 1), k \in T PROVE k + 1 \in T
  <2>1. k \in Nat /\ k \in 0..n /\ k + 1 \in 1..n /\ (k + 1) - 1 = k
    OBVIOUS
  <2>2. Met(k)
    BY <1>2, <2>1
  <2>3. up[k + 1] = Empty(up[k], up[k]) /\ up[k] \in Nodes
    BY <1>0, <2>1
  <2>4. \A j \in 0..k : j \in 0..(k + 1)
    BY <2>1
  <2>5. CASE up[k] = hsm_top
    <3>1. up[k + 1] = hsm_top /\ up[k + 1] = up[k]
      BY <2>3, <2>5 DEF Empty
    <3>2. Met(k + 1)
      BY <3>1, <2>2, <2>4, <2>5, Zenon
    <3> QED
      BY <3>2, <2>1
  <2>6. CASE up[k] # hsm_top
    <3> DEFINE u == up[k]
               p == parent[u]
    <3>1. up[k + 1] = p /\ u \in States /\ u \in Around(s)
      BY <2>2, <2>3, <2>6, Numbers DEF Empty, Within
    <3>2. /\ Within(p, s) /\ p \in Nodes
          /\ Around(u) = {u} \cup Around(p)
          /\ Cardinality(Around(u)) = Cardinality(Around(p)) + 1
          /\ Cardinality(Around(p)) \in Nat
          /\ k + Cardinality(Around(u)) <= MaxDepth
      BY <1>0, <2>2, <2>6, <3>1, AroundIs, ChainParent, Depth
    <3> HIDE DEF u, p
    <3>3. (k + 1) + Cardinality(Around(p)) <= MaxDepth
      BY <3>2, <2>1, <1>0
    <3>4. ASSUME NEW t \in Around(s) \ Around(p)
          PROVE  \E j \in 0..(k + 1) : up[j] = t
      <4>1. CASE t = u
        BY <4>1, <2>1, <2>4 DEF u
      <4>2. CASE t # u
        <5>1. t \in Around(s) \ Around(u)
          BY <4>2, <3>2, <3>4
        <5> QED
          BY <5>1, <2>2, <2>4 DEF u
      <4> QED
        BY <4>1, <4>2
    <3>5. Met(k + 1)
      BY <3>1, <3>2, <3>3, <3>4, Zenon
    <3> QED
      BY <3>5, <2>1
  <2> QED
    BY <2>5, <2>6
<1>3. \A l \in 0..n : Met(l)
  <2>0. T \in SUBSET Nat
    OBVIOUS
  <2>1. ASSUME NEW l \in 0..n PROVE l \in T
    <3>1. l \in Nat /\ \A k \in 0..(l - 1) : k \in 0..(n - 1)
      OBVIOUS
    <3> HIDE DEF T
    <3> QED
      BY <3>1, <2>0, <1>1, <1>2, Reaches
  <2> QED
    BY <2>1
<1>4. MaxDepth \in 0..n
  BY <1>0
<1>5. up[MaxDepth] = hsm_top
  <2> SUFFICES ASSUME up[MaxDepth] # hsm_top PROVE FALSE
    OBVIOUS
  <2>1. up[MaxDepth] \in States
    BY <1>0, <1>4, Numbers
  <2>2. /\ MaxDepth + Cardinality(Around(up[MaxDepth])) <= MaxDepth
        /\ Cardinality(Around(up[MaxDepth]))
             = Cardinality(Around(parent[up[MaxDepth]])) + 1
        /\ Cardinality(Around(parent[up[MaxDepth]])) \in Nat
    BY <1>0, <1>3, <1>4, <2>1, Depth, AroundIs
  <2> QED
    BY <2>2, <1>0
<1>6. ASSUME NEW t \in Around(s)
      PROVE  \E l \in 0..n : up[l] = t
  <2>1. Around(up[MaxDepth]) = {}
    BY <1>0, <1>5, AroundIs
  <2>2. PICK j \in 0..MaxDepth : up[j] = t
    BY <1>3, <1>4, <2>1
  <2>3. j \in 0..n
    BY <1>0, <1>4
  <2> QED
    BY <2>2, <2>3
<1>7. ASSUME NEW t \in States, NEW l \in 0..n, up[l] = t
      PROVE  t \in Around(s)
  BY <1>3, <1>7, Numbers DEF Within
<1> QED
  BY <1>6, <1>7

LEMMA IsIn ==
  ASSUME parent \in Charts, state \in States, MaxDepth <= MAX_NEST_DEPTH
  PROVE  \A s \in Nodes : hsm_is_in(s) <=> s \in {hsm_top} \cup Around(state)
<1> DEFINE M == MAX_NEST_DEPTH
           Is(g) == g = [l \in 0..M |-> IF l = 0 THEN state
                                        ELSE Empty(g[l - 1], g[l - 1])]
           up == CHOOSE g : Is(g)
<1>0. M \in Nat /\ Chart(parent) /\ state \in Nodes
  BY SizesAssumption, ChartsAre, Numbers
<1>1. PICK g : Outwards(g, state, M)
  BY <1>0, OutwardsExists
<1>2. Is(g)
  <2>1. g = [l \in 0..M |-> g[l]]
    BY <1>1 DEF Outwards
  <2>2. \A l \in 0..M : g[l] = IF l = 0 THEN state
                               ELSE Empty(g[l - 1], g[l - 1])
    BY <1>0, <1>1 DEF Outwards
  <2> QED
    BY <2>1, <2>2
<1>3. Is(up)
  <2> HIDE DEF Is
  <2> QED
    BY <1>2
<1>4. \A s : hsm_is_in(s) <=> s = hsm_top \/ \E l \in 0..M : up[l] = s
  BY DEF hsm_is_in
<1> HIDE DEF up, M
<1>5. /\ up[0] = state
      /\ \A l \in 1..M : up[l] = Empty(up[l - 1], up[l - 1])
  <2>1. \A l \in 0..M : up[l] = IF l = 0 THEN state
                                ELSE Empty(up[l - 1], up[l - 1])
    BY <1>3
  <2>2. 0 \in 0..M /\ \A l \in 1..M : l \in 0..M /\ l # 0
    BY <1>0
  <2> QED
    BY <2>1, <2>2
<1>6. \A l \in 0..M : up[l] \in Nodes
  <2> DEFINE T == {l \in Nat : l <= M => up[l] \in Nodes}
  <2>1. T \in SUBSET Nat /\ 0 \in T
    BY <1>0, <1>5
  <2>2. ASSUME NEW k \in 0..(M - 1), k \in T PROVE k + 1 \in T
    <3>1. k \in Nat /\ k + 1 \in 1..M /\ (k + 1) - 1 = k
      BY <1>0
    <3>2. up[k] \in Nodes
      BY <2>2, <3>1, <1>0
    <3>3. up[k + 1] = Empty(up[k], up[k])
      BY <3>1, <1>5
    <3>4. up[k + 1] \in Nodes
      BY <3>2, <3>3, <1>0, EmptyIs
    <3> QED
      BY <3>1, <3>4
  <2>3. ASSUME NEW l \in 0..M PROVE l \in T
    <3>1. l \in Nat /\ \A k \in 0..(l - 1) : k \in 0..(M - 1)
      BY <1>0
    <3> HIDE DEF T
    <3> QED
      BY <3>1, <2>1, <2>2, Reaches
  <2> QED
    BY <2>3
<1>7. Outwards(up, state, M)
  <2>1. DOMAIN up = 0..M /\ up = [l \in DOMAIN up |-> up[l]]
    BY <1>3
  <2>2. up \in [0..M -> Nodes]
    BY <2>1, <1>6
  <2> QED
    BY <2>2, <1>5 DEF Outwards
<1>8. \A t \in States : (\E l \in 0..M : up[l] = t) <=> t \in Around(state)
  BY <1>0, <1>7, OutwardsMeets DEF M
<1>9. Around(state) \subseteq States
  BY <1>0, AroundIs
<1> QED
  BY <1>4, <1>8, <1>9, Numbers

-----------------------------------------------------------------------------
(***************************************************************************)
(* The states entered and not exited, and HsmAbs.                          *)
(***************************************************************************)
Entered ==
  /\ pc = "new" => active = {} /\ state = hsm_top
  /\ pc = "idle" => active = Around(state)
  /\ pc \in {"climb", "init", "out", "match"} => active = Around(tmp)
  /\ pc = "search" => active = Around(src)
  /\ pc = "enter" => active = Around(path[0]) \ PathSet(path, ip)
  /\ pc = "init" => tmp = path[0]
  /\ pc \in {"out", "search", "match"} => Kept(src, path[0]) \subseteq active

Implemented == Entered' /\ [Abs!AbsNext]_(Abs!absvars)

LEMMA SameKept ==
  ASSUME UNCHANGED <<parent, src>>, path'[0] = path[0]
  PROVE  Kept(src, path[0])' = Kept(src, path[0])
<1> QED
  BY DEF Kept

\* What is kept is around the target, too.
LEMMA KeptAround ==
  ASSUME NEW source, NEW target
  PROVE  Kept(source, target) \subseteq Around(target)
<1> QED
  BY KeptIs

\* A call that is made in turn was left before.
LEMMA CalledInTurn ==
  ASSUME calls \in Seq(CallType), NEW s \in States, Called("exit", s),
         due' = due, InTurn'
  PROVE  /\ <<"exit", s>> \in Left
         /\ Left' = Left \ {<<"exit", s>>}
<1> DEFINE c == <<"exit", s>>
           n == Len(calls)
<1>1. c \in CallType /\ s \in Nat /\ ~Before(c, c)
  BY Numbers DEF CallType, Before
<1>2. calls' = Append(calls, c)
  BY DEF Called
<1> HIDE DEF c
<1>3. n \in Nat /\ DOMAIN calls = 1..n
  BY LenProperties
<1>4. /\ calls' \in Seq(CallType) /\ Len(calls') = n + 1
      /\ \A i \in 1..n : calls'[i] = calls[i]
      /\ calls'[n + 1] = c
  BY <1>1, <1>2, AppendProperties
<1>5. DOMAIN calls' = 1..(n + 1)
  BY <1>4, LenProperties
<1> HIDE DEF n
<1>6. 1..(n + 1) = (1..n) \cup {n + 1}
  BY <1>3
<1>7. Range(calls') = Range(calls) \cup {c}
  BY <1>3, <1>4, <1>5, <1>6 DEF Range
<1>8. c \in due
  BY <1>7 DEF InTurn
<1>9. c \notin Range(calls)
  <2> SUFFICES ASSUME NEW i \in 1..n, calls[i] = c PROVE FALSE
    BY <1>3 DEF Range
  <2>1. i \in 1..(n + 1) /\ n + 1 \in 1..(n + 1) /\ i < n + 1
    BY <1>3
  <2>2. Before(calls'[i], calls'[n + 1])
    BY <2>1, <1>5 DEF InTurn
  <2> QED
    BY <2>2, <1>1, <1>4
<1> QED
  BY <1>7, <1>8, <1>9 DEF Left, c

\* An exit: of the innermost state, which is not to be kept.
LEMMA ExitInTurn ==
  ASSUME Chart(parent), calls \in Seq(CallType), InTurn',
         NEW s \in States, LeftFrom(s), active = Around(s),
         Kept(src, path[0]) \subseteq active, Called("exit", s), due' = due
  PROVE  /\ s \in active \ Kept(src, path[0])
         /\ \A t \in active : parent[t] # s
         /\ active' = active \ {s} /\ active' = Around(parent[s])
         /\ Kept(src, path[0]) \subseteq active'
         /\ Left' = Exits(active' \ Kept(src, path[0]))
                      \cup Entries(Around(path[0]) \ Kept(src, path[0]))
<1> DEFINE c == <<"exit", s>>
           K == Kept(src, path[0])
<1>1. /\ Around(s) = {s} \cup Around(parent[s]) /\ s \in Nat
      /\ Around(s) \subseteq States
      /\ \A t \in Around(s) : t \in Nat /\ parent[t] \in Nat /\ parent[t] < t
                              /\ t <= s
      /\ parent[s] \in Nodes /\ parent[s] \in Nat /\ parent[s] < s
  BY AroundIs, Chains, Numbers DEF ChainOf
<1>2. s \notin Around(parent[s])
  <2>1. \A t \in Around(parent[s]) : t \in Nat /\ t <= parent[s]
    BY <1>1, Chains DEF ChainOf
  <2> QED
    BY <2>1, <1>1
<1> HIDE DEF K
<1>3. Left = Exits(active \ K) \cup Entries(Around(path[0]) \ K)
  BY DEF LeftFrom, K
<1>4. c \in Left /\ Left' = Left \ {c}
  BY CalledInTurn
<1>5. s \in active \ K
  BY <1>3, <1>4 DEF Exits, Entries
<1>6. \A t \in active : parent[t] # s
  BY <1>1
<1>7. active' = active \ {s}
  BY DEF Called
<1>8. active' = Around(parent[s]) /\ K \subseteq active'
  BY <1>1, <1>2, <1>5, <1>7 DEF K
<1>9. Exits(active \ K) \ {c} = Exits(active' \ K)
  BY <1>7 DEF Exits
<1>10. c \notin Entries(Around(path[0]) \ K)
  BY DEF Entries
<1> HIDE DEF c
<1>11. Left' = Exits(active' \ K) \cup Entries(Around(path[0]) \ K)
  BY <1>3, <1>4, <1>9, <1>10
<1> QED
  BY <1>5, <1>6, <1>7, <1>8, <1>11 DEF K

LEMMA CallSets ==
  ASSUME NEW S, NEW s
  PROVE  /\ <<"exit", s>> \in Exits(S) <=> s \in S
         /\ <<"entry", s>> \in Entries(S) <=> s \in S
         /\ <<"exit", s>> \notin Entries(S)
         /\ <<"entry", s>> \notin Exits(S)
<1>1. <<"exit", s>> \in Exits(S) <=> s \in S
  BY DEF Exits
<1>2. <<"entry", s>> \in Entries(S) <=> s \in S
  BY DEF Entries
<1>3. <<"exit", s>> \notin Entries(S) /\ <<"entry", s>> \notin Exits(S)
  BY DEF Exits, Entries
<1> QED
  BY <1>1, <1>2, <1>3

\* A step that HsmAbs does not see.
LEMMA Unseen ==
  ASSUME UNCHANGED <<parent, active>>, KeepOf' = KeepOf, GoalOf' = GoalOf,
         pc # "idle", pc' # "idle"
  PROVE  [Abs!AbsNext]_(Abs!absvars)
<1> QED
  BY DEF Abs!absvars

\* An exit that HsmAbs sees.
LEMMA SeenExit ==
  ASSUME NEW s \in States, s \in active \ KeepOf,
         \A t \in active : parent[t] # s, active' = active \ {s},
         parent' = parent, KeepOf' = KeepOf, GoalOf' = GoalOf,
         pc # "idle", pc' # "idle"
  PROVE  [Abs!AbsNext]_(Abs!absvars)
<1>1. Abs!Exit(s)
  BY DEF Abs!Exit
<1> QED
  BY <1>1 DEF Abs!AbsNext, Abs!States, States

LEMMA AbsChart ==
  Abs!AroundIn(parent) = AroundIn(parent)
<1> QED
  BY DEF Abs!AroundIn, AroundIn, Abs!Nodes, Nodes, Abs!hsm_top, hsm_top,
         Abs!States, States

LEMMA hsm_initImplements ==
  ASSUME IInv, Entered, NEW target \in States, hsm_init(target)
  PROVE  Implemented
<1>1. /\ pc = "new" /\ tmp' = hsm_top /\ pc' = "climb"
      /\ path' = [path EXCEPT ![0] = target]
      /\ UNCHANGED <<parent, active>>
  BY DEF hsm_init, InitialTransition
<1>2. active = {} /\ state = hsm_top
  BY <1>1 DEF Entered
<1>3. Around(hsm_top) = {} /\ target # hsm_top
  BY Types, AroundIs, Numbers
<1>4. path'[0] = target
  <2>1. path \in Paths /\ 0 \in 0..N
    BY Types
  <2> QED
    BY <1>1, <2>1 DEF Paths
<1>5. Entered'
  BY <1>1, <1>2, <1>3, SameChart DEF Entered, Around
<1>6. Abs!GoInside(target)
  <2>1. /\ GoalOf = hsm_top /\ GoalOf' = target
        /\ KeepOf = active /\ KeepOf' = active
    BY <1>1, <1>2, <1>4 DEF GoalOf, KeepOf
  <2>2. AroundIn(parent)[hsm_top] = {}
    BY <1>3 DEF Around
  <2> QED
    BY <1>1, <1>2, <1>3, <2>1, <2>2, AbsChart DEF Abs!GoInside, Abs!Reached
<1> QED
  BY <1>5, <1>6 DEF Implemented, Abs!AbsNext, Abs!States, States

LEMMA DrillDownImplements ==
  ASSUME IInv, Entered, NEW target \in States, DrillDown(target)
  PROVE  Implemented
<1>1. /\ pc = "init" /\ tmp' = tmp /\ pc' = "climb"
      /\ target \in Inside(tmp)
      /\ path' = [path EXCEPT ![0] = target]
      /\ UNCHANGED <<parent, active>>
  BY DEF DrillDown, InitialTransition
<1>2. active = Around(tmp) /\ tmp = path[0]
  BY <1>1 DEF Entered
<1>3. /\ tmp \in Around(target) /\ tmp # target
      /\ Around(tmp) \subseteq Around(target)
  <2>1. tmp \in Around(target) /\ tmp # target
    BY <1>1 DEF Inside
  <2> QED
    BY <2>1, Types, WithinChain, Numbers DEF Within
<1>4. path'[0] = target
  <2>1. path \in Paths /\ 0 \in 0..N
    BY Types
  <2> QED
    BY <1>1, <2>1 DEF Paths
<1>5. Entered'
  BY <1>1, <1>2, SameChart DEF Entered, Around
<1>6. Abs!GoInside(target)
  <2>1. /\ GoalOf = tmp /\ GoalOf' = target
        /\ KeepOf = active /\ KeepOf' = active
    BY <1>1, <1>2, <1>4 DEF GoalOf, KeepOf
  <2> QED
    BY <1>1, <1>2, <1>3, <2>1, AbsChart DEF Abs!GoInside, Abs!Reached, Around
<1> QED
  BY <1>5, <1>6 DEF Implemented, Abs!AbsNext, Abs!States, States

LEMMA ClimbImplements ==
  ASSUME IInv, Entered, Climb
  PROVE  Implemented
<1>1. /\ pc = "climb" /\ pc' = "climb" /\ tmp' = tmp
      /\ path' = [path EXCEPT ![ip + 1] = state]
      /\ UNCHANGED <<parent, active>>
  BY DEF Climb
<1>2. ip >= 0 /\ ip \in Int /\ path \in Paths /\ N \in Nat
  BY <1>1, Types DEF IInv, Places, AtClimb
<1>3. path'[0] = path[0]
  BY <1>1, <1>2 DEF Paths
<1>4. Entered'
  BY <1>1, SameChart DEF Entered, Around
<1>5. [Abs!AbsNext]_(Abs!absvars)
  <2>1. KeepOf' = KeepOf /\ GoalOf' = GoalOf
    BY <1>1, <1>3 DEF KeepOf, GoalOf
  <2> QED
    BY <1>1, <2>1, Unseen
<1> QED
  BY <1>4, <1>5 DEF Implemented

LEMMA ClimbEndImplements ==
  ASSUME IInv, Entered, ClimbEnd
  PROVE  Implemented
<1>1. /\ pc = "climb" /\ pc' = "enter" /\ state = tmp
      /\ UNCHANGED <<parent, path, ip, active>>
  BY DEF ClimbEnd, hist
<1>2. /\ ip >= 0 /\ PathIn(parent, path, ip) /\ path[ip] \in States
      /\ state = parent[path[ip]]
  BY <1>1 DEF IInv, Places, AtClimb, PathTo
<1>3. ip \in 0..N /\ ip \in 0..ip /\ path[0] \in Nodes
  BY <1>2, Types, Numbers DEF PathIn
<1>4. active = Around(parent[path[ip]])
  BY <1>1, <1>2 DEF Entered
<1>5. Around(path[0]) \ Around(parent[path[ip]]) = PathSet(path, ip)
  BY <1>2, <1>3, Types, PathSegment
<1>6. Around(parent[path[ip]]) \subseteq Around(path[0])
  <2>1. /\ Around(path[ip]) = {path[ip]} \cup Around(parent[path[ip]])
        /\ path[ip] \in Nodes
    BY <1>2, Types, AroundIs, Numbers
  <2>2. Within(path[ip], path[0])
    BY <1>2, <1>3 DEF PathIn, Within, Around
  <2>3. Around(path[ip]) \subseteq Around(path[0])
    BY <1>3, <2>1, <2>2, Types, WithinChain
  <2> QED
    BY <2>1, <2>3
<1>7. active = Around(path[0]) \ PathSet(path, ip)
  BY <1>4, <1>5, <1>6
<1>8. Entered'
  BY <1>1, <1>7, SameChart DEF Entered, Around
<1>9. [Abs!AbsNext]_(Abs!absvars)
  <2>1. KeepOf' = KeepOf /\ GoalOf' = GoalOf
    BY <1>1 DEF KeepOf, GoalOf
  <2> QED
    BY <1>1, <2>1, Unseen
<1> QED
  BY <1>8, <1>9 DEF Implemented

LEMMA EnterImplements ==
  ASSUME IInv, Entered, Enter
  PROVE  Implemented
<1> DEFINE s == path[ip]
<1>1. /\ pc = "enter" /\ pc' = "enter" /\ ip >= 0 /\ ip' = ip - 1
      /\ active' = active \cup {s}
      /\ UNCHANGED <<parent, path>>
  BY DEF Enter, Called
<1>2. PathIn(parent, path, ip) /\ s \in States
  BY <1>1 DEF IInv, Places, AtEnter, PathTo
<1>3. ip \in 0..N /\ ip \in 0..ip /\ path[0] \in Nodes
  BY <1>1, <1>2, Types, Numbers DEF PathIn
<1>4. active = Around(path[0]) \ PathSet(path, ip)
  BY <1>1 DEF Entered
<1>5. /\ PathSet(path, ip) = PathSet(path, ip - 1) \cup {s}
      /\ s \notin PathSet(path, ip - 1)
  <2>1. /\ PathSet(path, ip) = PathSet(path, ip - 1) \cup {s}
        /\ s \in Nat
        /\ \A t \in PathSet(path, ip - 1) : t \in Nat /\ s < t
    BY <1>2, <1>3, Types, PathNext
  <2> QED
    BY <2>1
<1>6. Around(path[0]) \ Around(parent[s]) = PathSet(path, ip)
  BY <1>2, <1>3, Types, PathSegment
<1>7. /\ Around(s) = {s} \cup Around(parent[s])
      /\ Around(s) \subseteq Around(path[0])
  <2>1. Around(s) = {s} \cup Around(parent[s]) /\ s \in Nodes
    BY <1>2, Types, AroundIs, Numbers
  <2>2. Within(s, path[0])
    BY <1>2, <1>3 DEF PathIn, Within, Around
  <2>3. Around(s) \subseteq Around(path[0])
    BY <1>3, <2>1, <2>2, Types, WithinChain
  <2> QED
    BY <2>1, <2>3
<1>8. active = Around(parent[s]) /\ s \in Around(path[0]) \ active
  BY <1>4, <1>5, <1>6, <1>7
<1> HIDE DEF s
<1>9. active' = Around(path[0]) \ PathSet(path, ip - 1)
  BY <1>1, <1>4, <1>5, <1>8
<1>10. Entered'
  BY <1>1, <1>9, SameChart DEF Entered, Around
<1>11. Abs!EnterInside(s)
  <2>1. /\ GoalOf = path[0] /\ GoalOf' = path[0]
        /\ KeepOf = active /\ KeepOf' = active'
    BY <1>1 DEF GoalOf, KeepOf
  <2> QED
    BY <1>1, <1>8, <2>1, AbsChart DEF Abs!EnterInside, Around
<1> QED
  BY <1>2, <1>10, <1>11 DEF Implemented, Abs!AbsNext, Abs!States, States

LEMMA EnterEndImplements ==
  ASSUME IInv, Entered, EnterEnd
  PROVE  Implemented
<1>1. /\ pc = "enter" /\ pc' = "init" /\ ip < 0 /\ tmp' = path[0]
      /\ UNCHANGED <<parent, path, active>>
  BY DEF EnterEnd, hist
<1>2. active = Around(path[0])
  <2>1. PathSet(path, ip) = {}
    BY <1>1, Types, PathEmpty
  <2> QED
    BY <1>1, <2>1 DEF Entered
<1>3. Entered'
  BY <1>1, <1>2, SameChart DEF Entered, Around
<1>4. [Abs!AbsNext]_(Abs!absvars)
  <2>1. KeepOf' = KeepOf /\ GoalOf' = GoalOf
    BY <1>1 DEF KeepOf, GoalOf
  <2> QED
    BY <1>1, <2>1, Unseen
<1> QED
  BY <1>3, <1>4 DEF Implemented

LEMMA SettleImplements ==
  ASSUME IInv, Entered, Settle
  PROVE  Implemented
<1>1. /\ pc = "init" /\ pc' = "idle" /\ state' = tmp
      /\ UNCHANGED <<parent, active>>
  BY DEF Settle
<1>2. active = Around(tmp) /\ tmp = path[0] /\ tmp # hsm_top
  BY <1>1, Numbers DEF Entered, IInv, Places, AtInit
<1>3. Entered'
  BY <1>1, <1>2, SameChart DEF Entered, Around
<1>4. Abs!Return
  <2>1. /\ GoalOf = tmp /\ GoalOf' = tmp
        /\ KeepOf = active /\ KeepOf' = active
    BY <1>1, <1>2 DEF GoalOf, KeepOf
  <2>2. Abs!hsm_top = hsm_top
    BY DEF Abs!hsm_top, hsm_top
  <2> QED
    BY <1>1, <1>2, <2>1, <2>2, AbsChart DEF Abs!Return, Abs!Reached, Around
<1> QED
  BY <1>3, <1>4 DEF Implemented, Abs!AbsNext

LEMMA DispatchImplements ==
  ASSUME IInv, Entered, NEW source \in States, NEW target \in States,
         Dispatch(source, target)
  PROVE  Implemented
<1>1. /\ pc = "idle" /\ pc' = "out" /\ source \in Around(state)
      /\ src' = source /\ tmp' = state
      /\ path' = [path EXCEPT ![0] = target, ![1] = state]
      /\ UNCHANGED <<parent, active>>
  BY DEF Dispatch
<1>2. active = Around(state)
  BY <1>1 DEF Entered
<1>3. path'[0] = target
  <2>1. path \in Paths /\ 0 \in 0..N /\ 0 # 1
    BY Types
  <2> QED
    BY <1>1, <2>1 DEF Paths
<1>4. Kept(src, path[0])' = KeptIn(parent, source, target)
  BY <1>1, <1>3 DEF Kept
<1>5. KeptIn(parent, source, target) \subseteq Around(state)
  <2>1. state \in States
    BY <1>1 DEF IInv, Places, AtRest
  <2>2. Around(source) \subseteq Around(state)
    BY <1>1, <2>1, Types, WithinChain, Numbers DEF Within
  <2>3. Kept(source, target) \subseteq Around(source)
    BY KeptIs
  <2> QED
    BY <2>2, <2>3 DEF Kept
<1>6. Entered'
  <2>1. active' = Around(tmp)' /\ Kept(src, path[0])' \subseteq active'
    BY <1>1, <1>2, <1>4, <1>5 DEF Around
  <2> QED
    BY <1>1, <2>1 DEF Entered
<1>7. Abs!Transition(source, target)
  <2>1. /\ GoalOf' = target
        /\ KeepOf' = KeptIn(parent, source, target)
    BY <1>1, <1>3, <1>4 DEF GoalOf, KeepOf
  <2>2. Abs!KeptIn(parent, source, target) = KeptIn(parent, source, target)
    BY AbsChart DEF Abs!KeptIn, KeptIn
  <2> QED
    BY <1>1, <1>2, <2>1, <2>2 DEF Abs!Transition
<1> QED
  BY <1>6, <1>7 DEF Implemented, Abs!AbsNext, Abs!States, States

LEMMA ExitToSourceImplements ==
  ASSUME IInv, Entered, InTurn', ExitToSource
  PROVE  Implemented
<1>1. /\ pc = "out" /\ pc' = "out" /\ Called("exit", tmp)
      /\ tmp' = parent[tmp]
      /\ UNCHANGED <<parent, src, path, due>>
  BY DEF ExitToSource
<1>2. tmp \in States /\ LeftFrom(tmp)
  BY <1>1 DEF IInv, Places, AtOut
<1>3. active = Around(tmp) /\ Kept(src, path[0]) \subseteq active
  BY <1>1 DEF Entered
<1>4. /\ tmp \in active \ Kept(src, path[0])
      /\ \A t \in active : parent[t] # tmp
      /\ active' = active \ {tmp} /\ active' = Around(parent[tmp])
      /\ Kept(src, path[0]) \subseteq active'
  <2>1. due' = due
    BY <1>1
  <2> QED
    BY <1>1, <1>2, <1>3, <2>1, Types, ExitInTurn
<1>5. Kept(src, path[0])' = Kept(src, path[0])
  BY <1>1, SameKept
<1>6. Entered'
  BY <1>1, <1>4, <1>5, SameChart DEF Entered, Around
<1>7. [Abs!AbsNext]_(Abs!absvars)
  <2>1. /\ KeepOf = Kept(src, path[0]) /\ KeepOf' = KeepOf
        /\ GoalOf' = GoalOf
    BY <1>1, <1>5 DEF KeepOf, GoalOf
  <2> QED
    BY <1>1, <1>2, <1>4, <2>1, SeenExit
<1> QED
  BY <1>6, <1>7 DEF Implemented

\* From an exit or from none to the entries.
LEMMA BeginImplements ==
  ASSUME IInv, Entered, IInv', pc \in {"out", "search", "match"},
         pc' = "enter", UNCHANGED <<parent, src, due>>, path'[0] = path[0],
         NEW s \in Nodes, LeftFrom(s), active = Around(s),
         \/ s \in States /\ Called("exit", s)
         \/ calls' = calls /\ active' = active
  PROVE  Implemented
<1> DEFINE K == Kept(src, path[0])
<1>1. K \subseteq active /\ K \subseteq Around(path[0])
  BY KeptAround DEF Entered
<1>2. Left' = Entries(PathSet(path', ip'))
  BY DEF IInv, Places, AtEnter
<1>3. K' = K
  BY SameKept
<1>4. InTurn'
  BY DEF IInv
<1>5. KeepOf = K /\ KeepOf' = active' /\ GoalOf' = path'[0] /\ GoalOf = path[0]
      /\ pc # "idle" /\ pc' # "idle"
  BY DEF KeepOf, GoalOf
<1>6. ASSUME K \subseteq active',
             Left' = Exits(active' \ K) \cup Entries(Around(path[0]) \ K)
      PROVE  active' = K /\ Entered'
  <2> HIDE DEF K
  <2>0. Exits(active' \ K) \cup Entries(Around(path[0]) \ K)
          = Entries(PathSet(path', ip'))
    BY <1>2, <1>6
  <2>1. active' = K /\ active' = Around(path[0]) \ PathSet(path', ip')
    <3> DEFINE now    == active'
               around == Around(path[0])
               on     == PathSet(path', ip')
    <3>1. K \subseteq now /\ K \subseteq around
      BY <1>1, <1>6
    <3>2. Exits(now \ K) \cup Entries(around \ K) = Entries(on)
      BY <2>0
    <3> HIDE DEF now, around, on
    <3> DEFINE E == Exits(now \ K) \cup Entries(around \ K)
    <3>4. now = K
      <4> SUFFICES ASSUME NEW t \in now, t \notin K PROVE FALSE
        BY <3>1
      <4>1. <<"exit", t>> \in E
        BY CallSets, Zenon
      <4>2. <<"exit", t>> \in Entries(on)
        BY <3>2, <4>1
      <4> QED
        BY <4>2, CallSets
    <3>5. ASSUME NEW t \in around \ K
          PROVE  t \in on
      <4>1. <<"entry", t>> \in E
        BY CallSets, Zenon
      <4>2. <<"entry", t>> \in Entries(on)
        BY <3>2, <4>1
      <4> QED
        BY <4>2, CallSets
    <3>6. ASSUME NEW t \in on
          PROVE  t \in around \ K
      <4>1. <<"entry", t>> \in Entries(on)
        BY CallSets
      <4>2. <<"entry", t>> \in E
        BY <3>2, <4>1
      <4>3. <<"entry", t>> \notin Exits(now \ K)
        BY CallSets
      <4>4. <<"entry", t>> \in Entries(around \ K)
        BY <4>2, <4>3
      <4> QED
        BY <4>4, CallSets
    <3> QED
      BY <3>1, <3>4, <3>5, <3>6 DEF now, around, on
  <2>2. Around(path[0])' = Around(path[0])
    BY DEF Around
  <2>3. (Around(path[0]) \ PathSet(path, ip))'
          = Around(path[0]) \ PathSet(path', ip')
    BY <2>2
  <2>4. Entered'
    BY <2>1, <2>3 DEF Entered
  <2> QED
    BY <2>1, <2>4
<1>7. CASE s \in States /\ Called("exit", s)
  <2>1. /\ s \in active \ K
        /\ \A t \in active : parent[t] # s
        /\ active' = active \ {s}
        /\ K \subseteq active'
        /\ Left' = Exits(active' \ K) \cup Entries(Around(path[0]) \ K)
    BY <1>1, <1>4, <1>7, Types, ExitInTurn
  <2>2. active' = K /\ Entered'
    BY <1>6, <2>1
  <2>3. [Abs!AbsNext]_(Abs!absvars)
    BY <1>5, <1>7, <2>1, <2>2, SeenExit
  <2> QED
    BY <2>2, <2>3 DEF Implemented
<1>8. CASE calls' = calls /\ active' = active
  <2>1. Left' = Exits(active' \ K) \cup Entries(Around(path[0]) \ K)
    BY <1>8 DEF LeftFrom, Left
  <2>2. active' = K /\ Entered'
    BY <1>1, <1>6, <1>8, <2>1
  <2>3. [Abs!AbsNext]_(Abs!absvars)
    BY <1>5, <1>8, <2>2, Unseen
  <2> QED
    BY <2>2, <2>3 DEF Implemented
<1> QED
  BY <1>7, <1>8

LEMMA NearImplements ==
  ASSUME IInv, Entered, IInv', Near
  PROVE  Implemented
<1>1. /\ pc = "out" /\ pc' = "enter" /\ tmp = src
      /\ UNCHANGED <<parent, src, due>> /\ path' = path
      /\ Called("exit", src) \/ (calls' = calls /\ active' = active)
  BY DEF Near, LeaveSource
<1>2. LeftFrom(src) /\ src \in States /\ src \in Nodes
  BY <1>1, Numbers DEF IInv, Places, AtOut
<1>3. active = Around(src)
  BY <1>1 DEF Entered
<1> QED
  BY <1>1, <1>2, <1>3, BeginImplements

LEMMA MatchImplements ==
  ASSUME IInv, Entered, IInv', Match
  PROVE  Implemented
<1>1. /\ pc = "match" /\ pc' = "enter"
      /\ UNCHANGED <<parent, src, due>> /\ path' = path
      /\ calls' = calls /\ active' = active
  BY DEF Match, hist
<1>2. LeftFrom(tmp) /\ tmp \in Nodes
  BY <1>1, Types DEF IInv, Places, AtMatch
<1>3. active = Around(tmp)
  BY <1>1 DEF Entered
<1> QED
  BY <1>1, <1>2, <1>3, BeginImplements

LEMMA FarImplements ==
  ASSUME IInv, Entered, Far
  PROVE  Implemented
<1>1. /\ pc = "out" /\ pc' = "search" /\ tmp = src
      /\ path' = [path EXCEPT ![1] = parent[path[0]]]
      /\ UNCHANGED <<parent, src, active>>
  BY DEF Far, hist
<1>2. path'[0] = path[0]
  BY <1>1, Types DEF Paths
<1>3. active = Around(src) /\ Kept(src, path[0]) \subseteq active
  BY <1>1 DEF Entered
<1>4. Kept(src, path[0])' = Kept(src, path[0])
  BY <1>1, <1>2, SameKept
<1>5. Entered'
  BY <1>1, <1>3, <1>4, SameChart DEF Entered, Around
<1>6. [Abs!AbsNext]_(Abs!absvars)
  <2>1. KeepOf' = KeepOf /\ GoalOf' = GoalOf
    BY <1>1, <1>2, <1>4 DEF KeepOf, GoalOf
  <2> QED
    BY <1>1, <2>1, Unseen
<1> QED
  BY <1>5, <1>6 DEF Implemented

LEMMA SearchImplements ==
  ASSUME IInv, Entered, IInv', Search
  PROVE  Implemented
<1>1. /\ pc = "search"
      /\ path' = [path EXCEPT ![ip + 1] = state]
      /\ UNCHANGED <<parent, src, calls, due, active>>
      /\ pc' = IF state = src THEN "enter" ELSE "search"
  BY DEF Search
<1>2. ip >= 1 /\ LeftFrom(src) /\ src \in Nodes
  BY <1>1, Types DEF IInv, Places, AtSearch
<1>3. path'[0] = path[0]
  BY <1>1, <1>2, Types DEF Paths
<1>4. active = Around(src) /\ Kept(src, path[0]) \subseteq active
  BY <1>1 DEF Entered
<1>5. CASE state = src
  <2>1. pc' = "enter" /\ UNCHANGED <<parent, src, due>>
        /\ calls' = calls /\ active' = active
    BY <1>1, <1>5
  <2> QED
    BY <1>1, <1>2, <1>3, <1>4, <2>1, BeginImplements
<1>6. CASE state # src
  <2>1. pc' = "search"
    BY <1>1, <1>6
  <2>2. Kept(src, path[0])' = Kept(src, path[0])
    BY <1>1, <1>3, SameKept
  <2>3. Entered'
    BY <1>1, <1>4, <2>1, <2>2, SameChart DEF Entered, Around
  <2>4. KeepOf' = KeepOf /\ GoalOf' = GoalOf
    BY <1>1, <1>3, <2>1, <2>2 DEF KeepOf, GoalOf
  <2>5. [Abs!AbsNext]_(Abs!absvars)
    BY <1>1, <2>1, <2>4, Unseen
  <2> QED
    BY <2>3, <2>5 DEF Implemented
<1> QED
  BY <1>5, <1>6

\* The source is exited, or, later, a state around it.
LEMMA ExitImplements ==
  ASSUME IInv, Entered, InTurn', pc \in {"search", "match"}, pc' = "match",
         UNCHANGED <<parent, src, path, due>>,
         NEW s \in States, LeftFrom(s), active = Around(s),
         Called("exit", s), tmp' = parent[s]
  PROVE  Implemented
<1>1. Kept(src, path[0]) \subseteq active
  BY DEF Entered
<1>2. /\ s \in active \ Kept(src, path[0])
      /\ \A t \in active : parent[t] # s
      /\ active' = active \ {s} /\ active' = Around(parent[s])
      /\ Kept(src, path[0]) \subseteq active'
  <2>1. due' = due
    OBVIOUS
  <2> QED
    BY <1>1, <2>1, Types, ExitInTurn
<1>3. Kept(src, path[0])' = Kept(src, path[0])
  BY SameKept
<1>4. Entered'
  BY <1>2, <1>3, SameChart DEF Entered, Around
<1>5. [Abs!AbsNext]_(Abs!absvars)
  <2>1. /\ KeepOf = Kept(src, path[0]) /\ KeepOf' = KeepOf
        /\ GoalOf' = GoalOf /\ pc # "idle" /\ pc' # "idle"
    BY <1>3 DEF KeepOf, GoalOf
  <2> QED
    BY <1>2, <2>1, SeenExit
<1> QED
  BY <1>4, <1>5 DEF Implemented

LEMMA SearchEndImplements ==
  ASSUME IInv, Entered, InTurn', SearchEnd
  PROVE  Implemented
<1>1. /\ pc = "search" /\ pc' = "match" /\ Called("exit", src) /\ tmp' = tmp
      /\ UNCHANGED <<parent, src, path, due>>
  BY DEF SearchEnd
<1>2. src \in States /\ tmp = parent[src] /\ LeftFrom(src)
  BY <1>1 DEF IInv, Places, AtSearch
<1>3. active = Around(src)
  BY <1>1 DEF Entered
<1> QED
  BY <1>1, <1>2, <1>3, ExitImplements

LEMMA ExitUpImplements ==
  ASSUME IInv, Entered, InTurn', ExitUp
  PROVE  Implemented
<1>1. /\ pc = "match" /\ pc' = "match" /\ Called("exit", tmp)
      /\ \A i \in 0..ip : path[i] # tmp
      /\ tmp' = Empty(tmp, state)
      /\ UNCHANGED <<parent, src, path, due>>
  BY DEF ExitUp
<1>2. LeftFrom(tmp) /\ ip >= 0 /\ path[ip] = hsm_top
  BY <1>1 DEF IInv, Places, AtMatch
<1>3. tmp \in States /\ tmp # hsm_top
  <2>1. ip \in 0..ip
    BY <1>2, Types
  <2> QED
    BY <2>1, <1>1, <1>2, Types, Numbers
<1>4. active = Around(tmp)
  BY <1>1 DEF Entered
<1>5. tmp' = parent[tmp]
  BY <1>1, <1>3 DEF Empty
<1> QED
  BY <1>1, <1>2, <1>3, <1>4, <1>5, ExitImplements

LEMMA StepImplements ==
  ASSUME IInv, Entered, IInv', [Next]_vars
  PROVE  Implemented
<1>0. InTurn'
  BY DEF IInv
<1>1. CASE UNCHANGED vars
  <2>1. Entered'
    BY <1>1 DEF vars, Entered, Kept, Around
  <2>2. UNCHANGED Abs!absvars
    BY <1>1 DEF vars, Abs!absvars, KeepOf, GoalOf, Kept
  <2> QED
    BY <2>1, <2>2 DEF Implemented
<1>2. CASE \E t \in States : hsm_init(t) \/ DrillDown(t)
  BY <1>2, hsm_initImplements, DrillDownImplements
<1>3. CASE \E s, t \in States : Dispatch(s, t)
  BY <1>3, DispatchImplements
<1>4. CASE Climb \/ ClimbEnd \/ Enter \/ EnterEnd \/ Settle
  BY <1>4, ClimbImplements, ClimbEndImplements, EnterImplements,
     EnterEndImplements, SettleImplements
<1>5. CASE ExitToSource \/ Near \/ Far \/ Search
  BY <1>0, <1>5, ExitToSourceImplements, NearImplements, FarImplements,
     SearchImplements
<1>6. CASE SearchEnd \/ Match \/ ExitUp
  BY <1>0, <1>6, SearchEndImplements, MatchImplements, ExitUpImplements
<1> QED
  BY <1>1, <1>2, <1>3, <1>4, <1>5, <1>6 DEF Next

LEMMA StartImplements ==
  ASSUME Init
  PROVE  Entered /\ Abs!AbsInit
<1>1. Entered
  BY DEF Init, Entered
<1>2. KeepOf = {} /\ GoalOf = hsm_top
  BY DEF Init, KeepOf, GoalOf
<1>3. Abs!Trees = Trees /\ Abs!hsm_top = hsm_top
  BY DEF Abs!Trees, Trees, Abs!Nodes, Nodes, Abs!hsm_top, hsm_top,
         Abs!States, States
<1>4. parent \in Trees
  BY DEF Init, Charts
<1> QED
  BY <1>1, <1>2, <1>3, <1>4 DEF Init, Abs!AbsInit

\* What is entered and not exited, at each place.
LEMMA EnteredAlways ==
  Spec => []Entered
<1>1. Init => Entered
  BY StartImplements
<1>2. IInv /\ IInv' /\ Entered /\ [Next]_vars => Entered'
  BY StepImplements DEF Implemented
<1> QED
  BY <1>1, <1>2, Invariance, PTL DEF Spec

-----------------------------------------------------------------------------
\* Every variable has its type; ip never leaves the range of path in the
\* loops of hsm_init and hsm_dispatch (hsm.c:44-200).
THEOREM TypeCorrect ==
  Spec => []TypeOK
<1>1. IInv => TypeOK
  BY DEF IInv
<1> QED
  BY <1>1, Invariance, PTL

\* A transition exits and enters the states that the chart asks for, each
\* once and in order, whatever the chart is and whatever the handlers choose
\* (hsm.c:74-200), and hsm_is_in says what is entered and not exited
\* (hsm.c:202-218).  In a deeper chart the code writes beyond path,
\* see PathCorrect.
THEOREM TransitionCorrect ==
  ASSUME MaxDepth < MAX_NEST_DEPTH
  PROVE  Spec => []TransitionFollowsTree
<1>1. ASSUME IInv, Entered
      PROVE  TransitionFollowsTree
  <2>1. InTurn /\ parent \in Charts
    BY <1>1 DEF IInv
  <2>2. pc = "init" => Range(calls) = due
    BY <1>1, <2>1 DEF IInv, Places, AtInit, InTurn, Left
  <2>3. ASSUME pc = "idle"
        PROVE  \A s \in Nodes : hsm_is_in(s) <=> s \in {hsm_top} \cup active
    <3>1. state \in States
      BY <1>1, <2>3 DEF IInv, Places, AtRest
    <3>2. MaxDepth <= MAX_NEST_DEPTH
      BY SizesAssumption
    <3>3. active = Around(state)
      BY <1>1, <2>3 DEF Entered
    <3> QED
      BY <3>1, <3>2, <3>3, <2>1, IsIn
  <2> QED
    BY <2>1, <2>2, <2>3, Zenon DEF TransitionFollowsTree, InTurn
<1> QED
  BY <1>1, Invariance, EnteredAlways, PTL

\* In a chart less deep than the array is long, no element beyond its end is
\* written (hsm.c:55-58, 89-90, 120, 125, 182-185).
THEOREM PathCorrect ==
  ASSUME MaxDepth < MAX_NEST_DEPTH
  PROVE  Spec => []PathFits
<1>1. ASSUME IInv
      PROVE  PathFits
  BY <1>1, SizesAssumption, Types DEF PathFits
<1> QED
  BY <1>1, Invariance, PTL

\* hsm.c, which finds its way through the chart by calls of handlers,
\* implements HsmAbs, where a step is the exit of the innermost state or the
\* entry of a state directly inside (hsm.c:44-200).
THEOREM Refinement ==
  Spec => ImplementsHsmAbs
<1>1. Init => Abs!AbsInit
  BY StartImplements
<1>2. IInv /\ IInv' /\ Entered /\ [Next]_vars => [Abs!AbsNext]_(Abs!absvars)
  BY StepImplements DEF Implemented
<1> QED
  BY <1>1, <1>2, Invariance, EnteredAlways, PTL
     DEF Spec, ImplementsHsmAbs, Abs!AbsSpec
=============================================================================
