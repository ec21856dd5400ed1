---------------------------- MODULE RefCtrProofs ----------------------------
(***************************************************************************)
(* For any finite set of clients: the counter counts its references, each  *)
(* life of the object is recycled once, no reference is granted during     *)
(* cleanup, and RefCtr implements RefCtrAbs.                               *)
(*                                                                         *)
(* The counting invariant is not inductive by itself: it needs to know     *)
(* what a client between its atomic_get and its atomic_cas may assume      *)
(* (Callers below).                                                        *)
(***************************************************************************)
EXTENDS RefCtr, FiniteSetTheorems, TLAPS

(***************************************************************************)
(* What the position of a client says: a value it is about to swap passed  *)
(* the tests between the two atomic operations, and a refctr_dec without   *)
(* a reference excludes every refctr_inc.                                  *)
(***************************************************************************)
Callers ==
  \A c \in Clients :
    /\ pc[c] \in {"inc_cas", "cleanup_cas"} => seen[c] > 0
    /\ pc[c] = "dec_cas" => c \in holders /\ seen[c] \notin {0, 1}
    /\ Taking(c) => c \notin holders
    /\ Stranger(c) => holders = {} /\ \A d \in Clients : ~Taking(d)

IInv == TypeOK /\ CountsReferences /\ RecycledOncePerLife /\ Callers

-----------------------------------------------------------------------------
\* Granting a reference adds one to their number, giving it back removes
\* one, and a client that gives one back saw at least one.
LEMMA HolderCount ==
  ASSUME NEW S, S \subseteq Clients, NEW c \in Clients
  PROVE  /\ Cardinality(S) \in Nat
         /\ c \notin S => Cardinality(S \cup {c}) = Cardinality(S) + 1
         /\ c \in S => /\ Cardinality(S \ {c}) = Cardinality(S) - 1
                       /\ Cardinality(S) > 0
         /\ Cardinality(S) = 0 <=> S = {}
         /\ c \in S /\ Cardinality(S) = 1 <=> S = {c}
<1>1. IsFiniteSet(S)
  BY FS_Subset, ClientsAssumption
<1>2. Cardinality(S) \in Nat /\ (Cardinality(S) = 0 <=> S = {})
  BY <1>1, FS_CardinalityType, FS_EmptySet
<1>3. c \notin S => Cardinality(S \cup {c}) = Cardinality(S) + 1
  BY <1>1, FS_AddElement
<1>4. c \in S => Cardinality(S \ {c}) = Cardinality(S) - 1
  BY <1>1, FS_RemoveElement
<1>5. c \in S => Cardinality(S) > 0
  BY <1>2
<1>6. c \in S /\ Cardinality(S) = 1 <=> S = {c}
  <2>1. ASSUME c \in S, Cardinality(S) = 1 PROVE S = {c}
    BY <2>1, <1>1, FS_Singleton
  <2>2. ASSUME S = {c} PROVE c \in S /\ Cardinality(S) = 1
    BY <2>2, FS_Singleton
  <2> QED BY <2>1, <2>2
<1> QED BY <1>2, <1>3, <1>4, <1>5, <1>6

-----------------------------------------------------------------------------
\* The initial states satisfy the inductive invariant.
LEMMA InitEstablishes == Init => IInv
<1> SUFFICES ASSUME Init PROVE IInv
  OBVIOUS
<1> USE DEF Init
<1>1. TypeOK
  BY DEF TypeOK, Points, Results
<1>2. CountsReferences /\ RecycledOncePerLife
  BY DEF CountsReferences, RecycledOncePerLife
<1>3. Callers
  BY DEF Callers, Taking, Stranger
<1> QED BY <1>1, <1>2, <1>3 DEF IInv

(***************************************************************************)
(* A step that changes neither the word nor the references: it is enough   *)
(* to look at the position of the client that takes it.                    *)
(***************************************************************************)
LEMMA QuietStep ==
  ASSUME IInv, NEW c \in Clients,
         UNCHANGED <<ctr, holders, pending>>,
         NEW p \in Points, NEW v \in Int, NEW r \in Results \cup {"none"},
         pc' = [pc EXCEPT ![c] = p],
         seen' = [seen EXCEPT ![c] = v],
         \/ UNCHANGED ret
         \/ ret' = [ret EXCEPT ![c] = r],
         p \in {"inc_cas", "cleanup_cas"} => v > 0,
         p = "dec_cas" => c \in holders /\ v \notin {0, 1},
         p \in {"inc", "inc_cas"} =>
           \/ Taking(c)
           \/ c \notin holders /\ \A d \in Clients : ~Stranger(d),
         p \in {"dec", "dec_cas"} /\ c \notin holders =>
           \/ Stranger(c)
           \/ holders = {} /\ \A d \in Clients : ~Taking(d)
  PROVE  IInv'
<1>1. TypeOK'
  BY DEF IInv, TypeOK
<1>2. CountsReferences' /\ RecycledOncePerLife'
  BY DEF IInv, CountsReferences, RecycledOncePerLife
<1>3. Callers'
  <2> SUFFICES ASSUME NEW d \in Clients
               PROVE  /\ pc'[d] \in {"inc_cas", "cleanup_cas"} => seen'[d] > 0
                      /\ pc'[d] = "dec_cas" =>
                           d \in holders /\ seen'[d] \notin {0, 1}
                      /\ Taking(d)' => d \notin holders
                      /\ Stranger(d)' =>
                           holders = {} /\ \A e \in Clients : ~Taking(e)'
    BY DEF Callers
  <2>1. \A e \in Clients : e # c => pc'[e] = pc[e] /\ seen'[e] = seen[e]
    BY DEF IInv, TypeOK
  <2>2. pc'[c] = p /\ seen'[c] = v
    BY DEF IInv, TypeOK
  <2>3. /\ pc'[d] \in {"inc_cas", "cleanup_cas"} => seen'[d] > 0
        /\ pc'[d] = "dec_cas" => d \in holders /\ seen'[d] \notin {0, 1}
        /\ Taking(d)' => d \notin holders
    BY <2>1, <2>2 DEF IInv, Callers, Taking
  <2>4. Stranger(d)' => holders = {} /\ \A e \in Clients : ~Taking(e)'
    BY <2>1, <2>2 DEF IInv, Callers, Taking, Stranger
  <2> QED BY <2>3, <2>4
<1> QED BY <1>1, <1>2, <1>3 DEF IInv
(***************************************************************************)
(* A step that swaps the word.  Its caller returns, so the only facts left *)
(* to show are about the word and the references.                          *)
(***************************************************************************)
LEMMA SwapStep ==
  ASSUME IInv, NEW c \in Clients, NEW r \in Results,
         Return(c, r),
         ctr' \in Int, pending' \in Int,
         holders' \subseteq holders \cup {c},
         \A d \in Clients : d # c => (d \in holders' <=> d \in holders),
         c \in holders' => c \in holders \/ Taking(c),
         (CountsReferences /\ RecycledOncePerLife)'
  PROVE  IInv'
<1>1. TypeOK'
  BY DEF IInv, TypeOK, Return, Goto, Points, RecycledOncePerLife
<1>2. Callers'
  <2> SUFFICES ASSUME NEW d \in Clients
               PROVE  /\ pc'[d] \in {"inc_cas", "cleanup_cas"} => seen'[d] > 0
                      /\ pc'[d] = "dec_cas" =>
                           d \in holders' /\ seen'[d] \notin {0, 1}
                      /\ Taking(d)' => d \notin holders'
                      /\ Stranger(d)' =>
                           holders' = {} /\ \A e \in Clients : ~Taking(e)'
    BY DEF Callers
  <2>1. \A e \in Clients : e # c => pc'[e] = pc[e] /\ seen'[e] = seen[e]
    BY DEF IInv, TypeOK, Return, Goto
  <2>2. pc'[c] = "idle"
    BY DEF IInv, TypeOK, Return, Goto
  <2>3. /\ pc'[d] \in {"inc_cas", "cleanup_cas"} => seen'[d] > 0
        /\ pc'[d] = "dec_cas" => d \in holders' /\ seen'[d] \notin {0, 1}
        /\ Taking(d)' => d \notin holders'
    BY <2>1, <2>2 DEF IInv, Callers, Taking
  <2>4. ASSUME Stranger(d)'
        PROVE  holders' = {} /\ \A e \in Clients : ~Taking(e)'
    <3>1. Stranger(d)
      BY <2>1, <2>2, <2>4 DEF Stranger
    <3>2. holders = {} /\ \A e \in Clients : ~Taking(e)
      BY <3>1 DEF IInv, Callers
    <3>3. holders' = {}
      BY <3>2
    <3>4. \A e \in Clients : ~Taking(e)'
      BY <3>2, <2>1, <2>2 DEF Taking
    <3> QED BY <3>3, <3>4
  <2> QED BY <2>3, <2>4
<1> QED BY <1>1, <1>2 DEF IInv

-----------------------------------------------------------------------------
(***************************************************************************)
(* One lemma per group of actions.                                         *)
(***************************************************************************)
\* A client enters an operation it may call.
LEMMA CallPreserves ==
  ASSUME IInv, NEW c \in Clients,
         NEW op \in {"init", "inc", "dec", "cleanup"}, Call(c, op)
  PROVE  IInv'
<1>1. op \in Points /\ seen[c] \in Int
  BY DEF Points, IInv, TypeOK
<1>2. op \notin {"inc_cas", "dec_cas", "cleanup_cas"}
  OBVIOUS
<1>3. /\ UNCHANGED <<ctr, holders, pending>>
      /\ pc' = [pc EXCEPT ![c] = op]
      /\ seen' = [seen EXCEPT ![c] = seen[c]]
      /\ ret' = [ret EXCEPT ![c] = "none"]
  BY DEF Call, Goto, IInv, TypeOK
<1>4. op \in {"inc", "inc_cas"} =>
        c \notin holders /\ \A d \in Clients : ~Stranger(d)
  BY <1>2 DEF Call, MayCall
<1>5. op \in {"dec", "dec_cas"} /\ c \notin holders =>
        holders = {} /\ \A d \in Clients : ~Taking(d)
  BY <1>2 DEF Call, MayCall
<1>6. "none" \in Results \cup {"none"}
  OBVIOUS
<1> QED BY <1>1, <1>2, <1>3, <1>4, <1>5, <1>6, QuietStep

\* An early return.
LEMMA RefusePreserves ==
  ASSUME IInv, NEW c \in Clients, NEW r \in Results, Refuse(c, r)
  PROVE  IInv'
<1>1. "idle" \in Points /\ 0 \in Int
  BY DEF Points
<1> QED BY <1>1, QuietStep DEF Refuse, Return, Goto

\* The atomic_get of a loop that goes on to the swap.
LEMMA ReadPreserves ==
  ASSUME IInv, NEW c \in Clients, NEW p \in {"inc_cas", "dec_cas", "cleanup_cas"},
         Read(c, p),
         p \in {"inc_cas", "cleanup_cas"} => ctr > 0,
         p = "inc_cas" => pc[c] = "inc",
         p = "dec_cas" => pc[c] = "dec" /\ ctr \notin {0, 1}
  PROVE  IInv'
<1>1. p \in Points /\ ctr \in Int
  BY DEF Points, IInv, TypeOK
<1>2. p = "dec_cas" => c \in holders
  \* A stranger finds no reference counted, hence a word of 0 or 1.
  <2> SUFFICES ASSUME p = "dec_cas", c \notin holders PROVE FALSE
    OBVIOUS
  <2>1. holders = {}
    BY DEF IInv, Callers, Stranger
  <2>2. Cardinality(holders) = 0
    BY <2>1, FS_EmptySet
  <2>3. ctr \in {0, 1}
    BY <2>2, <1>1 DEF IInv, CountsReferences
  <2> QED BY <2>3
<1>3. /\ pc' = [pc EXCEPT ![c] = p]
      /\ seen' = [seen EXCEPT ![c] = ctr]
      /\ UNCHANGED <<ctr, ret, holders, pending>>
  BY DEF Read, Goto
<1>4. p \in {"inc", "inc_cas"} => Taking(c)
  BY DEF Taking
<1> QED BY <1>1, <1>2, <1>3, <1>4, QuietStep

\* A swap that found another value: back to the atomic_get.
LEMMA RetryPreserves ==
  ASSUME IInv, NEW c \in Clients,
         IncRetry(c) \/ DecRetry(c) \/ CleanupRetry(c)
  PROVE  IInv'
<1> "inc" \in Points /\ "dec" \in Points /\ "cleanup" \in Points /\ 0 \in Int
  BY DEF Points
<1>1. CASE IncRetry(c)
  BY <1>1, QuietStep DEF IncRetry, Retry, Goto, Taking
<1>2. CASE DecRetry(c)
  BY <1>2, QuietStep DEF DecRetry, Retry, Goto, Stranger
<1>3. CASE CleanupRetry(c)
  BY <1>3, QuietStep DEF CleanupRetry, Retry, Goto
<1> QED BY <1>1, <1>2, <1>3

-----------------------------------------------------------------------------
\* refctr_init, successful or refused.
LEMMA InitOpPreserves ==
  ASSUME IInv, NEW c \in Clients, refctr_init(c)
  PROVE  IInv'
<1>1. CASE ctr # 0
  BY <1>1, RefusePreserves DEF refctr_init, Results
<1>2. CASE ctr = 0
  <2>1. ctr' = 1 /\ pending' = pending + 1 /\ holders' = holders
    BY <1>2 DEF refctr_init
  <2>2. Return(c, "OK") /\ "OK" \in Results
    BY <1>2 DEF refctr_init, Results
  <2>3. holders = {} /\ pending = 0
    BY <1>2 DEF IInv, CountsReferences, RecycledOncePerLife
  <2>4. (CountsReferences /\ RecycledOncePerLife)'
    BY <2>1, <2>3, FS_EmptySet DEF CountsReferences, RecycledOncePerLife
  <2>5. ctr' \in Int /\ pending' \in Int
    BY <2>1, <2>3
  <2> QED BY <2>1, <2>2, <2>4, <2>5, SwapStep
<1> QED BY <1>1, <1>2

\* refctr_inc: its atomic_get, its swap and its retry.
LEMMA IncPreserves ==
  ASSUME IInv, NEW c \in Clients, IncGet(c) \/ IncCas(c)
  PROVE  IInv'
<1>1. CASE IncGet(c)
  BY <1>1, RefusePreserves, ReadPreserves DEF IncGet, Results
<1>2. CASE IncCas(c)
  <2>1. ctr > 0 /\ c \notin holders /\ Taking(c) /\ ctr \in Int /\ pending \in Int
        /\ holders \subseteq Clients
    BY <1>2 DEF IncCas, IInv, Callers, Taking, TypeOK
  <2>2. /\ ctr' = ctr + 1 /\ holders' = holders \cup {c}
        /\ Return(c, "OK") /\ pending' = pending /\ "OK" \in Results
    BY <1>2 DEF IncCas, Results
  <2>3. ctr = Cardinality(holders) + 1 /\ pending = 1
    BY <2>1 DEF IInv, CountsReferences, RecycledOncePerLife
  <2>4. Cardinality(holders') = Cardinality(holders) + 1
    BY <2>1, <2>2, HolderCount
  <2>5. (CountsReferences /\ RecycledOncePerLife)'
    BY <2>1, <2>2, <2>3, <2>4 DEF CountsReferences, RecycledOncePerLife
  <2> QED BY <2>1, <2>2, <2>5, SwapStep
<1> QED BY <1>1, <1>2

\* refctr_dec: the swap is a holder's, the others returned at the atomic_get.
LEMMA DecPreserves ==
  ASSUME IInv, NEW c \in Clients, DecGet(c) \/ DecCas(c)
  PROVE  IInv'
<1>1. CASE DecGet(c)
  BY <1>1, RefusePreserves, ReadPreserves DEF DecGet, Results
<1>2. CASE DecCas(c)
  <2>1. /\ ctr \notin {0, 1} /\ c \in holders /\ ctr \in Int /\ pending \in Int
        /\ holders \subseteq Clients /\ seen[c] = ctr
    BY <1>2 DEF DecCas, IInv, Callers, TypeOK
  <2>2. /\ ctr' = IF ctr > 0 THEN ctr - 1 ELSE ctr + 1
        /\ holders' = holders \ {c}
        /\ pending' = IF ctr = -1 THEN pending - 1 ELSE pending
    BY <1>2, <2>1 DEF DecCas
  <2>3. \E r \in Results : Return(c, r)
    BY <1>2 DEF DecCas, Results
  <2>4. /\ Cardinality(holders) \in Nat
        /\ Cardinality(holders') = Cardinality(holders) - 1
        /\ Cardinality(holders) > 0
        /\ Cardinality(holders) = 1 <=> holders = {c}
    BY <2>1, <2>2, HolderCount
  <2>5. /\ ctr > 0 => ctr = Cardinality(holders) + 1
        /\ ctr < 0 => -ctr = Cardinality(holders)
        /\ pending = 1
    BY <2>1 DEF IInv, CountsReferences, RecycledOncePerLife
  <2>6. CountsReferences'
    <3>1. CASE ctr > 0
      BY <3>1, <2>1, <2>2, <2>4, <2>5 DEF CountsReferences
    <3>2. CASE ctr = -1
      BY <3>2, <2>2, <2>4, <2>5 DEF CountsReferences
    <3>3. CASE ctr < -1
      BY <3>3, <2>1, <2>2, <2>4, <2>5 DEF CountsReferences
    <3> QED BY <3>1, <3>2, <3>3, <2>1
  <2>7. RecycledOncePerLife'
    BY <2>1, <2>2, <2>5 DEF RecycledOncePerLife
  <2>8. ctr' \in Int /\ pending' \in Int
    BY <2>1, <2>2
  <2> QED BY <2>1, <2>2, <2>3, <2>6, <2>7, <2>8, SwapStep
<1> QED BY <1>1, <1>2

\* refctr_cleanup: its atomic_get, its swap and its retry.
LEMMA CleanupPreserves ==
  ASSUME IInv, NEW c \in Clients, CleanupGet(c) \/ CleanupCas(c)
  PROVE  IInv'
<1>1. CASE CleanupGet(c)
  BY <1>1, RefusePreserves, ReadPreserves DEF CleanupGet, Results
<1>2. CASE CleanupCas(c)
  <2>1. ctr > 0 /\ ctr \in Int /\ pending \in Int /\ seen[c] = ctr
    BY <1>2 DEF CleanupCas, IInv, Callers, TypeOK
  <2>2. /\ ctr' = -ctr + 1 /\ holders' = holders
        /\ pending' = IF ctr = 1 THEN pending - 1 ELSE pending
    BY <1>2, <2>1 DEF CleanupCas
  <2>3. \E r \in Results : Return(c, r)
    BY <1>2 DEF CleanupCas, Results
  <2>4. /\ ctr = Cardinality(holders) + 1 /\ pending = 1
        /\ Cardinality(holders) \in Nat
        /\ Cardinality(holders) = 0 <=> holders = {}
    <3>1. holders \subseteq Clients
      BY DEF IInv, TypeOK
    <3>2. /\ Cardinality(holders) \in Nat
          /\ Cardinality(holders) = 0 <=> holders = {}
      BY <3>1, HolderCount
    <3>3. ctr = Cardinality(holders) + 1 /\ pending = 1
      BY <2>1 DEF IInv, CountsReferences, RecycledOncePerLife
    <3> QED BY <3>2, <3>3
  <2>5. (CountsReferences /\ RecycledOncePerLife)'
    BY <2>1, <2>2, <2>4 DEF CountsReferences, RecycledOncePerLife
  <2>6. ctr' \in Int /\ pending' \in Int
    BY <2>1, <2>2
  <2> QED BY <2>2, <2>3, <2>5, <2>6, SwapStep
<1> QED BY <1>1, <1>2

\* Every step, and every stutter, keeps the inductive invariant.
LEMMA StepPreserves == IInv /\ [Next]_vars => IInv'
<1> SUFFICES ASSUME IInv, [Next]_vars PROVE IInv'
  OBVIOUS
<1>1. ASSUME NEW c \in Clients, NEW op \in {"init", "inc", "dec", "cleanup"},
             Call(c, op)
      PROVE  IInv'
  BY <1>1, CallPreserves
<1>2. ASSUME NEW c \in Clients, Step(c) PROVE IInv'
  BY <1>2, InitOpPreserves, IncPreserves, DecPreserves, CleanupPreserves,
     RetryPreserves DEF Step
<1>3. CASE UNCHANGED vars
  BY <1>3 DEF vars, IInv, TypeOK, CountsReferences, RecycledOncePerLife,
              Callers, Taking, Stranger
<1> QED BY <1>1, <1>2, <1>3 DEF Next

\* The inductive invariant holds in every reachable state.
THEOREM Invariance == Spec => []IInv
BY InitEstablishes, StepPreserves, PTL DEF Spec

-----------------------------------------------------------------------------
\* Every variable keeps its type (the word, an integer).
THEOREM TypeCorrect == Spec => []TypeOK
BY Invariance, PTL DEF IInv

\* The word of refctr.c counts the granted references, for any number of
\* clients and any interleaving of their get/cas loops.
THEOREM CountingCorrect == Spec => []CountsReferences
BY Invariance, PTL DEF IInv

\* DO_RECYCLE is returned exactly once per successful refctr_init.
THEOREM RecycleCorrect == Spec => []RecycledOncePerLife
BY Invariance, PTL DEF IInv

\* A refctr_dec without a reference is refused before its atomic_cas.
THEOREM StrangersRefused == Spec => []StrangersStopAtGet
<1>1. IInv => StrangersStopAtGet
  BY DEF IInv, Callers, StrangersStopAtGet
<1> QED BY Invariance, <1>1, PTL
-----------------------------------------------------------------------------
\* Once the sign is flipped no reference is granted, and the word stays
\* non-positive until it reaches 0: refctr.h:22.
THEOREM CleanupFinal == Spec => NoReferenceAfterCleanup
<1> DEFINE P == ctr < 0 => holders' \subseteq holders /\ ctr' <= 0
<1>1. IInv /\ [Next]_vars => [P]_vars
  <2> SUFFICES ASSUME IInv, Next, ctr < 0
               PROVE  holders' \subseteq holders /\ ctr' <= 0
    BY DEF vars
  <2> USE DEF IInv, TypeOK
  <2>1. ASSUME NEW c \in Clients, NEW op \in {"init", "inc", "dec", "cleanup"},
               Call(c, op)
        PROVE  UNCHANGED <<ctr, holders>>
    BY <2>1 DEF Call
  <2>2. ASSUME NEW c \in Clients, refctr_init(c)
        PROVE  UNCHANGED <<ctr, holders>>
    BY <2>2 DEF refctr_init, Refuse
  <2>3. ASSUME NEW c \in Clients, IncGet(c) \/ DecGet(c) \/ CleanupGet(c)
        PROVE  UNCHANGED <<ctr, holders>>
    BY <2>3 DEF IncGet, DecGet, CleanupGet, Refuse, Read
  <2>4. ASSUME NEW c \in Clients, IncRetry(c) \/ DecRetry(c) \/ CleanupRetry(c)
        PROVE  UNCHANGED <<ctr, holders>>
    BY <2>4 DEF IncRetry, DecRetry, CleanupRetry, Retry
  <2>5. ASSUME NEW c \in Clients, IncCas(c) \/ CleanupCas(c)
        PROVE  FALSE
    BY <2>5 DEF IncCas, CleanupCas, Callers
  <2>6. ASSUME NEW c \in Clients, DecCas(c)
        PROVE  holders' = holders \ {c} /\ ctr' = ctr + 1
    BY <2>6 DEF DecCas
  <2> QED BY <2>1, <2>2, <2>3, <2>4, <2>5, <2>6 DEF Next, Step
<1> QED BY <1>1, Invariance, PTL DEF Spec, NoReferenceAfterCleanup

-----------------------------------------------------------------------------
(***************************************************************************)
(* Refinement: a swap or a refusal is the atomic operation, a call is      *)
(* Invoke, and a read or a retry is a stutter.                             *)
(***************************************************************************)
LEMMA RefusalRefines ==
  ASSUME NEW c \in Clients, NEW r, Refuse(c, r)
  PROVE  Abs!Refuse(c, r)
BY DEF Refuse, Return, Abs!Refuse, Abs!Return, PhaseOf, RefsOf

\* Every step is a step of the atomic operations or a stutter.
LEMMA StepRefines == IInv /\ [Next]_vars => [Abs!AbsNext]_(Abs!refvars)
<1> SUFFICES ASSUME IInv, [Next]_vars
             PROVE  Abs!AbsNext \/ UNCHANGED Abs!refvars
  OBVIOUS
<1> ctr \in Int
  BY DEF IInv, TypeOK
<1>1. ASSUME NEW c \in Clients, NEW op \in {"init", "inc", "dec", "cleanup"},
             Call(c, op)
      PROVE  Abs!Invoke(c)
  BY <1>1 DEF Call, Abs!Invoke, Abs!Return, PhaseOf, RefsOf
<1>2. ASSUME NEW c \in Clients, refctr_init(c)
      PROVE  Abs!refctr_init(c)
  BY <1>2, RefusalRefines
     DEF refctr_init, Return, Abs!refctr_init, Abs!Return, PhaseOf, RefsOf
<1>3. ASSUME NEW c \in Clients, IncGet(c)
      PROVE  Abs!refctr_inc(c) \/ UNCHANGED Abs!refvars
  <2>1. CASE ctr > 0
    BY <1>3, <2>1 DEF IncGet, Read, Abs!refvars, PhaseOf, RefsOf
  <2>2. CASE ~(ctr > 0)
    BY <1>3, <2>2, RefusalRefines DEF IncGet, Abs!refctr_inc, PhaseOf
  <2> QED BY <2>1, <2>2
<1>4. ASSUME NEW c \in Clients, IncCas(c)
      PROVE  Abs!refctr_inc(c)
  <2>1. ctr > 0 /\ ctr' = ctr + 1
    BY <1>4 DEF IncCas, IInv, Callers
  <2> QED BY <1>4, <2>1
          DEF IncCas, Return, Abs!refctr_inc, Abs!Return, PhaseOf, RefsOf
<1>5. ASSUME NEW c \in Clients, DecGet(c)
      PROVE  Abs!refctr_dec(c) \/ UNCHANGED Abs!refvars
  <2>1. CASE ctr \notin {0, 1}
    BY <1>5, <2>1 DEF DecGet, Read, Abs!refvars, PhaseOf, RefsOf
  <2>2. CASE ctr \in {0, 1}
    BY <1>5, <2>2, RefusalRefines DEF DecGet, Abs!refctr_dec, PhaseOf, RefsOf
  <2> QED BY <2>1, <2>2
<1>6. ASSUME NEW c \in Clients, DecCas(c)
      PROVE  Abs!refctr_dec(c)
  <2>1. ctr \notin {0, 1} /\ ctr' = IF ctr > 0 THEN ctr - 1 ELSE ctr + 1
    BY <1>6 DEF DecCas, IInv, Callers
  <2>2. RefsOf > 0 /\ RefsOf' = RefsOf - 1
    BY <2>1 DEF RefsOf
  <2>3. PhaseOf = "cleanup" /\ RefsOf = 1 <=> ctr = -1
    BY <2>1 DEF PhaseOf, RefsOf
  <2>4. PhaseOf' = IF ctr = -1 THEN "idle" ELSE PhaseOf
    BY <2>1 DEF PhaseOf
  <2>5. ret' = [ret EXCEPT ![c] = IF ctr = -1 THEN "DO_RECYCLE" ELSE "OK"]
    BY <1>6 DEF DecCas, Return
  <2> QED BY <2>2, <2>3, <2>4, <2>5 DEF Abs!refctr_dec, Abs!Return
<1>7. ASSUME NEW c \in Clients, CleanupGet(c)
      PROVE  Abs!refctr_cleanup(c) \/ UNCHANGED Abs!refvars
  <2>1. CASE ctr > 0
    BY <1>7, <2>1 DEF CleanupGet, Read, Abs!refvars, PhaseOf, RefsOf
  <2>2. CASE ~(ctr > 0)
    BY <1>7, <2>2, RefusalRefines DEF CleanupGet, Abs!refctr_cleanup, PhaseOf
  <2> QED BY <2>1, <2>2
<1>8. ASSUME NEW c \in Clients, CleanupCas(c)
      PROVE  Abs!refctr_cleanup(c)
  <2>1. ctr > 0 /\ ctr' = -ctr + 1 /\ seen[c] = ctr
    BY <1>8 DEF CleanupCas, IInv, Callers
  <2> QED BY <1>8, <2>1
          DEF CleanupCas, Return, Abs!refctr_cleanup, Abs!Return, PhaseOf, RefsOf
<1>9. ASSUME NEW c \in Clients, IncRetry(c) \/ DecRetry(c) \/ CleanupRetry(c)
      PROVE  UNCHANGED Abs!refvars
  BY <1>9
     DEF IncRetry, DecRetry, CleanupRetry, Retry, Abs!refvars, PhaseOf, RefsOf
<1>10. CASE UNCHANGED vars
  BY <1>10 DEF vars, Abs!refvars, PhaseOf, RefsOf
<1> QED BY <1>1, <1>2, <1>3, <1>4, <1>5, <1>6, <1>7, <1>8, <1>9, <1>10
        DEF Next, Step, Abs!AbsNext

\* refctr.c, with its loops interleaved step by step, implements the atomic
\* operations that refctr.h describes.
THEOREM Refinement == Spec => ImplementsAbs
<1>1. ASSUME Init PROVE Abs!AbsInit
  <2>1. RefsOf = 0 /\ PhaseOf = "idle"
    BY <1>1 DEF Init, PhaseOf, RefsOf
  <2>2. ret = [c \in Clients |-> "OK"]
    BY <1>1 DEF Init
  <2> QED BY <2>1, <2>2 DEF Abs!AbsInit
<1> QED BY <1>1, StepRefines, Invariance, PTL DEF Spec, ImplementsAbs, Abs!AbsSpec
=============================================================================
