----------------------------- MODULE ReqwProofs -----------------------------
(***************************************************************************)
(* For any finite set of waiters, handlers and cancellers of a request:    *)
(* its type invariant, its safety invariants and the finality of its       *)
(* outcome.                                                                *)
(*                                                                         *)
(* Who may recycle depends on a count, and a thread does not always give   *)
(* back its own reference: reqw_finish may be left to a handler that a     *)
(* wrong 0 from reqw_begin sent on.  The count is exact all the same, if   *)
(* the reference of the handler that began is taken for one of the state   *)
(* PROCESSING (References).                                                *)
(***************************************************************************)
EXTENDS Reqw, FiniteSetTheorems, TLAPS

\* Who ended the request and has not begun the cleanup; who got DO_RECYCLE.
Ender(t)    == pc[t] \in {"wait_cleanup", "finish_cleanup", "cancel_cleanup"}
Recycler(t) == pc[t] \in {"recycle", "begin_recycle"}

\* Each function reads the state before it comes to a point, and the state
\* only goes on: at Marked the request was found beyond AQUIRED, at Over in
\* its last state.
Marked == {"wait_evt", "wait_timeout", "wait_abort_cas"}
Over   == {"wait_cleanup", "wait_post", "wait_woken", "finish_cleanup",
           "finish_post", "cancel_cleanup", "cancel_post", "recycle",
           "begin_recycle"}
Wait   == {"wait_pre", "wait_pre_cas", "wait_evt", "wait_timeout",
           "wait_abort_cas"}
Cancel == {"cancel", "cancel_cas", "cancel_cleanup", "cancel_post"}

Places ==
  /\ evt => state \in Terminal
  /\ \A t \in Threads :
       /\ pc[t] # "oops"
       /\ pc[t] \in Marked => state \notin {"FREE", "AQUIRED"}
       /\ pc[t] \in Over => state \in Terminal
       /\ pc[t] \in {"begin_cas", "cancel_cas"} => seen[t] \in Open
       /\ t \in Cancellers => pc[t] \in Cancel \cup {"start", "recycle", "returned"}
       /\ pc[t] \in Cancel => t \in Cancellers
       /\ pc[t] \in Wait => t \in Waiters
       /\ t \in Cancellers /\ pc[t] \in {"cancel_cleanup", "recycle"} =>
            state = "ABORTED"

\* A request in PROCESSING has the reference of the handler that began it,
\* which is given back by the one that finishes it.
References ==
  refs = Cardinality({t \in Threads : Referencing(t)})
         + (IF state = "PROCESSING" THEN 1 ELSE 0)

\* The phase of the counter goes with the state, up to the one cleanup.
Life ==
  /\ state = "FREE" => /\ phase = "idle" /\ recycled = 0
                       /\ \A t \in Threads : pc[t] = "start"
  /\ state \in Open \cup {"PROCESSING"} => phase = "active"
  /\ phase = "cleanup" => refs > 0
  /\ phase = "idle" => refs = 0
  /\ \A t \in Threads : Ender(t) =>
       /\ phase = "active"
       /\ \A u \in Threads : Ender(u) => u = t
  /\ phase # "idle" => recycled = 0 /\ \A t \in Threads : ~Recycler(t)
  /\ recycled > 0 => \A t \in Threads : ~Recycler(t)
  /\ \A t, u \in Threads : Recycler(t) /\ Recycler(u) => t = u

IInv == TypeOK /\ Places /\ References /\ Life

-----------------------------------------------------------------------------
(***************************************************************************)
(* What a step of a thread does to the state, the counter and the roles of *)
(* the thread; each action is one of these.                                *)
(***************************************************************************)
Alone(t) == \A u \in Threads \ {t} : pc'[u] = pc[u] /\ seen'[u] = seen[u]

NoRole(t) == ~Ender(t) /\ ~Recycler(t)
KeepsReference(t) == Referencing(t)' <=> Referencing(t)

\* Neither the state nor the counter changes.
Quiet(t) ==
  /\ UNCHANGED <<state, phase, refs, recycled>>
  /\ NoRole(t) /\ NoRole(t)' /\ KeepsReference(t)

\* The first waiter or a handler swaps the state; the reference of the
\* handler is then that of the state.
Marks(t) ==
  /\ UNCHANGED <<phase, refs, recycled>>
  /\ NoRole(t) /\ NoRole(t)'
  /\ state \in Open
  /\ \/ state' = "WAITING" /\ KeepsReference(t)
     \/ state' = "PROCESSING" /\ Referencing(t) /\ ~Referencing(t)'

\* The swap that decides the outcome.
Ends(t) ==
  /\ UNCHANGED <<phase, refs, recycled>>
  /\ NoRole(t) /\ Ender(t)' /\ ~Recycler(t)'
  /\ \/ /\ state \in Open /\ state' = "ABORTED"
        /\ KeepsReference(t)
     \/ /\ state = "PROCESSING" /\ state' = "DONE"
        /\ ~Referencing(t) /\ Referencing(t)'

Enters(t) ==
  /\ UNCHANGED <<state, phase, recycled>>
  /\ NoRole(t) /\ NoRole(t)'
  /\ phase = "active"
  /\ refs' = refs + 1
  /\ ~Referencing(t) /\ Referencing(t)'

CleansUp(t) ==
  /\ UNCHANGED <<state, refs, recycled>>
  /\ Ender(t) /\ ~Ender(t)' /\ ~Recycler(t) /\ KeepsReference(t)
  /\ phase = "active"
  /\ \/ refs > 0 /\ phase' = "cleanup" /\ ~Recycler(t)'
     \/ refs = 0 /\ phase' = "idle" /\ Recycler(t)'

Leaves(t) ==
  /\ UNCHANGED <<state, recycled>>
  /\ NoRole(t) /\ ~Ender(t)'
  /\ Referencing(t) /\ ~Referencing(t)'
  /\ refs > 0 /\ refs' = refs - 1
  /\ \/ phase = "cleanup" /\ refs = 1 /\ phase' = "idle" /\ Recycler(t)'
     \/ ~(phase = "cleanup" /\ refs = 1) /\ phase' = phase /\ ~Recycler(t)'

Frees(t) ==
  /\ UNCHANGED <<state, phase, refs>>
  /\ recycled' = recycled + 1
  /\ Recycler(t) /\ NoRole(t)' /\ KeepsReference(t)

Aquires ==
  /\ state = "FREE" /\ state' = "AQUIRED"
  /\ phase' = "active"
  /\ UNCHANGED <<refs, recycled, pc, seen>>

Effect(t) == \/ Quiet(t) \/ Marks(t) \/ Ends(t) \/ Enters(t) \/ CleansUp(t)
             \/ Leaves(t) \/ Frees(t)

-----------------------------------------------------------------------------
(***************************************************************************)
(* The operations of the counter.                                          *)
(***************************************************************************)
\* refctr_inc grants a reference exactly while the phase is "active".
LEMMA IncResult ==
  ASSUME TypeOK, NEW t \in Threads, RefCtr!refctr_inc(t)
  PROVE  /\ RefCtr!RefTypeOK'
         /\ phase' = phase
         /\ IF phase = "active" THEN refs' = refs + 1 /\ ret'[t] = "OK"
                                ELSE refs' = refs /\ ret'[t] # "OK"
BY DEF TypeOK, RefCtr!RefTypeOK, RefCtr!refctr_inc, RefCtr!Return,
       RefCtr!Refuse, RefCtr!Phases, RefCtr!RefCodes

\* The only refctr_cleanup of a life is not refused.
LEMMA CleanupResult ==
  ASSUME TypeOK, NEW t \in Threads, RefCtr!refctr_cleanup(t)
  PROVE  /\ RefCtr!RefTypeOK'
         /\ refs' = refs
         /\ phase = "active" =>
              IF refs > 0 THEN phase' = "cleanup" /\ ret'[t] = "OK"
                          ELSE phase' = "idle" /\ ret'[t] = "DO_RECYCLE"
BY DEF TypeOK, RefCtr!RefTypeOK, RefCtr!refctr_cleanup, RefCtr!Return,
       RefCtr!Refuse, RefCtr!Phases, RefCtr!RefCodes

\* refctr_dec by somebody who has a reference.
LEMMA DecResult ==
  ASSUME TypeOK, NEW t \in Threads, RefCtr!refctr_dec(t)
  PROVE  /\ RefCtr!RefTypeOK'
         /\ refs > 0 /\ phase # "idle" =>
              /\ refs' = refs - 1
              /\ IF phase = "cleanup" /\ refs = 1
                 THEN phase' = "idle" /\ ret'[t] = "DO_RECYCLE"
                 ELSE phase' = phase /\ ret'[t] = "OK"
BY DEF TypeOK, RefCtr!RefTypeOK, RefCtr!refctr_dec, RefCtr!Return,
       RefCtr!Refuse, RefCtr!Phases, RefCtr!RefCodes

\* Who has a reference is counted.
LEMMA ReferencingCounted ==
  ASSUME IInv, NEW t \in Threads, Referencing(t)
  PROVE  refs > 0 /\ phase # "idle"
<1> DEFINE R == {u \in Threads : Referencing(u)}
<1>1. IsFiniteSet(R)
  BY FS_Subset, ThreadsAssumption
<1>2. Cardinality(R) \in Nat /\ Cardinality(R) # 0
  BY <1>1, FS_CardinalityType, FS_EmptySet
<1>3. refs > 0
  BY <1>2 DEF IInv, References
<1> QED BY <1>3 DEF IInv, Life

-----------------------------------------------------------------------------
(***************************************************************************)
(* Each action has one of these effects.                                   *)
(***************************************************************************)
\* What a step of t does to the other threads: nothing.
LEMMA AloneStep ==
  ASSUME TypeOK, NEW t \in Threads,
         WaitEnter(t) \/ BeginEnter(t) \/ CancelCheck(t) \/ Step(t)
  PROVE  Alone(t)
<1> USE DEF TypeOK, Alone, Goto, Return, Compare, Forget, Cas, Post
<1>1. CASE WaitEnter(t) \/ BeginEnter(t)
  BY <1>1 DEF WaitEnter, BeginEnter, Enter
<1>2. CASE CancelCheck(t) \/ CancelMark(t) \/ CancelCleanup(t) \/ CancelPost(t)
  BY <1>2 DEF CancelCheck, CancelMark, CancelCleanup, CleanupFrom, CancelPost
<1>3. CASE WaitPreCheck(t) \/ WaitMark(t) \/ WaitEvent(t) \/ WaitTimedOut(t)
  BY <1>3 DEF WaitPreCheck, WaitMark, WaitEvent, WaitTimedOut
<1>4. CASE WaitAbort(t) \/ WaitCleanup(t) \/ WaitPost(t) \/ WaitWoken(t)
  BY <1>4 DEF WaitAbort, WaitCleanup, CleanupFrom, WaitPost, WaitWoken
<1>5. CASE BeginCheck(t) \/ BeginMark(t) \/ FinishCheck(t) \/ FinishMark(t)
  BY <1>5 DEF BeginCheck, BeginMark, FinishCheck, FinishMark
<1>6. CASE FinishCleanup(t) \/ FinishPost(t)
  BY <1>6 DEF FinishCleanup, CleanupFrom, FinishPost
<1>7. CASE Dec(t) \/ Recycle(t)
  BY <1>7 DEF Dec, Recycle, ReturnZero
<1> QED BY <1>1, <1>2, <1>3, <1>4, <1>5, <1>6, <1>7 DEF Step

\* Entering a function: a reference or a refusal.
LEMMA EnterEffect ==
  ASSUME IInv, NEW t \in Threads, WaitEnter(t) \/ BeginEnter(t)
  PROVE  Enters(t) \/ Quiet(t)
<1> USE DEF IInv, TypeOK
<1>1. PICK point \in {"wait_pre", "begin"} : Enter(t, point)
  BY DEF WaitEnter, BeginEnter
<1>2. /\ pc[t] = "start"
      /\ UNCHANGED <<state, recycled>>
      /\ RefCtr!refctr_inc(t)
  BY <1>1 DEF Enter
<1>3. NoRole(t) /\ ~Referencing(t)
  BY <1>2 DEF NoRole, Ender, Recycler, Referencing
<1>4. CASE phase = "active"
  <2>1. refs' = refs + 1 /\ phase' = phase /\ ret'[t] = "OK"
    BY <1>2, <1>4, IncResult
  <2>2. pc'[t] = point
    BY <1>1, <2>1 DEF Enter, Goto
  <2>3. NoRole(t)' /\ Referencing(t)'
    BY <1>1, <2>2 DEF NoRole, Ender, Recycler, Referencing
  <2> QED BY <1>2, <1>3, <1>4, <2>1, <2>3 DEF Enters
<1>5. CASE phase # "active"
  <2>1. refs' = refs /\ phase' = phase /\ ret'[t] # "OK"
    BY <1>2, <1>5, IncResult
  <2>2. pc'[t] = "returned"
    BY <1>1, <2>1 DEF Enter, Return, Goto
  <2>3. NoRole(t)' /\ ~Referencing(t)'
    BY <2>2 DEF NoRole, Ender, Recycler, Referencing
  <2> QED BY <1>2, <1>3, <2>1, <2>3 DEF Quiet, KeepsReference
<1> QED BY <1>4, <1>5

\* Reading the state, waiting and posting are quiet.
LEMMA QuietEffect ==
  ASSUME IInv, NEW t \in Threads,
         \/ WaitPreCheck(t) \/ WaitEvent(t) \/ WaitTimedOut(t) \/ WaitPost(t)
         \/ WaitWoken(t) \/ BeginCheck(t) \/ FinishCheck(t) \/ FinishPost(t)
         \/ CancelCheck(t) \/ CancelPost(t)
  PROVE  Quiet(t) /\ pc'[t] # "oops"
<1> USE DEF IInv, TypeOK, Quiet, NoRole, KeepsReference, Ender, Recycler,
            Referencing, Goto, Return, Compare, Post, refcount, locals
<1>1. CASE WaitPreCheck(t) \/ WaitEvent(t)
  BY <1>1 DEF WaitPreCheck, WaitEvent
<1>2. CASE WaitTimedOut(t)
  <2>1. state \notin {"FREE", "AQUIRED"}
    BY <1>2 DEF WaitTimedOut, Places, Marked
  <2> QED BY <1>2, <2>1 DEF WaitTimedOut, States, Terminal
<1>3. CASE WaitWoken(t)
  <2>1. state \in Terminal
    BY <1>3 DEF WaitWoken, Places, Over
  <2> QED BY <1>3, <2>1 DEF WaitWoken
<1>4. CASE WaitPost(t) \/ FinishPost(t) \/ CancelPost(t)
  BY <1>4 DEF WaitPost, FinishPost, CancelPost
<1>5. CASE BeginCheck(t) \/ FinishCheck(t)
  BY <1>5 DEF BeginCheck, FinishCheck
<1>6. CASE CancelCheck(t)
  BY <1>6 DEF CancelCheck
<1> QED BY <1>1, <1>2, <1>3, <1>4, <1>5, <1>6

\* The swaps of the state.
LEMMA SwapEffect ==
  ASSUME IInv, NEW t \in Threads,
         WaitMark(t) \/ WaitAbort(t) \/ BeginMark(t) \/ FinishMark(t) \/ CancelMark(t)
  PROVE  (Quiet(t) \/ Marks(t) \/ Ends(t)) /\ pc'[t] # "oops"
<1> USE DEF IInv, TypeOK, Quiet, Marks, Ends, NoRole, KeepsReference, Ender,
            Recycler, Referencing, Goto, Cas, refcount, locals, Open, Terminal
<1>1. CASE WaitMark(t) \/ WaitAbort(t)
  BY <1>1 DEF WaitMark, WaitAbort
<1>2. CASE BeginMark(t)
  <2>1. seen[t] \in Open
    BY <1>2 DEF BeginMark, Places
  <2> QED BY <1>2, <2>1 DEF BeginMark
<1>3. CASE FinishMark(t)
  BY <1>3 DEF FinishMark
<1>4. CASE CancelMark(t)
  <2>1. seen[t] \in Open
    BY <1>4 DEF CancelMark, Places
  <2> QED BY <1>4, <2>1 DEF CancelMark
<1> QED BY <1>1, <1>2, <1>3, <1>4

\* The cleanup succeeds; only a canceller, who has no reference, can get
\* DO_RECYCLE.
LEMMA CleanupEffect ==
  ASSUME IInv, NEW t \in Threads,
         WaitCleanup(t) \/ FinishCleanup(t) \/ CancelCleanup(t)
  PROVE  CleansUp(t) /\ pc'[t] # "oops"
<1> USE DEF IInv, TypeOK
<1>1. PICK from, next :
        /\ CleanupFrom(t, from, next)
        /\ <<from, next>> \in {<<"wait_cleanup", "wait_post">>,
                               <<"finish_cleanup", "finish_post">>,
                               <<"cancel_cleanup", "cancel_post">>}
  BY DEF WaitCleanup, FinishCleanup, CancelCleanup
<1>2. /\ pc[t] = from
      /\ UNCHANGED <<state, recycled>>
      /\ RefCtr!refctr_cleanup(t)
  BY <1>1 DEF CleanupFrom, locals
<1>3. Ender(t) /\ ~Recycler(t)
  BY <1>1, <1>2 DEF Ender, Recycler
<1>4. phase = "active"
  BY <1>3 DEF Life
<1>5. Referencing(t) <=> from # "cancel_cleanup"
  BY <1>1, <1>2 DEF Referencing
<1>6. CASE refs > 0
  <2>1. refs' = refs /\ phase' = "cleanup" /\ ret'[t] = "OK"
    BY <1>2, <1>4, <1>6, CleanupResult
  <2>2. pc'[t] = next
    BY <1>1, <2>1 DEF CleanupFrom, Goto
  <2>3. /\ ~Ender(t)' /\ ~Recycler(t)' /\ pc'[t] # "oops"
        /\ Referencing(t)' <=> from # "cancel_cleanup"
    BY <1>1, <2>2 DEF Ender, Recycler, Referencing
  <2> QED BY <1>2, <1>3, <1>4, <1>5, <1>6, <2>1, <2>3 DEF CleansUp, KeepsReference
<1>7. CASE ~(refs > 0)
  <2>1. ~Referencing(t) /\ from = "cancel_cleanup"
    BY <1>5, <1>7, ReferencingCounted
  <2>2. t \in Cancellers
    BY <1>2, <2>1 DEF Places, Cancel
  <2>3. refs' = refs /\ phase' = "idle" /\ ret'[t] = "DO_RECYCLE"
    BY <1>2, <1>4, <1>7, CleanupResult
  <2>4. pc'[t] = "recycle"
    BY <1>1, <2>2, <2>3 DEF CleanupFrom, Goto
  <2>5. ~Ender(t)' /\ Recycler(t)' /\ ~Referencing(t)'
    BY <2>4 DEF Ender, Recycler, Referencing
  <2>6. refs = 0
    BY <1>7 DEF RefCtr!RefTypeOK
  <2> QED BY <1>2, <1>3, <1>4, <2>1, <2>3, <2>4, <2>5, <2>6 DEF CleansUp, KeepsReference
<1> QED BY <1>6, <1>7

\* The decrement succeeds, since who gets to it has a reference.
LEMMA DecEffect ==
  ASSUME IInv, NEW t \in Threads, Dec(t)
  PROVE  Leaves(t) /\ pc'[t] # "oops"
<1> USE DEF IInv, TypeOK
<1>1. /\ pc[t] \in {"begin_dec", "dec"}
      /\ UNCHANGED <<state, recycled>>
      /\ RefCtr!refctr_dec(t)
  BY DEF Dec
<1>2. Referencing(t) /\ NoRole(t)
  BY <1>1 DEF Referencing, NoRole, Ender, Recycler
<1>3. refs > 0 /\ phase # "idle"
  BY <1>2, ReferencingCounted
<1>4. CASE phase = "cleanup" /\ refs = 1
  <2>1. refs' = refs - 1 /\ phase' = "idle" /\ ret'[t] = "DO_RECYCLE"
    BY <1>1, <1>3, <1>4, DecResult
  <2>2. pc'[t] \in {"recycle", "begin_recycle"}
    BY <1>1, <2>1 DEF Dec, Goto
  <2>3. ~Ender(t)' /\ Recycler(t)' /\ ~Referencing(t)'
    BY <2>2 DEF Ender, Recycler, Referencing
  <2> QED BY <1>1, <1>2, <1>3, <1>4, <2>1, <2>2, <2>3 DEF Leaves
<1>5. CASE ~(phase = "cleanup" /\ refs = 1)
  <2>1. refs' = refs - 1 /\ phase' = phase /\ ret'[t] = "OK"
    BY <1>1, <1>3, <1>5, DecResult
  <2>2. pc'[t] \in {"processing", "returned"}
    BY <1>1, <2>1 DEF Dec, ReturnZero, Return, Goto
  <2>3. ~Ender(t)' /\ ~Recycler(t)' /\ ~Referencing(t)'
    BY <2>2 DEF Ender, Recycler, Referencing
  <2> QED BY <1>1, <1>2, <1>3, <1>5, <2>1, <2>2, <2>3 DEF Leaves
<1> QED BY <1>4, <1>5

\* The request is over when it is recycled, aborted if a canceller does it.
LEMMA RecycleEffect ==
  ASSUME IInv, NEW t \in Threads, Recycle(t)
  PROVE  Frees(t) /\ pc'[t] # "oops"
<1> USE DEF IInv, TypeOK
<1>1. pc[t] \in {"begin_recycle", "recycle"}
  BY DEF Recycle
<1>2. state \in MayFree(t)
  BY <1>1 DEF Places, Over, MayFree, Cancel
<1>3. /\ UNCHANGED <<state, phase, refs>> /\ recycled' = recycled + 1
      /\ ReturnZero(t)
  BY <1>2 DEF Recycle, refcount
<1>4. pc'[t] \in {"processing", "returned"}
  BY <1>3 DEF ReturnZero, Return, Goto
<1>5. NoRole(t)' /\ ~Referencing(t)'
  BY <1>4 DEF NoRole, Ender, Recycler, Referencing
<1>6. Recycler(t) /\ ~Referencing(t)
  BY <1>1 DEF Recycler, Referencing
<1> QED BY <1>3, <1>4, <1>5, <1>6 DEF Frees, KeepsReference

\* reqw_aquire begins the life of the counter.
LEMMA AquireEffect ==
  ASSUME IInv, NEW t \in Threads, reqw_aquire(t)
  PROVE  Aquires /\ RefCtr!RefTypeOK'
BY DEF IInv, TypeOK, Life, Aquires, reqw_aquire, locals, RefCtr!RefTypeOK,
       RefCtr!refctr_init, RefCtr!Return, RefCtr!Refuse, RefCtr!Phases,
       RefCtr!RefCodes

\* Nobody has the request while it is on the list.
LEMMA Effects ==
  ASSUME IInv, Next
  PROVE  \/ Aquires
         \/ /\ state # "FREE"
            /\ \E t \in Threads : Alone(t) /\ Effect(t) /\ pc'[t] # "oops"
<1>1. ASSUME NEW t \in Threads, WaitEnter(t) \/ BeginEnter(t)
      PROVE  Effect(t) /\ pc'[t] # "oops" /\ state # "FREE"
  <2>1. pc'[t] \in {"wait_pre", "begin", "returned"} /\ state # "FREE"
    BY <1>1 DEF IInv, TypeOK, WaitEnter, BeginEnter, Enter, Return, Goto
  <2> QED BY <1>1, <2>1, EnterEffect DEF Effect
<1>2. ASSUME NEW t \in Threads, CancelCheck(t) \/ Step(t)
      PROVE  Effect(t) /\ pc'[t] # "oops"
  BY <1>2, QuietEffect, SwapEffect, CleanupEffect, DecEffect, RecycleEffect
     DEF Effect, Step
<1>3. ASSUME NEW t \in Threads, CancelCheck(t) \/ Step(t)
      PROVE  state # "FREE"
  <2>1. pc[t] # "start" \/ state # "FREE"
    <3>1. CASE CancelCheck(t) \/ CancelMark(t) \/ CancelCleanup(t) \/ CancelPost(t)
      BY <3>1 DEF CancelCheck, CancelMark, CancelCleanup, CancelPost,
                  CleanupFrom, Post
    <3>2. CASE WaitPreCheck(t) \/ WaitMark(t) \/ WaitEvent(t) \/ WaitTimedOut(t)
      BY <3>2 DEF WaitPreCheck, WaitMark, WaitEvent, WaitTimedOut
    <3>3. CASE WaitAbort(t) \/ WaitCleanup(t) \/ WaitPost(t) \/ WaitWoken(t)
      BY <3>3 DEF WaitAbort, WaitCleanup, WaitPost, WaitWoken, CleanupFrom, Post
    <3>4. CASE BeginCheck(t) \/ BeginMark(t) \/ Dec(t) \/ Recycle(t)
      BY <3>4 DEF BeginCheck, BeginMark, Dec, Recycle
    <3>5. CASE FinishCheck(t) \/ FinishMark(t) \/ FinishCleanup(t) \/ FinishPost(t)
      BY <3>5 DEF FinishCheck, FinishMark, FinishCleanup, FinishPost,
                  CleanupFrom, Post
    <3> QED BY <1>3, <3>1, <3>2, <3>3, <3>4, <3>5 DEF Step
  <2> QED BY <2>1 DEF IInv, Life
<1> QED BY <1>1, <1>2, <1>3, AquireEffect, AloneStep DEF Next, IInv

-----------------------------------------------------------------------------
(***************************************************************************)
(* The invariant is preserved.                                             *)
(***************************************************************************)
LEMMA InitEstablishes == Init => IInv
<1> SUFFICES ASSUME Init PROVE IInv
  OBVIOUS
<1>1. TypeOK
  BY DEF Init, TypeOK, States, Points, RefCtr!AbsInit, RefCtr!RefTypeOK,
         RefCtr!Phases, RefCtr!RefCodes
<1>2. Places
  BY DEF Init, Places, Marked, Over, Cancel, Wait
<1>3. References
  <2>1. {t \in Threads : Referencing(t)} = {}
    BY DEF Init, Referencing
  <2>2. refs = 0 /\ state # "PROCESSING"
    BY DEF Init, RefCtr!AbsInit
  <2> QED BY <2>1, <2>2, FS_EmptySet DEF References
<1>4. Life
  BY DEF Init, Life, RefCtr!AbsInit, Open, Ender, Recycler
<1> QED BY <1>1, <1>2, <1>3, <1>4 DEF IInv

\* The state only goes on.
LEMMA Forward ==
  ASSUME IInv, Next
  PROVE  /\ state' = "FREE" => state = "FREE"
         /\ state' = "AQUIRED" => state \in {"FREE", "AQUIRED"}
         /\ state \in Terminal => state' = state
         /\ state = "PROCESSING" => state' # "ABORTED"
<1>1. state \in States
  BY DEF IInv, TypeOK
<1>2. CASE Aquires
  BY <1>2 DEF Aquires, Terminal
<1>3. ASSUME NEW t \in Threads, Quiet(t) \/ Enters(t) \/ CleansUp(t) \/ Leaves(t) \/ Frees(t)
      PROVE  state' = state
  BY <1>3 DEF Quiet, Enters, CleansUp, Leaves, Frees
<1>4. ASSUME NEW t \in Threads, Marks(t)
      PROVE  state \in Open /\ state' \in {"WAITING", "PROCESSING"}
  BY <1>4 DEF Marks
<1>5. ASSUME NEW t \in Threads, Ends(t)
      PROVE  \/ state \in Open /\ state' = "ABORTED"
             \/ state = "PROCESSING" /\ state' = "DONE"
  BY <1>5 DEF Ends
<1> QED BY <1>1, <1>2, <1>3, <1>4, <1>5, Effects DEF Effect, Open, Terminal

LEMMA ReferencesStep == IInv /\ Next => References'
<1> SUFFICES ASSUME IInv, Next PROVE References'
  OBVIOUS
<1> DEFINE R == {t \in Threads : Referencing(t)}
           held(s) == IF s = "PROCESSING" THEN 1 ELSE 0
<1>1. IsFiniteSet(R) /\ Cardinality(R) \in Nat
  <2>1. IsFiniteSet(R)
    BY FS_Subset, ThreadsAssumption
  <2> QED BY <2>1, FS_CardinalityType
<1>2. refs = Cardinality(R) + held(state)
  BY DEF IInv, References
<1>3. refs' = Cardinality(R') + held(state') => References'
  BY DEF References
<1>4. ASSUME NEW t \in Threads, Alone(t)
      PROVE  /\ KeepsReference(t) => R' = R
             /\ ~Referencing(t) /\ Referencing(t)' =>
                  R' = R \cup {t} /\ Cardinality(R') = Cardinality(R) + 1
             /\ Referencing(t) /\ ~Referencing(t)' =>
                  R' = R \ {t} /\ Cardinality(R') = Cardinality(R) - 1
  <2>1. \A u \in Threads \ {t} : Referencing(u)' <=> Referencing(u)
    BY <1>4 DEF Alone, Referencing
  <2>2. KeepsReference(t) => R' = R
    BY <2>1 DEF KeepsReference
  <2>3. ~Referencing(t) /\ Referencing(t)' => R' = R \cup {t} /\ t \notin R
    BY <2>1
  <2>4. Referencing(t) /\ ~Referencing(t)' => R' = R \ {t} /\ t \in R
    BY <2>1
  <2>5. t \notin R => Cardinality(R \cup {t}) = Cardinality(R) + 1
    BY <1>1, FS_AddElement
  <2>6. t \in R => Cardinality(R \ {t}) = Cardinality(R) - 1
    BY <1>1, FS_RemoveElement
  <2> QED BY <2>2, <2>3, <2>4, <2>5, <2>6
<1> HIDE DEF R
<1>5. CASE Aquires
  <2>1. R' = R
    BY <1>5 DEF Aquires, R, Referencing
  <2> QED BY <1>2, <1>3, <1>5, <2>1 DEF Aquires
<1>6. ASSUME NEW t \in Threads, Alone(t), Quiet(t) \/ CleansUp(t) \/ Frees(t)
      PROVE  References'
  <2>1. KeepsReference(t) /\ UNCHANGED <<state, refs>>
    BY <1>6 DEF Quiet, CleansUp, Frees
  <2> QED BY <1>2, <1>3, <1>4, <1>6, <2>1
<1>7. ASSUME NEW t \in Threads, Alone(t), Marks(t) \/ Ends(t)
      PROVE  References'
  <2>1. \/ KeepsReference(t) /\ held(state) = 0 /\ held(state') = 0
        \/ Referencing(t) /\ ~Referencing(t)' /\ held(state) = 0 /\ held(state') = 1
        \/ ~Referencing(t) /\ Referencing(t)' /\ held(state) = 1 /\ held(state') = 0
    BY <1>7 DEF Marks, Ends, Open
  <2>2. refs' = refs
    BY <1>7 DEF Marks, Ends
  <2> QED BY <1>1, <1>2, <1>3, <1>4, <1>7, <2>1, <2>2
<1>8. ASSUME NEW t \in Threads, Alone(t), Enters(t) \/ Leaves(t)
      PROVE  References'
  <2>1. state' = state
    BY <1>8 DEF Enters, Leaves
  <2>2. \/ refs' = refs + 1 /\ ~Referencing(t) /\ Referencing(t)'
        \/ refs' = refs - 1 /\ Referencing(t) /\ ~Referencing(t)'
    BY <1>8 DEF Enters, Leaves
  <2> QED BY <1>1, <1>2, <1>3, <1>4, <1>8, <2>1, <2>2
<1> QED BY <1>5, <1>6, <1>7, <1>8, Effects DEF Effect

LEMMA LifeStep == IInv /\ Next => Life'
<1> SUFFICES ASSUME IInv, Next PROVE Life'
  OBVIOUS
<1> USE DEF IInv
<1>1. /\ refs \in Nat /\ phase \in {"idle", "active", "cleanup"}
      /\ recycled \in {0, 1} /\ state \in States
  BY DEF TypeOK, RefCtr!RefTypeOK, RefCtr!Phases
<1>2. CASE Aquires
  BY <1>1, <1>2 DEF Life, Aquires, Open, Ender, Recycler
<1>3. ASSUME NEW t \in Threads, Alone(t)
      PROVE  \A u \in Threads \ {t} :
               (Ender(u)' <=> Ender(u)) /\ (Recycler(u)' <=> Recycler(u))
  BY <1>3 DEF Alone, Ender, Recycler
<1>4. \A t \in Threads : Ender(t) => state \in Terminal
  BY DEF Places, Over, Ender
<1>5. ASSUME state # "FREE",
             NEW t \in Threads, Alone(t), Quiet(t) \/ Marks(t) \/ Enters(t)
      PROVE  Life'
  <2>1. /\ NoRole(t) /\ NoRole(t)' /\ UNCHANGED <<phase, recycled>>
        /\ refs' = refs \/ (phase = "active" /\ refs' = refs + 1)
    BY <1>5 DEF Quiet, Marks, Enters
  <2>2. /\ state' # "FREE"
        /\ state' \in Open \cup {"PROCESSING"} => state \in Open \cup {"PROCESSING"}
    BY <1>5 DEF Quiet, Marks, Enters
  <2> QED BY <1>1, <1>3, <1>5, <2>1, <2>2 DEF Life, NoRole
<1>6. ASSUME state # "FREE", NEW t \in Threads, Alone(t), Ends(t)
      PROVE  Life'
  <2>1. /\ UNCHANGED <<phase, refs, recycled>>
        /\ ~Recycler(t) /\ ~Recycler(t)'
        /\ state' \in Terminal /\ state \in Open \cup {"PROCESSING"}
    BY <1>6 DEF Ends, NoRole, Terminal
  <2>2. \A u \in Threads : ~Ender(u)
    BY <1>4, <2>1 DEF Terminal, Open
  <2>3. phase = "active"
    BY <2>1 DEF Life
  <2> QED BY <1>1, <1>3, <1>6, <2>1, <2>2, <2>3 DEF Life, Open, Terminal
<1>7. ASSUME state # "FREE", NEW t \in Threads, Alone(t), CleansUp(t)
      PROVE  Life'
  <2>1. state \in Terminal /\ state' = state /\ UNCHANGED <<refs, recycled>>
    BY <1>4, <1>7 DEF CleansUp
  <2>2. /\ phase = "active" /\ recycled = 0
        /\ \A u \in Threads : ~Recycler(u) /\ ~Ender(u)'
    BY <1>3, <1>7 DEF CleansUp, Life
  <2>3. \/ refs > 0 /\ phase' = "cleanup" /\ ~Recycler(t)'
        \/ refs = 0 /\ phase' = "idle" /\ Recycler(t)'
    BY <1>7 DEF CleansUp
  <2> QED BY <1>1, <1>3, <1>7, <2>1, <2>2, <2>3 DEF Life, Open, Terminal
<1>8. ASSUME state # "FREE", NEW t \in Threads, Alone(t), Leaves(t)
      PROVE  Life'
  <2>1. /\ UNCHANGED <<state, recycled>>
        /\ ~Ender(t) /\ ~Recycler(t) /\ ~Ender(t)'
        /\ refs > 0 /\ refs' = refs - 1
    BY <1>8 DEF Leaves, NoRole
  <2>2. CASE phase = "cleanup" /\ refs = 1 /\ phase' = "idle" /\ Recycler(t)'
    BY <1>1, <1>3, <1>8, <2>1, <2>2 DEF Life
  <2>3. CASE ~(phase = "cleanup" /\ refs = 1) /\ phase' = phase /\ ~Recycler(t)'
    BY <1>1, <1>3, <1>8, <2>1, <2>3 DEF Life
  <2> QED BY <1>8, <2>2, <2>3 DEF Leaves
<1>9. ASSUME state # "FREE", NEW t \in Threads, Alone(t), Frees(t)
      PROVE  Life'
  <2>1. /\ UNCHANGED <<state, phase, refs>> /\ recycled' = recycled + 1
        /\ Recycler(t) /\ ~Recycler(t)' /\ ~Ender(t)'
    BY <1>9 DEF Frees, NoRole
  <2>2. phase = "idle" /\ \A u \in Threads : ~Recycler(u)'
    BY <1>3, <1>9, <2>1 DEF Life
  <2> QED BY <1>1, <1>3, <1>9, <2>1, <2>2 DEF Life
<1> QED BY <1>2, <1>5, <1>6, <1>7, <1>8, <1>9, Effects DEF Effect

LEMMA TypeStep == IInv /\ Next => TypeOK'
<1> SUFFICES ASSUME IInv, Next PROVE TypeOK'
  OBVIOUS
<1> USE DEF IInv, TypeOK
<1>1. ASSUME NEW t \in Threads, reqw_aquire(t) PROVE TypeOK'
  <2>1. evt' \in BOOLEAN
    BY <1>1, Zenon DEF reqw_aquire
  <2> QED BY <1>1, <2>1, AquireEffect DEF reqw_aquire, locals, States
<1>2. ASSUME NEW t \in Threads, WaitEnter(t) \/ BeginEnter(t) PROVE TypeOK'
  <2>1. PICK point \in {"wait_pre", "begin"} : Enter(t, point)
    BY <1>2 DEF WaitEnter, BeginEnter
  <2>2. /\ RefCtr!refctr_inc(t)
        /\ UNCHANGED <<state, evt, seen, forever, recycled>>
    BY <2>1 DEF Enter
  <2>3. RefCtr!RefTypeOK'
    BY <2>2, IncResult
  <2>4. /\ pc' \in [Threads -> Points]
        /\ result' \in [Threads -> {"none", "ok", "error"}]
    BY <2>1 DEF Enter, Return, Goto, Points
  <2> QED BY <2>2, <2>3, <2>4
<1>3. ASSUME NEW t \in Threads,
             WaitCleanup(t) \/ FinishCleanup(t) \/ CancelCleanup(t)
      PROVE  TypeOK'
  <2>1. PICK from, next : CleanupFrom(t, from, next) /\ next \in Points
    BY <1>3 DEF WaitCleanup, FinishCleanup, CancelCleanup, Points
  <2>2. /\ RefCtr!refctr_cleanup(t)
        /\ UNCHANGED <<state, evt, seen, forever, result, recycled>>
    BY <2>1 DEF CleanupFrom, locals
  <2>3. RefCtr!RefTypeOK'
    BY <2>2, CleanupResult
  <2>4. pc' \in [Threads -> Points]
    BY <2>1 DEF CleanupFrom, Goto, Points
  <2> QED BY <2>2, <2>3, <2>4
<1>4. ASSUME NEW t \in Threads, Dec(t) PROVE TypeOK'
  <2>1. RefCtr!refctr_dec(t) /\ UNCHANGED <<state, evt, seen, forever, recycled>>
    BY <1>4 DEF Dec
  <2>2. RefCtr!RefTypeOK'
    BY <2>1, DecResult
  <2>3. /\ pc' \in [Threads -> Points]
        /\ result' \in [Threads -> {"none", "ok", "error"}]
    BY <1>4 DEF Dec, ReturnZero, Return, Goto, Points
  <2> QED BY <2>1, <2>2, <2>3
<1>5. ASSUME NEW t \in Threads, Recycle(t) PROVE TypeOK'
  <2>1. UNCHANGED <<state, evt, seen, refcount, forever>>
    BY <1>5 DEF Recycle
  <2>2. /\ pc' \in [Threads -> Points]
        /\ result' \in [Threads -> {"none", "ok", "error"}]
    BY <1>5 DEF Recycle, ReturnZero, Return, Goto, Points
  <2>3. recycled' \in {0, 1}
    BY <1>5, RecycleEffect DEF Frees, Life
  <2> QED BY <2>1, <2>2, <2>3 DEF refcount, RefCtr!RefTypeOK
<1>6. ASSUME NEW t \in Threads, WaitPost(t) \/ FinishPost(t) \/ CancelPost(t)
      PROVE  TypeOK'
  <2>1. evt' \in BOOLEAN
    BY <1>6, Zenon DEF WaitPost, FinishPost, CancelPost, Post
  <2> QED BY <1>6, <2>1 DEF WaitPost, FinishPost, CancelPost, Post, Return, Goto,
                            Points, refcount, RefCtr!RefTypeOK
<1>7. ASSUME NEW t \in Threads,
             WaitMark(t) \/ WaitAbort(t) \/ BeginMark(t) \/ FinishMark(t) \/ CancelMark(t)
      PROVE  TypeOK'
  BY <1>7 DEF WaitMark, WaitAbort, BeginMark, FinishMark, CancelMark, Cas, Goto,
              Forget, Points, States, refcount, locals, RefCtr!RefTypeOK
<1>8. ASSUME NEW t \in Threads,
             WaitPreCheck(t) \/ WaitEvent(t) \/ WaitTimedOut(t) \/ WaitWoken(t)
      PROVE  TypeOK'
  <2>1. UNCHANGED <<state, evt, seen, refcount, result, recycled>>
    BY <1>8 DEF WaitPreCheck, WaitEvent, WaitTimedOut, WaitWoken, locals
  <2>2. pc' \in [Threads -> Points]
    BY <1>8 DEF WaitPreCheck, WaitEvent, WaitTimedOut, WaitWoken, Goto, Points
  <2>3. forever' \subseteq Waiters
    <3>1. CASE WaitPreCheck(t) \/ WaitTimedOut(t)
      <4>1. t \in Waiters
        BY <3>1 DEF WaitPreCheck, WaitTimedOut, Places, Wait
      <4> QED BY <3>1, <4>1 DEF WaitPreCheck, WaitTimedOut
    <3>2. CASE WaitEvent(t) \/ WaitWoken(t)
      BY <3>2 DEF WaitEvent, WaitWoken, locals
    <3> QED BY <1>8, <3>1, <3>2
  <2> QED BY <2>1, <2>2, <2>3 DEF refcount, RefCtr!RefTypeOK
<1>9. ASSUME NEW t \in Threads, BeginCheck(t) \/ FinishCheck(t) \/ CancelCheck(t)
      PROVE  TypeOK'
  BY <1>9 DEF BeginCheck, FinishCheck, CancelCheck, Compare, Return, Goto,
              Points, refcount, locals, RefCtr!RefTypeOK
<1> QED BY <1>1, <1>2, <1>3, <1>4, <1>5, <1>6, <1>7, <1>8, <1>9 DEF Next, Step

LEMMA PlacesStep == IInv /\ Next => Places'
<1> SUFFICES ASSUME IInv, Next PROVE Places'
  OBVIOUS
<1> DEFINE Placed(t) ==
      /\ pc[t] # "oops"
      /\ pc[t] \in Marked => state \notin {"FREE", "AQUIRED"}
      /\ pc[t] \in Over => state \in Terminal
      /\ pc[t] \in {"begin_cas", "cancel_cas"} => seen[t] \in Open
      /\ t \in Cancellers => pc[t] \in Cancel \cup {"start", "recycle", "returned"}
      /\ pc[t] \in Cancel => t \in Cancellers
      /\ pc[t] \in Wait => t \in Waiters
      /\ t \in Cancellers /\ pc[t] \in {"cancel_cleanup", "recycle"} =>
           state = "ABORTED"
<1> USE DEF IInv
<1>1. \A t \in Threads : Placed(t)
  BY DEF Places
<1>2. /\ state' = "FREE" => state = "FREE"
      /\ state' = "AQUIRED" => state \in {"FREE", "AQUIRED"}
      /\ state \in Terminal => state' = state
  BY Forward
<1>3. ASSUME NEW u \in Threads, pc'[u] = pc[u], seen'[u] = seen[u]
      PROVE  Placed(u)'
  BY <1>1, <1>2, <1>3 DEF Terminal
<1>4. ASSUME NEW t \in Threads, \/ WaitEnter(t) \/ BeginEnter(t) PROVE Placed(t)'
  <2>1. pc'[t] \in {"wait_pre", "begin", "returned"}
    BY <1>4 DEF TypeOK, WaitEnter, BeginEnter, Enter, Return, Goto
  <2>2. /\ t \notin Cancellers
        /\ pc'[t] = "wait_pre" => t \in Waiters
    BY <1>4, ThreadsAssumption DEF TypeOK, WaitEnter, BeginEnter, Enter, Return, Goto
  <2> QED BY <2>1, <2>2 DEF Marked, Over, Cancel, Wait
<1>5. ASSUME NEW t \in Threads,
             \/ WaitPreCheck(t) \/ WaitEvent(t) \/ WaitTimedOut(t) \/ WaitPost(t)
             \/ WaitWoken(t) \/ BeginCheck(t) \/ FinishCheck(t) \/ FinishPost(t)
             \/ CancelCheck(t) \/ CancelPost(t)
      PROVE  Placed(t)'
  <2>1. pc'[t] # "oops" /\ state' = state
    BY <1>5, QuietEffect DEF Quiet
  <2>2. state \in States
    BY DEF TypeOK
  <2> USE DEF TypeOK, Marked, Over, Cancel, Wait, Goto, Return, Compare, Post,
              Terminal, Open
  <2>3. CASE WaitPreCheck(t) \/ WaitTimedOut(t)
    BY <1>1, <2>1, <2>2, <2>3 DEF WaitPreCheck, WaitTimedOut, States
  <2>4. CASE WaitEvent(t)
    BY <1>1, <2>1, <2>4 DEF WaitEvent, Places
  <2>5. CASE WaitPost(t) \/ FinishPost(t) \/ CancelPost(t)
    BY <1>1, <2>1, <2>5 DEF WaitPost, FinishPost, CancelPost
  <2>6. CASE WaitWoken(t) \/ FinishCheck(t)
    BY <1>1, <2>1, <2>6 DEF WaitWoken, FinishCheck
  <2>7. CASE BeginCheck(t)
    BY <1>1, <2>1, <2>7 DEF BeginCheck
  <2>8. CASE CancelCheck(t)
    BY <1>1, <2>1, <2>8 DEF CancelCheck
  <2> QED BY <1>5, <2>3, <2>4, <2>5, <2>6, <2>7, <2>8
<1>6. ASSUME NEW t \in Threads,
             WaitMark(t) \/ WaitAbort(t) \/ BeginMark(t) \/ FinishMark(t) \/ CancelMark(t)
      PROVE  Placed(t)'
  <2>1. state \in States
    BY DEF TypeOK
  <2> QED BY <1>1, <1>6, <2>1 DEF TypeOK, Marked, Over, Cancel, Wait, Goto,
             Terminal, Open, Cas, Forget, States, WaitMark, WaitAbort, BeginMark,
             FinishMark, CancelMark
<1>7. ASSUME NEW t \in Threads,
             WaitCleanup(t) \/ FinishCleanup(t) \/ CancelCleanup(t)
      PROVE  Placed(t)'
  <2>1. PICK from, next :
          /\ CleanupFrom(t, from, next)
          /\ <<from, next>> \in {<<"wait_cleanup", "wait_post">>,
                                 <<"finish_cleanup", "finish_post">>,
                                 <<"cancel_cleanup", "cancel_post">>}
    BY <1>7 DEF WaitCleanup, FinishCleanup, CancelCleanup
  <2>2. /\ pc[t] = from /\ state' = state
        /\ \/ pc'[t] = next
           \/ t \in Cancellers /\ pc'[t] = "recycle"
    <3>1. pc'[t] # "oops"
      BY <1>7, CleanupEffect
    <3>2. pc'[t] = CASE ret'[t] = "OK" -> next
                     [] ret'[t] = "DO_RECYCLE" /\ t \in Cancellers -> "recycle"
                     [] OTHER -> "oops"
      BY <2>1 DEF CleanupFrom, Goto, TypeOK
    <3> QED BY <2>1, <3>1, <3>2 DEF CleanupFrom
  <2>3. state \in Terminal
    BY <1>1, <2>1, <2>2 DEF Over
  <2>4. t \in Cancellers <=> from = "cancel_cleanup"
    BY <1>1, <2>1, <2>2 DEF Cancel
  <2> QED BY <1>1, <2>1, <2>2, <2>3, <2>4 DEF Marked, Over, Cancel, Wait, Terminal
<1>8. ASSUME NEW t \in Threads, Dec(t) PROVE Placed(t)'
  <2>1. /\ Leaves(t) /\ pc'[t] # "oops" /\ state' = state
        /\ pc[t] \in {"begin_dec", "dec"}
    BY <1>8, DecEffect DEF Dec, Leaves
  <2>2. t \notin Cancellers
    BY <1>1, <2>1 DEF Cancel
  <2>3. pc'[t] \in {"recycle", "begin_recycle", "processing", "returned"}
    BY <1>8, <2>1 DEF Dec, ReturnZero, Return, Goto, TypeOK
  <2>4. Recycler(t)' => state \in Terminal
    <3>1. ASSUME Recycler(t)' PROVE phase = "cleanup"
      BY <2>1, <3>1 DEF Leaves
    <3> QED BY <3>1 DEF Life, TypeOK, States, Open, Terminal
  <2> QED BY <2>1, <2>2, <2>3, <2>4 DEF Marked, Over, Cancel, Wait, Recycler
<1>9. ASSUME NEW t \in Threads, Recycle(t) PROVE Placed(t)'
  <2>1. pc'[t] # "oops" /\ state' = state
    BY <1>9, RecycleEffect DEF Frees
  <2>2. \/ pc[t] = "begin_recycle" /\ pc'[t] = "processing"
        \/ pc'[t] = "returned"
    BY <1>9, <2>1 DEF Recycle, ReturnZero, Return, Goto, TypeOK
  <2> QED BY <1>1, <2>1, <2>2 DEF Marked, Over, Cancel, Wait
<1>10. \A t \in Threads : Placed(t)'
  <2>1. CASE \E t \in Threads : reqw_aquire(t)
    BY <1>3, <2>1 DEF reqw_aquire
  <2>2. ASSUME NEW t \in Threads,
               WaitEnter(t) \/ BeginEnter(t) \/ CancelCheck(t) \/ Step(t)
        PROVE  \A u \in Threads : Placed(u)'
    <3>1. Alone(t)
      BY <2>2, AloneStep
    <3>2. Placed(t)'
      BY <1>4, <1>5, <1>6, <1>7, <1>8, <1>9, <2>2 DEF Step
    <3> QED BY <1>3, <3>1, <3>2 DEF Alone
  <2> QED BY <2>1, <2>2 DEF Next
<1>11. evt' => state' \in Terminal
  <2>1. evt => state \in Terminal
    BY DEF Places
  <2>2. CASE evt' = evt
    BY <1>2, <2>1, <2>2, Zenon
  <2>3. ASSUME NEW t \in Threads, reqw_aquire(t) PROVE evt' = FALSE
    BY <2>3 DEF reqw_aquire
  <2>4. ASSUME NEW t \in Threads, WaitPost(t) \/ FinishPost(t) \/ CancelPost(t)
        PROVE  state \in Terminal
    BY <1>1, <2>4 DEF WaitPost, FinishPost, CancelPost, Post, Over
  <2>5. ASSUME NEW t \in Threads, WaitEnter(t) \/ BeginEnter(t) \/ CancelCheck(t)
        PROVE  evt' = evt
    BY <2>5 DEF WaitEnter, BeginEnter, Enter, CancelCheck
  <2>6. ASSUME NEW t \in Threads, Step(t), ~WaitPost(t), ~FinishPost(t), ~CancelPost(t)
        PROVE  evt' = evt
    <3>1. CASE WaitPreCheck(t) \/ WaitEvent(t) \/ WaitTimedOut(t) \/ WaitWoken(t)
      BY <3>1 DEF WaitPreCheck, WaitEvent, WaitTimedOut, WaitWoken
    <3>2. CASE BeginCheck(t) \/ FinishCheck(t) \/ Dec(t) \/ Recycle(t)
      BY <3>2 DEF BeginCheck, FinishCheck, Dec, Recycle
    <3>3. CASE WaitMark(t) \/ WaitAbort(t) \/ BeginMark(t) \/ FinishMark(t)
               \/ CancelMark(t)
      BY <3>3 DEF WaitMark, WaitAbort, BeginMark, FinishMark, CancelMark, Cas
    <3>4. CASE WaitCleanup(t) \/ FinishCleanup(t) \/ CancelCleanup(t)
      BY <3>4 DEF WaitCleanup, FinishCleanup, CancelCleanup, CleanupFrom
    <3> QED BY <2>6, <3>1, <3>2, <3>3, <3>4 DEF Step
  <2> QED BY <1>2, <2>2, <2>3, <2>4, <2>5, <2>6 DEF Next
<1> QED BY <1>10, <1>11 DEF Places

-----------------------------------------------------------------------------
(***************************************************************************)
(* The theorems.                                                           *)
(***************************************************************************)
\* The invariant holds of every state of a request of reqw.c, however many
\* threads wait for it, process it and cancel it.
THEOREM Invariance == Spec => []IInv
<1>1. IInv /\ UNCHANGED vars => IInv'
  BY DEF IInv, vars, TypeOK, RefCtr!RefTypeOK, Places, References, Life,
         Referencing, Ender, Recycler
<1>2. IInv /\ [Next]_vars => IInv'
  BY <1>1, TypeStep, PlacesStep, ReferencesStep, LifeStep DEF IInv
<1> QED BY InitEstablishes, <1>2, PTL DEF Spec

\* Every variable of reqw.c keeps its type; reqw_free is called at most once.
THEOREM TypeCorrect == Spec => []TypeOK
BY Invariance, PTL DEF IInv

\* No k_oops and no assertion of reqw.c is reached.
THEOREM NoOopsCorrect == Spec => []NoOops
<1>1. IInv => NoOops
  BY DEF IInv, Places, NoOops
<1> QED BY Invariance, <1>1, PTL

\* No thread inside reqw_wait, reqw_begin or the exit of reqw_finish is
\* overtaken by the recycling of the request.
THEOREM UsersSafe == Spec => []NotRecycledWhileUsed
<1>1. ASSUME IInv PROVE NotRecycledWhileUsed
  <2>1. (\E t \in Threads : Referencing(t)) => refs > 0 /\ phase # "idle"
    BY <1>1, ReferencingCounted
  <2>2. IsFiniteSet({t \in Threads : Referencing(t)})
    BY FS_Subset, ThreadsAssumption
  <2>3. Cardinality({t \in Threads : Referencing(t)}) \in Nat
    BY <2>2, FS_CardinalityType
  <2>4. Cardinality({t \in Threads : Referencing(t)}) <= refs
    BY <1>1, <2>3 DEF IInv, References
  <2> QED BY <2>1, <2>4 DEF NotRecycledWhileUsed
<1> QED BY Invariance, <1>1, PTL

\* The request is recycled only when it is over, and by one thread.
THEOREM RecycleCorrect == Spec => []RecycledWhenOver
<1>1. ASSUME IInv PROVE RecycledWhenOver
  <2> DEFINE S == {t \in Threads : pc[t] \in {"recycle", "begin_recycle"}}
  <2>1. recycled \in {0, 1} /\ state \in States
        /\ phase \in {"idle", "active", "cleanup"}
    BY <1>1 DEF IInv, TypeOK, RefCtr!RefTypeOK, RefCtr!Phases
  <2>2. recycled > 0 => state \in Terminal /\ phase = "idle"
    BY <1>1, <2>1 DEF IInv, Life, Open, Terminal, States
  <2>3. CASE S = {}
    BY <2>1, <2>2, <2>3, FS_EmptySet DEF RecycledWhenOver
  <2>4. CASE S # {}
    <3>1. PICK t \in Threads : S = {t} /\ Recycler(t)
      BY <1>1, <2>4 DEF IInv, Life, Recycler
    <3>2. Cardinality(S) = 1
      BY <3>1, FS_Singleton
    <3>3. recycled = 0
      BY <1>1, <2>1, <3>1 DEF IInv, Life
    <3> QED BY <2>2, <3>2, <3>3 DEF RecycledWhenOver
  <2> QED BY <2>3, <2>4
<1> QED BY Invariance, <1>1, PTL

\* The outcome of a request is decided by one swap and stays.
THEOREM OutcomeCorrect == Spec => OutcomeIsFinal
<1>1. IInv /\ Next => /\ state \in Terminal => state' = state
                      /\ state = "PROCESSING" => state' # "ABORTED"
  BY Forward
<1>2. IInv /\ [Next]_vars =>
        [/\ state \in Terminal => state' = state
         /\ state = "PROCESSING" => state' # "ABORTED"]_vars
  BY <1>1 DEF vars
<1> QED BY Invariance, <1>2, PTL DEF Spec, OutcomeIsFinal
=============================================================================
