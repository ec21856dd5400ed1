-------------------------------- MODULE Reqw --------------------------------
(***************************************************************************)
(* lib/reqw/reqw.c: the life of one request.  Its owner takes it from the  *)
(* list; any number of threads wait for it (reqw_wait, with or without a   *)
(* timeout), handlers process it (reqw_begin ... reqw_finish), and it can  *)
(* be cancelled (reqw_cancel).                                             *)
(*                                                                         *)
(* Three things are shared: an atomic state word changed by compare and    *)
(* swap, a reference counter, and a kernel event.  Each access to one of   *)
(* them is a step.  The reference counter is used through the atomic       *)
(* operations of RefCtrAbs, which RefCtr implements.                       *)
(*                                                                         *)
(* The file is work in progress: reqw_free (lines 91-96) is empty, so a    *)
(* recycled request never gets back on the list.  The model records the    *)
(* call in recycled and nothing more, as the code does.                    *)
(***************************************************************************)
EXTENDS Naturals, FiniteSets

CONSTANTS
  Waiters,              \* threads that call reqw_wait, once each
  Handlers,             \* threads that call reqw_begin and reqw_finish
  Cancellers            \* threads that call reqw_cancel, once each

Threads == Waiters \cup Handlers \cup Cancellers

\* A call has one function: who cancels does not wait or process.
ASSUME ThreadsAssumption ==
  /\ IsFiniteSet(Threads)
  /\ Cancellers \cap (Waiters \cup Handlers) = {}

VARIABLES
  state,                \* b->state
  evt,                  \* EVT_PROCESSING_DONE is set in b->evt
  phase, refs, ret,     \* b->refcount, and what its operations returned
  pc,                   \* where each thread is
  seen,                 \* what reqw_begin and reqw_cancel will compare with
  forever,              \* the waiters whose timeout is K_FOREVER
  result,               \* what each thread's function returned
  recycled              \* number of calls to reqw_free

vars == <<state, evt, phase, refs, ret, pc, seen, forever, result, recycled>>

RefCtr == INSTANCE RefCtrAbs WITH Clients <- Threads

States   == {"FREE", "AQUIRED", "WAITING", "PROCESSING", "DONE", "ABORTED"}
Open     == {"AQUIRED", "WAITING"}      \* nobody processes it yet
Terminal == {"DONE", "ABORTED"}

Points == {"start", "wait_pre", "wait_pre_cas", "wait_evt", "wait_timeout",
           "wait_abort_cas", "wait_cleanup", "wait_post", "wait_woken",
           "begin", "begin_cas", "begin_dec", "begin_recycle", "processing",
           "finish_cas", "finish_cleanup", "finish_post",
           "cancel", "cancel_cas", "cancel_cleanup", "cancel_post",
           "dec", "recycle", "returned", "oops"}

\* Every variable has its type.
TypeOK ==
  /\ state \in States
  /\ evt \in BOOLEAN
  /\ RefCtr!RefTypeOK
  /\ pc \in [Threads -> Points]
  /\ seen \in [Threads -> States]
  /\ forever \subseteq Waiters
  /\ result \in [Threads -> {"none", "ok", "error"}]
  /\ recycled \in {0, 1}

\* The list holds the request; a waiter may want to wait for ever.
Init ==
  /\ state = "FREE"
  /\ evt = FALSE
  /\ RefCtr!AbsInit
  /\ pc = [t \in Threads |-> "start"]
  /\ seen = [t \in Threads |-> "FREE"]
  /\ forever \in SUBSET Waiters
  /\ result = [t \in Threads |-> "none"]
  /\ recycled = 0

Goto(t, point) == pc' = [pc EXCEPT ![t] = point]

refcount == <<phase, refs, ret>>
locals   == <<forever, result, recycled>>

\* The function returns; a nonzero code is an "error".
Return(t, r) ==
  /\ Goto(t, "returned")
  /\ result' = [result EXCEPT ![t] = r]

\* The value of b->state that a later compare and swap expects.
Compare(t, point) ==
  /\ seen' = [seen EXCEPT ![t] = state]
  /\ Goto(t, point)

Forget(t) == seen' = [seen EXCEPT ![t] = "FREE"]

\* Mutant: atomic_set.
Cas_set(t, expected, new, won, retry) ==
  /\ state' = new
  /\ Goto(t, won)
  /\ UNCHANGED <<evt, refcount, locals>>

\* atomic_cas(&b->state, expected, new): on to won, or back to retry.
Cas(t, expected, new, won, retry) ==
  /\ IF state = expected THEN state' = new /\ Goto(t, won)
                         ELSE state' = state /\ Goto(t, retry)
  /\ UNCHANGED <<evt, refcount, locals>>

\* k_event_post(&b->evt, EVT_PROCESSING_DONE).
Post(t, from) ==
  /\ pc[t] = from
  /\ evt' = TRUE
  /\ UNCHANGED <<state, seen, refcount, forever, recycled>>

\* Mutant: no reference is taken.
Enter_uncounted(t, point) ==
  /\ pc[t] = "start"
  /\ state # "FREE"
  /\ Goto(t, point)
  /\ UNCHANGED <<state, evt, refcount, seen, locals>>

\* refctr_inc at the entry of reqw_wait and reqw_begin.
Enter(t, point) ==
  /\ pc[t] = "start"
  /\ state # "FREE"
  /\ RefCtr!refctr_inc(t)
  /\ IF ret'[t] = "OK" THEN Goto(t, point) /\ UNCHANGED result
                       ELSE Return(t, "error")
  /\ UNCHANGED <<state, evt, seen, forever, recycled>>

\* Mutant: reqw_cancel recycles whatever refctr_cleanup returns.
CleanupFrom_recycle(t, from, next) ==
  /\ pc[t] = from
  /\ RefCtr!refctr_cleanup(t)
  /\ Goto(t, IF t \in Cancellers THEN "recycle" ELSE next)
  /\ UNCHANGED <<state, evt, seen, locals>>

\* refctr_cleanup by the thread that made the state terminal.
CleanupFrom(t, from, next) ==
  /\ pc[t] = from
  /\ RefCtr!refctr_cleanup(t)
  /\ Goto(t, CASE ret'[t] = "OK" -> next
               [] ret'[t] = "DO_RECYCLE" /\ t \in Cancellers -> "recycle"
               [] OTHER -> "oops")
  /\ UNCHANGED <<state, evt, seen, locals>>

(***************************************************************************)
(* reqw_aquire: one section under the list's semaphore, before any other   *)
(* thread has the pointer.                                                 *)
(***************************************************************************)
reqw_aquire(t) ==
  /\ state = "FREE"
  /\ state' = "AQUIRED"
  /\ RefCtr!refctr_init(t)
  /\ evt' = FALSE
  /\ UNCHANGED <<pc, seen, locals>>

(***************************************************************************)
(* reqw_wait.                                                              *)
(***************************************************************************)
WaitEnter(w) == w \in Waiters /\ Enter(w, "wait_pre")

\* Mutant: the first waiter waits without marking the request.
WaitPreCheck_unmarked(w) ==
  /\ pc[w] = "wait_pre"
  /\ Goto(w, IF state \in Terminal THEN "dec" ELSE "wait_evt")
  /\ forever' = IF state = "PROCESSING" THEN forever \cup {w} ELSE forever
  /\ UNCHANGED <<state, evt, seen, refcount, result, recycled>>

\* retry1: the first waiter marks the request WAITING; once it is being
\* processed the timeout no longer counts; a finished one is not waited for.
WaitPreCheck(w) ==
  /\ pc[w] = "wait_pre"
  /\ Goto(w, CASE state = "AQUIRED" -> "wait_pre_cas"
               [] state \in {"WAITING", "PROCESSING"} -> "wait_evt"
               [] OTHER -> "dec")
  /\ forever' = IF state = "PROCESSING" THEN forever \cup {w} ELSE forever
  /\ UNCHANGED <<state, evt, seen, refcount, result, recycled>>

WaitMark(w) ==
  /\ pc[w] = "wait_pre_cas"
  /\ Cas(w, "AQUIRED", "WAITING", "wait_evt", "wait_pre")
  /\ UNCHANGED seen

\* k_event_wait: the event is there, or the timeout expires first.
WaitEvent(w) ==
  /\ pc[w] = "wait_evt"
  /\ \/ evt /\ Goto(w, "wait_woken")
     \/ ~evt /\ w \notin forever /\ Goto(w, "wait_timeout")
  /\ UNCHANGED <<state, evt, seen, refcount, locals>>

\* retry2: a request nobody has begun is aborted; one being processed is
\* waited for without a timeout.
WaitTimedOut(w) ==
  /\ pc[w] = "wait_timeout"
  /\ Goto(w, CASE state = "WAITING" -> "wait_abort_cas"
               [] state = "PROCESSING" -> "wait_evt"
               [] state \in Terminal -> "dec"
               [] OTHER -> "oops")
  /\ forever' = IF state = "PROCESSING" THEN forever \cup {w} ELSE forever
  /\ UNCHANGED <<state, evt, seen, refcount, result, recycled>>

WaitAbort(w) ==
  /\ pc[w] = "wait_abort_cas"
  /\ Cas(w, "WAITING", "ABORTED", "wait_cleanup", "wait_timeout")
  /\ UNCHANGED seen

WaitCleanup(w) == CleanupFrom(w, "wait_cleanup", "wait_post")

WaitPost(w) == Post(w, "wait_post") /\ Goto(w, "dec") /\ UNCHANGED result

\* retry3: woken by the event, the request must be over.
WaitWoken(w) ==
  /\ pc[w] = "wait_woken"
  /\ Goto(w, IF state \in Terminal THEN "dec" ELSE "oops")
  /\ UNCHANGED <<state, evt, seen, refcount, locals>>

(***************************************************************************)
(* reqw_begin.  A caller that gets 0 goes on to process the request.       *)
(***************************************************************************)
BeginEnter(h) == h \in Handlers /\ Enter(h, "begin")

\* Mutant: the error path does not go through the exit.
BeginCheck_leak(h) ==
  /\ pc[h] = "begin"
  /\ IF state \in Open THEN Compare(h, "begin_cas")
                       ELSE Goto(h, "processing") /\ UNCHANGED seen
  /\ UNCHANGED <<state, evt, refcount, locals>>

BeginCheck(h) ==
  /\ pc[h] = "begin"
  /\ IF state \in Open THEN Compare(h, "begin_cas")
                       ELSE Goto(h, "begin_dec") /\ UNCHANGED seen
  /\ UNCHANGED <<state, evt, refcount, locals>>

BeginMark(h) ==
  /\ pc[h] = "begin_cas"
  /\ Cas(h, seen[h], "PROCESSING", "processing", "begin")
  /\ Forget(h)

(***************************************************************************)
(* reqw_finish.                                                            *)
(***************************************************************************)
FinishCheck(h) ==
  /\ pc[h] = "processing"
  /\ IF state = "PROCESSING"
     THEN Goto(h, "finish_cas") /\ UNCHANGED result
     ELSE Return(h, "error")
  /\ UNCHANGED <<state, evt, seen, refcount, forever, recycled>>

FinishMark(h) ==
  /\ pc[h] = "finish_cas"
  /\ Cas(h, "PROCESSING", "DONE", "finish_cleanup", "processing")
  /\ UNCHANGED seen

FinishCleanup(h) == CleanupFrom(h, "finish_cleanup", "finish_post")

FinishPost(h) == Post(h, "finish_post") /\ Goto(h, "dec") /\ UNCHANGED result

(***************************************************************************)
(* reqw_cancel.  It holds no reference.                                    *)
(***************************************************************************)
CancelCheck(c) ==
  /\ c \in Cancellers
  /\ \/ pc[c] = "start" /\ state # "FREE"
     \/ pc[c] = "cancel"
  /\ IF state \in Open
     THEN Compare(c, "cancel_cas") /\ UNCHANGED result
     ELSE Return(c, "ok") /\ UNCHANGED seen
  /\ UNCHANGED <<state, evt, refcount, forever, recycled>>

CancelMark(c) ==
  /\ pc[c] = "cancel_cas"
  /\ Cas(c, seen[c], "ABORTED", "cancel_cleanup", "cancel")
  /\ Forget(c)

CancelCleanup(c) == CleanupFrom(c, "cancel_cleanup", "cancel_post")

\* Mutant: a cancellation wakes nobody.
CancelPost_silent(c) ==
  /\ pc[c] = "cancel_post"
  /\ Return(c, "ok")
  /\ UNCHANGED <<state, evt, seen, refcount, forever, recycled>>

CancelPost(c) == Post(c, "cancel_post") /\ Return(c, "ok")

(***************************************************************************)
(* The common exit of reqw_wait, reqw_begin and reqw_finish: drop the      *)
(* reference and recycle if it was the last.  All three end in return 0,   *)
(* whatever retval says.                                                   *)
(***************************************************************************)
ReturnZero(t) ==
  IF pc[t] \in {"begin_dec", "begin_recycle"}
  THEN Goto(t, "processing") /\ UNCHANGED result
  ELSE Return(t, "ok")

\* Mutant: whoever leaves after the end recycles.
Dec_early(t) ==
  /\ pc[t] \in {"begin_dec", "dec"}
  /\ RefCtr!refctr_dec(t)
  /\ IF phase = "cleanup"
     THEN /\ Goto(t, IF pc[t] = "dec" THEN "recycle" ELSE "begin_recycle")
          /\ UNCHANGED result
     ELSE ReturnZero(t)
  /\ UNCHANGED <<state, evt, seen, forever, recycled>>

Dec(t) ==
  /\ pc[t] \in {"begin_dec", "dec"}
  /\ RefCtr!refctr_dec(t)
  /\ CASE ret'[t] = "OK" -> ReturnZero(t)
       [] ret'[t] = "DO_RECYCLE" ->
            /\ Goto(t, IF pc[t] = "dec" THEN "recycle" ELSE "begin_recycle")
            /\ UNCHANGED result
       [] OTHER -> Goto(t, "oops") /\ UNCHANGED result
  /\ UNCHANGED <<state, evt, seen, forever, recycled>>

\* The state must be one in which the request is over: reqw_free.
MayFree(t) == IF t \in Cancellers THEN {"ABORTED"} ELSE Terminal

Recycle(t) ==
  /\ pc[t] \in {"begin_recycle", "recycle"}
  /\ IF state \in MayFree(t)
     THEN ReturnZero(t) /\ recycled' = recycled + 1
     ELSE Goto(t, "oops") /\ UNCHANGED <<result, recycled>>
  /\ UNCHANGED <<state, evt, seen, refcount, forever>>

-----------------------------------------------------------------------------
\* A step of a function the thread is in.  A blocked wait has none until the
\* event is posted or its timeout expires.
Step(t) ==
  \/ WaitPreCheck(t) \/ WaitMark(t) \/ WaitEvent(t) \/ WaitTimedOut(t)
  \/ WaitAbort(t) \/ WaitCleanup(t) \/ WaitPost(t) \/ WaitWoken(t)
  \/ BeginCheck(t) \/ BeginMark(t)
  \/ FinishCheck(t) \/ FinishMark(t) \/ FinishCleanup(t) \/ FinishPost(t)
  \/ CancelMark(t) \/ CancelCleanup(t) \/ CancelPost(t)
  \/ Dec(t) \/ Recycle(t)

Next ==
  \/ \E t \in Threads : reqw_aquire(t)
  \/ \E t \in Threads : WaitEnter(t) \/ BeginEnter(t) \/ CancelCheck(t)
  \/ \E t \in Threads : Step(t)

Spec == Init /\ [][Next]_vars

\* The kernel schedules a ready thread and fires an expired timeout, and a
\* handler that has begun goes on to finish.  Nobody has to call reqw_wait,
\* reqw_begin or reqw_cancel.
FairSpec ==
  Spec /\ \A t \in Threads : WF_vars(Step(t) \/ (pc[t] = "cancel" /\ CancelCheck(t)))

-----------------------------------------------------------------------------
(***************************************************************************)
(* Properties.                                                             *)
(***************************************************************************)

\* No assertion of the file fails and no k_oops is reached, however waits,
\* timeouts, handlers and cancellations interleave.
NoOops == \A t \in Threads : pc[t] # "oops"

\* "Increase reference to ensure that reqw is not recycled before function
\* returns" (reqw.c:105): no waiter, no handler inside reqw_begin and no
\* thread that ended the request is overtaken by the recycling.  (Not so
\* reqw_cancel after its cleanup, and reqw_finish of a handler that a wrong 0
\* from reqw_begin sent on: these hold no reference.)
Referencing(t) == pc[t] \in {"wait_pre", "wait_pre_cas", "wait_evt",
  "wait_timeout", "wait_abort_cas", "wait_cleanup", "wait_post", "wait_woken",
  "begin", "begin_cas", "begin_dec", "finish_cleanup", "finish_post", "dec"}

NotRecycledWhileUsed ==
  /\ (\E t \in Threads : Referencing(t)) => refs > 0 /\ phase # "idle"
  /\ Cardinality({t \in Threads : Referencing(t)}) <= refs

\* The request is recycled only when it is over, and once.
RecycledWhenOver ==
  /\ recycled > 0 => state \in Terminal /\ phase = "idle"
  /\ recycled + Cardinality({t \in Threads :
       pc[t] \in {"recycle", "begin_recycle"}}) <= 1

\* The outcome is decided once: DONE and ABORTED are final, and a request
\* that is being processed can no longer be aborted, by a timeout that
\* expired or by a cancellation that read the state before.
OutcomeIsFinal ==
  [][/\ state \in Terminal => state' = state
     /\ state = "PROCESSING" => state' # "ABORTED"]_vars

\* Once a request is over, every thread inside reqw_wait returns, also those
\* that wait for ever: whoever ended it posts the event.
WaitersReleased ==
  \A w \in Waiters :
    (state \in Terminal /\ pc[w] # "start") ~> pc[w] = "returned"

\* Once a request is over it is recycled: no reference is lost on any of the
\* exits.
EventuallyRecycled == (state \in Terminal) ~> (recycled = 1)

\* A function that returns 0 succeeded.  "reqw is in aborted or in done"
\* (reqw.c:367) is an error of reqw_begin and of reqw_wait (reqw.c:111).
ZeroMeansSuccess ==
  /\ \A w \in Waiters : result[w] = "ok" => state = "DONE"
  /\ \A h \in Handlers : pc[h] = "processing" => state \in {"PROCESSING", "DONE"}
=============================================================================
