------------------------------- MODULE RefCtr -------------------------------
(***************************************************************************)
(* lib/refctr/refctr.c: a reference counter on one atomic word, used       *)
(* without a lock by any number of threads.                                *)
(*                                                                         *)
(*   ctr = 0   not in use                                                  *)
(*   ctr > 0   in use, ctr - 1 references                                  *)
(*   ctr < 0   being cleaned up, -ctr references left                      *)
(*                                                                         *)
(* Every operation but refctr_init is a loop of an atomic_get and an       *)
(* atomic_cas, and any other client may run between the two: each is a     *)
(* step of its own.  pc[c] = "inc" is a client about to run the            *)
(* atomic_get of refctr_inc, "inc_cas" one about to run its atomic_cas     *)
(* with the value it read in seen[c], and so on.                           *)
(*                                                                         *)
(* holders and pending are history variables: they record what the         *)
(* returned codes told the clients, and no step reads them except to say   *)
(* which calls a client may make.                                          *)
(***************************************************************************)
EXTENDS Integers, FiniteSets

CONSTANT Clients        \* threads; each holds at most one reference

ASSUME ClientsAssumption == IsFiniteSet(Clients) /\ Clients # {}

VARIABLES
  ctr,                  \* the atomic word
  pc,                   \* where each client is
  seen,                 \* val of the client's current operation
  ret,                  \* the value its last operation returned
  holders,              \* clients that were granted a reference
  pending               \* successful inits without their DO_RECYCLE

vars == <<ctr, pc, seen, ret, holders, pending>>

Points  == {"idle", "init", "inc", "inc_cas", "dec", "dec_cas",
            "cleanup", "cleanup_cas"}
Results == {"OK", "IN_USE", "NOT_ACTIVE", "CANNOT_DEC", "IN_CLEANUP",
            "DO_RECYCLE"}

\* Every variable has its type; the atomic word is an integer.
TypeOK ==
  /\ ctr \in Int
  /\ pc \in [Clients -> Points]
  /\ seen \in [Clients -> Int]
  /\ ret \in [Clients -> Results \cup {"none"}]
  /\ holders \subseteq Clients
  /\ pending \in {0, 1}

Init ==
  /\ ctr = 0
  /\ pc = [c \in Clients |-> "idle"]
  /\ seen = [c \in Clients |-> 0]
  /\ ret = [c \in Clients |-> "OK"]
  /\ holders = {}
  /\ pending = 0

Goto(c, point) == pc' = [pc EXCEPT ![c] = point]

\* The operation returns r: the value it read is dead.
Return(c, r) ==
  /\ Goto(c, "idle")
  /\ seen' = [seen EXCEPT ![c] = 0]
  /\ ret' = [ret EXCEPT ![c] = r]

\* An early return changes nothing but the caller.
Refuse(c, r) ==
  /\ Return(c, r)
  /\ UNCHANGED <<ctr, holders, pending>>

\* val = atomic_get(refctr), and the operation goes on to its atomic_cas.
Read(c, point) ==
  /\ Goto(c, point)
  /\ seen' = [seen EXCEPT ![c] = ctr]
  /\ UNCHANGED <<ctr, ret, holders, pending>>

\* Mutant: the swap may fail, and is retried, without any other change.
Retry_spurious(c, from, to) ==
  /\ pc[c] = from
  /\ Goto(c, to)
  /\ seen' = [seen EXCEPT ![c] = 0]
  /\ UNCHANGED <<ctr, ret, holders, pending>>

\* atomic_cas found another value: goto retry.
Retry(c, from, to) ==
  /\ pc[c] = from
  /\ ctr # seen[c]
  /\ Goto(c, to)
  /\ seen' = [seen EXCEPT ![c] = 0]
  /\ UNCHANGED <<ctr, ret, holders, pending>>

(***************************************************************************)
(* Which calls a client makes.  A reference is taken once and given back   *)
(* by its holder.  A refctr_dec by a client that holds nothing (refused    *)
(* with CANNOT_DEC or NOT_ACTIVE) is made only where no other client       *)
(* holds or is taking a reference: the function cannot tell it from a      *)
(* holder's call.                                                          *)
(***************************************************************************)
Taking(c)    == pc[c] \in {"inc", "inc_cas"}
Stranger(c)  == pc[c] \in {"dec", "dec_cas"} /\ c \notin holders

MayCall(c, op) ==
  /\ op = "inc" => /\ c \notin holders
                   /\ \A d \in Clients : ~Stranger(d)
  /\ op = "dec" => \/ c \in holders
                   \/ /\ holders = {}
                      /\ \A d \in Clients : ~Taking(d)

Call(c, op) ==
  /\ pc[c] = "idle"
  /\ MayCall(c, op)
  /\ Goto(c, op)
  /\ ret' = [ret EXCEPT ![c] = "none"]
  /\ UNCHANGED <<ctr, seen, holders, pending>>

(***************************************************************************)
(* refctr_init: atomic_cas(refctr, 0, 1).                                  *)
(***************************************************************************)
\* Mutant: atomic_set.
refctr_init_set(c) ==
  /\ pc[c] = "init"
  /\ ctr' = 1
  /\ pending' = pending + 1
  /\ Return(c, "OK")
  /\ UNCHANGED holders

refctr_init(c) ==
  /\ pc[c] = "init"
  /\ \/ /\ ctr = 0
        /\ ctr' = 1
        /\ pending' = pending + 1
        /\ Return(c, "OK")
        /\ UNCHANGED holders
     \/ /\ ctr # 0
        /\ Refuse(c, "IN_USE")

(***************************************************************************)
(* refctr_inc.                                                             *)
(***************************************************************************)
\* Mutant: the test for a cleanup is missing.
IncGet_anytime(c) ==
  /\ pc[c] = "inc"
  /\ \/ ctr = 0 /\ Refuse(c, "NOT_ACTIVE")
     \/ ctr # 0 /\ Read(c, "inc_cas")

IncGet(c) ==
  /\ pc[c] = "inc"
  /\ \/ ctr = 0 /\ Refuse(c, "NOT_ACTIVE")
     \/ ctr < 0 /\ Refuse(c, "IN_CLEANUP")
     \/ ctr > 0 /\ Read(c, "inc_cas")

\* Mutant: atomic_set of the incremented value.
IncCas_set(c) ==
  /\ pc[c] = "inc_cas"
  /\ ctr' = seen[c] + 1
  /\ holders' = holders \cup {c}
  /\ Return(c, "OK")
  /\ UNCHANGED pending

IncCas(c) ==
  /\ pc[c] = "inc_cas"
  /\ ctr = seen[c]
  /\ ctr' = seen[c] + 1
  /\ holders' = holders \cup {c}
  /\ Return(c, "OK")
  /\ UNCHANGED pending

(***************************************************************************)
(* refctr_dec.                                                             *)
(***************************************************************************)
\* Mutant: the test for "no references" is missing.
DecGet_anytime(c) ==
  /\ pc[c] = "dec"
  /\ \/ ctr = 0 /\ Refuse(c, "NOT_ACTIVE")
     \/ ctr # 0 /\ Read(c, "dec_cas")

DecGet(c) ==
  /\ pc[c] = "dec"
  /\ \/ ctr = 0 /\ Refuse(c, "NOT_ACTIVE")
     \/ ctr = 1 /\ Refuse(c, "CANNOT_DEC")
     \/ ctr \notin {0, 1} /\ Read(c, "dec_cas")

\* Mutant: the last decrement is looked for at the wrong value.
DecCas_late(c) ==
  /\ pc[c] = "dec_cas"
  /\ ctr = seen[c]
  /\ ctr' = IF seen[c] > 0 THEN seen[c] - 1 ELSE seen[c] + 1
  /\ holders' = holders \ {c}
  /\ IF seen[c] = 0
     THEN Return(c, "DO_RECYCLE") /\ pending' = pending - 1
     ELSE Return(c, "OK") /\ UNCHANGED pending

\* "Decrease" one step towards zero.
DecCas(c) ==
  /\ pc[c] = "dec_cas"
  /\ ctr = seen[c]
  /\ ctr' = IF seen[c] > 0 THEN seen[c] - 1 ELSE seen[c] + 1
  /\ holders' = holders \ {c}
  /\ IF seen[c] = -1
     THEN Return(c, "DO_RECYCLE") /\ pending' = pending - 1
     ELSE Return(c, "OK") /\ UNCHANGED pending

(***************************************************************************)
(* refctr_cleanup.                                                         *)
(***************************************************************************)
CleanupGet(c) ==
  /\ pc[c] = "cleanup"
  /\ \/ ctr = 0 /\ Refuse(c, "NOT_ACTIVE")
     \/ ctr < 0 /\ Refuse(c, "IN_CLEANUP")
     \/ ctr > 0 /\ Read(c, "cleanup_cas")

\* Mutant: the sign is flipped without taking the 1 off.
CleanupCas_offset(c) ==
  /\ pc[c] = "cleanup_cas"
  /\ ctr = seen[c]
  /\ ctr' = -seen[c]
  /\ IF seen[c] = 1
     THEN Return(c, "DO_RECYCLE") /\ pending' = pending - 1
     ELSE Return(c, "OK") /\ UNCHANGED pending
  /\ UNCHANGED holders

\* Flip the sign to stop new increments.
CleanupCas(c) ==
  /\ pc[c] = "cleanup_cas"
  /\ ctr = seen[c]
  /\ ctr' = -seen[c] + 1
  /\ IF seen[c] = 1
     THEN Return(c, "DO_RECYCLE") /\ pending' = pending - 1
     ELSE Return(c, "OK") /\ UNCHANGED pending
  /\ UNCHANGED holders

IncRetry(c)     == Retry(c, "inc_cas", "inc")
DecRetry(c)     == Retry(c, "dec_cas", "dec")
CleanupRetry(c) == Retry(c, "cleanup_cas", "cleanup")

\* One step of the operation the client is in.
Step(c) ==
  \/ refctr_init(c)
  \/ IncGet(c) \/ IncCas(c) \/ IncRetry(c)
  \/ DecGet(c) \/ DecCas(c) \/ DecRetry(c)
  \/ CleanupGet(c) \/ CleanupCas(c) \/ CleanupRetry(c)

Next == \E c \in Clients :
  \/ \E op \in {"init", "inc", "dec", "cleanup"} : Call(c, op)
  \/ Step(c)

Spec == Init /\ [][Next]_vars

\* A client inside an operation is scheduled again; none has to call.
FairSpec == Spec /\ \A c \in Clients : WF_vars(Step(c))

-----------------------------------------------------------------------------
(***************************************************************************)
(* Properties.                                                             *)
(***************************************************************************)

\* The word counts exactly the references granted and not yet given back,
\* whatever the clients' loops interleave: no update is lost.
CountsReferences ==
  /\ ctr > 0 => ctr = Cardinality(holders) + 1
  /\ ctr < 0 => -ctr = Cardinality(holders)
  /\ ctr = 0 => holders = {}

\* DO_RECYCLE is returned exactly once for each successful refctr_init, to
\* the call that brings the word back to 0, and never while another life of
\* the object has begun.
RecycledOncePerLife == pending = IF ctr = 0 THEN 0 ELSE 1

\* "No more increments to the refcounter will be accepted after this"
\* (refctr.h:22), not even by a client that read the word before the
\* cleanup and swaps it after.
NoReferenceAfterCleanup ==
  [][ctr < 0 => holders' \subseteq holders /\ ctr' <= 0]_vars

\* A client without a reference never gets as far as changing the word in
\* refctr_dec: the two early returns stop it.
StrangersStopAtGet == \A c \in Clients : pc[c] = "dec_cas" => c \in holders

\* The operations are linearizable: seen through the phase and the number
\* of references that the word encodes, the loops behave as the atomic
\* operations of RefCtrAbs.
PhaseOf == IF ctr = 0 THEN "idle" ELSE IF ctr > 0 THEN "active" ELSE "cleanup"
RefsOf  == IF ctr > 0 THEN ctr - 1 ELSE 0 - ctr

Abs == INSTANCE RefCtrAbs WITH phase <- PhaseOf, refs <- RefsOf

ImplementsAbs == Abs!AbsSpec

\* Lock freedom: clients inside their loops cannot all retry for ever.  (A
\* single one can: every swap of another client may send it back.)
LockFree == []<>(\E c \in Clients : pc[c] = "idle")
=============================================================================
