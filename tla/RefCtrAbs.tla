----------------------------- MODULE RefCtrAbs -----------------------------
(***************************************************************************)
(* What lib/refctr promises (refctr.h): one shared object, the number of   *)
(* references to it, and a phase.  How the two share one atomic word is    *)
(* not visible here.  Each operation is one step: it either takes effect   *)
(* and returns OK or DO_RECYCLE, or it changes nothing but the returned    *)
(* code.                                                                   *)
(*                                                                         *)
(* Used twice: RefCtr is shown to implement this specification, and Reqw   *)
(* is built on these operations.                                           *)
(***************************************************************************)
EXTENDS Naturals

CONSTANT Clients        \* who may call the operations

VARIABLES
  phase,                \* "idle", "active" or "cleanup"
  refs,                 \* number of references
  ret                   \* the value returned by each client's last call

refvars == <<phase, refs, ret>>

Phases   == {"idle", "active", "cleanup"}
RefCodes == {"OK", "IN_USE", "NOT_ACTIVE", "CANNOT_DEC", "IN_CLEANUP",
             "DO_RECYCLE"}

\* "none": the client is inside a call that has not returned yet.
RefTypeOK ==
  /\ phase \in Phases
  /\ refs \in Nat
  /\ ret \in [Clients -> RefCodes \cup {"none"}]

Return(c, r) == ret' = [ret EXCEPT ![c] = r]

\* An operation that is refused returns a code and does nothing else.
Refuse(c, r) ==
  /\ Return(c, r)
  /\ UNCHANGED <<phase, refs>>

(***************************************************************************)
(* The four operations, in the words of refctr.h.                          *)
(***************************************************************************)
refctr_init(c) ==
  \/ /\ phase = "idle"
     /\ phase' = "active"
     /\ Return(c, "OK")
     /\ UNCHANGED refs
  \/ /\ phase # "idle"
     /\ Refuse(c, "IN_USE")

\* "No more increments to the refcounter will be accepted after this."
refctr_cleanup(c) ==
  \/ /\ phase = "active"
     /\ refs > 0
     /\ phase' = "cleanup"
     /\ Return(c, "OK")
     /\ UNCHANGED refs
  \/ /\ phase = "active"
     /\ refs = 0
     /\ phase' = "idle"
     /\ Return(c, "DO_RECYCLE")
     /\ UNCHANGED refs
  \/ /\ phase = "idle"
     /\ Refuse(c, "NOT_ACTIVE")
  \/ /\ phase = "cleanup"
     /\ Refuse(c, "IN_CLEANUP")

refctr_inc(c) ==
  \/ /\ phase = "active"
     /\ refs' = refs + 1
     /\ Return(c, "OK")
     /\ UNCHANGED phase
  \/ /\ phase = "idle"
     /\ Refuse(c, "NOT_ACTIVE")
  \/ /\ phase = "cleanup"
     /\ Refuse(c, "IN_CLEANUP")

\* "The last decrement will return REFCTR_DO_RECYCLE."
refctr_dec(c) ==
  \/ /\ refs > 0
     /\ refs' = refs - 1
     /\ IF phase = "cleanup" /\ refs = 1
        THEN phase' = "idle" /\ Return(c, "DO_RECYCLE")
        ELSE phase' = phase  /\ Return(c, "OK")
  \/ /\ phase = "idle"
     /\ Refuse(c, "NOT_ACTIVE")
  \/ /\ phase = "active"
     /\ refs = 0
     /\ Refuse(c, "CANNOT_DEC")

\* A client enters an operation; until it returns there is no result.
Invoke(c) ==
  /\ Return(c, "none")
  /\ UNCHANGED <<phase, refs>>

AbsInit ==
  /\ phase = "idle"
  /\ refs = 0
  /\ ret = [c \in Clients |-> "OK"]

AbsNext == \E c \in Clients :
  \/ Invoke(c)
  \/ refctr_init(c)
  \/ refctr_cleanup(c)
  \/ refctr_inc(c)
  \/ refctr_dec(c)

AbsSpec == AbsInit /\ [][AbsNext]_refvars
=============================================================================
