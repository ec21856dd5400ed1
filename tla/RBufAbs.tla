------------------------------ MODULE RBufAbs -------------------------------
(***************************************************************************)
(* What lib/rbuf promises (rbuf.h): a queue of bytes of limited size.      *)
(* Where the bytes lie in memory is not visible here.                      *)
(*                                                                         *)
(* The actions say what a call does to the queue: to its bytes and to the  *)
(* suspension.  They have no outputs; those (error code, *len, data) are   *)
(* the records AddResult, GetResult and PeekResult of a call's arguments,  *)
(* and rbuf_peek, which changes nothing, is only such a record.  The bytes *)
(* offered to rbuf_add are numbered on from next, so that each byte says   *)
(* where it comes from.                                                    *)
(***************************************************************************)
EXTENDS Integers, Sequences

CONSTANTS
  Size,                 \* capacity in bytes
  WordMax,              \* UINT16_MAX: lengths are cut to it
  Lengths,              \* bound: lengths and offsets calls are made with
  Base,                 \* bound: bytes are numbered modulo Base
  Configs               \* the sets of RBUF_FLAG_* buffers are defined with

VARIABLES
  conf,                 \* the flags the buffer was defined with
  content,              \* the bytes added and not yet taken
  suspended,            \* subset of {"add", "get"}
  next                  \* number of the next byte offered

absvars == <<conf, content, suspended, next>>

AddOpts     == {"OVERWRITE", "PARTIAL_WRITE"}
SuspendOpts == {"ADD_SUSPEND", "ADD_RESUME", "GET_SUSPEND", "GET_RESUME"}

Least(a, b)    == IF a < b THEN a ELSE b
Greatest(a, b) == IF a > b THEN a ELSE b
FirstOf(s, n)  == SubSeq(s, 1, Least(Len(s), n))
LastOf(s, n)   == SubSeq(s, Greatest(Len(s) - n, 0) + 1, Len(s))

Result(err, len, data) == [err |-> err, len |-> len, data |-> data]
Refused(err, len) == Result(err, len, <<>>)

\* "suspended with configuration RBUF_FLAG_ADD_SUSPEND", RBUF_FLAG_GET_SUSPEND
\* (rbuf.h:70-71, 92-93, 111-112).
Configured == (IF "ADD_SUSPEND" \in conf THEN {"add"} ELSE {})
                \cup (IF "GET_SUSPEND" \in conf THEN {"get"} ELSE {})

AbsInit ==
  /\ conf \in Configs
  /\ content = <<>>
  /\ suspended = Configured
  /\ next = 0

(***************************************************************************)
(* rbuf_add.  Which bytes of an offer go in: all of them; the first that   *)
(* fit; or, overwriting the oldest, its last Size bytes (its first Size    *)
(* bytes if partial writes are allowed too).                               *)
(***************************************************************************)
Offered(len) == [i \in 1..Least(len, WordMax) |-> 1 + ((next + i - 1) % Base)]

Taken(len, opts) ==
  CASE opts = {"PARTIAL_WRITE"} -> FirstOf(Offered(len), Size - Len(content))
    [] opts = AddOpts           -> FirstOf(Offered(len), Size)
    [] OTHER                    -> Offered(len)

AddResult(len, opts) ==
  IF "add" \in suspended THEN Refused("SUSPENDED", len)
  ELSE IF \/ "PARTIAL_WRITE" \in opts /\ "NO_PARTIAL_WRITE" \in conf
          \/ "OVERWRITE" \in opts /\ "ALLOW_OVERWRITE" \notin conf
       THEN Refused("NOT_ALLOWED", len)
  ELSE IF opts = {} /\ Len(content) + Least(len, WordMax) > Size
       THEN Refused("NOT_ENOUGH_SPACE", len)
  ELSE Result("SUCCESS", Len(Taken(len, opts)), <<>>)

Add(len, opts) ==
  /\ AddResult(len, opts).err = "SUCCESS"
  /\ content' = LastOf(content \o Taken(len, opts), Size)
  /\ next' = (next + Len(Taken(len, opts))) % Base
  /\ UNCHANGED <<conf, suspended>>

(***************************************************************************)
(* rbuf_get and rbuf_peek.                                                 *)
(***************************************************************************)
Slice(len, offset) ==
  FirstOf(SubSeq(content, offset + 1, Len(content)), Least(len, WordMax))

\* must_fill: option RBUF_OPT_NO_PARTIAL_READ.
ReadResult(len, offset, must_fill) ==
  IF must_fill /\ Least(len, WordMax) > Len(Slice(len, offset))
  THEN Refused("NOT_ENOUGH_DATA", len)
  ELSE Result("SUCCESS", Len(Slice(len, offset)), Slice(len, offset))

GetResult(len, must_fill) ==
  IF "get" \in suspended THEN Refused("SUSPENDED", len)
  ELSE ReadResult(len, 0, must_fill)

PeekResult(len, offset, must_fill) ==
  IF "get" \in suspended THEN Refused("SUSPENDED", len)
  ELSE IF "NO_PEEKING" \in conf THEN Refused("NOT_ALLOWED", len)
  ELSE ReadResult(len, offset, must_fill)

Get(len, must_fill) ==
  /\ GetResult(len, must_fill).err = "SUCCESS"
  /\ content' = SubSeq(content, Len(Slice(len, 0)) + 1, Len(content))
  /\ UNCHANGED <<conf, suspended, next>>

(***************************************************************************)
(* rbuf_reset: "Reset ring buffer to its default state.  Dropping all      *)
(* added data."  rbuf_suspended_set: suspending and resuming at once       *)
(* changes nothing.                                                        *)
(***************************************************************************)
Reset ==
  /\ content' = <<>>
  /\ suspended' = Configured
  /\ UNCHANGED <<conf, next>>

SuspendedSet(opts) ==
  LET on  == (IF "ADD_SUSPEND" \in opts THEN {"add"} ELSE {})
               \cup (IF "GET_SUSPEND" \in opts THEN {"get"} ELSE {})
      off == (IF "ADD_RESUME" \in opts THEN {"add"} ELSE {})
               \cup (IF "GET_RESUME" \in opts THEN {"get"} ELSE {})
  IN
  /\ suspended' = (suspended \cup (on \ off)) \ (off \ on)
  /\ UNCHANGED <<conf, content, next>>

AbsNext ==
  \/ \E len \in Lengths, opts \in SUBSET AddOpts : Add(len, opts)
  \/ \E len \in Lengths, must_fill \in BOOLEAN : Get(len, must_fill)
  \/ Reset
  \/ \E opts \in SUBSET SuspendOpts : SuspendedSet(opts)

AbsSpec == AbsInit /\ [][AbsNext]_absvars
=============================================================================
