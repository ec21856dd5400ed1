-------------------------------- MODULE RBuf --------------------------------
(***************************************************************************)
(* lib/rbuf/rbuf.c: a ring buffer of bytes with a write index, a read      *)
(* index and a flag that tells a full buffer from an empty one.  The       *)
(* functions take no lock; they are called by one thread at a time.        *)
(*                                                                         *)
(* AddCall, GetCall and PeekCall are what a call does with its arguments   *)
(* in the current state: the outputs (err, len, data) and the new state    *)
(* (wi, ri, full, mem).  The actions make a call with some arguments.      *)
(* Index arithmetic is done as the C code does it, on uint16_t where a     *)
(* value is stored in one and could exceed it: Word stands for 2^16.       *)
(***************************************************************************)
EXTENDS Integers, Sequences

CONSTANTS
  Size,                 \* size of the buffer
  Word,                 \* 2^16: a uint16_t holds 0..Word-1
  Lengths,              \* bound: lengths and offsets calls are made with
  Base,                 \* bound: offered bytes are numbered modulo Base
  Configs               \* the sets of RBUF_FLAG_* buffers are defined with

ASSUME SizeAssumption ==
  /\ Size \in Nat \ {0}
  /\ Word \in Nat /\ Size < Word
  /\ Lengths \subseteq Nat
  /\ Base \in Nat \ {0}

VARIABLES
  wi, ri,               \* buf->wi, buf->ri
  full,                 \* BUFFER_FULL_BIT
  suspended,            \* ADD_SUSPENDED_BIT ("add"), GET_SUSPENDED_BIT ("get")
  mem,                  \* buf->buf
  conf,                 \* the configured flags
  next                  \* number of the next byte a caller offers

vars == <<wi, ri, full, suspended, mem, conf, next>>

AddOpts     == {"OVERWRITE", "PARTIAL_WRITE"}
GetOpts     == {"NO_PARTIAL_READ", "ZERO_ON_READ"}
SuspendOpts == {"ADD_SUSPEND", "ADD_RESUME", "GET_SUSPEND", "GET_RESUME"}
Addresses   == 0..(Size - 1)
Bytes       == 0..Base          \* 0 is never offered

Least(a, b)    == IF a < b THEN a ELSE b
Greatest(a, b) == IF a > b THEN a ELSE b

\* Indices address the buffer, and the full flag is set only where they meet.
TypeOK ==
  /\ wi \in Addresses
  /\ ri \in Addresses
  /\ full \in BOOLEAN
  /\ full => wi = ri
  /\ suspended \subseteq {"add", "get"}
  /\ mem \in [Addresses -> Bytes]
  /\ next \in 0..(Base - 1)

\* RBUF_DEF: a zeroed static buffer with its configuration.
Init ==
  /\ wi = 0 /\ ri = 0
  /\ full = FALSE
  /\ suspended = {}
  /\ mem = [a \in Addresses |-> 0]
  /\ conf \in Configs
  /\ next = 0

\* Mutant: every segment gets the first bytes.
Written_again(m, a, data, first, n) ==
  [b \in Addresses |-> IF a <= b /\ b < a + n THEN data[1 + b - a] ELSE m[b]]

\* memcpy of n bytes of data, from its first-th on, to address a.
Written(m, a, data, first, n) ==
  [b \in Addresses |-> IF a <= b /\ b < a + n THEN data[first + b - a] ELSE m[b]]

\* Mutant: one byte too few.
Zeroed_short(m, a, n) ==
  [b \in Addresses |-> IF a <= b /\ b < a + n - 1 THEN 0 ELSE m[b]]

\* memset of n bytes at address a.
Zeroed(m, a, n) ==
  [b \in Addresses |-> IF a <= b /\ b < a + n THEN 0 ELSE m[b]]

\* The bytes at n addresses from a on.
Copied(a, n) == [i \in 1..n |-> mem[a + i - 1]]

\* Mutant: an index that reaches the end stays there.
Advanced_unwrapped(index, n1, n2) == IF n2 > 0 THEN n2 ELSE index + n1

\* An index after n1 bytes up to the end and n2 bytes from the start.
Advanced(index, n1, n2) ==
  IF n2 > 0 THEN n2
  ELSE IF index < Size - n1 THEN index + n1
  ELSE IF index = Size - n1 THEN 0
  ELSE index

\* The two filled and the two empty segments of the buffer.
Wrapped == wi < ri \/ full
Used1 == IF Wrapped THEN Size - ri ELSE wi - ri
Used2 == IF Wrapped THEN wi ELSE 0
Free1 == IF Wrapped THEN ri - wi ELSE Size - wi
\* Mutant: the empty segment at the start is forgotten.
Free2_none == 0
Free2 == IF Wrapped THEN 0 ELSE ri
Free  == Free1 + Free2

\* An early return with an error: nothing is changed.
Refused(error, length) ==
  [err |-> error, len |-> length, data |-> <<>>,
   wi |-> wi, ri |-> ri, full |-> full, mem |-> mem]

(***************************************************************************)
(* rbuf_add: first into the empty segments, then, overwriting, over the    *)
(* oldest bytes, from where the first part ended.                          *)
(***************************************************************************)
Offered(len) == [i \in 1..len |-> 1 + ((next + i - 1) % Base)]

AddCopies(whole, overwrite, partial, data) ==
  LET over   == IF overwrite /\ whole > Free THEN Least(whole, Size) - Free ELSE 0
      skip   == IF overwrite /\ ~partial THEN Greatest(whole, Size) - Size ELSE 0
      n      == IF partial THEN Least(whole, Free) ELSE whole
      copy1  == Least(n, Free1)
      copy2  == Least(n - copy1, Free2)
      copied == copy1 + copy2
      wi1    == Advanced(wi, copy1, copy2)
      over1  == Least(Size - wi1, over)
      over2  == over - over1
      wi2    == Advanced(wi1, over1, over2)
      mem1   == Written(Written(mem, wi, data, skip + 1, copy1),
                        0, data, skip + copy1 + 1, copy2)
      mem2   == Written(Written(mem1, wi1, data, skip + copied + 1, over1),
                        0, data, skip + copied + over1 + 1, over2)
      jumped == IF overwrite /\ ~partial THEN Greatest(n - Size, 0) ELSE 0
  IN
  [err |-> "SUCCESS", len |-> copied + over + jumped, data |-> <<>>,
   wi   |-> IF over = 0 THEN wi1 ELSE wi2,
   ri   |-> IF over = 0 THEN ri ELSE wi2,
   full |-> full \/ n >= Free,
   mem  |-> IF over = 0 THEN mem1 ELSE mem2]

AddCall(len, opts) ==
  LET whole == Least(len, Word - 1) IN
  IF "add" \in suspended THEN Refused("SUSPENDED", len)
  ELSE IF \/ "PARTIAL_WRITE" \in opts /\ "NO_PARTIAL_WRITE" \in conf
          \/ "OVERWRITE" \in opts /\ "ALLOW_OVERWRITE" \notin conf
       THEN Refused("NOT_ALLOWED", len)
  ELSE IF opts = {} /\ whole > Free THEN Refused("NOT_ENOUGH_SPACE", len)
  ELSE AddCopies(whole, "OVERWRITE" \in opts, "PARTIAL_WRITE" \in opts,
                 Offered(len))

\* What the caller offers next follows what was accepted.
rbuf_add(len, opts) ==
  LET call == AddCall(len, opts) IN
  /\ wi' = call.wi /\ ri' = call.ri /\ full' = call.full /\ mem' = call.mem
  /\ next' = IF call.err = "SUCCESS" THEN (next + call.len) % Base ELSE next
  /\ UNCHANGED <<suspended, conf>>

(***************************************************************************)
(* rbuf_get.                                                               *)
(***************************************************************************)
GetCall(len, opts) ==
  LET whole == Least(len, Word - 1)
      copy1 == Least(whole, Used1)
      copy2 == Least(whole - copy1, Used2)
  IN
  IF "get" \in suspended THEN Refused("SUSPENDED", len)
  ELSE IF "NO_PARTIAL_READ" \in opts /\ whole > Used1 + Used2
       THEN Refused("NOT_ENOUGH_DATA", len)
  ELSE [err |-> "SUCCESS", len |-> copy1 + copy2,
        data |-> Copied(ri, copy1) \o Copied(0, copy2),
        wi   |-> wi,
        ri   |-> Advanced(ri, copy1, copy2),
        full |-> full /\ copy1 + copy2 = 0,
        mem  |-> IF "ZERO_MEM_ALWAYS" \in conf \/ "ZERO_ON_READ" \in opts
                 THEN Zeroed(Zeroed(mem, ri, copy1), 0, copy2)
                 ELSE mem]

rbuf_get(len, opts) ==
  LET call == GetCall(len, opts) IN
  /\ ri' = call.ri /\ full' = call.full /\ mem' = call.mem
  /\ UNCHANGED <<wi, suspended, conf, next>>

(***************************************************************************)
(* rbuf_peek changes nothing.  The addresses it computes are uint16_t.     *)
(***************************************************************************)
\* Mutant: the whole offset is taken off the second segment too.
PeekUsed2_short(used1, off) == Greatest(Used2, off) - off

\* What is left of the second segment, used1 being left of the first.
PeekUsed2(used1, off) == Greatest(Used1 + Used2 - used1, off) - off

PeekCall(len, offset, opts) ==
  LET whole == Least(len, Word - 1)
      off   == Least(offset, Word - 1)
      used1 == Greatest(Used1, off) - off
      used2 == PeekUsed2(used1, off)
      copy1 == Least(whole, used1)
      copy2 == Least(whole - copy1, used2)
      addr1 == (ri + off) % Word
      addr2 == Greatest(addr1, Size) - Size
  IN
  IF "get" \in suspended THEN Refused("SUSPENDED", len)
  ELSE IF "NO_PEEKING" \in conf THEN Refused("NOT_ALLOWED", len)
  ELSE IF "NO_PARTIAL_READ" \in opts /\ whole > used1 + used2
       THEN Refused("NOT_ENOUGH_DATA", len)
  ELSE [Refused("SUCCESS", copy1 + copy2) EXCEPT
          !.data = Copied(addr1, copy1) \o Copied(addr2, copy2)]

(***************************************************************************)
(* rbuf_reset, rbuf_suspended_set and rbuf_sizes_get.                      *)
(***************************************************************************)
rbuf_reset(zero_memory) ==
  /\ wi' = 0 /\ ri' = 0
  /\ full' = FALSE
  /\ suspended' = {s \in {"add", "get"} :
       (IF s = "add" THEN "ADD_SUSPEND" ELSE "GET_SUSPEND") \in conf}
  /\ mem' = IF zero_memory \/ "ZERO_MEM_ALWAYS" \in conf
            THEN Zeroed(mem, 0, Size) ELSE mem
  /\ UNCHANGED <<conf, next>>

\* suspend ^ resume decides whether a bit is written, suspend what it gets.
rbuf_suspended_set(opts) ==
  /\ suspended' = {s \in {"add", "get"} :
       LET suspend == (IF s = "add" THEN "ADD_SUSPEND" ELSE "GET_SUSPEND") \in opts
           resume  == (IF s = "add" THEN "ADD_RESUME" ELSE "GET_RESUME") \in opts
       IN  IF suspend # resume THEN suspend ELSE s \in suspended}
  /\ UNCHANGED <<wi, ri, full, mem, conf, next>>

SizesUsed == IF Wrapped THEN Size - ri + wi ELSE wi - ri

Next ==
  \/ \E len \in Lengths, opts \in SUBSET AddOpts : rbuf_add(len, opts)
  \/ \E len \in Lengths, opts \in SUBSET GetOpts : rbuf_get(len, opts)
  \/ \E zero_memory \in BOOLEAN : rbuf_reset(zero_memory)
  \/ \E opts \in SUBSET SuspendOpts : rbuf_suspended_set(opts)

Spec == Init /\ [][Next]_vars

-----------------------------------------------------------------------------
(***************************************************************************)
(* Properties.                                                             *)
(***************************************************************************)

\* The bytes in the buffer, oldest first.
Content == Copied(ri, Used1) \o Copied(0, Used2)

Abs == INSTANCE RBufAbs WITH content <- Content, WordMax <- Word - 1

\* Whatever calls with whatever lengths and options are made, and wherever
\* the indices wrap: each does to the bytes in the buffer and to the
\* suspension what it does in the queue that rbuf.h describes.  How a buffer
\* starts is what the header says only when no suspension is configured: rbuf.h
\* says that adding or getting has "been suspended with configuration"
\* (rbuf.h:70-71, 92-93, 111-112), but a buffer of RBUF_DEF is not suspended
\* before its first rbuf_reset, whatever its configuration.
ImplementsQueue ==
  /\ Abs!AbsInit <=> Abs!Configured = {}
  /\ [][Abs!AbsNext]_(Abs!absvars)

\* And what the functions return is what the queue returns, with the same
\* bytes in it and the same suspension: error code, length and bytes, of
\* rbuf_add and of rbuf_get; rbuf_sizes_get returns as used what can be read,
\* and as free what can be added.
Outputs(call) == [err |-> call.err, len |-> call.len, data |-> call.data]

SizesReturn ==
  /\ SizesUsed = Len(Content)
  /\ Size - SizesUsed = Free

AddGetAndSizesReturn ==
  /\ \A len \in Lengths, opts \in SUBSET AddOpts :
       Outputs(AddCall(len, opts)) = Abs!AddResult(len, opts)
  /\ \A len \in Lengths, opts \in SUBSET GetOpts :
       Outputs(GetCall(len, opts)) =
         Abs!GetResult(len, "NO_PARTIAL_READ" \in opts)
  /\ SizesReturn

\* rbuf_peek returns the bytes of the buffer from the offset on.  "Offsets
\* outside of the buffer is not an issue because the lengths will be zero in
\* those cases" (rbuf.c:242-243).
PeekReturnsContent == \A len, offset \in Lengths, opts \in SUBSET GetOpts :
  Outputs(PeekCall(len, offset, opts)) =
    Abs!PeekResult(len, offset, "NO_PARTIAL_READ" \in opts)

\* With RBUF_FLAG_ZERO_MEM_ALWAYS no byte that was taken out or dropped stays
\* in memory: outside the filled segments everything is 0.
TakenBytesZeroed ==
  "ZERO_MEM_ALWAYS" \in conf =>
    \A a \in Addresses :
      mem[a] = 0 \/ a \in ri..(ri + Used1 - 1) \/ a < Used2
=============================================================================
