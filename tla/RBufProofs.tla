----------------------------- MODULE RBufProofs -----------------------------
(***************************************************************************)
(* For a buffer of any size: the type invariant of RBuf, what its          *)
(* functions return, the zeroing of what was taken out, and that it        *)
(* implements the queue of RBufAbs.                                        *)
(*                                                                         *)
(* The two segments of the code are one when addresses are counted round   *)
(* the ring: Addr is the address k steps after b, Off the number of steps  *)
(* from b to a.                                                            *)
(***************************************************************************)
EXTENDS RBuf, SequenceTheorems, TLAPS

Addr(b, k) == IF b + k < Size THEN b + k ELSE b + k - Size
Off(b, a)  == IF a < b THEN a + Size - b ELSE a - b

LEMMA RingAddr ==
  ASSUME NEW b \in Addresses, NEW k \in 0..Size
  PROVE  /\ Addr(b, k) \in Addresses
         /\ Addr(b, 0) = b /\ Addr(b, Size) = b
         /\ k < Size => Off(b, Addr(b, k)) = k
BY SizeAssumption DEF Addr, Off, Addresses

LEMMA RingOff ==
  ASSUME NEW b \in Addresses, NEW a \in Addresses
  PROVE  Off(b, a) \in 0..(Size - 1) /\ Addr(b, Off(b, a)) = a
BY SizeAssumption DEF Addr, Off, Addresses

LEMMA RingMove ==
  ASSUME NEW b \in Addresses, NEW a \in Addresses, NEW j \in 0..Size
  PROVE  Off(Addr(b, j), a) =
           IF Off(b, a) >= j THEN Off(b, a) - j ELSE Off(b, a) + Size - j
BY SizeAssumption DEF Addr, Off, Addresses

LEMMA RingAdd ==
  ASSUME NEW b \in Addresses, NEW j \in 0..Size, NEW k \in 0..Size
  PROVE  Addr(Addr(b, j), k) =
           IF j + k <= Size THEN Addr(b, j + k) ELSE Addr(b, j + k - Size)
BY SizeAssumption DEF Addr, Addresses

-----------------------------------------------------------------------------
(***************************************************************************)
(* How full the buffer is, and where.                                      *)
(***************************************************************************)
Fill == Used1 + Used2

Segments ==
  /\ Fill \in 0..Size
  /\ wi = Addr(ri, Fill)
  /\ full <=> Fill = Size
  /\ Used1 = Least(Fill, Size - ri) /\ Used2 = Fill - Used1
  /\ Free = Size - Fill
  /\ Free1 = Least(Free, Size - wi) /\ Free2 = Free - Free1

LEMMA Segmented == TypeOK => Segments
<1> SUFFICES ASSUME TypeOK PROVE Segments
  OBVIOUS
<1>1. Size \in Nat \ {0} /\ wi \in 0..(Size - 1) /\ ri \in 0..(Size - 1)
      /\ (full => wi = ri)
  BY SizeAssumption DEF TypeOK, Addresses
<1>2. CASE Wrapped
  <2>1. /\ Used1 = Size - ri /\ Used2 = wi /\ Free1 = ri - wi /\ Free2 = 0
    BY <1>2 DEF Used1, Used2, Free1, Free2
  <2>2. wi < ri \/ full
    BY <1>2 DEF Wrapped
  <2> QED BY <1>1, <2>1, <2>2 DEF Segments, Fill, Free, Least, Addr
<1>3. CASE ~Wrapped
  <2>1. /\ Used1 = wi - ri /\ Used2 = 0 /\ Free1 = Size - wi /\ Free2 = ri
    BY <1>3 DEF Used1, Used2, Free1, Free2
  <2>2. ~(wi < ri) /\ ~full
    BY <1>3 DEF Wrapped
  <2> QED BY <1>1, <2>1, <2>2 DEF Segments, Fill, Free, Least, Addr
<1> QED BY <1>2, <1>3

\* From the other side: what a step has to establish.
LEMMA RefilledAt ==
  ASSUME NEW n \in 0..Size, NEW r \in Addresses, NEW w, w = Addr(r, n),
         NEW f \in BOOLEAN, f <=> n = Size
  PROVE  /\ w \in Addresses
         /\ (f => w = r)
         /\ (IF w < r \/ f THEN Size - r ELSE w - r) + (IF w < r \/ f THEN w ELSE 0) = n
<1>1. Size \in Nat \ {0} /\ r \in 0..(Size - 1)
  BY SizeAssumption DEF Addresses
<1>2. w \in Addresses /\ (f => w = r)
  BY <1>1 DEF Addr, Addresses
<1>3. CASE n = Size
  <2>1. f
    BY <1>3
  <2>2. w = r
    BY <1>2, <2>1
  <2> QED BY <1>1, <1>2, <1>3, <2>1, <2>2
<1>4. CASE n # Size
  <2>1. ~f
    BY <1>4
  <2>2. w = r + n \/ (w = r + n - Size /\ r + n >= Size)
    BY <1>1 DEF Addr
  <2> QED BY <1>1, <1>2, <1>4, <2>1, <2>2 DEF Addr
<1> QED BY <1>3, <1>4

LEMMA Refilled ==
  ASSUME NEW n \in 0..Size, ri' \in Addresses, wi' = Addr(ri', n),
         full' \in BOOLEAN, full' <=> n = Size
  PROVE  wi' \in Addresses /\ Fill' = n /\ (full' => wi' = ri')
<1> DEFINE w == wi'
           r == ri'
           f == full'
<1>1. /\ w \in Addresses
      /\ (f => w = r)
      /\ (IF w < r \/ f THEN Size - r ELSE w - r) + (IF w < r \/ f THEN w ELSE 0) = n
  <2>1. w = Addr(r, n) /\ r \in Addresses /\ f \in BOOLEAN /\ (f <=> n = Size)
    OBVIOUS
  <2> HIDE DEF w, r, f
  <2> QED BY <2>1, RefilledAt
<1> QED BY <1>1 DEF Fill, Used1, Used2, Wrapped

\* Bytes copied from within the buffer.
LEMMA CopiedBytes ==
  ASSUME mem \in [Addresses -> Bytes],
         NEW a \in 0..Size, NEW n \in Nat, a + n <= Size
  PROVE  /\ Copied(a, n) \in Seq(Bytes) /\ Len(Copied(a, n)) = n
         /\ \A i \in 1..n : Copied(a, n)[i] = mem[a + i - 1]
<1>1. \A i \in 1..n : a + i - 1 \in Addresses
  BY SizeAssumption DEF Addresses
<1>2. Copied(a, n) = [i \in 1..n |-> mem[a + i - 1]]
  BY DEF Copied
<1>3. \A i \in 1..n : mem[a + i - 1] \in Bytes
  BY <1>1
<1>4. Copied(a, n) \in [1..n -> Bytes]
  BY <1>2, <1>3
<1>5. Copied(a, n) \in Seq(Bytes)
  BY <1>4, SeqDef
<1>6. Len(Copied(a, n)) = n
  BY <1>4, <1>5, LenProperties
<1> QED BY <1>2, <1>5, <1>6

\* The bytes in the buffer, counted round the ring.
RingOf(m, r, n) == [i \in 1..n |-> m[Addr(r, i - 1)]]

LEMMA RingBytes ==
  ASSUME NEW m \in [Addresses -> Bytes], NEW r \in Addresses, NEW n \in 0..Size
  PROVE  /\ RingOf(m, r, n) \in Seq(Bytes) /\ Len(RingOf(m, r, n)) = n
         /\ \A i \in 1..n : RingOf(m, r, n)[i] = m[Addr(r, i - 1)]
<1>1. n \in Nat /\ \A i \in 1..n : i - 1 \in 0..Size
  BY SizeAssumption
<1>2. \A i \in 1..n : Addr(r, i - 1) \in Addresses
  BY <1>1, RingAddr
<1>3. RingOf(m, r, n) = [i \in 1..n |-> m[Addr(r, i - 1)]]
  BY DEF RingOf
<1>4. \A i \in 1..n : m[Addr(r, i - 1)] \in Bytes
  BY <1>2
<1>5. RingOf(m, r, n) \in [1..n -> Bytes]
  BY <1>3, <1>4
<1>6. RingOf(m, r, n) \in Seq(Bytes)
  BY <1>1, <1>5, SeqDef
<1>7. Len(RingOf(m, r, n)) = n
  BY <1>1, <1>5, <1>6, LenProperties
<1> QED BY <1>3, <1>6, <1>7

\* Two segments copied one after the other are one stretch of the ring.
LEMMA SegmentsAreRing ==
  ASSUME mem \in [Addresses -> Bytes],
         NEW r \in Addresses, NEW n \in 0..Size,
         NEW n1, NEW n2, n1 = Least(n, Size - r), n2 = n - n1
  PROVE  Copied(r, n1) \o Copied(0, n2) = RingOf(mem, r, n)
<1>1. Size \in Nat \ {0} /\ r \in 0..(Size - 1)
  BY SizeAssumption DEF Addresses
<1>2. /\ n1 \in Nat /\ n2 \in Nat /\ n1 + n2 = n
      /\ r + n1 <= Size /\ (n2 > 0 => n1 = Size - r) /\ 0 + n2 <= Size
  BY <1>1 DEF Least
<1> DEFINE s1 == Copied(r, n1)
           s2 == Copied(0, n2)
           ring == RingOf(mem, r, n)
<1>3. s1 \in Seq(Bytes) /\ Len(s1) = n1
      /\ \A i \in 1..n1 : s1[i] = mem[r + i - 1]
  <2>1. r \in 0..Size
    BY <1>1
  <2> QED BY <1>2, <2>1, CopiedBytes
<1>4. s2 \in Seq(Bytes) /\ Len(s2) = n2
      /\ \A i \in 1..n2 : s2[i] = mem[0 + i - 1]
  <2>1. 0 \in 0..Size
    BY <1>1
  <2> QED BY <1>2, <2>1, CopiedBytes
<1>5. ring \in Seq(Bytes) /\ Len(ring) = n
      /\ \A i \in 1..n : ring[i] = mem[Addr(r, i - 1)]
  BY RingBytes
<1> HIDE DEF s1, s2, ring
<1>6. s1 \o s2 \in Seq(Bytes) /\ Len(s1 \o s2) = n
  BY <1>2, <1>3, <1>4, ConcatProperties
<1>7. ASSUME NEW i \in 1..n PROVE (s1 \o s2)[i] = ring[i]
  <2>1. (s1 \o s2)[i] = IF i <= n1 THEN s1[i] ELSE s2[i - n1]
    <3>1. \A j \in 1..(Len(s1) + Len(s2)) :
            (s1 \o s2)[j] = IF j <= Len(s1) THEN s1[j] ELSE s2[j - Len(s1)]
      BY <1>3, <1>4, ConcatProperties
    <3>2. Len(s1) = n1 /\ Len(s1) + Len(s2) = n
      BY <1>2, <1>3, <1>4
    <3> QED BY <3>1, <3>2
  <2>2. CASE i <= n1
    <3>1. i \in 1..n1
      BY <1>2, <2>2
    <3>2. Addr(r, i - 1) = r + i - 1
      BY <1>1, <1>2, <2>2 DEF Addr
    <3> QED BY <1>3, <1>5, <2>1, <2>2, <3>1, <3>2
  <2>3. CASE ~(i <= n1)
    <3>1. i - n1 \in 1..n2
      BY <1>2, <2>3
    <3>2. Addr(r, i - 1) = 0 + (i - n1) - 1
      BY <1>1, <1>2, <2>3 DEF Addr
    <3> QED BY <1>4, <1>5, <2>1, <2>3, <3>1, <3>2
  <2> QED BY <2>2, <2>3
<1>8. s1 \o s2 = ring
  BY <1>5, <1>6, <1>7, SeqEqual
<1> QED BY <1>8 DEF s1, s2, ring

ContentIsRing ==
  /\ Content = RingOf(mem, ri, Fill)
  /\ Content \in Seq(Bytes) /\ Len(Content) = Fill
  /\ \A i \in 1..Fill : Content[i] = mem[Addr(ri, i - 1)]

LEMMA ContentRing == TypeOK => ContentIsRing
<1> SUFFICES ASSUME TypeOK PROVE ContentIsRing
  OBVIOUS
<1>1. /\ Fill \in 0..Size /\ Used1 = Least(Fill, Size - ri)
      /\ Used2 = Fill - Used1
  BY Segmented DEF Segments
<1>2. ri \in Addresses /\ mem \in [Addresses -> Bytes]
  BY DEF TypeOK
<1> HIDE DEF Fill
<1>3. Content = RingOf(mem, ri, Fill)
  BY <1>1, <1>2, SegmentsAreRing DEF Content
<1> QED BY <1>1, <1>2, <1>3, RingBytes DEF ContentIsRing

-----------------------------------------------------------------------------
(***************************************************************************)
(* rbuf_add: the two or four copies it makes are one, round the ring.      *)
(***************************************************************************)
Around(m, w, data, first, n) ==
  [a \in Addresses |-> IF Off(w, a) < n THEN data[first + Off(w, a)] ELSE m[a]]

LEMMA RingWritten ==
  ASSUME NEW w \in Addresses, NEW n \in 0..Size, NEW first \in Nat,
         NEW m, NEW data,
         NEW n1, NEW n2, n1 = Least(n, Size - w), n2 = n - n1
  PROVE  Written(Written(m, w, data, first, n1), 0, data, first + n1, n2)
           = Around(m, w, data, first, n)
<1>1. Size \in Nat \ {0} /\ w \in 0..(Size - 1)
  BY SizeAssumption DEF Addresses
<1>2. /\ n1 \in Nat /\ n2 \in Nat /\ n1 + n2 = n
      /\ w + n1 <= Size /\ (n2 > 0 => n1 = Size - w) /\ n2 <= w
  BY <1>1 DEF Least
<1> DEFINE once  == Written(m, w, data, first, n1)
           twice == Written(once, 0, data, first + n1, n2)
<1>3. ASSUME NEW a \in Addresses
      PROVE twice[a] = IF Off(w, a) < n THEN data[first + Off(w, a)] ELSE m[a]
  <2>1. a \in 0..(Size - 1)
    BY DEF Addresses
  <2>2. once[a] = IF w <= a /\ a < w + n1 THEN data[first + a - w] ELSE m[a]
    BY DEF Written
  <2> HIDE DEF once
  <2>3. twice[a] = IF 0 <= a /\ a < 0 + n2 THEN data[first + n1 + a - 0] ELSE once[a]
    BY DEF Written
  <2> HIDE DEF twice
  <2>4. CASE a < n2
    <3>1. Off(w, a) < n /\ first + n1 + a - 0 = first + Off(w, a)
      BY <1>1, <1>2, <2>1, <2>4 DEF Off
    <3>2. twice[a] = data[first + n1 + a - 0]
      BY <1>2, <2>1, <2>3, <2>4
    <3> QED BY <3>1, <3>2
  <2>5. CASE ~(a < n2)
    <3>1. twice[a] = once[a]
      BY <1>2, <2>1, <2>3, <2>5
    <3>2. (w <= a /\ a < w + n1) <=> Off(w, a) < n
      <4>1. CASE a < w
        <5>1. Off(w, a) = a + Size - w /\ ~(w <= a)
          BY <1>1, <2>1, <4>1 DEF Off
        <5>2. ~(Off(w, a) < n)
          BY <1>1, <1>2, <2>1, <2>5, <5>1
        <5> QED BY <5>1, <5>2
      <4>2. CASE ~(a < w)
        <5>1. Off(w, a) = a - w /\ w <= a
          BY <1>1, <2>1, <4>2 DEF Off
        <5>2. CASE n2 = 0
          <6>1. n1 = n
            BY <1>1, <1>2, <5>2
          <6> QED BY <1>1, <2>1, <5>1, <6>1
        <5>3. CASE n2 # 0
          <6>1. n1 = Size - w /\ n >= Size - w
            BY <1>1, <1>2, <5>3
          <6>2. a < w + n1 /\ a - w < n
            BY <1>1, <2>1, <6>1
          <6> QED BY <5>1, <6>2
        <5> QED BY <5>2, <5>3
      <4> QED BY <4>1, <4>2
    <3>3. w <= a => first + a - w = first + Off(w, a)
      BY <1>1, <2>1 DEF Off
    <3> QED BY <2>2, <3>1, <3>2, <3>3
  <2> QED BY <2>4, <2>5
<1>4. twice = [a \in Addresses |-> twice[a]]
  BY DEF Written
<1> HIDE DEF twice
<1>5. twice = Around(m, w, data, first, n)
  BY <1>3, <1>4 DEF Around
<1> QED BY <1>5 DEF twice, once

LEMMA RingAdvanced ==
  ASSUME NEW w \in Addresses, NEW n \in 0..Size,
         NEW n1, NEW n2, n1 = Least(n, Size - w), n2 = n - n1
  PROVE  Advanced(w, n1, n2) = Addr(w, n)
BY SizeAssumption DEF Addresses, Least, Advanced, Addr

\* A copy continued where the first one ended is one copy.
LEMMA AroundAgain ==
  ASSUME NEW w \in Addresses, NEW j \in 0..Size, NEW k \in 0..Size, j + k <= Size,
         NEW first \in Nat, NEW m, NEW data
  PROVE  Around(Around(m, w, data, first, j), Addr(w, j), data, first + j, k)
           = Around(m, w, data, first, j + k)
<1> DEFINE once  == Around(m, w, data, first, j)
           twice == Around(once, Addr(w, j), data, first + j, k)
<1>1. ASSUME NEW a \in Addresses
      PROVE twice[a] = IF Off(w, a) < j + k THEN data[first + Off(w, a)] ELSE m[a]
  <2>1. Off(w, a) \in 0..(Size - 1)
    BY RingOff
  <2>2. Off(Addr(w, j), a) =
          IF Off(w, a) >= j THEN Off(w, a) - j ELSE Off(w, a) + Size - j
    BY RingMove
  <2>3. once[a] = IF Off(w, a) < j THEN data[first + Off(w, a)] ELSE m[a]
    BY DEF Around
  <2> HIDE DEF once
  <2>4. twice[a] = IF Off(Addr(w, j), a) < k
                   THEN data[first + j + Off(Addr(w, j), a)] ELSE once[a]
    BY DEF Around
  <2> HIDE DEF twice
  <2> DEFINE o == Off(w, a)
             p == Off(Addr(w, j), a)
  <2>5. o \in 0..(Size - 1) /\ p = IF o >= j THEN o - j ELSE o + Size - j
    BY <2>1, <2>2
  <2>6. once[a] = IF o < j THEN data[first + o] ELSE m[a]
    BY <2>3
  <2>7. twice[a] = IF p < k THEN data[first + j + p] ELSE once[a]
    BY <2>4
  <2>8. twice[a] = IF o < j + k THEN data[first + o] ELSE m[a]
    <3> HIDE DEF o, p
    <3>1. Size \in Nat
      BY SizeAssumption
    <3>2. CASE o < j
      <4>1. ~(p < k) /\ o < j + k
        BY <2>5, <3>1, <3>2
      <4> QED BY <2>6, <2>7, <3>2, <4>1
    <3>3. CASE ~(o < j)
      <4>1. p < k <=> o < j + k
        BY <2>5, <3>1, <3>3
      <4>2. first + j + p = first + o
        BY <2>5, <3>1, <3>3
      <4> QED BY <2>6, <2>7, <3>3, <4>1, <4>2
    <3> QED BY <3>2, <3>3
  <2> QED BY <2>8
<1>2. twice = [a \in Addresses |-> twice[a]]
  BY DEF Around
<1> HIDE DEF twice
<1>3. twice = Around(m, w, data, first, j + k)
  BY <1>1, <1>2 DEF Around
<1> QED BY <1>3 DEF twice, once

\* How many bytes of an offer go in, and how many of its first are left out.
Moved(whole, overwrite)            == Least(whole, IF overwrite THEN Size ELSE Free)
Skipped(whole, overwrite, partial) ==
  IF overwrite /\ ~partial THEN Greatest(whole, Size) - Size ELSE 0

AddEffect(call, n, skip, data) ==
  /\ call.err = "SUCCESS" /\ call.len = n + skip /\ call.data = <<>>
  /\ call.wi = Addr(wi, n)
  /\ call.ri = IF Fill + n <= Size THEN ri ELSE Addr(wi, n)
  /\ call.full \in BOOLEAN /\ (call.full <=> Fill + n >= Size)
  /\ call.mem = Around(mem, wi, data, skip + 1, n)

LEMMA AddCopied ==
  ASSUME TypeOK, NEW whole \in Nat, NEW data,
         NEW overwrite \in BOOLEAN, NEW partial \in BOOLEAN,
         ~overwrite /\ ~partial => whole <= Free
  PROVE  /\ Moved(whole, overwrite) \in 0..Size
         /\ Skipped(whole, overwrite, partial) \in Nat
         /\ AddEffect(AddCopies(whole, overwrite, partial, data),
                      Moved(whole, overwrite),
                      Skipped(whole, overwrite, partial), data)
<1> DEFINE over   == IF overwrite /\ whole > Free THEN Least(whole, Size) - Free ELSE 0
           skip   == IF overwrite /\ ~partial THEN Greatest(whole, Size) - Size ELSE 0
           n      == IF partial THEN Least(whole, Free) ELSE whole
           copy1  == Least(n, Free1)
           copy2  == Least(n - copy1, Free2)
           copied == copy1 + copy2
           wi1    == Advanced(wi, copy1, copy2)
           over1  == Least(Size - wi1, over)
           over2  == over - over1
           wi2    == Advanced(wi1, over1, over2)
           mem1   == Written(Written(mem, wi, data, skip + 1, copy1),
                             0, data, skip + copy1 + 1, copy2)
           mem2   == Written(Written(mem1, wi1, data, skip + copied + 1, over1),
                             0, data, skip + copied + over1 + 1, over2)
           jumped == IF overwrite /\ ~partial THEN Greatest(n - Size, 0) ELSE 0
           call   == AddCopies(whole, overwrite, partial, data)
           m      == Moved(whole, overwrite)
<1>1. call = [err |-> "SUCCESS", len |-> copied + over + jumped, data |-> <<>>,
              wi   |-> IF over = 0 THEN wi1 ELSE wi2,
              ri   |-> IF over = 0 THEN ri ELSE wi2,
              full |-> full \/ n >= Free,
              mem  |-> IF over = 0 THEN mem1 ELSE mem2]
  BY DEF AddCopies
<1>2. /\ Size \in Nat \ {0} /\ Fill \in 0..Size /\ (full <=> Fill = Size)
      /\ Free = Size - Fill
      /\ Free1 = Least(Free, Size - wi) /\ Free2 = Free - Free1
      /\ wi \in 0..(Size - 1) /\ wi \in Addresses /\ full \in BOOLEAN
  BY Segmented, SizeAssumption DEF Segments, TypeOK, Addresses
<1> HIDE DEF Fill, call
<1>3. n \in Nat /\ (n = whole \/ n = Least(whole, Free))
  BY <1>2 DEF Least
<1>4. /\ skip = Skipped(whole, overwrite, partial) /\ skip \in Nat
      /\ jumped = skip
  BY <1>2 DEF Skipped, Least, Greatest
<1>5. /\ copied \in 0..Size /\ copied = Least(n, Free) /\ copied = Least(whole, Free)
      /\ copy1 \in Nat /\ copy2 \in Nat
      /\ copy1 = Least(copied, Size - wi) /\ copy2 = copied - copy1
  <2> HIDE DEF n
  <2>1. Least(n, Free) = Least(whole, Free)
    BY <1>2, <1>3 DEF Least
  <2> QED BY <1>2, <1>3, <2>1 DEF Least
<1>6. /\ over \in 0..Size /\ copied + over = m
      /\ (over > 0 => copied = Free)
  <2> HIDE DEF copied
  <2> QED BY <1>2, <1>5 DEF Moved, Least
<1>7. m \in 0..Size
  BY <1>2 DEF Moved, Least
<1>8. n >= Free <=> Fill + m >= Size
  BY <1>2 DEF Moved, Least
<1> HIDE DEF n, copied, m, jumped, skip, over, copy1, copy2
<1>9. wi1 = Addr(wi, copied) /\ wi1 \in Addresses /\ wi1 \in 0..(Size - 1)
  <2>1. wi1 = Addr(wi, copied)
    BY <1>2, <1>5, RingAdvanced
  <2> QED BY <1>2, <1>5, <2>1, RingAddr DEF Addresses
<1>10. mem1 = Around(mem, wi, data, skip + 1, copied)
  <2>1. skip + 1 \in Nat /\ skip + copy1 + 1 = skip + 1 + copy1
    BY <1>4, <1>5
  <2> QED BY <1>2, <1>5, <2>1, RingWritten
<1> HIDE DEF wi1, mem1
<1>11. over1 = Least(over, Size - wi1) /\ over1 \in Nat /\ over2 \in Nat
  BY <1>2, <1>6, <1>9 DEF Least
<1> HIDE DEF over1
<1>12. wi2 = Addr(wi, m)
  <2>1. wi2 = Addr(wi1, over)
    BY <1>6, <1>9, <1>11, RingAdvanced
  <2>2. copied + over <= Size
    BY <1>2, <1>6, <1>7
  <2>3. Addr(Addr(wi, copied), over) = Addr(wi, copied + over)
    BY <1>2, <1>5, <1>6, <2>2, RingAdd
  <2> QED BY <1>6, <1>9, <2>1, <2>3
<1>13. mem2 = Around(mem, wi, data, skip + 1, m)
  <2>1. /\ skip + 1 + copied \in Nat
        /\ skip + copied + 1 = skip + 1 + copied
        /\ skip + copied + over1 + 1 = skip + 1 + copied + over1
    BY <1>4, <1>5, <1>11
  <2>2. mem2 = Around(mem1, wi1, data, skip + 1 + copied, over)
    BY <1>6, <1>9, <1>11, <2>1, RingWritten
  <2>3. copied + over <= Size /\ skip + 1 \in Nat
    BY <1>2, <1>4, <1>6, <1>7
  <2>4. Around(Around(mem, wi, data, skip + 1, copied), Addr(wi, copied),
               data, skip + 1 + copied, over)
          = Around(mem, wi, data, skip + 1, copied + over)
    BY <1>2, <1>5, <1>6, <2>3, AroundAgain
  <2> QED BY <1>6, <1>9, <1>10, <2>2, <2>4
<1> HIDE DEF over2, wi2, mem2
<1>14. call.err = "SUCCESS" /\ call.len = m + skip /\ call.data = <<>>
  <2>1. copied + over + jumped = m + skip
    BY <1>4, <1>5, <1>6
  <2> QED BY <1>1, <2>1
<1>15. call.wi = Addr(wi, m)
  <2>1. CASE over = 0
    <3>1. copied = m
      BY <1>5, <1>6, <2>1
    <3> QED BY <1>1, <1>9, <2>1, <3>1
  <2>2. CASE over # 0
    BY <1>1, <1>12, <2>2
  <2> QED BY <2>1, <2>2
<1>16. call.ri = IF Fill + m <= Size THEN ri ELSE Addr(wi, m)
  <2>1. CASE over = 0
    <3>1. Fill + m <= Size
      BY <1>2, <1>5, <1>6, <2>1 DEF Least
    <3> QED BY <1>1, <2>1, <3>1
  <2>2. CASE over # 0
    <3>1. ~(Fill + m <= Size)
      BY <1>2, <1>5, <1>6, <2>2
    <3> QED BY <1>1, <1>12, <2>2, <3>1
  <2> QED BY <2>1, <2>2
<1>17. call.full \in BOOLEAN /\ (call.full <=> Fill + m >= Size)
  <2>1. call.full = (full \/ n >= Free)
    BY <1>1
  <2>2. full => Fill + m >= Size
    BY <1>2, <1>7
  <2> QED BY <1>8, <2>1, <2>2
<1>18. call.mem = Around(mem, wi, data, skip + 1, m)
  <2>1. CASE over = 0
    <3>1. copied = m
      BY <1>5, <1>6, <2>1
    <3> QED BY <1>1, <1>10, <2>1, <3>1
  <2>2. CASE over # 0
    BY <1>1, <1>13, <2>2
  <2> QED BY <2>1, <2>2
<1> QED BY <1>4, <1>7, <1>14, <1>15, <1>16, <1>17, <1>18 DEF AddEffect, m, call

\* What rbuf_add answers, and what it moves when it answers SUCCESS.
AddWhole(len)         == Least(len, Word - 1)
AddMoved(len, opts)   == Moved(AddWhole(len), "OVERWRITE" \in opts)
AddSkipped(len, opts) ==
  Skipped(AddWhole(len), "OVERWRITE" \in opts, "PARTIAL_WRITE" \in opts)

AddError(len, opts) ==
  IF "add" \in suspended THEN "SUSPENDED"
  ELSE IF \/ "PARTIAL_WRITE" \in opts /\ "NO_PARTIAL_WRITE" \in conf
          \/ "OVERWRITE" \in opts /\ "ALLOW_OVERWRITE" \notin conf
       THEN "NOT_ALLOWED"
  ELSE IF opts = {} /\ AddWhole(len) > Free THEN "NOT_ENOUGH_SPACE"
  ELSE "SUCCESS"

AddAnswers(len, opts) ==
  /\ AddMoved(len, opts) \in 0..Size /\ AddSkipped(len, opts) \in Nat
  /\ AddMoved(len, opts) + AddSkipped(len, opts) <= len
  /\ AddSkipped(len, opts) > 0 => AddMoved(len, opts) = Size
  /\ IF AddError(len, opts) = "SUCCESS"
     THEN AddEffect(AddCall(len, opts), AddMoved(len, opts),
                    AddSkipped(len, opts), Offered(len))
     ELSE AddCall(len, opts) = Refused(AddError(len, opts), len)

LEMMA AddAnswer ==
  ASSUME TypeOK, NEW len \in Nat, NEW opts \in SUBSET AddOpts
  PROVE  AddAnswers(len, opts)
<1> DEFINE whole     == AddWhole(len)
           overwrite == "OVERWRITE" \in opts
           partial   == "PARTIAL_WRITE" \in opts
           n         == AddMoved(len, opts)
           skip      == AddSkipped(len, opts)
<1>1. Size \in Nat \ {0} /\ Word \in Nat /\ Size < Word /\ Free \in 0..Size
  BY Segmented, SizeAssumption DEF Segments
<1>2. whole \in Nat /\ whole <= len
  BY <1>1 DEF AddWhole, Least
<1>3. overwrite \in BOOLEAN /\ partial \in BOOLEAN
  OBVIOUS
<1>4. opts = {} <=> ~overwrite /\ ~partial
  BY DEF AddOpts
<1>5. n = Moved(whole, overwrite) /\ skip = Skipped(whole, overwrite, partial)
  BY DEF AddMoved, AddSkipped
<1> HIDE DEF whole, overwrite, partial
<1>6. n \in 0..Size /\ skip \in Nat /\ n + skip <= whole /\ (skip > 0 => n = Size)
  BY <1>1, <1>2, <1>3, <1>5 DEF Moved, Skipped, Least, Greatest
<1>7. CASE AddError(len, opts) = "SUCCESS"
  <2>1. ~overwrite /\ ~partial => whole <= Free
    <3>1. opts = {} => ~(whole > Free)
      BY <1>7 DEF AddError, whole
    <3> QED BY <1>1, <1>2, <1>4, <3>1
  <2>2. AddCall(len, opts) = AddCopies(whole, overwrite, partial, Offered(len))
    BY <1>7 DEF AddCall, AddError, AddWhole, whole, overwrite, partial
  <2>3. AddEffect(AddCopies(whole, overwrite, partial, Offered(len)),
                  Moved(whole, overwrite), Skipped(whole, overwrite, partial),
                  Offered(len))
    BY <1>2, <1>3, <2>1, AddCopied
  <2>4. AddEffect(AddCall(len, opts), n, skip, Offered(len))
    BY <1>5, <2>2, <2>3
  <2> QED BY <1>2, <1>6, <1>7, <2>4 DEF AddAnswers
<1>8. CASE AddError(len, opts) # "SUCCESS"
  <2>1. AddCall(len, opts) = Refused(AddError(len, opts), len)
    BY <1>8 DEF AddCall, AddError, AddWhole
  <2> QED BY <1>2, <1>6, <1>8, <2>1 DEF AddAnswers
<1> QED BY <1>7, <1>8

LEMMA OfferedBytes ==
  ASSUME TypeOK, NEW len \in Nat
  PROVE  /\ Offered(len) \in [1..len -> Bytes]
         /\ \A i \in 1..len : Offered(len)[i] = 1 + ((next + i - 1) % Base)
<1>1. Base \in Nat \ {0} /\ next \in Nat
  BY SizeAssumption DEF TypeOK
<1>2. ASSUME NEW i \in 1..len PROVE 1 + ((next + i - 1) % Base) \in Bytes
  <2>1. next + i - 1 \in Int
    BY <1>1
  <2>2. (next + i - 1) % Base \in 0..(Base - 1)
    BY <1>1, <2>1
  <2> QED BY <1>1, <2>2 DEF Bytes
<1> QED BY <1>2 DEF Offered

\* How much is left of f bytes and n more, and how much of skip + n is cut.
LEMMA AppendSizes ==
  ASSUME NEW f \in 0..Size, NEW n \in 0..Size, NEW skip \in Nat, skip > 0 => n = Size,
         NEW f2, f2 = Least(f + n, Size),
         NEW cut, cut = Greatest(f + n + skip - Size, 0)
  PROVE  /\ f2 \in 0..Size /\ cut \in Nat /\ f + n + skip - cut = f2
         /\ f + n <= Size => f2 = f + n /\ cut = skip
         /\ ~(f + n <= Size) => f2 = Size /\ cut = f + n + skip - Size
<1>1. Size \in Nat \ {0}
  BY SizeAssumption
<1>2. CASE f + n <= Size
  <2>1. f2 = f + n
    BY <1>1, <1>2 DEF Least
  <2>2. cut = skip
    <3>1. CASE skip = 0
      BY <1>1, <1>2, <3>1 DEF Greatest
    <3>2. CASE skip # 0
      <4>1. n = Size /\ f = 0
        BY <1>1, <1>2, <3>2
      <4> QED BY <1>1, <4>1 DEF Greatest
    <3> QED BY <3>1, <3>2
  <2> QED BY <1>1, <1>2, <2>1, <2>2
<1>3. CASE ~(f + n <= Size)
  <2>1. f2 = Size /\ cut = f + n + skip - Size
    BY <1>1, <1>3 DEF Least, Greatest
  <2> QED BY <1>1, <1>3, <2>1
<1> QED BY <1>2, <1>3

\* Where a byte lies that the step did not write, the oldest having gone.
LEMMA AppendIndex ==
  ASSUME NEW f \in 0..Size, NEW n \in 0..Size, NEW skip \in Nat, skip > 0 => n = Size,
         ~(f + n <= Size), NEW cut, cut = f + n + skip - Size,
         NEW i \in 1..Size, NEW o \in 0..(Size - 1),
         i - 1 = IF o >= n THEN o - n ELSE o + Size - n
  PROVE  /\ o < n => skip + 1 + o = cut + i - f /\ ~(cut + i <= f)
         /\ ~(o < n) => /\ skip = 0 /\ cut + i = f + o + 1 - Size
                        /\ cut + i \in 1..f /\ o \in 0..Size
                        /\ cut + i - 1 = f + o - Size /\ cut + i <= f
<1>1. Size \in Nat \ {0}
  BY SizeAssumption
<1>2. CASE o < n
  <2>1. i = o + Size - n + 1
    BY <1>1, <1>2
  <2> QED BY <1>1, <1>2, <2>1
<1>3. CASE ~(o < n)
  <2>1. i = o - n + 1
    BY <1>1, <1>3
  <2>2. skip = 0
    BY <1>1, <1>3
  <2>3. cut + i = f + o + 1 - Size
    BY <1>1, <2>1, <2>2
  <2> QED BY <1>1, <1>3, <2>1, <2>2, <2>3
<1> QED BY <1>2, <1>3

\* The last Size elements of two sequences one after the other.
Excess(s1, s2) == IF Len(s1) + Len(s2) > Size THEN Len(s1) + Len(s2) - Size ELSE 0
Rest(s1, s2)   == Len(s1) + Len(s2) - Excess(s1, s2)

LEMMA LastOfConcat ==
  ASSUME NEW S, NEW s1 \in Seq(S), NEW s2 \in Seq(S)
  PROVE  /\ Abs!LastOf(s1 \o s2, Size) \in Seq(S)
         /\ Len(Abs!LastOf(s1 \o s2, Size)) = Rest(s1, s2)
         /\ \A i \in 1..Rest(s1, s2) :
              Abs!LastOf(s1 \o s2, Size)[i] =
                IF Excess(s1, s2) + i <= Len(s1) THEN s1[Excess(s1, s2) + i]
                ELSE s2[Excess(s1, s2) + i - Len(s1)]
<1>1. PICK len1 \in Nat, len2 \in Nat : len1 = Len(s1) /\ len2 = Len(s2)
  BY LenProperties
<1>2. PICK cut \in Nat : /\ cut = Excess(s1, s2)
                         /\ cut = IF len1 + len2 > Size THEN len1 + len2 - Size ELSE 0
  <2> DEFINE e == IF len1 + len2 > Size THEN len1 + len2 - Size ELSE 0
  <2>1. e \in Nat
    BY SizeAssumption
  <2>2. Excess(s1, s2) = e
    BY <1>1 DEF Excess
  <2> QED BY <2>1, <2>2
<1>3. len1 + len2 - cut = Rest(s1, s2)
  BY <1>1, <1>2 DEF Rest
<1> DEFINE all == s1 \o s2
<1>4. Size \in Nat
  BY SizeAssumption
<1>5. cut <= len1 + len2
  BY <1>4, <1>2
<1>6. /\ all \in Seq(S) /\ Len(all) = len1 + len2
      /\ \A i \in 1..(len1 + len2) :
           all[i] = IF i <= len1 THEN s1[i] ELSE s2[i - len1]
  BY <1>1, ConcatProperties
<1> HIDE DEF all
<1>7. Abs!LastOf(all, Size) = SubSeq(all, cut + 1, len1 + len2)
  <2>1. Abs!LastOf(all, Size)
          = SubSeq(all, Abs!Greatest(Len(all) - Size, 0) + 1, Len(all))
    BY DEF Abs!LastOf
  <2>2. Abs!Greatest(Len(all) - Size, 0) = cut
    BY <1>2, <1>4, <1>6 DEF Abs!Greatest
  <2> QED BY <1>6, <2>1, <2>2
<1>8. PICK lo \in Int, hi \in Int : lo = cut + 1 /\ hi = len1 + len2
  OBVIOUS
<1> DEFINE last == SubSeq(all, lo, hi)
<1>9. \A i \in lo..hi : all[i] \in S
  <2> SUFFICES ASSUME NEW i \in lo..hi PROVE all[i] \in S
    OBVIOUS
  <2>1. i \in 1..Len(all)
    BY <1>6, <1>8
  <2> QED BY <1>6, <2>1, ElementOfSeq
<1>10. /\ last \in Seq(S)
       /\ Len(last) = IF lo <= hi THEN hi - lo + 1 ELSE 0
       /\ \A i \in 1..(hi - lo + 1) : last[i] = all[lo + i - 1]
  BY <1>8, <1>9, SubSeqProperties
<1> HIDE DEF last
<1>11. Len(last) = len1 + len2 - cut
  <2>1. Len(last) = IF lo <= hi THEN hi - lo + 1 ELSE 0
    BY <1>8, <1>10
  <2>2. (IF lo <= hi THEN hi - lo + 1 ELSE 0) = len1 + len2 - cut
    <3>1. CASE cut = len1 + len2
      <4>1. ~(lo <= hi)
        BY <1>8, <3>1
      <4> QED BY <1>8, <3>1, <4>1
    <3>2. CASE cut # len1 + len2
      <4>1. lo <= hi /\ hi - lo + 1 = len1 + len2 - cut
        BY <1>4, <1>5, <1>8, <3>2
      <4> QED BY <4>1
    <3> QED BY <3>1, <3>2
  <2> QED BY <2>1, <2>2
<1>12. ASSUME NEW i \in 1..(len1 + len2 - cut)
      PROVE  last[i] = IF cut + i <= len1 THEN s1[cut + i] ELSE s2[cut + i - len1]
  <2>1. i \in 1..(hi - lo + 1)
    BY <1>4, <1>8
  <2>2. PICK k \in 1..(len1 + len2) : k = lo + i - 1 /\ k = cut + i
    BY <1>4, <1>8
  <2>3. last[i] = all[k]
    BY <1>8, <1>10, <2>1, <2>2
  <2>4. all[k] = IF k <= len1 THEN s1[k] ELSE s2[k - len1]
    BY <1>6
  <2> QED BY <2>2, <2>3, <2>4
<1>13. Abs!LastOf(s1 \o s2, Size) = last
  BY <1>7, <1>8 DEF last, all
<1> QED BY <1>1, <1>2, <1>3, <1>10, <1>11, <1>12, <1>13

\* Bytes appended round the ring, the oldest falling out.
ReadAfter(r, f, w, n)           == IF f + n <= Size THEN r ELSE Addr(w, n)
FillAfter(f, n)                 == Least(f + n, Size)
MemAfter(m, w, data, skip, n)   == Around(m, w, data, skip + 1, n)

LEMMA RingAppend ==
  ASSUME NEW r \in Addresses, NEW f \in 0..Size, NEW w, w = Addr(r, f),
         NEW m \in [Addresses -> Bytes],
         NEW n \in 0..Size, NEW skip \in Nat, skip > 0 => n = Size,
         NEW data, NEW taken \in Seq(Bytes), Len(taken) = n + skip,
         \A i \in 1..(n + skip) : taken[i] = data[i]
  PROVE  /\ ReadAfter(r, f, w, n) \in Addresses /\ FillAfter(f, n) \in 0..Size
         /\ Addr(w, n) = Addr(ReadAfter(r, f, w, n), FillAfter(f, n))
         /\ MemAfter(m, w, data, skip, n) \in [Addresses -> Bytes]
         /\ RingOf(MemAfter(m, w, data, skip, n), ReadAfter(r, f, w, n), FillAfter(f, n))
              = Abs!LastOf(RingOf(m, r, f) \o taken, Size)
         /\ \A a \in Addresses :
              Off(ReadAfter(r, f, w, n), a) >= FillAfter(f, n) =>
                Off(r, a) >= f /\ MemAfter(m, w, data, skip, n)[a] = m[a]
<1> DEFINE r2 == ReadAfter(r, f, w, n)
           f2 == FillAfter(f, n)
           m2 == MemAfter(m, w, data, skip, n)
<1>0. /\ r2 = IF f + n <= Size THEN r ELSE Addr(w, n)
      /\ f2 = Least(f + n, Size)
      /\ m2 = Around(m, w, data, skip + 1, n)
  BY DEF ReadAfter, FillAfter, MemAfter
<1> HIDE DEF r2, f2, m2
<1> USE <1>0
<1>1. Size \in Nat \ {0}
  BY SizeAssumption
<1>2. w \in Addresses /\ Addr(w, n) \in Addresses
  BY RingAddr
<1> DEFINE cut == Greatest(f + n + skip - Size, 0)
<1> HIDE DEF cut
<1>3. /\ f2 \in 0..Size /\ cut \in Nat /\ f + n + skip - cut = f2
      /\ f + n <= Size => f2 = f + n /\ cut = skip
      /\ ~(f + n <= Size) => f2 = Size /\ cut = f + n + skip - Size
  BY AppendSizes DEF cut
<1>4. r2 \in Addresses /\ f2 \in 0..Size
  BY <1>3, <1>2
<1>5. Addr(w, n) = Addr(r2, f2)
  <2>1. CASE f + n <= Size
    <3>1. Addr(Addr(r, f), n) = Addr(r, f + n)
      BY <2>1, RingAdd
    <3>2. r2 = r /\ f2 = f + n
      BY <1>3, <2>1
    <3> QED BY <3>1, <3>2
  <2>2. CASE ~(f + n <= Size)
    <3>1. r2 = Addr(w, n) /\ f2 = Size
      BY <1>3, <2>2
    <3>2. Size \in 0..Size
      BY <1>1
    <3> QED BY <1>2, <3>1, <3>2, RingAddr
  <2> QED BY <2>1, <2>2
<1>6. ASSUME NEW a \in Addresses
      PROVE m2[a] = IF Off(w, a) < n THEN taken[skip + 1 + Off(w, a)] ELSE m[a]
  <2>1. Off(w, a) \in 0..(Size - 1)
    BY <1>2, RingOff
  <2>2. m2[a] = IF Off(w, a) < n THEN data[skip + 1 + Off(w, a)] ELSE m[a]
    BY DEF Around
  <2>3. Off(w, a) < n => skip + 1 + Off(w, a) \in 1..(n + skip)
    BY <1>1, <2>1
  <2> QED BY <2>2, <2>3
<1>7. m2 \in [Addresses -> Bytes]
  <2>1. ASSUME NEW a \in Addresses PROVE m2[a] \in Bytes
    <3>1. Off(w, a) \in 0..(Size - 1)
      BY <1>2, RingOff
    <3>2. Off(w, a) < n => skip + 1 + Off(w, a) \in 1..Len(taken)
      BY <1>1, <3>1
    <3>3. Off(w, a) < n => taken[skip + 1 + Off(w, a)] \in Bytes
      BY <3>2, ElementOfSeq
    <3> QED BY <1>6, <3>3
  <2>2. m2 = [a \in Addresses |-> m2[a]]
    BY DEF Around
  <2> QED BY <2>1, <2>2
<1>8. ASSUME NEW a \in Addresses, Off(r2, a) >= f2
      PROVE  Off(r, a) >= f /\ m2[a] = m[a]
  <2>1. Off(r2, a) \in 0..(Size - 1) /\ Off(r, a) \in 0..(Size - 1)
    BY <1>4, RingOff
  <2>2. f + n <= Size /\ r2 = r /\ f2 = f + n
    <3>1. ~(f2 = Size)
      BY <1>1, <1>8, <2>1
    <3> QED BY <1>3, <3>1
  <2>3. Off(w, a) = IF Off(r, a) >= f THEN Off(r, a) - f ELSE Off(r, a) + Size - f
    BY RingMove
  <2>4. Off(r, a) >= f + n
    BY <1>8, <2>2
  <2>5. Off(r, a) >= f /\ ~(Off(w, a) < n)
    BY <1>1, <2>1, <2>3, <2>4
  <2> QED BY <1>6, <2>5
<1> DEFINE old  == RingOf(m, r, f)
           last == Abs!LastOf(old \o taken, Size)
           ring == RingOf(m2, r2, f2)
<1>9. old \in Seq(Bytes) /\ Len(old) = f
      /\ \A i \in 1..f : old[i] = m[Addr(r, i - 1)]
  BY RingBytes
<1>10. ring \in Seq(Bytes) /\ Len(ring) = f2
      /\ \A i \in 1..f2 : ring[i] = m2[Addr(r2, i - 1)]
  BY <1>4, <1>7, RingBytes
<1> HIDE DEF old, ring
<1>11. last \in Seq(Bytes) /\ Len(last) = f2
       /\ \A i \in 1..f2 :
            last[i] = IF cut + i <= f THEN old[cut + i] ELSE taken[cut + i - f]
  <2>1. Len(old) + Len(taken) = f + n + skip
    BY <1>1, <1>9
  <2>2. Excess(old, taken) = cut /\ Rest(old, taken) = f2 /\ Len(old) = f
    BY <1>3, <1>1, <1>9, <2>1 DEF Excess, Rest, Greatest, cut
  <2>3. /\ last \in Seq(Bytes) /\ Len(last) = Rest(old, taken)
        /\ \A i \in 1..Rest(old, taken) :
             last[i] = IF Excess(old, taken) + i <= Len(old)
                       THEN old[Excess(old, taken) + i]
                       ELSE taken[Excess(old, taken) + i - Len(old)]
    BY <1>9, LastOfConcat
  <2> HIDE DEF last
  <2> QED BY <1>3, <1>1, <2>2, <2>3
<1> HIDE DEF last
<1>12. ASSUME NEW i \in 1..f2 PROVE ring[i] = last[i]
  <2> DEFINE a == Addr(r2, i - 1)
             o == Off(w, a)
  <2>1. i \in Nat /\ i - 1 \in 0..Size /\ i - 1 < Size /\ i >= 1 /\ i <= f2
    BY <1>1, <1>4
  <2>2. a \in Addresses /\ Off(r2, a) = i - 1
    BY <1>4, <2>1, RingAddr
  <2>3. o \in 0..(Size - 1)
    BY <1>2, <2>2, RingOff
  <2>4. ring[i] = IF o < n THEN taken[skip + 1 + o] ELSE m[a]
    BY <1>6, <1>10, <2>2
  <2>5. last[i] = IF cut + i <= f THEN old[cut + i] ELSE taken[cut + i - f]
    BY <1>11
  <2>6. CASE f + n <= Size
    <3>1. r2 = r /\ f2 = f + n /\ cut = skip
      BY <1>3, <2>6
    <3>2. o = IF i - 1 >= f THEN i - 1 - f ELSE i - 1 + Size - f
      <4>1. Off(Addr(r, f), a) =
              IF Off(r, a) >= f THEN Off(r, a) - f ELSE Off(r, a) + Size - f
        BY <2>2, RingMove
      <4> QED BY <2>2, <3>1, <4>1
    <3> HIDE DEF o, a
    <3>3. CASE i - 1 >= f
      <4>1. o < n /\ skip + 1 + o = cut + i - f /\ ~(cut + i <= f)
        BY <1>1, <2>1, <2>6, <3>1, <3>2, <3>3
      <4> QED BY <2>4, <2>5, <4>1
    <3>4. CASE ~(i - 1 >= f)
      <4>1. ~(o < n) /\ skip = 0 /\ cut + i = i /\ i \in 1..f
        BY <1>1, <2>1, <2>6, <3>1, <3>2, <3>4
      <4>2. old[i] = m[a]
        BY <1>9, <3>1, <4>1 DEF a
      <4> QED BY <2>1, <2>4, <2>5, <4>1, <4>2
    <3> QED BY <3>3, <3>4
  <2>7. CASE ~(f + n <= Size)
    <3>1. r2 = Addr(w, n) /\ f2 = Size /\ cut = f + n + skip - Size
      BY <1>3, <2>7
    <3>2. i - 1 = IF o >= n THEN o - n ELSE o + Size - n
      <4>1. Off(Addr(w, n), a) = IF o >= n THEN o - n ELSE o + Size - n
        BY <1>2, <2>2, RingMove
      <4> QED BY <2>2, <3>1, <4>1
    <3> DEFINE at == o
    <3>5. i \in 1..Size /\ at \in 0..(Size - 1)
          /\ i - 1 = IF at >= n THEN at - n ELSE at + Size - n
      BY <1>1, <2>1, <2>3, <3>1, <3>2
    <3> HIDE DEF at
    <3>6. /\ at < n => skip + 1 + at = cut + i - f /\ ~(cut + i <= f)
          /\ ~(at < n) => /\ skip = 0 /\ cut + i = f + at + 1 - Size
                          /\ cut + i \in 1..f /\ at \in 0..Size
                          /\ cut + i - 1 = f + at - Size /\ cut + i <= f
      BY <2>7, <3>1, <3>5, AppendIndex
    <3>3. CASE o < n
      BY <2>4, <2>5, <3>3, <3>6 DEF at
    <3>4. CASE ~(o < n)
      <4>1. /\ skip = 0 /\ cut + i = f + o + 1 - Size /\ cut + i \in 1..f
            /\ o \in 0..Size /\ cut + i - 1 = f + o - Size /\ cut + i <= f
        BY <3>4, <3>6 DEF at
      <4>2. Addr(w, o) = a
        BY <1>2, <2>2, RingOff
      <4>3. Addr(Addr(r, f), o) = IF f + o <= Size THEN Addr(r, f + o) ELSE Addr(r, f + o - Size)
        BY <4>1, RingAdd
      <4>4. Addr(r, Size) = Addr(r, 0)
        BY <1>1, RingAddr
      <4> HIDE DEF a, o
      <4>5. Addr(r, f + o - Size) = a
        <5>1. CASE f + o = Size
          <6>1. f + o <= Size /\ f + o - Size = 0
            BY <1>1, <4>1, <5>1
          <6>2. Addr(r, f + o) = Addr(r, 0)
            BY <4>4, <5>1
          <6>3. Addr(Addr(r, f), o) = Addr(r, f + o)
            BY <4>3, <6>1
          <6> QED BY <4>2, <6>1, <6>2, <6>3
        <5>2. CASE f + o # Size
          <6>1. ~(f + o <= Size)
            <7>1. f + o + 1 - Size >= 1
              BY <1>1, <4>1
            <7> QED BY <1>1, <4>1, <5>2, <7>1
          <6> QED BY <4>2, <4>3, <6>1
        <5> QED BY <5>1, <5>2
      <4>6. old[cut + i] = m[Addr(r, cut + i - 1)]
        <5> PICK k \in 1..f : k = cut + i
          BY <4>1
        <5>1. old[k] = m[Addr(r, k - 1)]
          BY <1>9
        <5> QED BY <1>3, <2>1, <5>1
      <4>7. cut + i - 1 = f + o - Size /\ cut + i <= f
        BY <4>1
      <4>8. old[cut + i] = m[a]
        BY <4>5, <4>6, <4>7
      <4> QED BY <2>4, <2>5, <3>4, <4>7, <4>8
    <3> QED BY <3>3, <3>4
  <2> QED BY <2>6, <2>7
<1>13. ring = last
  BY <1>10, <1>11, <1>12, SeqEqual
<1> QED BY <1>4, <1>5, <1>7, <1>8, <1>13 DEF ring, last, old, r2, f2, m2

-----------------------------------------------------------------------------
(***************************************************************************)
(* What the queue of RBufAbs takes of an offer is what rbuf_add moves.     *)
(***************************************************************************)
LEMMA FirstOfSeq ==
  ASSUME NEW S, NEW s \in Seq(S), NEW n \in Nat
  PROVE  /\ Abs!FirstOf(s, n) \in Seq(S)
         /\ Len(Abs!FirstOf(s, n)) = Least(Len(s), n)
         /\ \A i \in 1..Least(Len(s), n) : Abs!FirstOf(s, n)[i] = s[i]
<1>1. PICK len \in Nat : len = Len(s)
  BY LenProperties
<1>2. PICK hi \in Int : hi = IF len < n THEN len ELSE n
  OBVIOUS
<1>3. Least(Len(s), n) = hi /\ hi \in Nat /\ hi <= len
  BY <1>1, <1>2 DEF Least
<1>4. Abs!FirstOf(s, n) = SubSeq(s, 1, hi)
  BY <1>1, <1>2 DEF Abs!FirstOf, Abs!Least
<1>5. \A i \in 1..hi : s[i] \in S
  <2> SUFFICES ASSUME NEW i \in 1..hi PROVE s[i] \in S
    OBVIOUS
  <2>1. i \in 1..Len(s)
    BY <1>1, <1>3
  <2> QED BY <2>1, ElementOfSeq
<1> DEFINE first == SubSeq(s, 1, hi)
<1>6. /\ first \in Seq(S) /\ Len(first) = IF 1 <= hi THEN hi - 1 + 1 ELSE 0
      /\ \A i \in 1..(hi - 1 + 1) : first[i] = s[1 + i - 1]
  BY <1>2, <1>5, SubSeqProperties
<1> HIDE DEF first
<1>7. Len(first) = hi
  <2>1. CASE hi = 0
    BY <1>6, <2>1
  <2>2. CASE hi # 0
    BY <1>3, <1>6, <2>2
  <2> QED BY <2>1, <2>2
<1>8. \A i \in 1..hi : first[i] = s[i]
  <2> SUFFICES ASSUME NEW i \in 1..hi PROVE first[i] = s[i]
    OBVIOUS
  <2>1. i \in 1..(hi - 1 + 1) /\ 1 + i - 1 = i
    BY <1>3
  <2> QED BY <1>6, <2>1
<1>9. Abs!FirstOf(s, n) = first
  BY <1>4 DEF first
<1> QED BY <1>3, <1>6, <1>7, <1>8, <1>9

TakenIsMoved(len, opts) ==
  /\ Abs!Taken(len, opts) \in Seq(Bytes)
  /\ Len(Abs!Taken(len, opts)) = AddMoved(len, opts) + AddSkipped(len, opts)
  /\ \A i \in 1..(AddMoved(len, opts) + AddSkipped(len, opts)) :
       Abs!Taken(len, opts)[i] = Offered(len)[i]

LEMMA TakenMoved ==
  ASSUME TypeOK, NEW len \in Nat, NEW opts \in SUBSET AddOpts,
         AddError(len, opts) = "SUCCESS"
  PROVE  TakenIsMoved(len, opts)
<1>1. PICK whole \in Nat : whole = AddWhole(len)
  BY SizeAssumption DEF AddWhole, Least
<1>2. PICK free \in Nat : free = Free
  BY Segmented, SizeAssumption DEF Segments
<1>3. Size \in Nat \ {0} /\ Word \in Nat /\ Size < Word
      /\ free = Size - Fill /\ Fill \in 0..Size
  BY <1>2, Segmented, SizeAssumption DEF Segments
<1>4. Len(Content) = Fill
  BY ContentRing DEF ContentIsRing
<1> HIDE DEF Fill
<1> DEFINE offer == Abs!Offered(len)
<1>5. /\ offer \in Seq(Bytes) /\ Len(offer) = whole
      /\ \A i \in 1..whole : offer[i] = Offered(len)[i]
  <2>1. offer = [i \in 1..whole |-> 1 + ((next + i - 1) % Base)]
    BY <1>1 DEF Abs!Offered, Abs!Least, AddWhole, Least
  <2>2. whole <= len
    BY <1>1, <1>3 DEF AddWhole, Least
  <2>3. \A i \in 1..whole : i \in 1..len
    BY <2>2
  <2>4. \A i \in 1..whole : offer[i] = Offered(len)[i] /\ offer[i] \in Bytes
    BY <2>1, <2>3, OfferedBytes
  <2> HIDE DEF offer
  <2>5. offer \in [1..whole -> Bytes]
    BY <2>1, <2>4
  <2>6. offer \in Seq(Bytes)
    BY <2>5, SeqDef
  <2>7. Len(offer) = whole
    BY <2>5, <2>6, LenProperties
  <2> QED BY <2>4, <2>6, <2>7
<1> HIDE DEF offer
<1> DEFINE ov == "OVERWRITE" \in opts
           pa == "PARTIAL_WRITE" \in opts
<1>6. /\ opts = {"PARTIAL_WRITE"} <=> ~ov /\ pa
      /\ opts = Abs!AddOpts <=> ov /\ pa
      /\ opts = {} <=> ~ov /\ ~pa
  BY DEF AddOpts, Abs!AddOpts
<1>7. /\ AddMoved(len, opts) = Least(whole, IF ov THEN Size ELSE free)
      /\ AddSkipped(len, opts) = IF ov /\ ~pa THEN Greatest(whole, Size) - Size ELSE 0
  BY <1>1, <1>2 DEF AddMoved, AddSkipped, Moved, Skipped
<1>8. CASE pa
  <2> DEFINE room == IF ov THEN Size ELSE free
  <2>1. Abs!Taken(len, opts) = Abs!FirstOf(offer, room)
    <3>1. CASE ov
      BY <1>6, <1>8, <3>1 DEF Abs!Taken, offer
    <3>2. CASE ~ov
      <4>1. Abs!Taken(len, opts) = Abs!FirstOf(offer, Size - Len(Content))
        BY <1>6, <1>8, <3>2 DEF Abs!Taken, offer
      <4>2. Size - Len(Content) = free
        BY <1>3, <1>4
      <4> QED BY <3>2, <4>1, <4>2
    <3> QED BY <3>1, <3>2
  <2>2. room \in Nat
    BY <1>3
  <2>3. AddMoved(len, opts) + AddSkipped(len, opts) = Least(whole, room)
    BY <1>3, <1>7, <1>8 DEF Least
  <2>4. Least(whole, room) \in Nat /\ Least(whole, room) <= whole
    BY <2>2 DEF Least
  <2> HIDE DEF room
  <2>5. /\ Abs!FirstOf(offer, room) \in Seq(Bytes)
        /\ Len(Abs!FirstOf(offer, room)) = Least(whole, room)
        /\ \A i \in 1..Least(whole, room) : Abs!FirstOf(offer, room)[i] = offer[i]
    BY <1>5, <2>2, FirstOfSeq
  <2>6. \A i \in 1..Least(whole, room) : i \in 1..whole
    BY <2>4
  <2>7. \A i \in 1..Least(whole, room) :
          Abs!FirstOf(offer, room)[i] = Offered(len)[i]
    BY <1>5, <2>5, <2>6
  <2> QED BY <2>1, <2>3, <2>5, <2>7 DEF TakenIsMoved
<1>9. CASE ~pa
  <2>1. Abs!Taken(len, opts) = offer
    BY <1>6, <1>9 DEF Abs!Taken, offer
  <2>2. AddMoved(len, opts) + AddSkipped(len, opts) = whole
    <3>1. CASE ov
      BY <1>3, <1>7, <1>9, <3>1 DEF Least, Greatest
    <3>2. CASE ~ov
      <4>1. ~(whole > free)
        <5>1. ~(opts = {} /\ AddWhole(len) > Free)
          BY DEF AddError
        <5> QED BY <1>1, <1>2, <1>6, <1>9, <3>2, <5>1
      <4> QED BY <1>3, <1>7, <1>9, <3>2, <4>1 DEF Least
    <3> QED BY <3>1, <3>2
  <2> QED BY <1>5, <2>1, <2>2 DEF TakenIsMoved
<1> QED BY <1>8, <1>9

\* What rbuf_add returns is what the queue returns.
LEMMA AddReturns ==
  ASSUME TypeOK, NEW len \in Nat, NEW opts \in SUBSET AddOpts
  PROVE  /\ Outputs(AddCall(len, opts)) = Abs!AddResult(len, opts)
         /\ AddCall(len, opts).err = AddError(len, opts)
         /\ Abs!AddResult(len, opts).err = AddError(len, opts)
<1>1. AddAnswers(len, opts)
  BY AddAnswer
<1>2. PICK whole \in Nat, free \in Nat, fill \in Nat :
        /\ whole = AddWhole(len) /\ free = Free /\ fill = Len(Content)
        /\ free = Size - fill
  <2>1. AddWhole(len) \in Nat
    BY SizeAssumption DEF AddWhole, Least
  <2>2. Fill \in 0..Size /\ Free = Size - Fill /\ Len(Content) = Fill
    BY Segmented, ContentRing DEF Segments, ContentIsRing
  <2> HIDE DEF Fill
  <2>3. Free \in Nat /\ Fill \in Nat
    BY <2>2, SizeAssumption
  <2> QED BY <2>1, <2>2, <2>3
<1>3. Abs!Least(len, Word - 1) = whole
  BY <1>2 DEF Abs!Least, AddWhole, Least
<1>4. Len(Content) + Abs!Least(len, Word - 1) > Size <=> AddWhole(len) > Free
  <2>1. fill + whole > Size <=> whole > free
    BY <1>2, SizeAssumption
  <2> QED BY <1>2, <1>3, <2>1
<1>5. Abs!AddResult(len, opts) =
        IF AddError(len, opts) = "SUCCESS"
        THEN Abs!Result("SUCCESS", Len(Abs!Taken(len, opts)), <<>>)
        ELSE Abs!Refused(AddError(len, opts), len)
  BY <1>4 DEF Abs!AddResult, AddError
<1>6. CASE AddError(len, opts) = "SUCCESS"
  <2>1. Len(Abs!Taken(len, opts)) = AddMoved(len, opts) + AddSkipped(len, opts)
    BY <1>6, TakenMoved DEF TakenIsMoved
  <2>2. AddCall(len, opts).err = "SUCCESS" /\ AddCall(len, opts).data = <<>>
        /\ AddCall(len, opts).len = AddMoved(len, opts) + AddSkipped(len, opts)
    BY <1>1, <1>6 DEF AddAnswers, AddEffect
  <2>3. Abs!AddResult(len, opts) = Abs!Result("SUCCESS", Len(Abs!Taken(len, opts)), <<>>)
    BY <1>5, <1>6
  <2> QED BY <1>6, <2>1, <2>2, <2>3 DEF Outputs, Abs!Result
<1>7. CASE AddError(len, opts) # "SUCCESS"
  <2>1. AddCall(len, opts) = Refused(AddError(len, opts), len)
    BY <1>1, <1>7 DEF AddAnswers
  <2>2. Abs!AddResult(len, opts) = Abs!Refused(AddError(len, opts), len)
    BY <1>5, <1>7
  <2> QED BY <2>1, <2>2 DEF Outputs, Refused, Abs!Refused, Abs!Result
<1> QED BY <1>6, <1>7

-----------------------------------------------------------------------------
(***************************************************************************)
(* The steps.  Each keeps the type invariant and the zeroes outside the    *)
(* filled segments, and does to Content what RBufAbs does to its queue.    *)
(***************************************************************************)
ZeroedRing ==
  "ZERO_MEM_ALWAYS" \in conf =>
    \A a \in Addresses : Off(ri, a) >= Fill => mem[a] = 0

LEMMA ZeroedIsRing == TypeOK => (TakenBytesZeroed <=> ZeroedRing)
<1> SUFFICES ASSUME TypeOK PROVE TakenBytesZeroed <=> ZeroedRing
  OBVIOUS
<1>1. /\ Size \in Nat \ {0} /\ ri \in 0..(Size - 1) /\ Fill \in 0..Size
      /\ Used1 = Least(Fill, Size - ri) /\ Used2 = Fill - Used1
  BY Segmented, SizeAssumption DEF Segments, TypeOK, Addresses
<1> HIDE DEF Fill
<1>2. ASSUME NEW a \in Addresses
      PROVE  (a \in ri..(ri + Used1 - 1) \/ a < Used2) <=> ~(Off(ri, a) >= Fill)
  <2>1. a \in 0..(Size - 1)
    BY DEF Addresses
  <2>2. CASE a < ri
    <3>1. Off(ri, a) = a + Size - ri
      BY <2>2 DEF Off
    <3> QED BY <1>1, <2>1, <2>2, <3>1 DEF Least
  <2>3. CASE ~(a < ri)
    <3>1. Off(ri, a) = a - ri
      BY <2>3 DEF Off
    <3> QED BY <1>1, <2>1, <2>3, <3>1 DEF Least
  <2> QED BY <2>2, <2>3
<1> QED BY <1>2 DEF TakenBytesZeroed, ZeroedRing

LEMMA NothingChanged ==
  ASSUME TypeOK, UNCHANGED <<wi, ri, full, mem>>
  PROVE  Content' = Content /\ Fill' = Fill
BY DEF Content, Copied, Fill, Used1, Used2, Wrapped

LEMMA AddStep ==
  ASSUME TypeOK, NEW len \in Nat, NEW opts \in SUBSET AddOpts, rbuf_add(len, opts)
  PROVE  /\ TypeOK' /\ (ZeroedRing => ZeroedRing')
         /\ Abs!Add(len, opts) \/ UNCHANGED Abs!absvars
<1>1. /\ AddAnswers(len, opts)
      /\ AddCall(len, opts).err = AddError(len, opts)
      /\ Abs!AddResult(len, opts).err = AddError(len, opts)
  BY AddAnswer, AddReturns
<1>2. /\ wi' = AddCall(len, opts).wi /\ ri' = AddCall(len, opts).ri
      /\ full' = AddCall(len, opts).full /\ mem' = AddCall(len, opts).mem
      /\ next' = IF AddError(len, opts) = "SUCCESS"
                 THEN (next + AddCall(len, opts).len) % Base ELSE next
      /\ suspended' = suspended /\ conf' = conf
  BY <1>1 DEF rbuf_add
<1>3. CASE AddError(len, opts) # "SUCCESS"
  <2>1. AddCall(len, opts) = Refused(AddError(len, opts), len)
    BY <1>1, <1>3 DEF AddAnswers
  <2>2. /\ wi' = wi /\ ri' = ri /\ full' = full /\ mem' = mem
        /\ next' = next /\ suspended' = suspended /\ conf' = conf
    BY <1>2, <1>3, <2>1 DEF Refused
  <2>3. Content' = Content /\ Fill' = Fill
    BY <2>2, NothingChanged
  <2>4. TypeOK'
    BY <2>2 DEF TypeOK
  <2>5. ZeroedRing => ZeroedRing'
    BY <2>2, <2>3 DEF ZeroedRing
  <2>6. UNCHANGED Abs!absvars
    BY <2>2, <2>3 DEF Abs!absvars
  <2> QED BY <2>4, <2>5, <2>6
<1>4. CASE AddError(len, opts) = "SUCCESS"
  <2>1. PICK n \in 0..Size, skip \in Nat :
          n = AddMoved(len, opts) /\ skip = AddSkipped(len, opts)
    BY <1>1 DEF AddAnswers
  <2>2. n + skip <= len /\ (skip > 0 => n = Size)
    BY <1>1, <2>1 DEF AddAnswers
  <2>3. AddEffect(AddCall(len, opts), n, skip, Offered(len))
    BY <1>1, <1>4, <2>1 DEF AddAnswers
  <2> DEFINE taken == Abs!Taken(len, opts)
  <2>4. taken \in Seq(Bytes) /\ Len(taken) = n + skip
        /\ \A i \in 1..(n + skip) : taken[i] = Offered(len)[i]
    BY <1>4, <2>1, TakenMoved DEF TakenIsMoved
  <2>5. /\ ri \in Addresses /\ wi = Addr(ri, Fill) /\ Fill \in 0..Size
        /\ mem \in [Addresses -> Bytes] /\ Size \in Nat \ {0}
    BY Segmented, SizeAssumption DEF Segments, TypeOK
  <2>6. /\ wi' = Addr(wi, n)
        /\ ri' = IF Fill + n <= Size THEN ri ELSE Addr(wi, n)
        /\ full' \in BOOLEAN /\ (full' <=> Fill + n >= Size)
        /\ mem' = Around(mem, wi, Offered(len), skip + 1, n)
        /\ next' = (next + (n + skip)) % Base
        /\ suspended' = suspended /\ conf' = conf
    BY <1>2, <1>4, <2>3 DEF AddEffect
  <2> HIDE DEF taken
  <2> DEFINE fill == Fill
             left == FillAfter(fill, n)
  <2>7. fill = Fill /\ fill \in 0..Size
    BY <2>5
  <2> HIDE DEF fill
  <2>15. /\ ri' = ReadAfter(ri, fill, wi, n)
         /\ mem' = MemAfter(mem, wi, Offered(len), skip, n)
    BY <2>6, <2>7 DEF ReadAfter, MemAfter
  <2>8. /\ ri' \in Addresses /\ left \in 0..Size /\ Addr(wi, n) = Addr(ri', left)
        /\ mem' \in [Addresses -> Bytes]
        /\ RingOf(mem', ri', left) = Abs!LastOf(RingOf(mem, ri, fill) \o taken, Size)
        /\ \A a \in Addresses :
             Off(ri', a) >= left => Off(ri, a) >= fill /\ mem'[a] = mem[a]
    BY <2>2, <2>4, <2>5, <2>7, <2>15, RingAppend
  <2>9. full' <=> left = Size
    BY <2>5, <2>6, <2>7 DEF FillAfter, Least
  <2> HIDE DEF left
  <2>10. wi' \in Addresses /\ Fill' = left /\ (full' => wi' = ri')
    BY <2>6, <2>8, <2>9, Refilled
  <2>11. TypeOK'
    <3>1. suspended' \subseteq {"add", "get"}
      BY <2>6 DEF TypeOK
    <3>2. next' \in 0..(Base - 1)
      <4>1. next + (n + skip) \in Int /\ Base \in Nat \ {0}
        BY <2>5, SizeAssumption DEF TypeOK
      <4> QED BY <2>6, <4>1
    <3>3. full' \in BOOLEAN
      BY <2>6
    <3> QED BY <2>8, <2>10, <3>1, <3>2, <3>3 DEF TypeOK, Addresses, Bytes
  <2>12. Content' = Abs!LastOf(Content \o taken, Size)
    <3>1. (TypeOK => ContentIsRing)'
      BY ContentRing, PTL
    <3>2. Content' = RingOf(mem', ri', left)
      BY <2>10, <2>11, <3>1 DEF ContentIsRing
    <3>3. Content = RingOf(mem, ri, fill)
      BY <2>7, ContentRing DEF ContentIsRing
    <3> QED BY <2>8, <3>2, <3>3
  <2>13. ZeroedRing => ZeroedRing'
    BY <2>6, <2>7, <2>8, <2>10 DEF ZeroedRing, Addresses
  <2>14. Abs!Add(len, opts)
    <3>1. next' = (next + Len(taken)) % Base
      BY <2>4, <2>6
    <3> QED BY <1>1, <1>4, <2>6, <2>12, <3>1 DEF Abs!Add, taken
  <2> QED BY <2>11, <2>13, <2>14
<1> QED BY <1>3, <1>4

-----------------------------------------------------------------------------
(***************************************************************************)
(* rbuf_get and rbuf_peek: the slices of the queue are stretches of the    *)
(* ring.                                                                   *)
(***************************************************************************)
LEMMA TailOfSeq ==
  ASSUME NEW S, NEW s \in Seq(S), NEW off \in Nat
  PROVE  /\ SubSeq(s, off + 1, Len(s)) \in Seq(S)
         /\ Len(SubSeq(s, off + 1, Len(s))) = IF off < Len(s) THEN Len(s) - off ELSE 0
         /\ \A i \in 1..(Len(s) - off) : SubSeq(s, off + 1, Len(s))[i] = s[off + i]
<1>1. PICK len \in Nat : len = Len(s)
  BY LenProperties
<1>2. PICK lo \in Int : lo = off + 1
  OBVIOUS
<1> DEFINE tail == SubSeq(s, lo, len)
<1>3. \A i \in lo..len : s[i] \in S
  <2> SUFFICES ASSUME NEW i \in lo..len PROVE s[i] \in S
    OBVIOUS
  <2>1. i \in 1..Len(s)
    BY <1>1, <1>2
  <2> QED BY <2>1, ElementOfSeq
<1>4. /\ tail \in Seq(S) /\ Len(tail) = IF lo <= len THEN len - lo + 1 ELSE 0
      /\ \A i \in 1..(len - lo + 1) : tail[i] = s[lo + i - 1]
  BY <1>1, <1>2, <1>3, SubSeqProperties
<1> HIDE DEF tail
<1>5. Len(tail) = IF off < len THEN len - off ELSE 0
  <2>1. CASE off < len
    <3>1. lo <= len /\ len - lo + 1 = len - off
      BY <1>1, <1>2, <2>1
    <3> QED BY <1>4, <2>1, <3>1
  <2>2. CASE ~(off < len)
    <3>1. ~(lo <= len)
      BY <1>1, <1>2, <2>2
    <3> QED BY <1>4, <2>2, <3>1
  <2> QED BY <2>1, <2>2
<1>6. ASSUME NEW i \in 1..(len - off) PROVE tail[i] = s[off + i]
  <2>1. i \in 1..(len - lo + 1) /\ lo + i - 1 = off + i
    BY <1>1, <1>2
  <2>2. tail[i] = s[lo + i - 1]
    BY <1>4, <2>1
  <2> QED BY <2>1, <2>2
<1>7. SubSeq(s, off + 1, Len(s)) = tail
  BY <1>1, <1>2 DEF tail
<1> QED BY <1>1, <1>4, <1>5, <1>6, <1>7

\* How many bytes can be read from an offset on.
Readable(offset)          == IF offset < Fill THEN Fill - offset ELSE 0
SliceLen(len, offset)  == Least(Readable(offset), AddWhole(len))

SliceIsRing(len, offset) ==
  /\ SliceLen(len, offset) \in 0..Size /\ SliceLen(len, offset) <= AddWhole(len)
  /\ Len(Abs!Slice(len, offset)) = SliceLen(len, offset)
  /\ offset <= Fill =>
       Abs!Slice(len, offset) = RingOf(mem, Addr(ri, offset), SliceLen(len, offset))
  /\ SliceLen(len, offset) = 0 => Abs!Slice(len, offset) = <<>>

LEMMA SliceRing ==
  ASSUME TypeOK, NEW len \in Nat, NEW offset \in Nat
  PROVE  SliceIsRing(len, offset)
<1>1. PICK whole \in Nat : whole = AddWhole(len)
  BY SizeAssumption DEF AddWhole, Least
<1>2. PICK fill \in 0..Size : fill = Fill
  BY Segmented DEF Segments
<1>3. Size \in Nat \ {0} /\ ri \in Addresses /\ mem \in [Addresses -> Bytes]
  BY SizeAssumption DEF TypeOK
<1>4. /\ Content \in Seq(Bytes) /\ Len(Content) = fill
      /\ \A i \in 1..fill : Content[i] = mem[Addr(ri, i - 1)]
  BY <1>2, ContentRing DEF ContentIsRing
<1>5. PICK rest \in Nat : rest = Readable(offset)
                          /\ rest = IF offset < fill THEN fill - offset ELSE 0
  BY <1>2, <1>3 DEF Readable
<1>6. PICK n \in Nat : n = SliceLen(len, offset) /\ n <= rest /\ n <= whole
                       /\ n = Least(rest, whole)
  BY <1>1, <1>5 DEF SliceLen, Least
<1> DEFINE tail  == SubSeq(Content, offset + 1, Len(Content))
           slice == Abs!Slice(len, offset)
<1>7. /\ tail \in Seq(Bytes) /\ Len(tail) = rest
      /\ \A i \in 1..(fill - offset) : tail[i] = Content[offset + i]
  BY <1>3, <1>4, <1>5, TailOfSeq
<1>8. slice = Abs!FirstOf(tail, whole)
  BY <1>1 DEF Abs!Slice, Abs!Least, AddWhole, Least
<1> HIDE DEF tail, slice
<1>9. /\ slice \in Seq(Bytes) /\ Len(slice) = n
      /\ \A i \in 1..n : slice[i] = tail[i]
  BY <1>6, <1>7, <1>8, FirstOfSeq
<1>10. n \in 0..Size
  BY <1>2, <1>3, <1>5, <1>6
<1>11. ASSUME offset <= fill PROVE slice = RingOf(mem, Addr(ri, offset), n)
  <2>1. Addr(ri, offset) \in Addresses
    BY <1>2, <1>3, <1>11, RingAddr
  <2> DEFINE ring == RingOf(mem, Addr(ri, offset), n)
  <2>2. ring \in Seq(Bytes) /\ Len(ring) = n
        /\ \A i \in 1..n : ring[i] = mem[Addr(Addr(ri, offset), i - 1)]
    BY <1>3, <1>10, <2>1, RingBytes
  <2> HIDE DEF ring
  <2>3. ASSUME NEW i \in 1..n PROVE slice[i] = ring[i]
    <3>1. i \in 1..(fill - offset)
      BY <1>2, <1>3, <1>5, <1>6
    <3>2. PICK k \in 1..fill : k = offset + i
      BY <1>2, <1>3, <3>1
    <3>3. Content[k] = mem[Addr(ri, k - 1)]
      BY <1>4
    <3>4. slice[i] = Content[k]
      BY <1>7, <1>9, <3>1, <3>2
    <3>5. /\ offset \in 0..Size /\ i - 1 \in 0..Size /\ offset + (i - 1) <= Size
          /\ offset + (i - 1) = k - 1
      BY <1>2, <1>3, <3>2
    <3>6. Addr(Addr(ri, offset), i - 1) = Addr(ri, k - 1)
      <4>1. Addr(Addr(ri, offset), i - 1) = Addr(ri, offset + (i - 1))
        BY <1>3, <3>5, RingAdd
      <4> QED BY <3>5, <4>1
    <3> QED BY <2>2, <3>3, <3>4, <3>6
  <2>4. slice = ring
    BY <1>9, <2>2, <2>3, SeqEqual
  <2> QED BY <2>4 DEF ring
<1>12. n = 0 => slice = <<>>
  BY <1>9, EmptySeq
<1> QED BY <1>1, <1>2, <1>6, <1>9, <1>10, <1>11, <1>12 DEF SliceIsRing, slice

\* What rbuf_get answers, and what it takes when it answers SUCCESS.
ReadError(len, offset, opts) ==
  IF "NO_PARTIAL_READ" \in opts /\ AddWhole(len) > Readable(offset)
  THEN "NOT_ENOUGH_DATA" ELSE "SUCCESS"

GetError(len, opts) ==
  IF "get" \in suspended THEN "SUSPENDED" ELSE ReadError(len, 0, opts)

ZeroedAround(m, w, n) == [a \in Addresses |-> IF Off(w, a) < n THEN 0 ELSE m[a]]

GetEffect(call, n) ==
  /\ call.err = "SUCCESS" /\ call.len = n /\ call.data = RingOf(mem, ri, n)
  /\ call.wi = wi /\ call.ri = Addr(ri, n)
  /\ call.full \in BOOLEAN /\ (call.full <=> full /\ n = 0)
  /\ call.mem = mem \/ call.mem = ZeroedAround(mem, ri, n)
  /\ "ZERO_MEM_ALWAYS" \in conf => call.mem = ZeroedAround(mem, ri, n)

LEMMA RingZeroed ==
  ASSUME NEW w \in Addresses, NEW n \in 0..Size, NEW m,
         NEW n1, NEW n2, n1 = Least(n, Size - w), n2 = n - n1
  PROVE  Zeroed(Zeroed(m, w, n1), 0, n2) = ZeroedAround(m, w, n)
<1> DEFINE zeros == [i \in Int |-> 0]
<1>1. Size \in Nat \ {0} /\ w \in 0..(Size - 1)
  BY SizeAssumption DEF Addresses
<1>2. n1 \in Nat /\ n2 \in Nat
  BY <1>1 DEF Least
<1>3. Zeroed(m, w, n1) = Written(m, w, zeros, 0, n1)
  <2>1. \A b \in Addresses : 0 + b - w \in Int
    BY <1>1 DEF Addresses
  <2>2. \A b \in Addresses : zeros[0 + b - w] = 0
    BY <2>1
  <2> QED BY <2>2 DEF Zeroed, Written
<1> DEFINE once == Zeroed(m, w, n1)
<1> HIDE DEF once
<1>4. Zeroed(once, 0, n2) = Written(once, 0, zeros, 0 + n1, n2)
  <2>1. \A b \in Addresses : 0 + n1 + b - 0 \in Int
    BY <1>1, <1>2 DEF Addresses
  <2>2. \A b \in Addresses : zeros[0 + n1 + b - 0] = 0
    BY <2>1
  <2> QED BY <2>2 DEF Zeroed, Written
<1>5. Written(Written(m, w, zeros, 0, n1), 0, zeros, 0 + n1, n2)
        = Around(m, w, zeros, 0, n)
  BY RingWritten
<1>6. Around(m, w, zeros, 0, n) = ZeroedAround(m, w, n)
  <2>1. \A a \in Addresses : 0 + Off(w, a) \in Int
    BY <1>1 DEF Addresses, Off
  <2>2. \A a \in Addresses : zeros[0 + Off(w, a)] = 0
    BY <2>1
  <2> QED BY <2>2 DEF Around, ZeroedAround
<1> QED BY <1>3, <1>4, <1>5, <1>6 DEF once

LEMMA NoBytes == \A a : Copied(a, 0) = <<>>
<1>1. 1..0 = {}
  OBVIOUS
<1> QED BY <1>1 DEF Copied

LEMMA GetAnswer ==
  ASSUME TypeOK, NEW len \in Nat, NEW opts \in SUBSET GetOpts
  PROVE  IF GetError(len, opts) = "SUCCESS"
         THEN GetEffect(GetCall(len, opts), SliceLen(len, 0))
         ELSE GetCall(len, opts) = Refused(GetError(len, opts), len)
<1> DEFINE whole == AddWhole(len)
           copy1 == Least(whole, Used1)
           copy2 == Least(whole - copy1, Used2)
           n     == SliceLen(len, 0)
           call  == GetCall(len, opts)
<1>1. whole \in Nat
  BY SizeAssumption DEF AddWhole, Least
<1>2. /\ Fill \in 0..Size /\ Size \in Nat \ {0} /\ ri \in 0..(Size - 1)
      /\ Used1 = Least(Fill, Size - ri) /\ Used2 = Fill - Used1
      /\ ri \in Addresses /\ mem \in [Addresses -> Bytes] /\ full \in BOOLEAN
  BY Segmented, SizeAssumption DEF Segments, TypeOK, Addresses
<1> HIDE DEF whole
<1>3. Readable(0) = Fill
  BY <1>2 DEF Readable
<1> HIDE DEF Fill
<1>4. n = Least(whole, Fill) /\ n \in 0..Size
  BY <1>1, <1>2, <1>3 DEF SliceLen, Least, whole
<1> HIDE DEF n
<1>5. Used1 \in Nat /\ Used2 \in Nat /\ Used1 + Used2 = Fill
  BY <1>2 DEF Least
<1>6. copy1 = Least(n, Size - ri) /\ copy2 = n - copy1 /\ copy1 + copy2 = n
      /\ copy1 \in Nat /\ copy2 \in Nat
  BY <1>1, <1>2, <1>4, <1>5 DEF Least
<1>7. call =
        IF "get" \in suspended THEN Refused("SUSPENDED", len)
        ELSE IF "NO_PARTIAL_READ" \in opts /\ whole > Used1 + Used2
             THEN Refused("NOT_ENOUGH_DATA", len)
        ELSE [err |-> "SUCCESS", len |-> copy1 + copy2,
              data |-> Copied(ri, copy1) \o Copied(0, copy2),
              wi   |-> wi,
              ri   |-> Advanced(ri, copy1, copy2),
              full |-> full /\ copy1 + copy2 = 0,
              mem  |-> IF "ZERO_MEM_ALWAYS" \in conf \/ "ZERO_ON_READ" \in opts
                       THEN Zeroed(Zeroed(mem, ri, copy1), 0, copy2)
                       ELSE mem]
  BY DEF GetCall, AddWhole, whole
<1> HIDE DEF call, copy1, copy2
<1>8. whole > Used1 + Used2 <=> whole > Readable(0)
  BY <1>3, <1>5
<1>9. GetError(len, opts) =
        IF "get" \in suspended THEN "SUSPENDED"
        ELSE IF "NO_PARTIAL_READ" \in opts /\ whole > Used1 + Used2
             THEN "NOT_ENOUGH_DATA" ELSE "SUCCESS"
  BY <1>8 DEF GetError, ReadError, whole
<1>10. CASE GetError(len, opts) # "SUCCESS"
  <2>1. call = Refused(GetError(len, opts), len)
    BY <1>7, <1>9, <1>10
  <2> QED BY <1>10, <2>1 DEF call
<1>11. CASE GetError(len, opts) = "SUCCESS"
  <2>1. call = [err |-> "SUCCESS", len |-> copy1 + copy2,
                data |-> Copied(ri, copy1) \o Copied(0, copy2),
                wi   |-> wi,
                ri   |-> Advanced(ri, copy1, copy2),
                full |-> full /\ copy1 + copy2 = 0,
                mem  |-> IF "ZERO_MEM_ALWAYS" \in conf \/ "ZERO_ON_READ" \in opts
                         THEN Zeroed(Zeroed(mem, ri, copy1), 0, copy2)
                         ELSE mem]
    BY <1>7, <1>9, <1>11
  <2>2. Copied(ri, copy1) \o Copied(0, copy2) = RingOf(mem, ri, n)
    <3>1. /\ n \in 0..Size /\ ri \in Addresses /\ mem \in [Addresses -> Bytes]
          /\ copy1 = Least(n, Size - ri) /\ copy2 = n - copy1
      BY <1>2, <1>4, <1>6
    <3> QED BY <3>1, SegmentsAreRing
  <2>3. Advanced(ri, copy1, copy2) = Addr(ri, n)
    BY <1>2, <1>4, <1>6, RingAdvanced
  <2>4. Zeroed(Zeroed(mem, ri, copy1), 0, copy2) = ZeroedAround(mem, ri, n)
    BY <1>2, <1>4, <1>6, RingZeroed
  <2>5. call.err = "SUCCESS" /\ call.len = n /\ call.data = RingOf(mem, ri, n)
        /\ call.wi = wi /\ call.ri = Addr(ri, n)
    BY <1>6, <2>1, <2>2, <2>3
  <2>6. call.full \in BOOLEAN /\ (call.full <=> full /\ n = 0)
    <3>1. call.full = (full /\ copy1 + copy2 = 0)
      BY <2>1
    <3>2. copy1 + copy2 = n
      BY <1>6
    <3> QED BY <3>1, <3>2
  <2>7. /\ call.mem = mem \/ call.mem = ZeroedAround(mem, ri, n)
        /\ "ZERO_MEM_ALWAYS" \in conf => call.mem = ZeroedAround(mem, ri, n)
    BY <2>1, <2>4
  <2>8. GetEffect(call, n)
    BY <2>5, <2>6, <2>7 DEF GetEffect
  <2> QED BY <1>11, <2>8 DEF call, n
<1> QED BY <1>10, <1>11

LEMMA ReadReturns ==
  ASSUME TypeOK, NEW len \in Nat, NEW offset \in Nat, NEW opts \in SUBSET GetOpts
  PROVE  Abs!ReadResult(len, offset, "NO_PARTIAL_READ" \in opts) =
           IF ReadError(len, offset, opts) = "SUCCESS"
           THEN Abs!Result("SUCCESS", SliceLen(len, offset), Abs!Slice(len, offset))
           ELSE Abs!Refused("NOT_ENOUGH_DATA", len)
<1>1. Len(Abs!Slice(len, offset)) = SliceLen(len, offset)
  BY SliceRing DEF SliceIsRing
<1>2. PICK whole \in Nat : whole = AddWhole(len)
  BY SizeAssumption DEF AddWhole, Least
<1>3. PICK rest \in Nat : rest = Readable(offset)
  <2>1. PICK fill \in Nat : fill = Fill
    BY Segmented, SizeAssumption DEF Segments
  <2>2. Readable(offset) = IF offset < fill THEN fill - offset ELSE 0
    BY <2>1 DEF Readable
  <2>3. (IF offset < fill THEN fill - offset ELSE 0) \in Nat
    BY <2>1
  <2> QED BY <2>2, <2>3
<1>4. Abs!Least(len, Word - 1) = whole
  BY <1>2 DEF Abs!Least, AddWhole, Least
<1>5. whole > SliceLen(len, offset) <=> whole > rest
  BY <1>2, <1>3 DEF SliceLen, Least
<1>6. Abs!Least(len, Word - 1) > Len(Abs!Slice(len, offset))
        <=> AddWhole(len) > Readable(offset)
  BY <1>1, <1>2, <1>3, <1>4, <1>5
<1> QED BY <1>1, <1>6 DEF Abs!ReadResult, ReadError

LEMMA GetReturns ==
  ASSUME TypeOK, NEW len \in Nat, NEW opts \in SUBSET GetOpts
  PROVE  /\ Outputs(GetCall(len, opts)) =
              Abs!GetResult(len, "NO_PARTIAL_READ" \in opts)
         /\ GetCall(len, opts).err = GetError(len, opts)
         /\ Abs!GetResult(len, "NO_PARTIAL_READ" \in opts).err = GetError(len, opts)
<1>1. 0 \in Nat /\ Addr(ri, 0) = ri /\ 0 <= Fill
  <2>1. Size \in Nat /\ ri \in 0..(Size - 1) /\ Fill \in 0..Size
    BY Segmented, SizeAssumption DEF Segments, TypeOK, Addresses
  <2> HIDE DEF Fill
  <2> QED BY <2>1 DEF Addr
<1>2. Abs!Slice(len, 0) = RingOf(mem, ri, SliceLen(len, 0))
  BY <1>1, SliceRing DEF SliceIsRing
<1>3. CASE "get" \in suspended
  <2>1. GetError(len, opts) = "SUSPENDED"
    BY <1>3 DEF GetError
  <2>2. GetCall(len, opts) = Refused("SUSPENDED", len)
    BY <2>1, GetAnswer
  <2>3. Abs!GetResult(len, "NO_PARTIAL_READ" \in opts) = Abs!Refused("SUSPENDED", len)
    BY <1>3 DEF Abs!GetResult
  <2> QED BY <2>1, <2>2, <2>3 DEF Outputs, Refused, Abs!Refused, Abs!Result
<1>4. CASE "get" \notin suspended
  <2>1. GetError(len, opts) = ReadError(len, 0, opts)
    BY <1>4 DEF GetError
  <2>2. Abs!GetResult(len, "NO_PARTIAL_READ" \in opts) =
          Abs!ReadResult(len, 0, "NO_PARTIAL_READ" \in opts)
    BY <1>4 DEF Abs!GetResult
  <2>3. CASE ReadError(len, 0, opts) = "SUCCESS"
    <3>1. GetEffect(GetCall(len, opts), SliceLen(len, 0))
      BY <2>1, <2>3, GetAnswer
    <3>2. Abs!GetResult(len, "NO_PARTIAL_READ" \in opts) =
            Abs!Result("SUCCESS", SliceLen(len, 0), Abs!Slice(len, 0))
      BY <1>1, <2>2, <2>3, ReadReturns
    <3> QED BY <1>2, <2>1, <2>3, <3>1, <3>2 DEF GetEffect, Outputs, Abs!Result
  <2>4. CASE ReadError(len, 0, opts) # "SUCCESS"
    <3>1. ReadError(len, 0, opts) = "NOT_ENOUGH_DATA"
      BY <2>4 DEF ReadError
    <3>2. GetCall(len, opts) = Refused("NOT_ENOUGH_DATA", len)
      BY <2>1, <3>1, GetAnswer
    <3>3. Abs!GetResult(len, "NO_PARTIAL_READ" \in opts) =
            Abs!Refused("NOT_ENOUGH_DATA", len)
      BY <1>1, <2>2, <2>4, ReadReturns
    <3> QED BY <2>1, <3>1, <3>2, <3>3 DEF Outputs, Refused, Abs!Refused, Abs!Result
  <2> QED BY <2>3, <2>4
<1> QED BY <1>3, <1>4

\* Bytes taken out round the ring, and zeroed or not.
Left(f, n) == f - n

TakeEffect(r, f, m, n, m2) ==
  /\ Addr(r, n) \in Addresses /\ Left(f, n) \in 0..Size
  /\ Addr(r, f) = Addr(Addr(r, n), Left(f, n))
  /\ m2 \in [Addresses -> Bytes]
  /\ RingOf(m2, Addr(r, n), Left(f, n)) =
       SubSeq(RingOf(m, r, f), n + 1, Len(RingOf(m, r, f)))
  /\ m2 = ZeroedAround(m, r, n) =>
       \A a \in Addresses :
         Off(Addr(r, n), a) >= Left(f, n) => m2[a] = 0 \/ (Off(r, a) >= f /\ m2[a] = m[a])

LEMMA RingTake ==
  ASSUME NEW r \in Addresses, NEW f \in 0..Size,
         NEW m \in [Addresses -> Bytes], NEW n \in 0..Size, n <= f,
         NEW m2, m2 = m \/ m2 = ZeroedAround(m, r, n)
  PROVE  TakeEffect(r, f, m, n, m2)
<1>1. Size \in Nat \ {0}
  BY SizeAssumption
<1>2. PICK left \in 0..Size : left = Left(f, n) /\ left = f - n
  BY <1>1 DEF Left
<1>3. Addr(r, n) \in Addresses
  BY RingAddr
<1>4. Addr(r, f) = Addr(Addr(r, n), left)
  <2>1. n + left = f /\ n + left <= Size
    BY <1>1, <1>2
  <2> QED BY <2>1, RingAdd
<1>5. \A a \in Addresses : m2[a] = m[a] \/ (Off(r, a) < n /\ m2[a] = 0)
  BY DEF ZeroedAround
<1>6. m2 \in [Addresses -> Bytes]
  <2>1. 0 \in Bytes
    BY SizeAssumption DEF Bytes
  <2>2. CASE m2 = m
    BY <2>2
  <2>3. CASE m2 = ZeroedAround(m, r, n)
    BY <2>1, <2>3 DEF ZeroedAround
  <2> QED BY <2>2, <2>3
<1> DEFINE old  == RingOf(m, r, f)
           tail == SubSeq(old, n + 1, Len(old))
           ring == RingOf(m2, Addr(r, n), left)
<1>7. /\ old \in Seq(Bytes) /\ Len(old) = f
      /\ \A i \in 1..f : old[i] = m[Addr(r, i - 1)]
  BY RingBytes
<1>8. /\ ring \in Seq(Bytes) /\ Len(ring) = left
      /\ \A i \in 1..left : ring[i] = m2[Addr(Addr(r, n), i - 1)]
  BY <1>2, <1>3, <1>6, RingBytes
<1> HIDE DEF old, ring
<1>9. /\ tail \in Seq(Bytes) /\ Len(tail) = left
      /\ \A i \in 1..left : tail[i] = old[n + i]
  <2>1. n \in Nat /\ f \in Nat
    BY <1>1
  <2>2. /\ tail \in Seq(Bytes)
        /\ Len(tail) = IF n < Len(old) THEN Len(old) - n ELSE 0
        /\ \A i \in 1..(Len(old) - n) : tail[i] = old[n + i]
    BY <1>7, <2>1, TailOfSeq
  <2> HIDE DEF tail
  <2>3. (IF n < f THEN f - n ELSE 0) = left
    BY <1>1, <1>2
  <2>4. Len(tail) = left
    BY <1>7, <2>2, <2>3
  <2>5. Len(old) - n = left
    BY <1>1, <1>2, <1>7
  <2> QED BY <2>2, <2>4, <2>5
<1> HIDE DEF tail
<1>10. ASSUME NEW i \in 1..left PROVE ring[i] = tail[i]
  <2>1. PICK k \in 1..f : k = n + i
    BY <1>1, <1>2
  <2>2. i - 1 \in 0..Size /\ k - 1 \in 0..Size /\ k - 1 < Size
        /\ n + (i - 1) <= Size /\ n + (i - 1) = k - 1 /\ ~(k - 1 < n)
    BY <1>1, <1>2, <2>1
  <2>3. Addr(Addr(r, n), i - 1) = Addr(r, k - 1)
    <3>1. Addr(Addr(r, n), i - 1) = Addr(r, n + (i - 1))
      BY <2>2, RingAdd
    <3> QED BY <2>2, <3>1
  <2>4. Addr(r, k - 1) \in Addresses /\ Off(r, Addr(r, k - 1)) = k - 1
    BY <2>2, RingAddr
  <2>5. m2[Addr(r, k - 1)] = m[Addr(r, k - 1)]
    BY <1>5, <2>2, <2>4
  <2>6. old[k] = m[Addr(r, k - 1)]
    BY <1>7
  <2>7. tail[i] = old[k]
    BY <1>9, <2>1
  <2> QED BY <1>8, <2>3, <2>5, <2>6, <2>7
<1>11. ring = tail
  BY <1>8, <1>9, <1>10, SeqEqual
<1>12. ASSUME NEW a \in Addresses, m2 = ZeroedAround(m, r, n),
              Off(Addr(r, n), a) >= left
       PROVE  m2[a] = 0 \/ (Off(r, a) >= f /\ m2[a] = m[a])
  <2>1. PICK o \in 0..(Size - 1) : o = Off(r, a)
    BY RingOff
  <2>2. Off(Addr(r, n), a) = IF o >= n THEN o - n ELSE o + Size - n
    BY <2>1, RingMove
  <2>3. m2[a] = IF o < n THEN 0 ELSE m[a]
    BY <1>12, <2>1 DEF ZeroedAround
  <2>4. CASE o < n
    BY <2>3, <2>4
  <2>5. CASE ~(o < n)
    <3>1. o - n >= left
      BY <1>1, <1>12, <2>1, <2>2, <2>5
    <3>2. o >= f
      BY <1>1, <1>2, <2>1, <3>1
    <3> QED BY <2>1, <2>3, <2>5, <3>2
  <2> QED BY <2>4, <2>5
<1> QED BY <1>2, <1>3, <1>4, <1>6, <1>11, <1>12 DEF TakeEffect, ring, tail, old

LEMMA GetStep ==
  ASSUME TypeOK, NEW len \in Nat, NEW opts \in SUBSET GetOpts, rbuf_get(len, opts)
  PROVE  /\ TypeOK' /\ (ZeroedRing => ZeroedRing')
         /\ Abs!Get(len, "NO_PARTIAL_READ" \in opts) \/ UNCHANGED Abs!absvars
<1>1. /\ ri' = GetCall(len, opts).ri /\ full' = GetCall(len, opts).full
      /\ mem' = GetCall(len, opts).mem
      /\ wi' = wi /\ suspended' = suspended /\ conf' = conf /\ next' = next
  BY DEF rbuf_get
<1>2. CASE GetError(len, opts) # "SUCCESS"
  <2>1. GetCall(len, opts) = Refused(GetError(len, opts), len)
    BY <1>2, GetAnswer
  <2>2. ri' = ri /\ full' = full /\ mem' = mem
    BY <1>1, <2>1 DEF Refused
  <2>3. Content' = Content /\ Fill' = Fill
    BY <1>1, <2>2, NothingChanged
  <2>4. TypeOK'
    BY <1>1, <2>2 DEF TypeOK
  <2>5. ZeroedRing => ZeroedRing'
    BY <1>1, <2>2, <2>3 DEF ZeroedRing
  <2>6. UNCHANGED Abs!absvars
    BY <1>1, <2>3 DEF Abs!absvars
  <2> QED BY <2>4, <2>5, <2>6
<1>3. CASE GetError(len, opts) = "SUCCESS"
  <2>1. GetEffect(GetCall(len, opts), SliceLen(len, 0))
    BY <1>3, GetAnswer
  <2>2. PICK fill \in 0..Size : fill = Fill
    BY Segmented DEF Segments
  <2>3. /\ Size \in Nat \ {0} /\ ri \in Addresses /\ mem \in [Addresses -> Bytes]
        /\ wi = Addr(ri, fill) /\ full \in BOOLEAN /\ (full <=> fill = Size)
    BY <2>2, Segmented, SizeAssumption DEF Segments, TypeOK
  <2>4. PICK n \in 0..Size : n = SliceLen(len, 0) /\ n <= fill
                             /\ Len(Abs!Slice(len, 0)) = n
    <3>1. SliceIsRing(len, 0)
      BY SliceRing
    <3>2. PICK whole \in Nat : whole = AddWhole(len)
      BY SizeAssumption DEF AddWhole, Least
    <3>3. Readable(0) = fill
      BY <2>2, <2>3 DEF Readable
    <3>4. SliceLen(len, 0) <= fill
      BY <2>2, <2>3, <3>2, <3>3 DEF SliceLen, Least
    <3> QED BY <3>1, <3>4 DEF SliceIsRing
  <2>5. /\ ri' = Addr(ri, n)
        /\ full' \in BOOLEAN /\ (full' <=> full /\ n = 0)
        /\ mem' = mem \/ mem' = ZeroedAround(mem, ri, n)
        /\ "ZERO_MEM_ALWAYS" \in conf => mem' = ZeroedAround(mem, ri, n)
    BY <1>1, <2>1, <2>4 DEF GetEffect
  <2>6. /\ Addr(ri, n) \in Addresses /\ Left(fill, n) \in 0..Size
        /\ Addr(ri, fill) = Addr(Addr(ri, n), Left(fill, n))
        /\ mem' \in [Addresses -> Bytes]
        /\ RingOf(mem', Addr(ri, n), Left(fill, n)) =
             SubSeq(RingOf(mem, ri, fill), n + 1, Len(RingOf(mem, ri, fill)))
        /\ mem' = ZeroedAround(mem, ri, n) =>
             \A a \in Addresses :
               Off(Addr(ri, n), a) >= Left(fill, n) =>
                 mem'[a] = 0 \/ (Off(ri, a) >= fill /\ mem'[a] = mem[a])
    <3> DEFINE m2 == mem'
    <3>1. /\ ri \in Addresses /\ mem \in [Addresses -> Bytes] /\ n <= fill
          /\ m2 = mem \/ m2 = ZeroedAround(mem, ri, n)
          /\ Size \in Nat \ {0} /\ n \in 0..Size /\ fill \in 0..Size
      BY <2>2, <2>3, <2>4, <2>5
    <3> HIDE DEF m2
    <3>2. TakeEffect(ri, fill, mem, n, m2)
      BY <3>1, RingTake
    <3>3. TakeEffect(ri, fill, mem, n, mem')
      BY <3>2 DEF m2
    <3> QED BY <3>3 DEF TakeEffect
  <2>7. full' <=> Left(fill, n) = Size
    BY <2>3, <2>4, <2>5 DEF Left
  <2>8. wi' \in Addresses /\ Fill' = Left(fill, n) /\ (full' => wi' = ri')
    <3>1. ri' \in Addresses /\ wi' = Addr(ri', Left(fill, n)) /\ full' \in BOOLEAN
      BY <1>1, <2>3, <2>5, <2>6
    <3> QED BY <2>6, <2>7, <3>1, Refilled
  <2>9. TypeOK'
    <3>1. suspended' \subseteq {"add", "get"} /\ next' \in 0..(Base - 1)
      BY <1>1 DEF TypeOK
    <3>2. full' \in BOOLEAN
      BY <2>5
    <3> QED BY <2>5, <2>6, <2>8, <3>1, <3>2 DEF TypeOK, Addresses, Bytes
  <2>10. Content' = SubSeq(Content, n + 1, Len(Content))
    <3>1. (TypeOK => ContentIsRing)'
      BY ContentRing, PTL
    <3>2. Content' = RingOf(mem', ri', Left(fill, n))
      BY <2>8, <2>9, <3>1 DEF ContentIsRing
    <3>3. Content = RingOf(mem, ri, fill)
      BY <2>2, ContentRing DEF ContentIsRing
    <3> QED BY <2>5, <2>6, <3>2, <3>3
  <2>11. ZeroedRing => ZeroedRing'
    <3>1. SUFFICES ASSUME ZeroedRing, "ZERO_MEM_ALWAYS" \in conf,
                          NEW a \in Addresses, Off(ri', a) >= Fill'
                   PROVE  mem'[a] = 0
      BY <1>1 DEF ZeroedRing, Addresses
    <3>2. mem'[a] = 0 \/ (Off(ri, a) >= fill /\ mem'[a] = mem[a])
      BY <2>5, <2>6, <2>8, <3>1
    <3> QED BY <2>2, <3>1, <3>2 DEF ZeroedRing
  <2>12. Abs!Get(len, "NO_PARTIAL_READ" \in opts)
    <3>1. Abs!GetResult(len, "NO_PARTIAL_READ" \in opts).err = "SUCCESS"
      BY <1>3, GetReturns
    <3> QED BY <1>1, <2>4, <2>10, <3>1 DEF Abs!Get
  <2> QED BY <2>9, <2>11, <2>12
<1> QED BY <1>2, <1>3

LEMMA ResetStep ==
  ASSUME TypeOK, NEW zero_memory \in BOOLEAN, rbuf_reset(zero_memory)
  PROVE  /\ TypeOK' /\ ZeroedRing' /\ Abs!Reset
<1>1. Size \in Nat \ {0} /\ mem \in [Addresses -> Bytes]
  BY SizeAssumption DEF TypeOK
<1>2. /\ wi' = 0 /\ ri' = 0 /\ conf' = conf /\ next' = next
      /\ mem' = IF zero_memory \/ "ZERO_MEM_ALWAYS" \in conf
                THEN Zeroed(mem, 0, Size) ELSE mem
  BY DEF rbuf_reset
<1>3. full' = FALSE
  BY DEF rbuf_reset
<1>4. Zeroed(mem, 0, Size) \in [Addresses -> Bytes]
      /\ \A a \in Addresses : Zeroed(mem, 0, Size)[a] = 0
  <2>1. 0 \in Bytes
    BY SizeAssumption DEF Bytes
  <2>2. \A a \in Addresses : 0 <= a /\ a < 0 + Size
    BY <1>1 DEF Addresses
  <2> QED BY <2>1, <2>2 DEF Zeroed
<1>5. wi' \in Addresses /\ Fill' = 0 /\ (full' => wi' = ri')
  <2>1. 0 \in 0..Size /\ 0 \in Addresses /\ Addr(0, 0) = 0 /\ 0 # Size
    BY <1>1 DEF Addresses, Addr
  <2>2. full' \in BOOLEAN /\ (full' <=> 0 = Size)
    BY <1>3, <2>1
  <2> QED BY <1>2, <2>1, <2>2, Refilled
<1>6. TypeOK'
  <2>1. ri' \in Addresses /\ mem' \in [Addresses -> Bytes]
    BY <1>1, <1>2, <1>4 DEF Addresses
  <2>2. suspended' \subseteq {"add", "get"}
    BY DEF rbuf_reset
  <2>3. next' \in 0..(Base - 1)
    BY <1>2 DEF TypeOK
  <2>4. full' \in BOOLEAN
    BY <1>3
  <2> QED BY <1>5, <2>1, <2>2, <2>3, <2>4 DEF TypeOK, Addresses, Bytes
<1>7. Content' = <<>>
  <2>1. (TypeOK => ContentIsRing)'
    BY ContentRing, PTL
  <2>2. Content' \in Seq(Bytes') /\ Len(Content') = 0
    BY <1>5, <1>6, <2>1 DEF ContentIsRing
  <2> QED BY <2>2, EmptySeq
<1>8. ZeroedRing'
  BY <1>2, <1>4 DEF ZeroedRing, Addresses
<1>9. Abs!Reset
  <2>1. suspended' = (IF "ADD_SUSPEND" \in conf THEN {"add"} ELSE {})
                       \cup (IF "GET_SUSPEND" \in conf THEN {"get"} ELSE {})
    BY DEF rbuf_reset
  <2> QED BY <1>2, <1>7, <2>1 DEF Abs!Reset, Abs!Configured
<1> QED BY <1>6, <1>8, <1>9

LEMMA SuspendedStep ==
  ASSUME TypeOK, NEW opts \in SUBSET SuspendOpts, rbuf_suspended_set(opts)
  PROVE  /\ TypeOK' /\ (ZeroedRing => ZeroedRing') /\ Abs!SuspendedSet(opts)
<1>1. /\ wi' = wi /\ ri' = ri /\ full' = full /\ mem' = mem /\ conf' = conf
      /\ next' = next
  BY DEF rbuf_suspended_set
<1>2. Content' = Content /\ Fill' = Fill
  BY <1>1, NothingChanged
<1>3. suspended' \subseteq {"add", "get"}
  BY DEF rbuf_suspended_set
<1>4. TypeOK'
  BY <1>1, <1>3 DEF TypeOK
<1>5. ZeroedRing => ZeroedRing'
  BY <1>1, <1>2 DEF ZeroedRing
<1> DEFINE on  == (IF "ADD_SUSPEND" \in opts THEN {"add"} ELSE {})
                    \cup (IF "GET_SUSPEND" \in opts THEN {"get"} ELSE {})
           off == (IF "ADD_RESUME" \in opts THEN {"add"} ELSE {})
                    \cup (IF "GET_RESUME" \in opts THEN {"get"} ELSE {})
<1>6. suspended' = (suspended \cup (on \ off)) \ (off \ on)
  <2>1. /\ "add" \in on <=> "ADD_SUSPEND" \in opts
        /\ "get" \in on <=> "GET_SUSPEND" \in opts
        /\ "add" \in off <=> "ADD_RESUME" \in opts
        /\ "get" \in off <=> "GET_RESUME" \in opts
        /\ on \subseteq {"add", "get"} /\ off \subseteq {"add", "get"}
    OBVIOUS
  <2>2. \A s : s \in suspended' <=>
          /\ s \in {"add", "get"}
          /\ LET suspend == (IF s = "add" THEN "ADD_SUSPEND" ELSE "GET_SUSPEND") \in opts
                 resume  == (IF s = "add" THEN "ADD_RESUME" ELSE "GET_RESUME") \in opts
             IN  IF suspend # resume THEN suspend ELSE s \in suspended
    BY DEF rbuf_suspended_set
  <2>3. suspended \subseteq {"add", "get"}
    BY DEF TypeOK
  <2> HIDE DEF on, off
  <2>4. "add" \in suspended' <=> "add" \in (suspended \cup (on \ off)) \ (off \ on)
    <3>1. "add" \in suspended' <=>
            IF ("ADD_SUSPEND" \in opts) # ("ADD_RESUME" \in opts)
            THEN "ADD_SUSPEND" \in opts ELSE "add" \in suspended
      BY <2>2
    <3> QED BY <2>1, <3>1
  <2>5. "get" \in suspended' <=> "get" \in (suspended \cup (on \ off)) \ (off \ on)
    <3>1. "get" \in suspended' <=>
            IF ("GET_SUSPEND" \in opts) # ("GET_RESUME" \in opts)
            THEN "GET_SUSPEND" \in opts ELSE "get" \in suspended
      BY <2>2
    <3> QED BY <2>1, <3>1
  <2> QED BY <1>3, <2>1, <2>3, <2>4, <2>5
<1>7. Abs!SuspendedSet(opts)
  <2>1. UNCHANGED <<conf, Content, next>>
    BY <1>1, <1>2
  <2> QED BY <1>6, <2>1 DEF Abs!SuspendedSet
<1> QED BY <1>4, <1>5, <1>7

-----------------------------------------------------------------------------
LEMMA InitTypeOK == Init => TypeOK /\ ZeroedRing
<1> SUFFICES ASSUME Init PROVE TypeOK /\ ZeroedRing
  OBVIOUS
<1>1. Size \in Nat \ {0} /\ Base \in Nat \ {0}
  BY SizeAssumption
<1>2. full = FALSE
  BY DEF Init
<1>3. full \in BOOLEAN /\ (full => wi = ri)
  BY <1>2
<1>4. TypeOK
  BY <1>1, <1>3 DEF Init, TypeOK, Addresses, Bytes
<1>5. ZeroedRing
  BY DEF Init, ZeroedRing
<1> QED BY <1>4, <1>5

\* Every step, in one statement.
LEMMA Step ==
  ASSUME TypeOK, [Next]_vars
  PROVE  TypeOK' /\ (ZeroedRing => ZeroedRing') /\ [Abs!AbsNext]_(Abs!absvars)
<1>0. Lengths \subseteq Nat
  BY SizeAssumption
<1>1. ASSUME NEW len \in Lengths, NEW opts \in SUBSET AddOpts, rbuf_add(len, opts)
      PROVE  TypeOK' /\ (ZeroedRing => ZeroedRing') /\ [Abs!AbsNext]_(Abs!absvars)
  <2>1. /\ TypeOK' /\ (ZeroedRing => ZeroedRing')
        /\ Abs!Add(len, opts) \/ UNCHANGED Abs!absvars
    BY <1>0, <1>1, AddStep
  <2>2. opts \in SUBSET Abs!AddOpts
    BY DEF AddOpts, Abs!AddOpts
  <2> QED BY <2>1, <2>2 DEF Abs!AbsNext
<1>2. ASSUME NEW len \in Lengths, NEW opts \in SUBSET GetOpts, rbuf_get(len, opts)
      PROVE  TypeOK' /\ (ZeroedRing => ZeroedRing') /\ [Abs!AbsNext]_(Abs!absvars)
  <2>1. /\ TypeOK' /\ (ZeroedRing => ZeroedRing')
        /\ Abs!Get(len, "NO_PARTIAL_READ" \in opts) \/ UNCHANGED Abs!absvars
    BY <1>0, <1>2, GetStep
  <2>2. ("NO_PARTIAL_READ" \in opts) \in BOOLEAN
    OBVIOUS
  <2> QED BY <2>1, <2>2 DEF Abs!AbsNext
<1>3. ASSUME NEW zero_memory \in BOOLEAN, rbuf_reset(zero_memory)
      PROVE  TypeOK' /\ (ZeroedRing => ZeroedRing') /\ [Abs!AbsNext]_(Abs!absvars)
  BY <1>3, ResetStep DEF Abs!AbsNext
<1>4. ASSUME NEW opts \in SUBSET SuspendOpts, rbuf_suspended_set(opts)
      PROVE  TypeOK' /\ (ZeroedRing => ZeroedRing') /\ [Abs!AbsNext]_(Abs!absvars)
  <2>1. TypeOK' /\ (ZeroedRing => ZeroedRing') /\ Abs!SuspendedSet(opts)
    BY <1>4, SuspendedStep
  <2>2. opts \in SUBSET Abs!SuspendOpts
    BY DEF SuspendOpts, Abs!SuspendOpts
  <2> QED BY <2>1, <2>2 DEF Abs!AbsNext
<1>5. CASE UNCHANGED vars
  <2>1. /\ wi' = wi /\ ri' = ri /\ full' = full /\ mem' = mem /\ conf' = conf
        /\ next' = next /\ suspended' = suspended
    BY <1>5 DEF vars
  <2>2. Content' = Content /\ Fill' = Fill
    BY <2>1, NothingChanged
  <2>3. TypeOK'
    BY <2>1 DEF TypeOK
  <2>4. ZeroedRing => ZeroedRing'
    BY <2>1, <2>2 DEF ZeroedRing
  <2>5. UNCHANGED Abs!absvars
    BY <2>1, <2>2 DEF Abs!absvars
  <2> QED BY <2>3, <2>4, <2>5
<1> QED BY <1>1, <1>2, <1>3, <1>4, <1>5 DEF Next

\* The indices stay within the buffer and the full flag set only where they
\* meet, for a buffer of any size, with any options and after any calls.
THEOREM TypeCorrect == Spec => []TypeOK
<1>1. Init => TypeOK
  BY InitTypeOK
<1>2. TypeOK /\ [Next]_vars => TypeOK'
  BY Step
<1> QED BY <1>1, <1>2, PTL DEF Spec

\* Every step of the ring buffer is a step of the queue of rbuf.h on the
\* bytes it holds and on its suspension, or changes nothing of them: the bytes
\* leave in the order they came in, whatever is overwritten and wherever the
\* indices wrap.  Without a suspension in its configuration the buffer starts
\* as the queue does.
THEOREM QueueImplemented == Spec => ImplementsQueue
<1>1. Init => (Abs!AbsInit <=> Abs!Configured = {})
  <2> SUFFICES ASSUME Init PROVE Abs!AbsInit <=> Abs!Configured = {}
    OBVIOUS
  <2>1. Content = <<>>
    <3>1. TypeOK
      BY InitTypeOK
    <3>2. Size \in Nat \ {0}
      BY SizeAssumption
    <3>3. wi = 0 /\ ri = 0
      BY DEF Init
    <3>4. full = FALSE
      BY DEF Init
    <3>5. ~Wrapped
      BY <3>3, <3>4 DEF Wrapped
    <3>6. Used1 = 0 /\ Used2 = 0
      BY <3>3, <3>5 DEF Used1, Used2
    <3>7. Len(Content) = 0 /\ Content \in Seq(Bytes)
      BY <3>1, <3>6, ContentRing DEF ContentIsRing, Fill
    <3> QED BY <3>7, EmptySeq
  <2>2. suspended = {}
    BY DEF Init
  <2> QED BY <2>1, <2>2 DEF Init, Abs!AbsInit
<1>2. TypeOK /\ [Next]_vars => [Abs!AbsNext]_(Abs!absvars)
  BY Step
<1> QED BY <1>1, <1>2, TypeCorrect, PTL DEF Spec, ImplementsQueue

\* rbuf_add and rbuf_get answer with the error code, the length and the bytes
\* the queue answers with, in every reachable state and for every length, and
\* the sizes rbuf_sizes_get reports are those of what rbuf_get can take and of
\* what rbuf_add can put in.
THEOREM ReturnsCorrect == Spec => []AddGetAndSizesReturn
<1>1. TypeOK => AddGetAndSizesReturn
  <2> SUFFICES ASSUME TypeOK PROVE AddGetAndSizesReturn
    OBVIOUS
  <2>1. Lengths \subseteq Nat /\ Abs!AddOpts = AddOpts
    BY SizeAssumption DEF AddOpts, Abs!AddOpts
  <2>2. /\ Size \in Nat \ {0} /\ wi \in 0..(Size - 1) /\ ri \in 0..(Size - 1)
    BY SizeAssumption DEF TypeOK, Addresses
  <2>3. Free = Size - Fill /\ Len(Content) = Fill
    BY Segmented, ContentRing DEF Segments, ContentIsRing
  <2>4. SizesUsed = Fill
    <3>1. CASE Wrapped
      BY <2>2, <3>1 DEF SizesUsed, Fill, Used1, Used2
    <3>2. CASE ~Wrapped
      BY <2>2, <3>2 DEF SizesUsed, Fill, Used1, Used2
    <3> QED BY <3>1, <3>2
  <2>5. SizesReturn
    BY <2>2, <2>3, <2>4 DEF SizesReturn, Fill, Used1, Used2
  <2> QED BY <2>1, <2>5, AddReturns, GetReturns DEF AddGetAndSizesReturn
<1> QED BY <1>1, TypeCorrect, PTL

\* In a buffer with RBUF_FLAG_ZERO_MEM_ALWAYS every byte outside the filled
\* segments is 0 in every reachable state: nothing that was taken out, dropped
\* or reset stays in memory.
THEOREM ZeroingCorrect == Spec => []TakenBytesZeroed
<1>1. Init => ZeroedRing
  BY InitTypeOK
<1>2. TypeOK /\ ZeroedRing /\ [Next]_vars => ZeroedRing'
  BY Step
<1>3. TypeOK /\ ZeroedRing => TakenBytesZeroed
  BY ZeroedIsRing
<1> QED BY <1>1, <1>2, <1>3, TypeCorrect, PTL DEF Spec

-----------------------------------------------------------------------------
(***************************************************************************)
(* rbuf_peek: right as long as the addresses it computes in uint16_t do    *)
(* not wrap.                                                               *)
(***************************************************************************)
LEMMA PeekAnswer ==
  ASSUME TypeOK, 2 * Size <= Word + 1,
         NEW len \in Nat, NEW offset \in Nat, NEW opts \in SUBSET GetOpts
  PROVE  PeekCall(len, offset, opts) =
           IF "get" \in suspended THEN Refused("SUSPENDED", len)
           ELSE IF "NO_PEEKING" \in conf THEN Refused("NOT_ALLOWED", len)
           ELSE IF ReadError(len, offset, opts) # "SUCCESS"
                THEN Refused("NOT_ENOUGH_DATA", len)
           ELSE [Refused("SUCCESS", SliceLen(len, offset)) EXCEPT
                   !.data = Abs!Slice(len, offset)]
<1> DEFINE whole == AddWhole(len)
           off   == Least(offset, Word - 1)
           used1 == Greatest(Used1, off) - off
           used2 == PeekUsed2(used1, off)
           copy1 == Least(whole, used1)
           copy2 == Least(whole - copy1, used2)
           addr1 == (ri + off) % Word
           addr2 == Greatest(addr1, Size) - Size
           n     == SliceLen(len, offset)
<1>1. PICK w \in Nat : w = whole
  BY SizeAssumption DEF AddWhole, Least
<1>2. PICK fill \in 0..Size : fill = Fill
  BY Segmented DEF Segments
<1>3. /\ Size \in Nat \ {0} /\ Word \in Nat /\ Size < Word /\ ri \in 0..(Size - 1)
      /\ ri \in Addresses /\ mem \in [Addresses -> Bytes]
      /\ Used1 = Least(fill, Size - ri) /\ Used2 = fill - Used1
  BY <1>2, Segmented, SizeAssumption DEF Segments, TypeOK, Addresses
<1>4. PICK u1 \in Nat, u2 \in Nat :
        /\ u1 = Used1 /\ u2 = Used2 /\ u1 + u2 = fill
        /\ u1 = IF fill < Size - ri THEN fill ELSE Size - ri
  <2> DEFINE u == IF fill < Size - ri THEN fill ELSE Size - ri
  <2>1. u \in Nat /\ fill - u \in Nat
    BY <1>3
  <2>2. Used1 = u
    BY <1>3 DEF Least
  <2>3. Used2 = fill - u
    BY <1>3, <2>2
  <2>4. u + (fill - u) = fill
    BY <1>3, <2>1
  <2> QED BY <2>1, <2>2, <2>3, <2>4
<1>5. PICK o \in Nat : o = off /\ (offset < fill => o = offset)
                       /\ (~(offset < fill) => ~(o < fill))
  BY <1>3 DEF Least
<1> HIDE DEF whole, off
<1>6. used1 = (IF o < u1 THEN u1 - o ELSE 0) /\ used2 = IF o < fill THEN fill - o - used1 ELSE 0
  <2>1. used1 = IF o < u1 THEN u1 - o ELSE 0
    BY <1>4, <1>5 DEF Greatest
  <2> HIDE DEF used1
  <2>2. used2 = (IF u1 + u2 - used1 > o THEN u1 + u2 - used1 ELSE o) - o
    BY <1>4, <1>5 DEF PeekUsed2, Greatest
  <2>3. CASE o < u1
    <3>1. used1 = u1 - o
      BY <2>1, <2>3
    <3>2. u1 + u2 - used1 = u2 + o
      BY <3>1
    <3>3. used2 = u2
      <4>1. PICK x \in Nat : x = u1 + u2 - used1 /\ x = u2 + o
        BY <3>2
      <4>2. used2 = (IF x > o THEN x ELSE o) - o
        BY <2>2, <4>1, Zenon
      <4> QED BY <4>1, <4>2
    <3>4. o < fill /\ fill - o - used1 = u2
      BY <1>3, <1>4, <2>3, <3>1
    <3> QED BY <2>1, <3>3, <3>4
  <2>4. CASE ~(o < u1)
    <3>1. used1 = 0
      BY <2>1, <2>4
    <3>2. u1 + u2 - used1 = fill
      BY <1>3, <1>4, <3>1
    <3>3. used2 = (IF fill > o THEN fill ELSE o) - o
      BY <2>2, <3>2, Zenon
    <3>4. used2 = IF o < fill THEN fill - o ELSE 0
      BY <1>3, <3>3
    <3>5. fill - o - used1 = fill - o
      BY <1>3, <3>1
    <3> QED BY <2>1, <3>4, <3>5
  <2> QED BY <2>1, <2>3, <2>4
<1> HIDE DEF used1, used2
<1>7. PICK rest \in Nat : rest = Readable(offset) /\ rest = used1 + used2
                          /\ rest = IF o < fill THEN fill - o ELSE 0
  <2> DEFINE r == IF o < fill THEN fill - o ELSE 0
  <2>1. r \in Nat
    BY <1>3
  <2>2. Readable(offset) = IF offset < fill THEN fill - offset ELSE 0
    BY <1>2, <1>3 DEF Readable
  <2>3. Readable(offset) = r
    BY <1>3, <1>5, <2>2
  <2>4. used1 + used2 = r
    <3>1. CASE o < u1
      BY <1>3, <1>4, <1>6, <3>1
    <3>2. CASE ~(o < u1)
      BY <1>3, <1>4, <1>6, <3>2
    <3> QED BY <3>1, <3>2
  <2> QED BY <2>1, <2>3, <2>4
<1>8. used1 \in Nat /\ used2 \in Nat
  <2>1. CASE o < u1
    BY <1>3, <1>4, <1>6, <2>1
  <2>2. CASE ~(o < u1)
    BY <1>3, <1>4, <1>6, <2>2
  <2> QED BY <2>1, <2>2
<1>9. copy1 + copy2 = n /\ n \in Nat /\ n = Least(rest, w) /\ n <= rest
  BY <1>1, <1>7, <1>8 DEF SliceLen, Least, whole
<1> HIDE DEF n
<1>10. n \in 0..Size
  BY <1>3, <1>7, <1>9
<1>11. Copied(addr1, copy1) \o Copied(addr2, copy2) = Abs!Slice(len, offset)
  <2>1. SliceIsRing(len, offset)
    BY SliceRing
  <2>2. CASE ~(o < fill)
    <3>1. n = 0 /\ copy1 = 0 /\ copy2 = 0
      BY <1>1, <1>3, <1>4, <1>6, <1>7, <1>8, <1>9, <2>2 DEF Least
    <3>2. Abs!Slice(len, offset) = <<>>
      BY <2>1, <3>1 DEF SliceIsRing, n
    <3>3. Copied(addr1, copy1) = <<>> /\ Copied(addr2, copy2) = <<>>
      BY <3>1, NoBytes
    <3> QED BY <3>2, <3>3
  <2>3. CASE o < fill
    <3>1. o = offset /\ offset <= Fill /\ o \in 0..Size
      <4>1. offset < fill
        BY <1>5, <2>3
      <4> QED BY <1>2, <1>3, <1>5, <4>1
    <3> DEFINE r2 == Addr(ri, o)
    <3>2. Abs!Slice(len, offset) = RingOf(mem, r2, n)
      BY <2>1, <3>1 DEF SliceIsRing, n
    <3>3. r2 \in Addresses /\ r2 \in 0..(Size - 1)
      BY <1>3, <3>1, RingAddr DEF Addresses
    <3>4. r2 = IF ri + o < Size THEN ri + o ELSE ri + o - Size
      BY DEF Addr
    <3>5. addr1 = ri + o
      <4>1. ri + o \in 0..(Word - 1)
        BY <1>3, <2>3
      <4>2. (ri + o) % Word = ri + o
        BY <1>3, <4>1
      <4> QED BY <1>5, <4>2
    <3> HIDE DEF r2, addr1
    <3>6. CASE ri + o < Size
      <4>1. r2 = ri + o /\ addr1 = r2 /\ addr2 = 0
        BY <1>3, <3>4, <3>5, <3>6 DEF Greatest
      <4>2. copy1 = Least(n, Size - r2) /\ copy2 = n - copy1
        <5>1. o < u1
          BY <1>3, <1>4, <2>3, <3>6
        <5>2. used1 = u1 - o
          BY <1>6, <5>1
        <5>3. rest = fill - o
          BY <1>7, <2>3
        <5>4. copy1 = IF w < u1 - o THEN w ELSE u1 - o
          BY <1>1, <1>4, <5>2 DEF Least
        <5>5. n = IF fill - o < w THEN fill - o ELSE w
          BY <1>1, <1>9, <5>3 DEF Least
        <5>6. Size - r2 = Size - ri - o
          BY <1>3, <4>1
        <5>7. copy1 = IF n < Size - ri - o THEN n ELSE Size - ri - o
          <6> HIDE DEF copy1
          <6>1. CASE fill < Size - ri
            <7>1. u1 = fill /\ fill - o \in Nat /\ fill - o < Size - ri - o
              BY <1>3, <1>4, <2>3, <6>1
            <7>2. copy1 = IF w < fill - o THEN w ELSE fill - o
              BY <5>4, <7>1
            <7>3. copy1 = n /\ n <= fill - o
              BY <5>5, <7>1, <7>2
            <7>4. n < Size - ri - o
              BY <1>3, <1>9, <7>1, <7>3
            <7> QED BY <7>3, <7>4
          <6>2. CASE ~(fill < Size - ri)
            BY <1>3, <1>4, <2>3, <3>6, <5>4, <5>5, <6>2
          <6> QED BY <6>1, <6>2
        <5>8. copy1 = Least(n, Size - r2)
          <6> HIDE DEF copy1
          <6> QED BY <5>6, <5>7 DEF Least
        <5>9. copy1 \in Nat /\ copy2 \in Nat
          BY <1>1, <1>8 DEF Least
        <5>10. copy2 = n - copy1
          <6> HIDE DEF copy1, copy2
          <6> QED BY <1>9, <5>9
        <5> QED BY <5>8, <5>10
      <4> HIDE DEF copy1, copy2, addr2
      <4>3. Copied(r2, copy1) \o Copied(0, copy2) = RingOf(mem, r2, n)
        BY <1>3, <1>10, <3>3, <4>2, SegmentsAreRing
      <4> QED BY <3>2, <4>1, <4>3
    <3>7. CASE ~(ri + o < Size)
      <4>1. r2 = ri + o - Size /\ addr2 = r2
        BY <1>3, <3>4, <3>5, <3>7 DEF Greatest
      <4>2. ~(o < u1)
        BY <1>3, <1>4, <2>3, <3>7
      <4>3. copy1 = 0 /\ copy2 = n
        <5>1. used1 = 0
          BY <1>6, <4>2
        <5>2. copy1 = 0
          BY <1>1, <5>1 DEF Least
        <5> QED BY <1>1, <1>8, <1>9, <5>2 DEF Least
      <4> HIDE DEF copy1, copy2, addr2
      <4>4. n = Least(n, Size - r2) /\ 0 = n - n
        <5>1. rest = fill - o
          BY <1>7, <2>3
        <5>2. Size - r2 = Size - ri + Size - o
          BY <1>3, <4>1
        <5>3. n <= Size - r2 /\ Size - r2 \in Int
          BY <1>3, <1>9, <2>3, <5>1, <5>2
        <5> QED BY <1>9, <5>3 DEF Least
      <4>5. Copied(r2, n) \o Copied(0, 0) = RingOf(mem, r2, n)
        <5>1. /\ n \in 0..Size /\ r2 \in Addresses /\ mem \in [Addresses -> Bytes]
              /\ n = Least(n, Size - r2) /\ 0 = n - n
          BY <1>3, <1>10, <3>3, <4>4
        <5> QED BY <5>1, SegmentsAreRing
      <4>6. Copied(r2, n) \in Seq(Bytes)
        BY <1>3, <1>7, <1>9, <2>3, <3>3, <4>1, CopiedBytes
      <4>7. Copied(r2, n) = RingOf(mem, r2, n)
        BY <4>5, <4>6, NoBytes, ConcatEmptySeq
      <4>8. Copied(addr1, copy1) \o Copied(addr2, copy2) = Copied(r2, n)
        BY <4>1, <4>3, <4>6, NoBytes, ConcatEmptySeq
      <4> QED BY <3>2, <4>7, <4>8
    <3> QED BY <3>6, <3>7
  <2> QED BY <2>2, <2>3
<1>12. PeekCall(len, offset, opts) =
         IF "get" \in suspended THEN Refused("SUSPENDED", len)
         ELSE IF "NO_PEEKING" \in conf THEN Refused("NOT_ALLOWED", len)
         ELSE IF "NO_PARTIAL_READ" \in opts /\ whole > used1 + used2
              THEN Refused("NOT_ENOUGH_DATA", len)
         ELSE [Refused("SUCCESS", copy1 + copy2) EXCEPT
                 !.data = Copied(addr1, copy1) \o Copied(addr2, copy2)]
  BY DEF PeekCall, AddWhole, whole, off, used1, used2
<1>13. whole > used1 + used2 <=> AddWhole(len) > Readable(offset)
  BY <1>7 DEF whole
<1>14. ReadError(len, offset, opts) # "SUCCESS"
         <=> "NO_PARTIAL_READ" \in opts /\ whole > used1 + used2
  BY <1>13 DEF ReadError
<1> HIDE DEF copy1, copy2, addr1, addr2
<1> QED BY <1>9, <1>11, <1>12, <1>14 DEF n

\* rbuf_peek returns the bytes of the queue from the offset on, in a buffer of
\* at most half of what a uint16_t counts: its addresses are uint16_t and
\* wrap in a larger one.
THEOREM PeekCorrect ==
  ASSUME 2 * Size <= Word + 1
  PROVE  Spec => []PeekReturnsContent
<1>1. TypeOK => PeekReturnsContent
  <2> SUFFICES ASSUME TypeOK, NEW len \in Lengths, NEW offset \in Lengths,
                      NEW opts \in SUBSET GetOpts
               PROVE  Outputs(PeekCall(len, offset, opts)) =
                        Abs!PeekResult(len, offset, "NO_PARTIAL_READ" \in opts)
    BY DEF PeekReturnsContent
  <2> DEFINE call   == PeekCall(len, offset, opts)
             result == Abs!PeekResult(len, offset, "NO_PARTIAL_READ" \in opts)
             read   == Abs!ReadResult(len, offset, "NO_PARTIAL_READ" \in opts)
  <2>1. len \in Nat /\ offset \in Nat
    BY SizeAssumption
  <2>2. call = IF "get" \in suspended THEN Refused("SUSPENDED", len)
               ELSE IF "NO_PEEKING" \in conf THEN Refused("NOT_ALLOWED", len)
               ELSE IF ReadError(len, offset, opts) # "SUCCESS"
                    THEN Refused("NOT_ENOUGH_DATA", len)
               ELSE [Refused("SUCCESS", SliceLen(len, offset)) EXCEPT
                       !.data = Abs!Slice(len, offset)]
    BY <2>1, PeekAnswer
  <2>3. result = IF "get" \in suspended THEN Abs!Refused("SUSPENDED", len)
                 ELSE IF "NO_PEEKING" \in conf THEN Abs!Refused("NOT_ALLOWED", len)
                 ELSE read
    BY DEF Abs!PeekResult
  <2>4. read = IF ReadError(len, offset, opts) = "SUCCESS"
               THEN Abs!Result("SUCCESS", SliceLen(len, offset), Abs!Slice(len, offset))
               ELSE Abs!Refused("NOT_ENOUGH_DATA", len)
    BY <2>1, ReadReturns
  <2> HIDE DEF call, result, read
  <2>5. CASE "get" \in suspended
    BY <2>2, <2>3, <2>5 DEF Outputs, Refused, Abs!Refused, Abs!Result, call, result
  <2>6. CASE "get" \notin suspended /\ "NO_PEEKING" \in conf
    BY <2>2, <2>3, <2>6 DEF Outputs, Refused, Abs!Refused, Abs!Result, call, result
  <2>7. CASE "get" \notin suspended /\ "NO_PEEKING" \notin conf
    <3>1. CASE ReadError(len, offset, opts) # "SUCCESS"
      <4>1. call = Refused("NOT_ENOUGH_DATA", len)
        BY <2>2, <2>7, <3>1
      <4>2. result = Abs!Refused("NOT_ENOUGH_DATA", len)
        BY <2>3, <2>4, <2>7, <3>1
      <4> QED BY <4>1, <4>2 DEF Outputs, Refused, Abs!Refused, Abs!Result, call, result
    <3>2. CASE ReadError(len, offset, opts) = "SUCCESS"
      <4>1. call = [Refused("SUCCESS", SliceLen(len, offset)) EXCEPT
                      !.data = Abs!Slice(len, offset)]
        BY <2>2, <2>7, <3>2
      <4>2. result = Abs!Result("SUCCESS", SliceLen(len, offset), Abs!Slice(len, offset))
        BY <2>3, <2>4, <2>7, <3>2
      <4> QED BY <4>1, <4>2 DEF Outputs, Refused, Abs!Result, call, result
    <3> QED BY <3>1, <3>2
  <2> QED BY <2>5, <2>6, <2>7
<1> QED BY <1>1, TypeCorrect, PTL
=============================================================================
