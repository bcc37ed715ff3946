--------------------------- MODULE RttRing_proofs ---------------------------
(***************************************************************************)
(* For every size of the rings, every length of the streams, any number of *)
(* failing accesses and however the accesses of the two sides fall: each   *)
(* ring is a queue, and no byte is lost, repeated or put out of order but  *)
(* those a call reported as failed accounts for.  And for every memory and *)
(* size of block, the search finds the first control block there is.       *)
(***************************************************************************)
EXTENDS RttRing, InductionFacts, SequenceTheorems, FiniteSetTheorems, TLAPS

LEMMA Sizes == Size \in Nat /\ Size > 1 /\ MaxUp \in Nat /\ MaxDown \in Nat /\ MaxFaults \in Nat
BY RingAssumption

-----------------------------------------------------------------------------
(* Arithmetic round the ring, without the modulus. *)

Wrap(k) == IF k >= Size THEN k - Size ELSE k
Dist(a, b) == IF b >= a THEN b - a ELSE b - a + Size

LEMMA Modulus ==
  ASSUME NEW k \in 0..(2 * Size - 1)
  PROVE  k % Size = Wrap(k) /\ Wrap(k) \in Slots
<1>1. CASE k < Size
  BY <1>1, Sizes DEF Wrap, Slots
<1>2. CASE k >= Size
  <2>1. k - Size \in 0..(Size - 1)
    BY <1>2, Sizes
  <2>2. (k - Size) % Size = k - Size
    BY <2>1, Sizes
  <2>3. k % Size = (k - Size) % Size
    BY <1>2, Sizes
  <2> QED BY <1>2, <2>1, <2>2, <2>3 DEF Wrap, Slots
<1> QED BY <1>1, <1>2, Sizes

Ring == [slot : [Slots -> Nat], wr : Slots, rd : Slots]

LEMMA Distances ==
  ASSUME NEW a \in Slots, NEW b \in Slots
  PROVE  /\ (b + Size - a) % Size = Dist(a, b) /\ Dist(a, b) \in Slots
         /\ Wrap(a + Dist(a, b)) = b
         /\ Dist(a, b) = 0 <=> a = b
         /\ \A k \in Slots : Wrap(a + k) \in Slots /\ Dist(a, Wrap(a + k)) = k
<1>1. b + Size - a \in 0..(2 * Size - 1) /\ a \in Nat /\ b \in Nat /\ a < Size /\ b < Size
  BY Sizes DEF Slots
<1>2. (b + Size - a) % Size = Wrap(b + Size - a) /\ Wrap(b + Size - a) \in Slots
  BY <1>1, Modulus
<1>3. Wrap(b + Size - a) = Dist(a, b)
  BY <1>1, Sizes DEF Wrap, Dist
<1> QED BY <1>1, <1>2, <1>3, Sizes DEF Wrap, Dist, Slots

\* The bytes between the offsets of a ring.
LEMMA RingContents ==
  ASSUME NEW r \in Ring
  PROVE  /\ Pending(r) = Dist(r.rd, r.wr) /\ Pending(r) \in Slots
         /\ Free(r) = Size - 1 - Pending(r)
         /\ Contents(r) \in Seq(Nat) /\ Len(Contents(r)) = Pending(r)
         /\ \A k \in 1..Pending(r) : Contents(r)[k] = r.slot[Wrap(r.rd + k - 1)]
<1>1. r.rd \in Slots /\ r.wr \in Slots /\ r.slot \in [Slots -> Nat]
  BY DEF Ring
<1>2. Pending(r) = Dist(r.rd, r.wr) /\ Pending(r) \in Slots
  BY <1>1, Distances DEF Pending
<1>3. ASSUME NEW k \in 1..Pending(r)
      PROVE  /\ (r.rd + k - 1) % Size = Wrap(r.rd + k - 1) /\ Wrap(r.rd + k - 1) \in Slots
  <2>1. r.rd + k - 1 \in 0..(2 * Size - 1)
    BY <1>1, <1>2, <1>3, Sizes DEF Slots
  <2> QED BY <2>1, Modulus
<1>4. \A k \in 1..Pending(r) : Contents(r)[k] = r.slot[Wrap(r.rd + k - 1)] /\ Contents(r)[k] \in Nat
  BY <1>1, <1>3 DEF Contents
<1>5. Pending(r) \in Nat
  BY <1>2, Sizes DEF Slots
<1>6. Contents(r) \in Seq(Nat) /\ Len(Contents(r)) = Pending(r)
  <2>1. Contents(r) \in [1..Pending(r) -> Nat]
    BY <1>4 DEF Contents
  <2> QED BY <1>5, <2>1, SeqDef
<1> QED BY <1>2, <1>4, <1>6 DEF Free

\* Two rings with as many bytes between their offsets and the same bytes.
LEMMA SameContents ==
  ASSUME NEW r \in Ring, NEW s \in Ring, Pending(r) = Pending(s),
         \A k \in 1..Pending(r) : r.slot[Wrap(r.rd + k - 1)] = s.slot[Wrap(s.rd + k - 1)]
  PROVE  Contents(r) = Contents(s)
<1>1. \A k \in 1..Pending(r) : Contents(r)[k] = Contents(s)[k]
  BY RingContents
<1>2. Len(Contents(r)) = Len(Contents(s)) /\ Contents(r) \in Seq(Nat) /\ Contents(s) \in Seq(Nat)
  BY RingContents
<1>3. Len(Contents(r)) = Pending(r)
  BY RingContents
<1> QED BY <1>1, <1>2, <1>3, SeqEqual

-----------------------------------------------------------------------------
(* The reader of a ring: a call that has copied the first bytes of what it *)
(* read to be in it.                                                       *)

Call == [at : {"idle", "copy", "detached"}, op : {"none", "read", "write", "drain", "fill"},
         wr : Slots, rd : Slots, off : Slots, data : Seq(Nat), done : Nat]

Reading(c, r) ==
  /\ c.rd = r.rd /\ c.wr # c.rd
  /\ Dist(r.rd, c.off) <= Dist(r.rd, c.wr)
  /\ Dist(r.rd, c.wr) <= Pending(r)
  /\ Len(c.data) = Dist(r.rd, c.off)
  /\ \A k \in 1..Len(c.data) : c.data[k] = Contents(r)[k]

\* The next run: from an offset to "end" without a wrap.
RunEnd(c) == IF c.wr > c.off THEN c.wr ELSE Size
ReadOn(c, r) == [c EXCEPT !.data = @ \o Copy(r, c.off, RunEnd(c) - c.off),
                          !.off = RunEnd(c) % Size]

LEMMA CopyRun ==
  ASSUME NEW r \in Ring, NEW off \in Slots, NEW n \in Nat, off + n <= Size
  PROVE  /\ Copy(r, off, n) \in Seq(Nat) /\ Len(Copy(r, off, n)) = n
         /\ \A k \in 1..n : Copy(r, off, n)[k] = r.slot[off + k - 1]
<1>1. \A k \in 1..n : off + k - 1 \in Slots
  BY Sizes DEF Slots
<1>2. Copy(r, off, n) \in [1..n -> Nat]
  BY <1>1 DEF Copy, Ring
<1>3. Copy(r, off, n) \in Seq(Nat) /\ Len(Copy(r, off, n)) = n
  BY <1>2, SeqDef
<1> QED BY <1>3 DEF Copy

LEMMA RunForward ==
  ASSUME NEW rd \in Slots, NEW off \in Slots, NEW wr \in Slots, NEW n \in Nat,
         Dist(rd, off) <= Dist(rd, wr),
         (wr > off /\ n = wr - off) \/ (wr < off /\ n = Size - off)
  PROVE  /\ Dist(rd, Wrap(off + n)) = Dist(rd, off) + n
         /\ Dist(rd, Wrap(off + n)) <= Dist(rd, wr)
         /\ \A k \in (Dist(rd, off) + 1)..(Dist(rd, off) + n) :
              Wrap(rd + k - 1) = off + (k - Dist(rd, off)) - 1
<1>1. rd \in Nat /\ off \in Nat /\ wr \in Nat /\ rd < Size /\ off < Size /\ wr < Size
  BY Sizes DEF Slots
<1>2. CASE wr > off /\ n = wr - off
  <2>1. off >= rd \/ wr < rd
    BY <1>1, <1>2, Sizes DEF Dist
  <2>2. Wrap(off + n) = wr
    BY <1>1, <1>2, Sizes DEF Wrap
  <2> QED BY <1>1, <1>2, <2>1, <2>2, Sizes DEF Dist, Wrap
<1>3. CASE wr < off /\ n = Size - off
  <2>1. off >= rd /\ wr < rd
    BY <1>1, <1>3, Sizes DEF Dist
  <2>2. Wrap(off + n) = 0
    BY <1>1, <1>3, Sizes DEF Wrap
  <2> QED BY <1>1, <1>3, <2>1, <2>2, Sizes DEF Dist, Wrap
<1> QED BY <1>2, <1>3

LEMMA ReadStep ==
  ASSUME NEW r \in Ring, NEW c \in Call, Reading(c, r), c.off # c.wr
  PROVE  ReadOn(c, r) \in Call /\ Reading(ReadOn(c, r), r)
<1> DEFINE n == RunEnd(c) - c.off
           more == Copy(r, c.off, n)
           next == RunEnd(c) % Size
<1>1. /\ c.off \in Slots /\ c.wr \in Slots /\ r.rd \in Slots /\ c.data \in Seq(Nat)
      /\ r.slot \in [Slots -> Nat]
  BY DEF Call, Ring
<1>2. /\ n \in Nat /\ c.off + n <= Size /\ RunEnd(c) \in 0..(2 * Size - 1)
      /\ RunEnd(c) = c.off + n
      /\ (c.wr > c.off /\ n = c.wr - c.off) \/ (c.wr < c.off /\ n = Size - c.off)
  <2> DEFINE off == c.off  wr == c.wr  end == RunEnd(c)
  <2>1. off \in Slots /\ wr \in Slots /\ off # wr /\ end = IF wr > off THEN wr ELSE Size
    BY <1>1 DEF RunEnd
  <2> HIDE DEF off, wr, end
  <2>2. CASE wr > off
    BY <2>1, <2>2, Sizes DEF Slots, off, wr, end
  <2>3. CASE ~ wr > off
    <3>1. end = Size /\ wr < off
      BY <2>1, <2>3, Sizes DEF Slots
    <3>2. n = end - off
      BY DEF end, off
    <3>3. n \in Nat /\ off + n <= Size /\ end \in 0..(2 * Size - 1) /\ end = off + n
      BY <2>1, <3>1, <3>2, Sizes DEF Slots
    <3> QED BY <3>1, <3>2, <3>3 DEF off, wr, end
  <2> QED BY <2>2, <2>3
<1>3. next = Wrap(c.off + n) /\ next \in Slots
  BY <1>2, Modulus
<1>11. more = Copy(r, c.off, n)
  OBVIOUS
<1> HIDE DEF n, more, next
<1>4. /\ Dist(r.rd, next) = Dist(r.rd, c.off) + n
      /\ Dist(r.rd, next) <= Dist(r.rd, c.wr)
      /\ \A k \in (Dist(r.rd, c.off) + 1)..(Dist(r.rd, c.off) + n) :
           Wrap(r.rd + k - 1) = c.off + (k - Dist(r.rd, c.off)) - 1
  <2>1. Dist(r.rd, c.off) <= Dist(r.rd, c.wr)
    BY DEF Reading
  <2> QED BY <1>1, <1>2, <1>3, <2>1, RunForward
<1>5. more \in Seq(Nat) /\ Len(more) = n /\ \A k \in 1..n : more[k] = r.slot[c.off + k - 1]
  BY <1>1, <1>2, <1>11, CopyRun
<1>6. /\ c.data \o more \in Seq(Nat) /\ Len(c.data \o more) = Len(c.data) + n
      /\ \A k \in 1..(Len(c.data) + n) :
           (c.data \o more)[k] = IF k <= Len(c.data) THEN c.data[k] ELSE more[k - Len(c.data)]
  <2> DEFINE data == c.data
  <2>1. data \in Seq(Nat) /\ more \in Seq(Nat) /\ Len(more) = n
    BY <1>1, <1>5
  <2> HIDE DEF data
  <2>2. /\ data \o more \in Seq(Nat) /\ Len(data \o more) = Len(data) + Len(more)
        /\ \A k \in 1..(Len(data) + Len(more)) :
             (data \o more)[k] = IF k <= Len(data) THEN data[k] ELSE more[k - Len(data)]
    BY <2>1, ConcatProperties
  <2> QED BY <2>1, <2>2 DEF data
<1>7. ASSUME NEW k \in 1..(Len(c.data) + n)
      PROVE  (c.data \o more)[k] = Contents(r)[k]
  <2>1. Len(c.data) \in Nat /\ Len(c.data) = Dist(r.rd, c.off) /\ Dist(r.rd, c.wr) <= Pending(r)
    BY <1>1, LenProperties DEF Reading
  <2>2. CASE k <= Len(c.data)
    BY <1>6, <1>7, <2>1, <2>2 DEF Reading
  <2>3. CASE k > Len(c.data)
    <3>1. k - Len(c.data) \in 1..n
      BY <1>2, <1>7, <2>1, <2>3
    <3>2. (c.data \o more)[k] = r.slot[c.off + (k - Len(c.data)) - 1]
      <4>1. ~ k <= Len(c.data)
        BY <1>2, <1>7, <2>1, <2>3
      <4>2. (c.data \o more)[k] = more[k - Len(c.data)]
        BY <1>6, <1>7, <4>1
      <4> QED BY <1>5, <3>1, <4>2
    <3>3. Pending(r) \in Slots /\ \A j \in 1..Pending(r) : Contents(r)[j] = r.slot[Wrap(r.rd + j - 1)]
      BY RingContents
    <3>4. k \in 1..Pending(r)
      <4>1. k <= Dist(r.rd, next)
        BY <1>2, <1>4, <1>7, <2>1
      <4>2. Dist(r.rd, next) \in Slots /\ Dist(r.rd, c.wr) \in Slots
        BY <1>1, <1>3, Distances
      <4>3. Dist(r.rd, next) \in Nat /\ Dist(r.rd, c.wr) \in Nat /\ Pending(r) \in Nat
        BY <3>3, <4>2, Sizes DEF Slots
      <4> QED BY <1>2, <1>4, <1>7, <2>1, <4>1, <4>3
    <3>5. Wrap(r.rd + k - 1) = c.off + (k - Len(c.data)) - 1
      <4>1. k \in (Dist(r.rd, c.off) + 1)..(Dist(r.rd, c.off) + n)
        BY <1>2, <1>7, <2>1, <2>3
      <4> QED BY <1>4, <2>1, <4>1
    <3> QED BY <3>2, <3>3, <3>4, <3>5
  <2>4. k <= Len(c.data) \/ k > Len(c.data)
    BY <1>2, <1>7, <2>1
  <2> QED BY <2>2, <2>3, <2>4
<1>8. ReadOn(c, r) = [c EXCEPT !.data = c.data \o more, !.off = next]
  BY DEF ReadOn, n, more, next, Call
<1>9. ReadOn(c, r) \in Call
  BY <1>3, <1>6, <1>8 DEF Call
<1>10. /\ ReadOn(c, r).data = c.data \o more /\ ReadOn(c, r).off = next
       /\ ReadOn(c, r).rd = c.rd /\ ReadOn(c, r).wr = c.wr
  BY <1>8 DEF Call
<1> QED BY <1>4, <1>6, <1>7, <1>9, <1>10 DEF Reading

\* What the reader has copied once it is at the offset it read: what it then
\* publishes takes these bytes from the ring.
Shortened(r, c, s) ==
  /\ s \in Ring /\ Len(c.data) \in 1..Pending(r)
  /\ Pending(s) = Pending(r) - Len(c.data)
  /\ Contents(s) \in Seq(Nat) /\ Len(Contents(s)) = Pending(s)
  /\ \A k \in 1..Len(c.data) : c.data[k] = Contents(r)[k]
  /\ \A k \in 1..Pending(s) : Contents(s)[k] = Contents(r)[Len(c.data) + k]

LEMMA ReadEnd ==
  ASSUME NEW r \in Ring, NEW c \in Call, Reading(c, r), c.off = c.wr,
         NEW s, s = [r EXCEPT !.rd = c.off]
  PROVE  Shortened(r, c, s)
<1> DEFINE n == Len(c.data)
<1>1. /\ c.off \in Slots /\ r.rd \in Slots /\ r.wr \in Slots /\ n = Dist(r.rd, c.off)
      /\ n <= Pending(r) /\ r.rd # c.off
  BY DEF Call, Ring, Reading
<1>2. s \in Ring /\ s.rd = c.off /\ s.wr = r.wr /\ s.slot = r.slot
  BY <1>1 DEF Ring
<1> HIDE DEF n
<1>3. /\ Pending(r) = Dist(r.rd, r.wr) /\ Pending(s) = Dist(c.off, r.wr)
      /\ Pending(r) \in Nat /\ Pending(s) \in Nat /\ n \in Nat
  <2>1. Pending(r) = Dist(r.rd, r.wr) /\ Pending(s) = Dist(s.rd, s.wr)
        /\ Pending(r) \in Slots /\ Pending(s) \in Slots
    BY <1>2, RingContents
  <2>2. n \in Slots
    BY <1>1, Distances
  <2>3. \A k \in Slots : k \in Nat
    BY Sizes DEF Slots
  <2> QED BY <1>2, <2>1, <2>2, <2>3
<1>4. n >= 1 /\ Pending(s) = Pending(r) - n
      /\ \A k \in 1..Pending(s) : Wrap(c.off + k - 1) = Wrap(r.rd + (n + k) - 1)
  <2> DEFINE a == r.rd  b == c.off  w == r.wr
  <2>1. a \in Slots /\ b \in Slots /\ w \in Slots /\ n = Dist(a, b) /\ n <= Dist(a, w) /\ a # b
        /\ Pending(r) = Dist(a, w) /\ Pending(s) = Dist(b, w)
    BY <1>1, <1>3
  <2> HIDE DEF a, b, w
  <2>2. n >= 1 /\ Dist(b, w) = Dist(a, w) - n
        /\ \A k \in 1..Dist(b, w) : Wrap(b + k - 1) = Wrap(a + (n + k) - 1)
    BY <2>1, Sizes DEF Dist, Wrap, Slots
  <2> QED BY <2>1, <2>2 DEF a, b
<1>5. ASSUME NEW k \in 1..Pending(s)
      PROVE  Contents(s)[k] = Contents(r)[n + k]
  <2>1. n + k \in 1..Pending(r)
    BY <1>3, <1>4, <1>5
  <2>2. Contents(s)[k] = s.slot[Wrap(c.off + k - 1)]
    BY <1>2, <1>5, RingContents
  <2>3. Contents(r)[n + k] = r.slot[Wrap(r.rd + (n + k) - 1)]
    BY <2>1, RingContents
  <2> QED BY <1>2, <1>4, <1>5, <2>2, <2>3
<1>6. n \in 1..Pending(r)
  BY <1>1, <1>3, <1>4
<1> QED BY <1>2, <1>4, <1>5, <1>6, RingContents DEF n, Reading, Shortened

\* The reader's bytes are not touched by a writer that keeps what the ring holds
\* and at most puts more behind it.
LEMMA ReadingKept ==
  ASSUME NEW r \in Ring, NEW s \in Ring, NEW c \in Call, Reading(c, r),
         s.rd = r.rd, Pending(r) <= Pending(s),
         \A k \in 1..Pending(r) : Contents(s)[k] = Contents(r)[k]
  PROVE  Reading(c, s)
<1>1. Pending(r) \in Nat /\ Pending(s) \in Nat
  BY RingContents, Sizes DEF Slots
<1>2. Dist(r.rd, c.wr) \in Nat /\ Len(c.data) \in Nat
  <2>1. Dist(r.rd, c.wr) \in Slots
    BY Distances DEF Ring, Call
  <2>2. c.data \in Seq(Nat)
    BY DEF Call
  <2> QED BY <2>1, <2>2, LenProperties, Sizes DEF Slots
<1>3. Len(c.data) <= Pending(r) /\ Dist(r.rd, c.wr) <= Pending(s)
  <2>1. Dist(r.rd, c.wr) <= Pending(r) /\ Len(c.data) <= Dist(r.rd, c.wr)
    BY DEF Reading
  <2> QED BY <1>1, <1>2, <2>1
<1>4. \A k \in 1..Len(c.data) : k \in 1..Pending(r)
  BY <1>1, <1>2, <1>3
<1> QED BY <1>3, <1>4 DEF Reading

-----------------------------------------------------------------------------
(* The writer of a ring: a call that has put the first bytes it has behind *)
(* the ring's, with room for the rest.                                     *)

Writing(c, r) ==
  /\ Len(c.data) >= 1 /\ c.done <= Len(c.data)
  /\ Pending(r) + Len(c.data) < Size
  /\ c.off = Wrap(r.wr + c.done)
  /\ \A k \in 1..c.done : r.slot[Wrap(r.wr + k - 1)] = c.data[k]

\* Data put a little behind the write offset and before the end of the ring.
LEMMA FillBehind ==
  ASSUME NEW r \in Ring, NEW d \in Nat, NEW data \in Seq(Nat),
         Pending(r) + d + Len(data) < Size,
         Wrap(r.wr + d) + Len(data) <= Size
  PROVE  LET s == Fill(r, Wrap(r.wr + d), data) IN
         /\ s \in Ring /\ s.wr = r.wr /\ s.rd = r.rd
         /\ Pending(s) = Pending(r) /\ Contents(s) = Contents(r)
         /\ \A k \in 1..d : s.slot[Wrap(r.wr + k - 1)] = r.slot[Wrap(r.wr + k - 1)]
         /\ \A k \in 1..Len(data) : s.slot[Wrap(r.wr + d + k - 1)] = data[k]
         /\ Wrap(Wrap(r.wr + d) + Len(data)) = Wrap(r.wr + d + Len(data))
<1> DEFINE off == Wrap(r.wr + d)
           s == Fill(r, off, data)
           n == Len(data)
<1>1. r.wr \in Slots /\ r.rd \in Slots /\ r.slot \in [Slots -> Nat] /\ n \in Nat
  BY LenProperties DEF Ring
<1>2. Pending(r) = Dist(r.rd, r.wr) /\ Pending(r) \in Nat
  BY RingContents, Sizes DEF Slots
<1>3. off \in Slots
  <2> DEFINE w == r.wr
  <2>1. w \in 0..(Size - 1) /\ d < Size
    BY <1>1, <1>2, Sizes DEF Slots
  <2> HIDE DEF w
  <2>2. Wrap(w + d) \in Slots
    BY <2>1, Sizes DEF Slots, Wrap
  <2> QED BY <2>2 DEF w
<1>4. s = [r EXCEPT !.slot = [k \in Slots |-> IF off <= k /\ k < off + n THEN data[k - off + 1]
                                              ELSE r.slot[k]]]
  BY DEF Fill, Ring
<1>5. \A k \in Slots : off <= k /\ k < off + n => k - off + 1 \in 1..n /\ data[k - off + 1] \in Nat
  <2> HIDE DEF off
  <2>1. \A k \in Slots : off <= k /\ k < off + n => k - off + 1 \in 1..n
    BY <1>1, <1>3, Sizes DEF Slots
  <2>2. \A k \in 1..n : data[k] \in Nat
    BY ElementOfSeq
  <2> QED BY <2>1, <2>2
<1> HIDE DEF off, s, n
<1>6. s \in Ring /\ s.wr = r.wr /\ s.rd = r.rd
      /\ \A k \in Slots : s.slot[k] = IF off <= k /\ k < off + n THEN data[k - off + 1] ELSE r.slot[k]
  BY <1>1, <1>4, <1>5 DEF Ring
<1>7. Pending(s) = Pending(r)
  BY <1>6, RingContents
<1> DEFINE w == r.wr  a == r.rd
<1>8. w \in Slots /\ a \in Slots /\ Dist(a, w) + d + n < Size /\ off = Wrap(w + d) /\ off + n <= Size
  BY <1>1, <1>2 DEF off, n
<1> HIDE DEF w, a
<1>9. /\ \A k \in 1..d : Wrap(w + k - 1) \in Slots
                        /\ ~ (off <= Wrap(w + k - 1) /\ Wrap(w + k - 1) < off + n)
      /\ \A k \in 1..n : Wrap(w + d + k - 1) = off + k - 1 /\ off + k - 1 \in Slots
      /\ \A k \in 1..Dist(a, w) : Wrap(a + k - 1) \in Slots
                        /\ ~ (off <= Wrap(a + k - 1) /\ Wrap(a + k - 1) < off + n)
      /\ Wrap(off + n) = Wrap(w + d + n)
  <2> DEFINE p == Dist(a, w)
  <2>1. /\ w \in Nat /\ a \in Nat /\ w < Size /\ a < Size /\ p \in Nat /\ p + d + n < Size
        /\ (w >= a /\ p = w - a) \/ (w < a /\ p = w - a + Size)
    BY <1>8, Sizes DEF Dist, Slots
  <2> HIDE DEF p
  <2>2. /\ off \in Nat /\ off < Size
        /\ (w + d < Size /\ off = w + d) \/ (w + d >= Size /\ off = w + d - Size)
    <3>1. off = Wrap(w + d)
      BY <1>8
    <3>2. w + d < 2 * Size
      BY <1>1, <2>1, Sizes
    <3>3. CASE w + d < Size
      BY <2>1, <3>1, <3>3, Sizes DEF Wrap
    <3>4. CASE w + d >= Size
      BY <2>1, <3>1, <3>2, <3>4, Sizes DEF Wrap
    <3> QED BY <2>1, <3>3, <3>4, Sizes
  <2>3. ASSUME NEW k \in 1..d
        PROVE  /\ Wrap(w + k - 1) \in Slots
               /\ ~ (off <= Wrap(w + k - 1) /\ Wrap(w + k - 1) < off + n)
    <3>1. k \in Nat /\ k >= 1 /\ k <= d
      BY <2>3
    <3>2. CASE w + k - 1 >= Size
      BY <1>1, <1>8, <2>1, <2>2, <3>1, <3>2, Sizes DEF Wrap, Slots
    <3>3. CASE w + k - 1 < Size
      BY <1>1, <1>8, <2>1, <2>2, <3>1, <3>3, Sizes DEF Wrap, Slots
    <3> QED BY <2>1, <3>1, <3>2, <3>3, Sizes
  <2>4. ASSUME NEW k \in 1..n
        PROVE  Wrap(w + d + k - 1) = off + k - 1 /\ off + k - 1 \in Slots
    <3>1. k \in Nat /\ k >= 1 /\ k <= n
      BY <1>1, <2>4
    <3> QED BY <1>1, <1>8, <2>1, <2>2, <3>1, Sizes DEF Wrap, Slots
  <2>5. ASSUME NEW k \in 1..p
        PROVE  /\ Wrap(a + k - 1) \in Slots
               /\ ~ (off <= Wrap(a + k - 1) /\ Wrap(a + k - 1) < off + n)
    <3>1. k \in Nat /\ k >= 1 /\ k <= p
      BY <2>1, <2>5
    <3>2. CASE a + k - 1 >= Size
      BY <1>1, <1>8, <2>1, <2>2, <3>1, <3>2, Sizes DEF Wrap, Slots
    <3>3. CASE a + k - 1 < Size
      BY <1>1, <1>8, <2>1, <2>2, <3>1, <3>3, Sizes DEF Wrap, Slots
    <3> QED BY <2>1, <3>1, <3>2, <3>3, Sizes
  <2>6. Wrap(off + n) = Wrap(w + d + n)
    BY <1>1, <1>8, <2>1, <2>2, Sizes DEF Wrap
  <2> QED BY <2>3, <2>4, <2>5, <2>6 DEF p
<1>10. Contents(s) = Contents(r)
  <2>1. \A k \in 1..Pending(r) : s.slot[Wrap(s.rd + k - 1)] = r.slot[Wrap(r.rd + k - 1)]
    BY <1>2, <1>6, <1>9 DEF w, a
  <2> QED BY <1>6, <1>7, <2>1, SameContents
<1>11. \A k \in 1..d : s.slot[Wrap(r.wr + k - 1)] = r.slot[Wrap(r.wr + k - 1)]
  BY <1>6, <1>9 DEF w
<1>12. ASSUME NEW k \in 1..n
       PROVE  s.slot[Wrap(r.wr + d + k - 1)] = data[k]
  <2>1. Wrap(w + d + k - 1) = off + k - 1 /\ off + k - 1 \in Slots
    BY <1>9, <1>12
  <2>2. off <= off + k - 1 /\ off + k - 1 < off + n /\ (off + k - 1) - off + 1 = k
    BY <1>1, <1>3, <1>12, Sizes DEF Slots
  <2> QED BY <1>6, <2>1, <2>2 DEF w
<1> QED BY <1>6, <1>7, <1>9, <1>10, <1>11, <1>12 DEF s, n, off, w

\* The next run of what is written.
RunOf(c) ==
  LET end == IF c.rd > c.off THEN c.rd - 1 ELSE Size IN
  SubSeq(c.data, c.done + 1, Lower(c.done + end - c.off, Len(c.data)))
WriteOn(c) == [c EXCEPT !.done = @ + Len(RunOf(c)), !.off = (@ + Len(RunOf(c))) % Size]

LEMMA RunFits ==
  ASSUME NEW r \in Ring, NEW c \in Call, Writing(c, r)
  PROVE  /\ RunOf(c) \in Seq(Nat) /\ c.done + Len(RunOf(c)) <= Len(c.data)
         /\ c.off + Len(RunOf(c)) <= Size
         /\ \A k \in 1..Len(RunOf(c)) : RunOf(c)[k] = c.data[c.done + k]
<1> DEFINE end == IF c.rd > c.off THEN c.rd - 1 ELSE Size
           n == Len(c.data)
           last == Lower(c.done + end - c.off, n)
<1>1. /\ c.off \in Slots /\ c.rd \in Slots /\ c.data \in Seq(Nat) /\ c.done \in Nat
      /\ n \in Nat /\ c.done <= n
  BY LenProperties DEF Call, Writing
<1>2. end \in Nat /\ end <= Size /\ c.off <= end
  BY <1>1, Sizes DEF Slots
<1> HIDE DEF end, n
<1>3. last \in Int /\ last <= n /\ last >= c.done /\ last <= c.done + end - c.off
  BY <1>1, <1>2, Sizes DEF Slots, Lower
<1>4. RunOf(c) = SubSeq(c.data, c.done + 1, last)
  BY DEF RunOf, end, n
<1> HIDE DEF last
<1>5. \A k \in (c.done + 1)..last : c.data[k] \in Nat
  <2>1. \A k \in (c.done + 1)..last : k \in 1..n
    BY <1>1, <1>3
  <2> QED BY <1>1, <2>1, ElementOfSeq DEF n
<1>6. /\ RunOf(c) \in Seq(Nat)
      /\ Len(RunOf(c)) = IF c.done + 1 <= last THEN last - (c.done + 1) + 1 ELSE 0
      /\ \A k \in 1..(last - (c.done + 1) + 1) : RunOf(c)[k] = c.data[c.done + 1 + k - 1]
  <2> DEFINE first == c.done + 1
  <2>1. first \in Int /\ RunOf(c) = SubSeq(c.data, first, last) /\ \A k \in first..last : c.data[k] \in Nat
    BY <1>1, <1>4, <1>5
  <2> HIDE DEF first
  <2>2. /\ SubSeq(c.data, first, last) \in Seq(Nat)
        /\ Len(SubSeq(c.data, first, last)) = IF first <= last THEN last - first + 1 ELSE 0
        /\ \A k \in 1..(last - first + 1) : SubSeq(c.data, first, last)[k] = c.data[first + k - 1]
    BY <1>3, <2>1, SubSeqProperties
  <2> QED BY <2>1, <2>2 DEF first
<1>7. Len(RunOf(c)) = last - c.done
  BY <1>1, <1>3, <1>6
<1>8. \A k \in 1..Len(RunOf(c)) : RunOf(c)[k] = c.data[c.done + k]
  <2>1. \A k \in 1..Len(RunOf(c)) : k \in 1..(last - (c.done + 1) + 1) /\ c.done + 1 + k - 1 = c.done + k
    BY <1>1, <1>3, <1>7
  <2> QED BY <1>6, <2>1
<1>9. c.off \in Nat
  BY <1>1, Sizes DEF Slots
<1>10. c.done + Len(RunOf(c)) <= n /\ c.off + Len(RunOf(c)) <= Size
  <2> DEFINE d == c.done  o == c.off  l == Len(RunOf(c))
  <2>1. /\ d \in Nat /\ o \in Nat /\ n \in Nat /\ end \in Nat /\ last \in Int /\ Size \in Nat
        /\ l = last - d /\ last <= n /\ last <= d + end - o /\ end <= Size
    BY <1>1, <1>2, <1>3, <1>7, <1>9, Sizes
  <2> HIDE DEF d, o, l
  <2>2. d + l <= n /\ o + l <= Size
    BY <2>1
  <2> QED BY <2>2 DEF d, o, l
<1> QED BY <1>6, <1>8, <1>10 DEF n

\* What a run put behind the ring's bytes leaves of them, whole or in part.
LEMMA WriteLands ==
  ASSUME NEW r \in Ring, NEW c \in Call, Writing(c, r), NEW n \in 0..Len(RunOf(c))
  PROVE  LET run == SubSeq(RunOf(c), 1, n)
             s == Fill(r, c.off, run) IN
         /\ run \in Seq(Nat) /\ Len(run) = n
         /\ s \in Ring /\ s.wr = r.wr /\ s.rd = r.rd
         /\ Pending(s) = Pending(r) /\ Contents(s) = Contents(r)
         /\ \A k \in 1..c.done : s.slot[Wrap(r.wr + k - 1)] = c.data[k]
         /\ \A k \in 1..n : s.slot[Wrap(r.wr + c.done + k - 1)] = RunOf(c)[k]
         /\ Wrap(c.off + n) = Wrap(r.wr + c.done + n)
<1> DEFINE run == SubSeq(RunOf(c), 1, n)
<1>1. /\ RunOf(c) \in Seq(Nat) /\ c.done + Len(RunOf(c)) <= Len(c.data)
      /\ c.off + Len(RunOf(c)) <= Size
      /\ Len(RunOf(c)) \in Nat /\ n \in Nat /\ n <= Len(RunOf(c))
  BY RunFits, LenProperties
<1>2. run \in Seq(Nat) /\ Len(run) = n /\ \A k \in 1..n : run[k] = RunOf(c)[k]
  <2>1. \A k \in 1..n : RunOf(c)[k] \in Nat
    BY <1>1, ElementOfSeq
  <2>2. /\ run \in Seq(Nat) /\ Len(run) = IF 1 <= n THEN n - 1 + 1 ELSE 0
        /\ \A k \in 1..(n - 1 + 1) : run[k] = RunOf(c)[1 + k - 1]
    BY <1>1, <2>1, SubSeqProperties
  <2>3. n - 1 + 1 = n /\ \A k \in 1..n : 1 + k - 1 = k
    BY <1>1
  <2> QED BY <1>1, <2>2, <2>3
<1>3. /\ c.done \in Nat /\ c.off = Wrap(r.wr + c.done) /\ Len(c.data) \in Nat
      /\ Pending(r) + Len(c.data) < Size /\ Pending(r) \in Nat
      /\ \A k \in 1..c.done : r.slot[Wrap(r.wr + k - 1)] = c.data[k]
  <2>1. Pending(r) \in Nat
    BY RingContents, Sizes DEF Slots
  <2> QED BY <2>1, LenProperties DEF Call, Writing
<1> HIDE DEF run
<1>4. Pending(r) + c.done + Len(run) < Size
  BY <1>1, <1>2, <1>3, Sizes
<1>5. Wrap(r.wr + c.done) + Len(run) <= Size
  <2>1. c.off \in Nat
    BY Sizes DEF Call, Slots
  <2> QED BY <1>1, <1>2, <1>3, <2>1, Sizes
<1>6. LET s == Fill(r, Wrap(r.wr + c.done), run) IN
      /\ s \in Ring /\ s.wr = r.wr /\ s.rd = r.rd
      /\ Pending(s) = Pending(r) /\ Contents(s) = Contents(r)
      /\ \A k \in 1..c.done : s.slot[Wrap(r.wr + k - 1)] = r.slot[Wrap(r.wr + k - 1)]
      /\ \A k \in 1..Len(run) : s.slot[Wrap(r.wr + c.done + k - 1)] = run[k]
      /\ Wrap(Wrap(r.wr + c.done) + Len(run)) = Wrap(r.wr + c.done + Len(run))
  BY <1>2, <1>3, <1>4, <1>5, FillBehind
<1> QED BY <1>2, <1>3, <1>6 DEF run

LEMMA WriteStep ==
  ASSUME NEW r \in Ring, NEW c \in Call, Writing(c, r)
  PROVE  LET s == Fill(r, c.off, RunOf(c)) IN
         /\ s \in Ring /\ s.wr = r.wr /\ s.rd = r.rd
         /\ Pending(s) = Pending(r) /\ Contents(s) = Contents(r)
         /\ WriteOn(c) \in Call /\ Writing(WriteOn(c), s)
<1> DEFINE n == Len(RunOf(c))
           s == Fill(r, c.off, RunOf(c))
           d == c.done + n
<1>1. /\ RunOf(c) \in Seq(Nat) /\ c.done + n <= Len(c.data) /\ c.off + n <= Size
      /\ n \in Nat /\ \A k \in 1..n : RunOf(c)[k] = c.data[c.done + k]
  BY RunFits, LenProperties
<1>2. SubSeq(RunOf(c), 1, n) = RunOf(c)
  BY <1>1, SubSeqFull
<1>3. /\ s \in Ring /\ s.wr = r.wr /\ s.rd = r.rd
      /\ Pending(s) = Pending(r) /\ Contents(s) = Contents(r)
      /\ \A k \in 1..c.done : s.slot[Wrap(r.wr + k - 1)] = c.data[k]
      /\ \A k \in 1..n : s.slot[Wrap(r.wr + c.done + k - 1)] = RunOf(c)[k]
      /\ Wrap(c.off + n) = Wrap(r.wr + c.done + n)
  <2>1. n \in 0..n /\ n = Len(RunOf(c))
    BY <1>1
  <2> HIDE DEF n
  <2> DEFINE t == Fill(r, c.off, SubSeq(RunOf(c), 1, n))
  <2>2. /\ t \in Ring /\ t.wr = r.wr /\ t.rd = r.rd
        /\ Pending(t) = Pending(r) /\ Contents(t) = Contents(r)
        /\ \A k \in 1..c.done : t.slot[Wrap(r.wr + k - 1)] = c.data[k]
        /\ \A k \in 1..n : t.slot[Wrap(r.wr + c.done + k - 1)] = RunOf(c)[k]
        /\ Wrap(c.off + n) = Wrap(r.wr + c.done + n)
    BY <2>1, WriteLands
  <2>3. t = s
    BY <1>2
  <2> HIDE DEF t, s
  <2> QED BY <2>2, <2>3
<1>4. /\ c.done \in Nat /\ c.off \in Slots /\ Len(c.data) \in Nat /\ Len(c.data) >= 1
      /\ Pending(r) + Len(c.data) < Size /\ r.wr \in Nat
  BY LenProperties, Sizes DEF Call, Writing, Ring, Slots
<1> HIDE DEF n, s
<1>5. (c.off + n) % Size = Wrap(c.off + n) /\ Wrap(c.off + n) \in Slots
  <2>1. c.off + n \in 0..(2 * Size - 1)
    <3>1. n \in Nat /\ c.off + n <= Size
      BY <1>1
    <3> QED BY <1>4, <3>1, Sizes DEF Slots
  <2> QED BY <2>1, Modulus
<1>6. WriteOn(c) = [c EXCEPT !.done = d, !.off = Wrap(c.off + n)]
  BY <1>5 DEF WriteOn, Call, n
<1>7. d \in Nat
  BY <1>1, <1>4
<1>8. /\ WriteOn(c) \in Call /\ WriteOn(c).done = d /\ WriteOn(c).off = Wrap(c.off + n)
      /\ WriteOn(c).data = c.data
  BY <1>5, <1>6, <1>7 DEF Call
<1>9. ASSUME NEW k \in 1..d
      PROVE  s.slot[Wrap(r.wr + k - 1)] = c.data[k]
  <2>1. CASE k <= c.done
    <3>1. k \in 1..c.done
      BY <1>9, <1>4, <2>1
    <3> QED BY <1>3, <3>1
  <2>2. CASE k > c.done
    <3>1. k - c.done \in 1..n /\ c.done + (k - c.done) = k
          /\ r.wr + c.done + (k - c.done) - 1 = r.wr + k - 1
      <4> DEFINE o == c.done  w == r.wr
      <4>1. o \in Nat /\ w \in Nat /\ n \in Nat /\ d = o + n /\ k \in 1..d /\ k > o
        BY <1>1, <1>4, <1>9, <2>2
      <4> HIDE DEF o, w, d
      <4>2. k - o \in 1..n /\ o + (k - o) = k /\ w + o + (k - o) - 1 = w + k - 1
        BY <4>1
      <4> QED BY <4>2 DEF o, w
    <3> QED BY <1>1, <1>3, <3>1
  <2> QED BY <1>1, <1>4, <1>9, <2>1, <2>2
<1>10. r.wr + c.done + n = r.wr + d
  BY <1>1, <1>4
<1> QED BY <1>1, <1>3, <1>4, <1>8, <1>9, <1>10 DEF Writing, s

\* The writer's bytes are not touched by a reader, who only makes room.
LEMMA WritingKept ==
  ASSUME NEW r \in Ring, NEW s \in Ring, NEW c \in Call, Writing(c, r),
         s.wr = r.wr, s.slot = r.slot, Pending(s) <= Pending(r)
  PROVE  Writing(c, s)
<1>1. Pending(r) \in Nat /\ Pending(s) \in Nat
  BY RingContents, Sizes DEF Slots
<1>2. Len(c.data) \in Nat
  BY LenProperties DEF Call
<1>3. Pending(s) + Len(c.data) < Size
  BY <1>1, <1>2, Sizes DEF Writing
<1> QED BY <1>3 DEF Writing

\* With all of it there, the offset published puts it in the ring.
LEMMA WriteEnd ==
  ASSUME NEW r \in Ring, NEW c \in Call, Writing(c, r), c.done = Len(c.data),
         NEW s, s = [r EXCEPT !.wr = c.off]
  PROVE  /\ s \in Ring /\ s.rd = r.rd /\ s.slot = r.slot
         /\ Len(c.data) \in 1..(Size - 1 - Pending(r))
         /\ Pending(s) = Pending(r) + Len(c.data)
         /\ Contents(s) = Contents(r) \o c.data
<1> DEFINE n == Len(c.data)
<1>1. /\ c.off \in Slots /\ r.rd \in Slots /\ r.wr \in Slots /\ c.data \in Seq(Nat) /\ n \in Nat
      /\ n >= 1 /\ Pending(r) + n < Size /\ c.off = Wrap(r.wr + n)
      /\ \A k \in 1..n : r.slot[Wrap(r.wr + k - 1)] = c.data[k]
  BY LenProperties DEF Call, Ring, Writing
<1>2. s \in Ring /\ s.wr = c.off /\ s.rd = r.rd /\ s.slot = r.slot
  BY <1>1 DEF Ring
<1> HIDE DEF n
<1>3. Pending(r) = Dist(r.rd, r.wr) /\ Pending(s) = Dist(r.rd, c.off) /\ Pending(r) \in Nat
  <2>1. Pending(r) = Dist(r.rd, r.wr) /\ Pending(s) = Dist(s.rd, s.wr) /\ Pending(r) \in Slots
    BY <1>2, RingContents
  <2>2. \A k \in Slots : k \in Nat
    BY Sizes DEF Slots
  <2> QED BY <1>2, <2>1, <2>2
<1>4. /\ Pending(s) = Pending(r) + n
      /\ \A k \in 1..n : Wrap(r.rd + (Pending(r) + k) - 1) = Wrap(r.wr + k - 1)
  <2> DEFINE a == r.rd  w == r.wr
  <2>1. a \in Slots /\ w \in Slots /\ Dist(a, w) + n < Size /\ n >= 1 /\ n \in Nat
        /\ Pending(r) = Dist(a, w) /\ Pending(s) = Dist(a, Wrap(w + n))
    BY <1>1, <1>3
  <2> HIDE DEF a, w
  <2>2. Dist(a, Wrap(w + n)) = Dist(a, w) + n
        /\ \A k \in 1..n : Wrap(a + (Dist(a, w) + k) - 1) = Wrap(w + k - 1)
    <3> DEFINE p == Dist(a, w)
    <3>1. /\ a \in Nat /\ w \in Nat /\ a < Size /\ w < Size /\ p \in Nat /\ p + n < Size
          /\ (w >= a /\ p = w - a) \/ (w < a /\ p = w - a + Size)
      <4>1. a \in Nat /\ w \in Nat /\ a < Size /\ w < Size /\ Size \in Nat /\ p + n < Size
        BY <2>1, Sizes DEF Slots
      <4>2. p = IF w >= a THEN w - a ELSE w - a + Size
        BY <4>1 DEF Dist
      <4> HIDE DEF p
      <4> QED BY <4>1, <4>2
    <3> HIDE DEF p
    <3>2. Dist(a, Wrap(w + n)) = p + n
      <4>1. CASE w + n >= Size
        BY <2>1, <3>1, <4>1, Sizes DEF Dist, Wrap
      <4>2. CASE w + n < Size
        BY <2>1, <3>1, <4>2, Sizes DEF Dist, Wrap
      <4> QED BY <2>1, <3>1, <4>1, <4>2, Sizes
    <3>3. ASSUME NEW k \in 1..n
          PROVE  Wrap(a + (p + k) - 1) = Wrap(w + k - 1)
      <4>1. CASE w >= a /\ p = w - a
        <5>1. a + (p + k) - 1 = w + k - 1
          BY <2>1, <3>1, <3>3, <4>1
        <5> QED BY <5>1
      <4>2. CASE w < a /\ p = w - a + Size
        <5>1. a + (p + k) - 1 = (w + k - 1) + Size /\ w + k - 1 < Size /\ w + k - 1 \in Nat
          <6>1. k \in Nat /\ k >= 1 /\ k <= n /\ n \in Nat /\ w \in Nat /\ a \in Nat
            BY <2>1, <3>1, <3>3
          <6>2. w + n < Size
            BY <3>1, <4>2, <6>1, Sizes
          <6>3. Size \in Nat /\ p = w - a + Size
            BY <4>2, Sizes
          <6>4. w + k - 1 < Size /\ w + k - 1 \in Nat
            BY <6>1, <6>2, <6>3
          <6>5. a + (p + k) - 1 = (w + k - 1) + Size
            BY <6>1, <6>3
          <6> QED BY <6>4, <6>5
        <5> QED BY <5>1, Sizes DEF Wrap
      <4> QED BY <3>1, <4>1, <4>2
    <3> QED BY <3>2, <3>3 DEF p
  <2> QED BY <2>1, <2>2 DEF a, w
<1>5. /\ Contents(r) \in Seq(Nat) /\ Len(Contents(r)) = Pending(r)
      /\ Contents(s) \in Seq(Nat) /\ Len(Contents(s)) = Pending(s)
      /\ \A k \in 1..Pending(r) : Contents(r)[k] = r.slot[Wrap(r.rd + k - 1)]
      /\ \A k \in 1..Pending(s) : Contents(s)[k] = r.slot[Wrap(r.rd + k - 1)]
  BY <1>2, RingContents
<1>6. /\ Contents(r) \o c.data \in Seq(Nat) /\ Len(Contents(r) \o c.data) = Pending(r) + n
      /\ \A k \in 1..(Pending(r) + n) : (Contents(r) \o c.data)[k] =
           IF k <= Pending(r) THEN Contents(r)[k] ELSE c.data[k - Pending(r)]
  <2>1. Len(c.data) = n
    BY DEF n
  <2>2. Contents(r) \in Seq(Nat) /\ Len(Contents(r)) = Pending(r) /\ c.data \in Seq(Nat)
    BY <1>1, <1>5
  <2>3. /\ Contents(r) \o c.data \in Seq(Nat)
        /\ Len(Contents(r) \o c.data) = Len(Contents(r)) + Len(c.data)
        /\ \A k \in 1..(Len(Contents(r)) + Len(c.data)) : (Contents(r) \o c.data)[k] =
             IF k <= Len(Contents(r)) THEN Contents(r)[k] ELSE c.data[k - Len(Contents(r))]
    BY <2>2, ConcatProperties
  <2> QED BY <2>1, <2>2, <2>3
<1>7. ASSUME NEW k \in 1..Pending(s)
      PROVE  Contents(s)[k] = (Contents(r) \o c.data)[k]
  <2>1. CASE k <= Pending(r)
    <3>1. k \in 1..Pending(r) /\ k \in 1..(Pending(r) + n)
      BY <1>1, <1>3, <1>4, <1>7, <2>1
    <3> QED BY <1>5, <1>6, <1>7, <2>1, <3>1
  <2>2. CASE k > Pending(r)
    <3>1. k - Pending(r) \in 1..n /\ k \in 1..(Pending(r) + n) /\ Pending(r) + (k - Pending(r)) = k
          /\ ~ k <= Pending(r)
      BY <1>1, <1>3, <1>4, <1>7, <2>2
    <3>2. Wrap(r.rd + k - 1) = Wrap(r.wr + (k - Pending(r)) - 1)
      BY <1>4, <3>1
    <3>3. (Contents(r) \o c.data)[k] = c.data[k - Pending(r)]
      BY <1>6, <3>1
    <3> QED BY <1>1, <1>5, <1>7, <3>1, <3>2, <3>3
  <2>3. k <= Pending(r) \/ k > Pending(r)
    BY <1>1, <1>3, <1>4, <1>7
  <2> QED BY <2>1, <2>2, <2>3
<1>8. Contents(s) = Contents(r) \o c.data
  <2>1. Len(Contents(s)) = Len(Contents(r) \o c.data)
        /\ \A k \in 1..Len(Contents(s)) : Contents(s)[k] = (Contents(r) \o c.data)[k]
    BY <1>4, <1>5, <1>6, <1>7
  <2> QED BY <1>5, <1>6, <2>1, SeqEqual
<1>9. n \in 1..(Size - 1 - Pending(r))
  BY <1>1, <1>3, Sizes
<1> QED BY <1>2, <1>4, <1>8, <1>9 DEF n

\* A call that has read its descriptor and copied nothing.
Begun(op, r, off, data) ==
  [at |-> "copy", op |-> op, wr |-> r.wr, rd |-> r.rd, off |-> off, data |-> data, done |-> 0]

LEMMA ReadBegins ==
  ASSUME NEW r \in Ring, r.wr # r.rd, NEW op \in {"read", "drain"}
  PROVE  LET c == Begun(op, r, r.rd, <<>>) IN c \in Call /\ Reading(c, r)
<1> DEFINE c == Begun(op, r, r.rd, <<>>)
<1>1. r.rd \in Slots /\ r.wr \in Slots
  BY DEF Ring
<1>2. <<>> \in Seq(Nat) /\ Len(<<>>) = 0
  OBVIOUS
<1>3. c \in Call
  BY <1>1, <1>2 DEF Begun, Call
<1>4. c.rd = r.rd /\ c.wr = r.wr /\ c.off = r.rd /\ c.data = <<>>
  BY DEF Begun
<1>5. Dist(r.rd, r.rd) = 0 /\ Dist(r.rd, r.wr) \in Slots /\ Pending(r) = Dist(r.rd, r.wr)
  BY <1>1, Distances, RingContents
<1>6. Dist(r.rd, r.wr) \in Nat
  BY <1>5, Sizes DEF Slots
<1> QED BY <1>2, <1>3, <1>4, <1>5, <1>6 DEF Reading

LEMMA WriteBegins ==
  ASSUME NEW r \in Ring, NEW data \in Seq(Nat), NEW op \in {"write", "fill"},
         Len(data) \in 1..Free(r)
  PROVE  LET c == Begun(op, r, r.wr, data) IN c \in Call /\ Writing(c, r)
<1> DEFINE c == Begun(op, r, r.wr, data)
<1>1. r.rd \in Slots /\ r.wr \in Slots /\ r.wr \in Nat
  BY Sizes DEF Ring, Slots
<1>2. c \in Call
  BY <1>1 DEF Begun, Call
<1>3. c.data = data /\ c.done = 0 /\ c.off = r.wr
  BY DEF Begun
<1>4. Pending(r) \in Nat /\ Free(r) = Size - 1 - Pending(r)
  BY RingContents, Sizes DEF Slots
<1>5. Len(data) >= 1 /\ Len(data) \in Nat /\ Pending(r) + Len(data) < Size
  BY <1>4, Sizes
<1>6. Wrap(r.wr + 0) = r.wr
  <2>1. r.wr < Size
    BY <1>1, Sizes DEF Slots
  <2> QED BY <1>1, <2>1, Sizes DEF Wrap
<1> QED BY <1>2, <1>3, <1>5, <1>6 DEF Writing

-----------------------------------------------------------------------------
(* Streams: sequences of the numbers of bytes. *)

\* The numbers that follow "last".
Carries(data, last, bound) ==
  last + Len(data) <= bound /\ \A k \in 1..Len(data) : data[k] = last + k

LEMMA Ascends ==
  ASSUME NEW s \in Seq(Nat)
  PROVE  /\ Ascending(s) <=> \A j, k \in 1..Len(s) : j < k => s[j] < s[k]
         /\ ToSet(s) = {s[k] : k \in 1..Len(s)} /\ ToSet(s) \subseteq Nat
<1>1. DOMAIN s = 1..Len(s) /\ \A k \in 1..Len(s) : s[k] \in Nat
  BY ElementOfSeq
<1> QED BY <1>1 DEF Ascending, ToSet

LEMMA RunOfNumbers ==
  ASSUME NEW s \in Seq(Nat), NEW b \in Nat, \A k \in 1..Len(s) : s[k] = b + k
  PROVE  Ascending(s) /\ ToSet(s) = (b + 1)..(b + Len(s))
<1>1. Len(s) \in Nat
  OBVIOUS
<1>2. Ascending(s)
  <2>1. ASSUME NEW j \in 1..Len(s), NEW k \in 1..Len(s), j < k
        PROVE  s[j] < s[k]
    BY <1>1, <2>1
  <2> QED BY <2>1, Ascends
<1>3. ToSet(s) = {s[k] : k \in 1..Len(s)}
  BY Ascends
<1>4. ASSUME NEW x \in ToSet(s) PROVE x \in (b + 1)..(b + Len(s))
  BY <1>1, <1>3, <1>4
<1>5. ASSUME NEW x \in (b + 1)..(b + Len(s)) PROVE x \in ToSet(s)
  <2>1. x - b \in 1..Len(s) /\ b + (x - b) = x
    BY <1>1, <1>5
  <2> QED BY <1>3, <2>1
<1> QED BY <1>2, <1>4, <1>5

LEMMA Regrouped ==
  ASSUME NEW x \in Seq(Nat), NEW y \in Seq(Nat), NEW z \in Seq(Nat)
  PROVE  (x \o y) \o z = x \o (y \o z)
BY ConcatAssociative, SMTT(30)

LEMMA Joined ==
  ASSUME NEW s \in Seq(Nat), NEW t \in Seq(Nat)
  PROVE  /\ s \o t \in Seq(Nat) /\ Len(s \o t) = Len(s) + Len(t)
         /\ ToSet(s \o t) = ToSet(s) \cup ToSet(t)
         /\ Ascending(s) /\ Ascending(t) /\ (\A x \in ToSet(s), y \in ToSet(t) : x < y)
            => Ascending(s \o t)
<1>1. /\ s \o t \in Seq(Nat) /\ Len(s \o t) = Len(s) + Len(t)
      /\ \A k \in 1..(Len(s) + Len(t)) :
           (s \o t)[k] = IF k <= Len(s) THEN s[k] ELSE t[k - Len(s)]
  BY ConcatProperties
<1>2. Len(s) \in Nat /\ Len(t) \in Nat
  OBVIOUS
<1>3. /\ ToSet(s) = {s[k] : k \in 1..Len(s)} /\ ToSet(t) = {t[k] : k \in 1..Len(t)}
      /\ ToSet(s \o t) = {(s \o t)[k] : k \in 1..(Len(s) + Len(t))}
  BY <1>1, Ascends
<1>4. ASSUME NEW k \in 1..(Len(s) + Len(t))
      PROVE  \/ k \in 1..Len(s) /\ (s \o t)[k] = s[k]
             \/ k > Len(s) /\ k - Len(s) \in 1..Len(t) /\ (s \o t)[k] = t[k - Len(s)]
  BY <1>1, <1>2, <1>4
<1>5. \A k \in 1..Len(s) : k \in 1..(Len(s) + Len(t)) /\ (s \o t)[k] = s[k]
  BY <1>1, <1>2
<1>6. \A k \in 1..Len(t) : Len(s) + k \in 1..(Len(s) + Len(t)) /\ (s \o t)[Len(s) + k] = t[k]
  <2>1. ASSUME NEW k \in 1..Len(t)
        PROVE  /\ Len(s) + k \in 1..(Len(s) + Len(t)) /\ ~ Len(s) + k <= Len(s)
               /\ Len(s) + k - Len(s) = k
    BY <1>2, <2>1
  <2> QED BY <1>1, <2>1
<1>7. ToSet(s \o t) = ToSet(s) \cup ToSet(t)
  <2>1. ASSUME NEW x \in ToSet(s \o t) PROVE x \in ToSet(s) \cup ToSet(t)
    BY <1>3, <1>4, <2>1
  <2>2. ASSUME NEW x \in ToSet(s) PROVE x \in ToSet(s \o t)
    BY <1>3, <1>5, <2>2
  <2>3. ASSUME NEW x \in ToSet(t) PROVE x \in ToSet(s \o t)
    <3>1. PICK k \in 1..Len(t) : x = t[k]
      BY <1>3, <2>3
    <3> QED BY <1>3, <1>6, <3>1
  <2> QED BY <2>1, <2>2, <2>3
<1>8. ASSUME Ascending(s), Ascending(t), \A x \in ToSet(s), y \in ToSet(t) : x < y,
             NEW j \in 1..(Len(s) + Len(t)), NEW k \in 1..(Len(s) + Len(t)), j < k
      PROVE  (s \o t)[j] < (s \o t)[k]
  <2>1. /\ \A a, b \in 1..Len(s) : a < b => s[a] < s[b]
        /\ \A a, b \in 1..Len(t) : a < b => t[a] < t[b]
    BY <1>8, Ascends
  <2>2. CASE k \in 1..Len(s) /\ (s \o t)[k] = s[k]
    <3>1. j \in 1..Len(s)
      BY <1>2, <1>8, <2>2
    <3> QED BY <1>5, <1>8, <2>1, <2>2, <3>1
  <2>3. CASE k > Len(s) /\ k - Len(s) \in 1..Len(t) /\ (s \o t)[k] = t[k - Len(s)]
    <3>1. CASE j \in 1..Len(s) /\ (s \o t)[j] = s[j]
      <4>1. s[j] \in ToSet(s) /\ t[k - Len(s)] \in ToSet(t)
        BY <1>3, <2>3, <3>1
      <4> QED BY <1>8, <2>3, <3>1, <4>1
    <3>2. CASE j > Len(s) /\ j - Len(s) \in 1..Len(t) /\ (s \o t)[j] = t[j - Len(s)]
      <4>1. j - Len(s) < k - Len(s)
        BY <1>2, <1>8
      <4> QED BY <2>1, <2>3, <3>2, <4>1
    <3> QED BY <1>4, <3>1, <3>2
  <2> QED BY <1>4, <2>2, <2>3
<1>9. Ascending(s) /\ Ascending(t) /\ (\A x \in ToSet(s), y \in ToSet(t) : x < y) => Ascending(s \o t)
  <2> SUFFICES ASSUME Ascending(s), Ascending(t), \A x \in ToSet(s), y \in ToSet(t) : x < y
               PROVE  Ascending(s \o t)
    OBVIOUS
  <2>1. \A j, k \in 1..(Len(s) + Len(t)) : j < k => (s \o t)[j] < (s \o t)[k]
    BY <1>8
  <2> QED BY <1>1, <2>1, Ascends
<1> QED BY <1>1, <1>7, <1>9

\* The stream up: what was returned and what was dropped are the first bytes,
\* and the ring holds the next.
Base(g, d) == Len(g) + Cardinality(d)
UpStream(g, d, r) ==
  /\ IsFiniteSet(d) /\ Ascending(g)
  /\ ToSet(g) \cup d = 1..Base(g, d) /\ ToSet(g) \cap d = {}
  /\ Carries(Contents(r), Base(g, d), MaxUp)

LEMMA BaseIsNat ==
  ASSUME NEW g \in Seq(Nat), NEW d, IsFiniteSet(d)
  PROVE  Base(g, d) \in Nat
BY FS_CardinalityType DEF Base

\* Bytes taken from the ring are the next of the stream, and either way they go
\* they are counted.
LEMMA UpTaken ==
  ASSUME NEW r \in Ring, NEW c \in Call, Reading(c, r), c.off = c.wr,
         NEW s, s = [r EXCEPT !.rd = c.off],
         NEW g \in Seq(Nat), NEW d, UpStream(g, d, r)
  PROVE  /\ g \o c.data \in Seq(Nat)
         /\ UpStream(g \o c.data, d, s) /\ Base(g \o c.data, d) = Base(g, d) + Len(c.data)
         /\ UpStream(g, d \cup ToSet(c.data), s)
         /\ Base(g, d \cup ToSet(c.data)) = Base(g, d) + Len(c.data)
<1> DEFINE b == Base(g, d)
           n == Len(c.data)
<1>1. /\ s \in Ring /\ n \in 1..Pending(r) /\ Pending(s) = Pending(r) - n
      /\ Contents(s) \in Seq(Nat) /\ Len(Contents(s)) = Pending(s)
      /\ \A k \in 1..n : c.data[k] = Contents(r)[k]
      /\ \A k \in 1..Pending(s) : Contents(s)[k] = Contents(r)[n + k]
  <2>1. /\ s \in Ring /\ Len(c.data) \in 1..Pending(r) /\ Pending(s) = Pending(r) - Len(c.data)
        /\ Contents(s) \in Seq(Nat) /\ Len(Contents(s)) = Pending(s)
        /\ \A k \in 1..Len(c.data) : c.data[k] = Contents(r)[k]
        /\ \A k \in 1..Pending(s) : Contents(s)[k] = Contents(r)[Len(c.data) + k]
    <3>1. Shortened(r, c, s)
      BY ReadEnd
    <3> QED BY <3>1, Zenon DEF Shortened
  <2> QED BY <2>1, Zenon
<1>2. /\ b \in Nat /\ n \in Nat /\ Pending(r) \in Nat /\ Len(Contents(r)) = Pending(r)
      /\ c.data \in Seq(Nat)
  BY BaseIsNat, RingContents, Sizes DEF UpStream, Call, Slots
<1>3. /\ b + Pending(r) <= MaxUp /\ \A k \in 1..Pending(r) : Contents(r)[k] = b + k
      /\ IsFiniteSet(d) /\ Ascending(g)
      /\ ToSet(g) \cup d = 1..b /\ ToSet(g) \cap d = {}
  BY <1>2 DEF UpStream, Carries
<1> HIDE DEF b, n
<1>4. \A k \in 1..n : c.data[k] = b + k
  <2>1. \A k \in 1..n : k \in 1..Pending(r)
    BY <1>1, <1>2
  <2>2. \A k \in 1..n : c.data[k] = Contents(r)[k]
    BY <1>1
  <2>3. \A k \in 1..Pending(r) : Contents(r)[k] = b + k
    BY <1>3
  <2> QED BY <2>1, <2>2, <2>3
<1>5. Ascending(c.data) /\ ToSet(c.data) = (b + 1)..(b + n)
  BY <1>2, <1>4, RunOfNumbers DEF n
<1>6. Carries(Contents(s), b + n, MaxUp)
  <2>1. ASSUME NEW k \in 1..Pending(s)
        PROVE  Contents(s)[k] = b + n + k
    <3>1. n + k \in 1..Pending(r)
      BY <1>1, <1>2, <2>1
    <3>2. Contents(s)[k] = b + (n + k)
      BY <1>1, <1>3, <2>1, <3>1
    <3> QED BY <1>2, <2>1, <3>1, <3>2
  <2>2. b + n + Pending(s) <= MaxUp
    BY <1>1, <1>2, <1>3, Sizes
  <2> QED BY <1>1, <2>1, <2>2 DEF Carries
<1>7. 1..b \cup (b + 1)..(b + n) = 1..(b + n)
  BY <1>2
<1>8. \A x \in 1..b : \A y \in (b + 1)..(b + n) : x < y
  BY <1>2
<1>9. /\ g \o c.data \in Seq(Nat) /\ Ascending(g \o c.data)
      /\ ToSet(g \o c.data) = ToSet(g) \cup (b + 1)..(b + n)
      /\ Base(g \o c.data, d) = b + n
  <2>1. \A x \in ToSet(g), y \in ToSet(c.data) : x < y
    BY <1>3, <1>5, <1>8
  <2>2. /\ g \o c.data \in Seq(Nat) /\ Ascending(g \o c.data)
        /\ ToSet(g \o c.data) = ToSet(g) \cup ToSet(c.data) /\ Len(g \o c.data) = Len(g) + n
    BY <1>2, <1>3, <1>5, <2>1, Joined DEF n
  <2>3. Cardinality(d) \in Nat /\ Len(g) \in Nat
    BY <1>3, FS_CardinalityType
  <2> QED BY <1>2, <1>5, <2>2, <2>3 DEF Base, b
<1>10. UpStream(g \o c.data, d, s)
  <2>1. ToSet(g \o c.data) \cup d = 1..(b + n)
    BY <1>3, <1>7, <1>9
  <2>2. ToSet(g \o c.data) \cap d = {}
    BY <1>3, <1>8, <1>9
  <2> QED BY <1>3, <1>6, <1>9, <2>1, <2>2 DEF UpStream
<1>11. IsFiniteSet(d \cup ToSet(c.data)) /\ Base(g, d \cup ToSet(c.data)) = b + n
  <2>1. IsFiniteSet((b + 1)..(b + n)) /\ Cardinality((b + 1)..(b + n)) = n
    <3> DEFINE lo == b + 1  hi == b + n
    <3>1. lo \in Int /\ hi \in Int /\ ~ lo > hi /\ hi - lo + 1 = n
      <4>1. b \in Nat /\ n \in Nat /\ n >= 1
        BY <1>1, <1>2
      <4> HIDE DEF b, n
      <4> QED BY <4>1
    <3> HIDE DEF lo, hi
    <3>2. IsFiniteSet(lo..hi) /\ Cardinality(lo..hi) = hi - lo + 1
      BY <3>1, FS_Interval
    <3> QED BY <3>1, <3>2 DEF lo, hi
  <2>2. d \cap (b + 1)..(b + n) = {}
    BY <1>3, <1>8
  <2>3. /\ IsFiniteSet(d \cup ToSet(c.data))
        /\ Cardinality(d \cup ToSet(c.data)) = Cardinality(d) + n - Cardinality({})
    <3> DEFINE more == ToSet(c.data)
    <3>1. IsFiniteSet(d) /\ IsFiniteSet(more) /\ Cardinality(more) = n /\ d \cap more = {}
      BY <1>3, <1>5, <2>1, <2>2
    <3> HIDE DEF more
    <3>2. /\ IsFiniteSet(d \cup more)
          /\ Cardinality(d \cup more) = Cardinality(d) + Cardinality(more) - Cardinality(d \cap more)
      BY <3>1, FS_Union
    <3> QED BY <3>1, <3>2 DEF more
  <2>4. Cardinality(d) \in Nat /\ Len(g) \in Nat /\ Cardinality({}) = 0
    BY <1>3, FS_CardinalityType, FS_EmptySet
  <2> QED BY <1>2, <2>3, <2>4 DEF Base, b
<1>12. UpStream(g, d \cup ToSet(c.data), s)
  <2>1. ToSet(g) \cup (d \cup ToSet(c.data)) = 1..(b + n)
    BY <1>3, <1>5, <1>7
  <2>2. ToSet(g) \cap (d \cup ToSet(c.data)) = {}
    BY <1>3, <1>5, <1>8
  <2> QED BY <1>3, <1>6, <1>11, <2>1, <2>2 DEF UpStream
<1> QED BY <1>9, <1>10, <1>11, <1>12 DEF b, n

\* The stream down: what is drained or in the ring, and the excess between.
DownStream(x, e, n) ==
  Ascending(x) /\ ToSet(x) \cup e = 1..n /\ ToSet(x) \cap e = {}

LEMMA DownMore ==
  ASSUME NEW x \in Seq(Nat), NEW e, NEW n \in Nat, DownStream(x, e, n),
         NEW data \in Seq(Nat), NEW bound, Carries(data, n, bound)
  PROVE  DownStream(x \o data, e, n + Len(data)) /\ ToSet(data) = (n + 1)..(n + Len(data))
<1>1. Ascending(data) /\ ToSet(data) = (n + 1)..(n + Len(data))
  BY RunOfNumbers DEF Carries
<1>2. 1..n \cup (n + 1)..(n + Len(data)) = 1..(n + Len(data))
      /\ \A y \in 1..n : \A z \in (n + 1)..(n + Len(data)) : y < z
  OBVIOUS
<1>3. Ascending(x \o data) /\ ToSet(x \o data) = ToSet(x) \cup ToSet(data)
  <2>1. \A y \in ToSet(x), z \in ToSet(data) : y < z
    BY <1>1, <1>2 DEF DownStream
  <2> QED BY <1>1, <2>1, Joined DEF DownStream
<1>4. ToSet(x \o data) \cup e = 1..(n + Len(data))
  BY <1>1, <1>2, <1>3 DEF DownStream
<1>5. ToSet(x \o data) \cap e = {}
  <2>1. \A z \in ToSet(data) : z \notin 1..n
    BY <1>1
  <2> QED BY <1>3, <2>1 DEF DownStream
<1> QED BY <1>1, <1>3, <1>4, <1>5 DEF DownStream

LEMMA DownMissed ==
  ASSUME NEW x \in Seq(Nat), NEW e, NEW n \in Nat, DownStream(x, e, n), NEW m \in Nat
  PROVE  DownStream(x, e \cup (n + 1)..(n + m), n + m)
<1>1. 1..n \cup (n + 1)..(n + m) = 1..(n + m) /\ \A z \in (n + 1)..(n + m) : z \notin 1..n
  OBVIOUS
<1> QED BY <1>1 DEF DownStream

\* A reader that publishes splits the ring's bytes in what it takes and the rest.
LEMMA Split ==
  ASSUME NEW r \in Ring, NEW c \in Call, Reading(c, r), c.off = c.wr,
         NEW s, s = [r EXCEPT !.rd = c.off]
  PROVE  /\ s \in Ring /\ s.wr = r.wr /\ s.slot = r.slot /\ Pending(s) <= Pending(r)
         /\ Contents(r) = c.data \o Contents(s)
         /\ Len(c.data) \in 1..Len(Contents(r))
         /\ Contents(s) = SubSeq(Contents(r), Len(c.data) + 1, Len(Contents(r)))
<1> DEFINE n == Len(c.data)
           q == Contents(r)
           t == Contents(s)
<1>1. /\ s \in Ring /\ n \in 1..Pending(r) /\ Pending(s) = Pending(r) - n
      /\ t \in Seq(Nat) /\ Len(t) = Pending(s)
      /\ \A k \in 1..n : c.data[k] = q[k]
      /\ \A k \in 1..Pending(s) : t[k] = q[n + k]
  <2>1. Shortened(r, c, s)
    BY ReadEnd
  <2> QED BY <2>1, Zenon DEF Shortened
<1>2. n \in Nat /\ Pending(r) \in Nat /\ q \in Seq(Nat) /\ Len(q) = Pending(r) /\ c.data \in Seq(Nat)
  BY RingContents, Sizes DEF Call, Slots
<1>3. s.wr = r.wr /\ s.slot = r.slot
  BY DEF Ring
<1>4. Len(t) = Len(q) - n /\ n \in 1..Len(q)
      /\ (\A k \in 1..n : c.data[k] = q[k]) /\ (\A k \in 1..Len(t) : t[k] = q[n + k])
  BY <1>1, <1>2
<1>5. n = Len(c.data)
  OBVIOUS
<1> HIDE DEF n, q, t
<1>6. q = c.data \o t
  <2>1. /\ c.data \o t \in Seq(Nat) /\ Len(c.data \o t) = n + Len(t)
        /\ \A k \in 1..(n + Len(t)) : (c.data \o t)[k] = IF k <= n THEN c.data[k] ELSE t[k - n]
    <3>1. c.data \in Seq(Nat) /\ t \in Seq(Nat)
      BY <1>1, <1>2
    <3>2. /\ c.data \o t \in Seq(Nat) /\ Len(c.data \o t) = Len(c.data) + Len(t)
          /\ \A k \in 1..(Len(c.data) + Len(t)) :
               (c.data \o t)[k] = IF k <= Len(c.data) THEN c.data[k] ELSE t[k - Len(c.data)]
      BY <3>1, ConcatProperties
    <3> QED BY <1>5, <3>2
  <2>2. ASSUME NEW k \in 1..Len(q)
        PROVE  q[k] = (c.data \o t)[k]
    <3>1. k \in 1..(n + Len(t)) /\ Len(t) \in Nat
      BY <1>1, <1>2, <1>4, <2>2
    <3>2. CASE k <= n
      <4>1. k \in 1..n
        BY <1>2, <2>2, <3>2
      <4>2. (c.data \o t)[k] = c.data[k]
        BY <2>1, <3>1, <3>2
      <4> QED BY <1>4, <4>1, <4>2
    <3>3. CASE ~ k <= n
      <4>1. k - n \in 1..Len(t) /\ n + (k - n) = k
        BY <1>2, <1>4, <2>2, <3>3
      <4> QED BY <1>4, <2>1, <3>1, <3>3, <4>1
    <3> QED BY <3>2, <3>3
  <2>3. Len(q) = Len(c.data \o t)
    BY <1>2, <1>4, <2>1
  <2> QED BY <1>2, <2>1, <2>2, <2>3, SeqEqual
<1>7. t = SubSeq(q, n + 1, Len(q))
  <2> DEFINE first == n + 1  last == Len(q)
  <2>1. first \in Int /\ last \in Int /\ first >= 1
    BY <1>2
  <2>2. \A k \in first..last : q[k] \in Nat
    BY <1>2, <2>1, ElementOfSeq
  <2> HIDE DEF first, last
  <2>3. /\ SubSeq(q, first, last) \in Seq(Nat)
        /\ Len(SubSeq(q, first, last)) = IF first <= last THEN last - first + 1 ELSE 0
        /\ \A k \in 1..(last - first + 1) : SubSeq(q, first, last)[k] = q[first + k - 1]
    BY <2>1, <2>2, SubSeqProperties
  <2>4. Len(SubSeq(q, first, last)) = Len(t) /\ last - first + 1 = Len(t)
    BY <1>2, <1>4, <2>3 DEF first, last
  <2>5. ASSUME NEW k \in 1..Len(t)
        PROVE  t[k] = SubSeq(q, first, last)[k]
    <3>1. first + k - 1 = n + k
      BY <1>2, <2>5 DEF first
    <3> QED BY <1>4, <2>3, <2>4, <2>5, <3>1
  <2> QED BY <1>1, <2>3, <2>4, <2>5, SeqEqual DEF first, last
<1>8. Pending(s) <= Pending(r)
  BY <1>1, <1>2
<1> QED BY <1>1, <1>3, <1>4, <1>6, <1>7, <1>8 DEF n, q, t

-----------------------------------------------------------------------------
(* The invariant, one half to a ring.  Each call stands where what it has  *)
(* copied says, against the ring as it is now, and what a writer carries   *)
(* are the next numbers of its stream.                                     *)

CallsRight ==
  /\ host \in Call /\ fw \in Call
  /\ host.op \in {"none", "read", "write"} /\ fw.op \in {"none", "drain", "fill"}
  /\ host.op = "none" <=> host.at # "copy"
  /\ fw.op = "none" <=> fw.at # "copy"

UpRight ==
  /\ up \in Ring /\ given \in Seq(Nat) /\ UpStream(given, dropped, up)
  /\ host.op = "read" => Reading(host, up)
  /\ fw.op = "fill" => Writing(fw, up) /\ Carries(fw.data, Made, MaxUp)

DownRight ==
  /\ down \in Ring /\ drained \in Seq(Nat) /\ sent \in Nat /\ sent <= MaxDown
  /\ DownStream(drained \o Contents(down), excess, sent)
  /\ host.op = "write" => Writing(host, down) /\ Carries(host.data, sent, MaxDown)
  /\ fw.op = "drain" => Reading(fw, down)

IInv == CallsRight /\ UpRight /\ DownRight

\* What each ring does as a queue.
UpMove == [UpQueue!Put \/ UpQueue!Take]_<<Contents(up), Made>>
DownMove == [DownQueue!Put \/ DownQueue!Take]_<<Contents(down), Newest>>

LEMMA MadeIs ==
  ASSUME UpRight
  PROVE  /\ Base(given, dropped) \in Nat /\ Pending(up) \in Nat
         /\ Made = Base(given, dropped) + Pending(up) /\ Made <= MaxUp
<1>1. Base(given, dropped) \in Nat /\ Pending(up) \in Nat
  BY BaseIsNat, RingContents, Sizes DEF UpRight, UpStream, Slots
<1>2. Made = Base(given, dropped) + Pending(up)
  BY DEF Made, Base
<1>3. Base(given, dropped) + Len(Contents(up)) <= MaxUp
  BY DEF UpRight, UpStream, Carries
<1>4. Len(Contents(up)) = Pending(up)
  BY RingContents DEF UpRight
<1> QED BY <1>1, <1>2, <1>3, <1>4

LEMMA UpKept ==
  ASSUME UpRight, UNCHANGED <<up, given, dropped>>,
         host' = host \/ host'.op # "read", fw' = fw \/ fw'.op # "fill"
  PROVE  UpRight' /\ UpMove
<1>1. Made' = Made /\ Contents(up)' = Contents(up)
  BY DEF Made
<1>2. UpStream(given, dropped, up)'
  BY DEF UpRight, UpStream, Base, Carries
<1>3. host'.op = "read" => Reading(host', up')
  BY DEF UpRight
<1>4. fw'.op = "fill" => Writing(fw', up') /\ Carries(fw'.data, Made', MaxUp)
  BY <1>1 DEF UpRight
<1> QED BY <1>1, <1>2, <1>3, <1>4 DEF UpRight, UpMove

LEMMA DownKept ==
  ASSUME DownRight, UNCHANGED <<down, drained, sent, excess>>,
         host' = host \/ host'.op # "write", fw' = fw \/ fw'.op # "drain"
  PROVE  DownRight' /\ DownMove
<1>1. Newest' = Newest /\ Contents(down)' = Contents(down)
  BY DEF Newest
<1>2. host'.op = "write" => Writing(host', down') /\ Carries(host'.data, sent', MaxDown)
  BY DEF DownRight
<1>3. fw'.op = "drain" => Reading(fw', down')
  BY DEF DownRight
<1> QED BY <1>1, <1>2, <1>3 DEF DownRight, DownMove, DownStream

LEMMA QuietIsCall == Quiet \in Call /\ Quiet.op = "none" /\ Quiet.at = "idle"
<1>1. 0 \in Slots /\ 0 \in Nat
  BY Sizes DEF Slots
<1>2. <<>> \in Seq(Nat)
  OBVIOUS
<1> QED BY <1>1, <1>2 DEF Quiet, Call

-----------------------------------------------------------------------------
(* Each action, against the invariant and against both queues. *)

Good == IInv' /\ UpMove /\ DownMove

LEMMA Searching ==
  ASSUME IInv, Find \/ NotFound \/ New
  PROVE  Good
<1>1. UNCHANGED <<up, down, fw, sent, excess, given, dropped, drained>>
  BY DEF Find, NotFound, New, rings, history
<1>2. host' = host \/ host' = Quiet
  BY DEF Find, NotFound, New
<1>3. host' = host \/ host'.op = "none"
  BY <1>2, QuietIsCall
<1>4. CallsRight'
  <2>1. CASE host' = host
    BY <1>1, <2>1 DEF IInv, CallsRight
  <2>2. CASE host' = Quiet
    BY <1>1, <2>2, QuietIsCall DEF IInv, CallsRight
  <2> QED BY <1>2, <2>1, <2>2
<1>5. UpRight' /\ UpMove
  BY <1>1, <1>3, UpKept DEF IInv
<1>6. DownRight' /\ DownMove
  BY <1>1, <1>3, DownKept DEF IInv
<1> QED BY <1>4, <1>5, <1>6 DEF Good, IInv

LEMMA ReadGood ==
  ASSUME IInv, Read
  PROVE  Good
<1>1. /\ UNCHANGED <<up, down, fw, sent, excess, given, dropped, drained>>
      /\ up.wr # up.rd /\ host' = Begun("read", up, up.rd, <<>>)
  BY DEF Read, Begin, Begun, rings, history
<1>2. host' \in Call /\ Reading(host', up) /\ host'.op = "read" /\ host'.at = "copy"
  <2>1. host'.op = "read" /\ host'.at = "copy"
    BY <1>1 DEF Begun
  <2> QED BY <1>1, <2>1, ReadBegins DEF IInv, UpRight
<1>3. CallsRight'
  BY <1>1, <1>2 DEF IInv, CallsRight
<1>4. Made' = Made /\ Contents(up)' = Contents(up)
  BY <1>1 DEF Made
<1>5. UpRight' /\ UpMove
  <2>1. UpStream(given, dropped, up)'
    BY <1>1 DEF IInv, UpRight, UpStream, Base, Carries
  <2>2. fw'.op = "fill" => Writing(fw', up') /\ Carries(fw'.data, Made', MaxUp)
    BY <1>1, <1>4 DEF IInv, UpRight
  <2> QED BY <1>1, <1>2, <1>4, <2>1, <2>2 DEF IInv, UpRight, UpMove
<1>6. DownRight' /\ DownMove
  <2>1. host'.op # "write"
    BY <1>2
  <2> QED BY <1>1, <2>1, DownKept DEF IInv
<1> QED BY <1>3, <1>5, <1>6 DEF Good, IInv

LEMMA WriteGood ==
  ASSUME IInv, Write
  PROVE  Good
<1>1. PICK len \in 1..(MaxDown - sent) :
        Begin("write", down, [k \in 1..Lower(len, Free(down)) |-> sent + k])
  BY DEF Write
<1> DEFINE n == Lower(len, Free(down))
           data == [k \in 1..n |-> sent + k]
<1>2. /\ UNCHANGED <<up, down, fw, sent, excess, given, dropped, drained>>
      /\ Free(down) > 0 /\ host' = Begun("write", down, down.wr, data)
  BY <1>1 DEF Write, Begin, Begun, rings, history
<1>3. sent \in Nat /\ sent <= MaxDown /\ down \in Ring
  BY DEF IInv, DownRight
<1>4. n \in Nat /\ n \in 1..Free(down) /\ n <= MaxDown - sent
  <2>1. Free(down) \in Int
    BY <1>3, RingContents, Sizes DEF Slots
  <2> QED BY <1>1, <1>2, <1>3, <2>1, Sizes DEF Lower
<1>5. data \in Seq(Nat) /\ Len(data) = n /\ \A k \in 1..n : data[k] = sent + k
  <2> HIDE DEF n
  <2>1. data \in [1..n -> Nat]
    BY <1>3
  <2>2. data \in Seq(Nat) /\ Len(data) = n
    BY <1>4, <2>1, SeqDef
  <2> QED BY <2>2
<1> HIDE DEF n, data
<1>6. host' \in Call /\ Writing(host', down) /\ host'.op = "write" /\ host'.at = "copy"
      /\ host'.data = data
  <2>1. host'.op = "write" /\ host'.at = "copy" /\ host'.data = data
    BY <1>2 DEF Begun
  <2>2. Len(data) \in 1..Free(down)
    BY <1>4, <1>5
  <2> QED BY <1>2, <1>3, <1>5, <2>1, <2>2, WriteBegins
<1>7. Carries(data, sent, MaxDown)
  BY <1>3, <1>4, <1>5, Sizes DEF Carries
<1>8. CallsRight'
  BY <1>2, <1>6 DEF IInv, CallsRight
<1>9. UpRight' /\ UpMove
  <2>1. host'.op # "read"
    BY <1>6
  <2> QED BY <1>2, <2>1, UpKept DEF IInv
<1>10. DownRight' /\ DownMove
  <2>1. Newest' = Newest /\ Contents(down)' = Contents(down)
    BY <1>2 DEF Newest
  <2>2. fw'.op = "drain" => Reading(fw', down')
    BY <1>2 DEF IInv, DownRight
  <2> QED BY <1>2, <1>6, <1>7, <2>1, <2>2 DEF IInv, DownRight, DownMove, DownStream
<1> QED BY <1>8, <1>9, <1>10 DEF Good, IInv

LEMMA ReadChunkGood ==
  ASSUME IInv, ReadChunk
  PROVE  Good
<1>1. /\ UNCHANGED <<up, down, fw, sent, excess, given, dropped, drained>>
      /\ host.op = "read" /\ host.at = "copy" /\ host.off # host.wr
      /\ host' = ReadOn(host, up)
  BY DEF ReadChunk, ReadOn, RunEnd, rings, history
<1>2. host' \in Call /\ Reading(host', up)
  BY <1>1, ReadStep DEF IInv, UpRight, CallsRight
<1>3. host'.op = "read" /\ host'.at = "copy"
  BY <1>1 DEF ReadOn, Call, IInv, CallsRight
<1>4. CallsRight'
  BY <1>1, <1>2, <1>3 DEF IInv, CallsRight
<1>5. Made' = Made /\ Contents(up)' = Contents(up)
  BY <1>1 DEF Made
<1>6. UpRight' /\ UpMove
  <2>1. UpStream(given, dropped, up)'
    BY <1>1 DEF IInv, UpRight, UpStream, Base, Carries
  <2>2. fw'.op = "fill" => Writing(fw', up') /\ Carries(fw'.data, Made', MaxUp)
    BY <1>1, <1>5 DEF IInv, UpRight
  <2> QED BY <1>1, <1>2, <1>5, <2>1, <2>2 DEF IInv, UpRight, UpMove
<1>7. DownRight' /\ DownMove
  <2>1. host'.op # "write"
    BY <1>3
  <2> QED BY <1>1, <2>1, DownKept DEF IInv
<1> QED BY <1>4, <1>6, <1>7 DEF Good, IInv

LEMMA WriteChunkGood ==
  ASSUME IInv, WriteChunk
  PROVE  Good
<1>1. /\ UNCHANGED <<up, fw, sent, excess, given, dropped, drained>>
      /\ host.op = "write" /\ host.at = "copy"
      /\ down' = Fill(down, host.off, RunOf(host)) /\ host' = WriteOn(host)
  BY DEF WriteChunk, WriteOn, WriteRun, RunOf, history
<1>2. /\ host \in Call /\ down \in Ring /\ Writing(host, down)
      /\ Carries(host.data, sent, MaxDown)
  BY <1>1 DEF IInv, CallsRight, DownRight
<1>3. /\ down' \in Ring /\ down'.wr = down.wr /\ down'.rd = down.rd
      /\ Pending(down') = Pending(down) /\ Contents(down') = Contents(down)
      /\ host' \in Call /\ Writing(host', down')
  BY <1>1, <1>2, WriteStep
<1>4. host'.op = "write" /\ host'.at = "copy" /\ host'.data = host.data
  BY <1>1, <1>2 DEF WriteOn, Call
<1>5. CallsRight'
  BY <1>1, <1>3, <1>4 DEF IInv, CallsRight
<1>6. UpRight' /\ UpMove
  <2>1. host'.op # "read"
    BY <1>4
  <2> QED BY <1>1, <2>1, UpKept DEF IInv
<1>7. DownRight' /\ DownMove
  <2>1. Newest' = Newest
    BY <1>1, <1>3 DEF Newest
  <2>2. fw'.op = "drain" => Reading(fw', down')
    <3> SUFFICES ASSUME fw.op = "drain" PROVE Reading(fw, down')
      BY <1>1
    <3>1. Reading(fw, down) /\ fw \in Call
      BY DEF IInv, DownRight, CallsRight
    <3>2. Pending(down) <= Pending(down')
      BY <1>2, <1>3, RingContents, Sizes DEF Slots
    <3> QED BY <1>2, <1>3, <3>1, <3>2, ReadingKept
  <2> QED BY <1>1, <1>2, <1>3, <1>4, <2>1, <2>2 DEF IInv, DownRight, DownMove, DownStream
<1> QED BY <1>5, <1>6, <1>7 DEF Good, IInv

\* Bytes the host takes, whether it returns them or drops them.
LEMMA UpTakes ==
  ASSUME IInv, host.op = "read", host.off = host.wr,
         up' = [up EXCEPT !.rd = host.off], host' = Quiet,
         UNCHANGED <<down, fw, sent, excess, drained>>,
         \/ given' = given \o host.data /\ dropped' = dropped
         \/ given' = given /\ dropped' = dropped \cup ToSet(host.data)
  PROVE  Good
<1>1. host \in Call /\ up \in Ring /\ Reading(host, up) /\ given \in Seq(Nat)
      /\ UpStream(given, dropped, up)
  BY DEF IInv, CallsRight, UpRight
<1>2. /\ up' \in Ring /\ up'.wr = up.wr /\ up'.slot = up.slot /\ Pending(up') <= Pending(up)
      /\ Len(host.data) \in 1..Len(Contents(up))
      /\ Contents(up') = SubSeq(Contents(up), Len(host.data) + 1, Len(Contents(up)))
  BY <1>1, Split
<1>3. /\ given' \in Seq(Nat) /\ UpStream(given', dropped', up')
      /\ Base(given', dropped') = Base(given, dropped) + Len(host.data)
  <2>1. /\ given \o host.data \in Seq(Nat)
        /\ UpStream(given \o host.data, dropped, up')
        /\ Base(given \o host.data, dropped) = Base(given, dropped) + Len(host.data)
        /\ UpStream(given, dropped \cup ToSet(host.data), up')
        /\ Base(given, dropped \cup ToSet(host.data)) = Base(given, dropped) + Len(host.data)
    BY <1>1, UpTaken, Zenon
  <2> QED BY <1>1, <2>1
<1>4. Pending(up') = Pending(up) - Len(host.data) /\ Len(host.data) \in Nat
  <2>1. Shortened(up, host, up')
    BY <1>1, ReadEnd
  <2> QED BY <2>1 DEF Shortened
<1>5. Made' = Made
  <2>1. Base(given, dropped) \in Nat /\ Pending(up) \in Nat /\ Made = Base(given, dropped) + Pending(up)
    BY MadeIs DEF IInv
  <2>2. Made' = Base(given', dropped') + Pending(up')
    BY DEF Made, Base
  <2> QED BY <1>3, <1>4, <2>1, <2>2
<1>6. CallsRight'
  BY QuietIsCall DEF IInv, CallsRight
<1>7. UpRight'
  <2>1. fw'.op = "fill" => Writing(fw', up') /\ Carries(fw'.data, Made', MaxUp)
    <3> SUFFICES ASSUME fw.op = "fill" PROVE Writing(fw, up') /\ Carries(fw.data, Made', MaxUp)
      OBVIOUS
    <3>1. Writing(fw, up) /\ Carries(fw.data, Made, MaxUp) /\ fw \in Call
      BY DEF IInv, UpRight, CallsRight
    <3> QED BY <1>1, <1>2, <1>5, <3>1, WritingKept
  <2> QED BY <1>2, <1>3, <2>1, QuietIsCall DEF UpRight
<1>8. UpQueue!Take
  BY <1>2, <1>5 DEF UpQueue!Take
<1>9. DownRight' /\ DownMove
  <2>1. host'.op # "write"
    BY QuietIsCall
  <2> QED BY <2>1, DownKept DEF IInv
<1> QED BY <1>6, <1>7, <1>8, <1>9 DEF Good, IInv, UpMove

LEMMA PublishReadGood ==
  ASSUME IInv, PublishRead
  PROVE  Good
<1>1. /\ host.op = "read" /\ host.off = host.wr /\ up' = [up EXCEPT !.rd = host.off]
      /\ host' = Quiet /\ UNCHANGED <<down, fw, sent, excess, drained>>
      /\ given' = given \o host.data /\ dropped' = dropped
  BY DEF PublishRead, Copied
<1> QED BY <1>1, UpTakes

LEMMA ReadFailsGood ==
  ASSUME IInv, ReadFails
  PROVE  Good
<1>1. /\ host.op = "read" /\ host' = Quiet
      /\ UNCHANGED <<down, fw, sent, excess, given, drained>>
      /\ \/ UNCHANGED <<up, dropped>>
         \/ /\ host.off = host.wr
            /\ up' = [up EXCEPT !.rd = host.off]
            /\ dropped' = dropped \cup ToSet(host.data)
  BY DEF ReadFails, Fails, Copied
<1>2. CASE UNCHANGED <<up, dropped>>
  <2>1. host'.op # "write" /\ host'.op # "read"
    BY <1>1, QuietIsCall
  <2>2. CallsRight'
    BY <1>1, QuietIsCall DEF IInv, CallsRight
  <2>3. UpRight' /\ UpMove
    BY <1>1, <1>2, <2>1, UpKept DEF IInv
  <2>4. DownRight' /\ DownMove
    BY <1>1, <2>1, DownKept DEF IInv
  <2> QED BY <2>2, <2>3, <2>4 DEF Good, IInv
<1>3. CASE /\ host.off = host.wr
           /\ up' = [up EXCEPT !.rd = host.off]
           /\ dropped' = dropped \cup ToSet(host.data)
  BY <1>1, <1>3, UpTakes
<1> QED BY <1>1, <1>2, <1>3

\* The greatest number that went into the down ring is at most what Write has
\* reported, and is the last of a call's once that call is in.
LEMMA NewestIs ==
  ASSUME DownRight
  PROVE  Newest \in Nat /\ Newest <= sent
<1>1. /\ drained \in Seq(Nat) /\ Contents(down) \in Seq(Nat) /\ sent \in Nat
      /\ ToSet(drained \o Contents(down)) \subseteq 1..sent
  BY RingContents DEF DownRight, DownStream
<1>2. ToSet(drained \o Contents(down)) = ToSet(drained) \cup ToSet(Contents(down))
  BY <1>1, Joined
<1>3. {0} \cup ToSet(drained) \cup ToSet(Contents(down)) \subseteq 0..sent
  BY <1>1, <1>2
<1> DEFINE S == {0} \cup ToSet(drained) \cup ToSet(Contents(down))
<1>4. Max(S) \in S /\ Max(S) \in Nat
  <2>1. S # {} /\ S \subseteq 0..sent
    BY <1>3
  <2> HIDE DEF S
  <2> QED BY <1>1, <2>1, Greatest
<1> QED BY <1>1, <1>3, <1>4 DEF Newest

\* Bytes the host publishes, whether it hears of it or not.
LEMMA DownPuts ==
  ASSUME IInv, host.op = "write", host.done = Len(host.data),
         down' = [down EXCEPT !.wr = host.off], host' = Quiet, sent' = sent + host.done,
         UNCHANGED <<up, fw, excess, given, dropped, drained>>
  PROVE  Good
<1> DEFINE n == Len(host.data)
<1>1. /\ host \in Call /\ down \in Ring /\ Writing(host, down) /\ drained \in Seq(Nat)
      /\ sent \in Nat /\ sent <= MaxDown
      /\ Carries(host.data, sent, MaxDown) /\ DownStream(drained \o Contents(down), excess, sent)
  BY DEF IInv, CallsRight, DownRight
<1>2. /\ down' \in Ring /\ down'.rd = down.rd /\ down'.slot = down.slot
      /\ n \in 1..(Size - 1 - Pending(down))
      /\ Pending(down') = Pending(down) + n
      /\ Contents(down') = Contents(down) \o host.data
  BY <1>1, WriteEnd
<1>3. /\ Contents(down) \in Seq(Nat) /\ host.data \in Seq(Nat) /\ n \in Nat
      /\ Pending(down) \in Nat /\ Len(Contents(down)) = Pending(down)
  BY <1>1, RingContents, Sizes DEF Call, Slots
<1>4. sent' = sent + n /\ sent' \in Nat /\ sent' <= MaxDown
  BY <1>1, <1>3 DEF Carries
<1>5. drained \o Contents(down') = (drained \o Contents(down)) \o host.data
  <2> DEFINE x == drained  y == Contents(down)  z == host.data
  <2>1. x \in Seq(Nat) /\ y \in Seq(Nat) /\ z \in Seq(Nat)
    BY <1>1, <1>3
  <2> HIDE DEF x, y, z
  <2>2. (x \o y) \o z = x \o (y \o z)
    BY <2>1, Regrouped
  <2> QED BY <1>2, <2>2 DEF x, y, z
<1>6. /\ DownStream(drained \o Contents(down'), excess, sent')
      /\ ToSet(host.data) = (sent + 1)..(sent + n)
  <2>1. drained \o Contents(down) \in Seq(Nat)
    BY <1>1, <1>3, Joined
  <2>2. /\ DownStream((drained \o Contents(down)) \o host.data, excess, sent + Len(host.data))
        /\ ToSet(host.data) = (sent + 1)..(sent + Len(host.data))
    <3> DEFINE x == drained \o Contents(down)  z == host.data
    <3>1. /\ x \in Seq(Nat) /\ z \in Seq(Nat) /\ sent \in Nat
          /\ DownStream(x, excess, sent) /\ Carries(z, sent, MaxDown)
      BY <1>1, <1>3, <2>1
    <3> HIDE DEF x, z
    <3>2. DownStream(x \o z, excess, sent + Len(z)) /\ ToSet(z) = (sent + 1)..(sent + Len(z))
      BY <3>1, DownMore
    <3> QED BY <3>2 DEF x, z
  <2> QED BY <1>4, <1>5, <2>2
<1>7. CallsRight'
  BY QuietIsCall DEF IInv, CallsRight
<1>8. DownRight'
  <2>1. fw'.op = "drain" => Reading(fw', down')
    <3> SUFFICES ASSUME fw.op = "drain" PROVE Reading(fw, down')
      OBVIOUS
    <3>1. Reading(fw, down) /\ fw \in Call
      BY DEF IInv, DownRight, CallsRight
    <3>2. Pending(down) <= Pending(down')
      BY <1>2, <1>3
    <3>3. \A k \in 1..Pending(down) : Contents(down')[k] = Contents(down)[k]
      <4>1. \A k \in 1..(Len(Contents(down)) + n) : (Contents(down) \o host.data)[k] =
              IF k <= Len(Contents(down)) THEN Contents(down)[k]
              ELSE host.data[k - Len(Contents(down))]
        BY <1>3, ConcatProperties
      <4>2. \A k \in 1..Pending(down) : k \in 1..(Len(Contents(down)) + n) /\ k <= Len(Contents(down))
        BY <1>3
      <4> QED BY <1>2, <4>1, <4>2
    <3> QED BY <1>1, <1>2, <3>1, <3>2, <3>3, ReadingKept
  <2> QED BY <1>1, <1>2, <1>4, <1>6, <2>1, QuietIsCall DEF DownRight
<1>9. Newest' = sent + n
  <2> DEFINE S == {0} \cup ToSet(drained) \cup ToSet(Contents(down'))
  <2>1. /\ drained \in Seq(Nat) /\ Contents(down') \in Seq(Nat)
        /\ ToSet(drained \o Contents(down')) = ToSet(drained) \cup ToSet(Contents(down'))
    BY <1>1, <1>2, RingContents, Joined
  <2>2. S \subseteq 0..(sent + n)
    BY <1>4, <1>6, <2>1 DEF DownStream
  <2>3. sent + n \in ToSet(Contents(down'))
    <3>1. ToSet(Contents(down')) = ToSet(Contents(down)) \cup ToSet(host.data)
      BY <1>2, <1>3, Joined
    <3>2. sent + n \in (sent + 1)..(sent + n)
      <4>1. n >= 1
        BY <1>2, <1>3, Sizes
      <4> HIDE DEF n
      <4> QED BY <1>1, <1>3, <4>1
    <3> QED BY <1>6, <3>1, <3>2
  <2>4. Newest' = Max(S)
    BY DEF Newest
  <2>5. S # {} /\ sent + n \in S /\ sent + n \in Nat
    BY <1>1, <1>3, <2>3
  <2> HIDE DEF S
  <2>6. Max(S) \in S /\ Max(S) \in Nat /\ sent + n <= Max(S)
    BY <2>2, <2>5, Greatest
  <2>7. Max(S) <= sent + n
    BY <2>2, <2>5, <2>6
  <2> QED BY <2>4, <2>5, <2>6, <2>7
<1>10. DownQueue!Put
  <2>1. Newest \in Nat /\ Newest <= sent
    BY NewestIs DEF IInv
  <2>2. /\ n \in 1..(Size - 1 - Len(Contents(down))) /\ sent + 1 \in 1..MaxDown
        /\ sent + 1 > Newest /\ Newest' = (sent + 1) + n - 1
    <3>1. n >= 1 /\ n <= Size - 1 - Len(Contents(down)) /\ sent + n <= MaxDown
      BY <1>2, <1>3, <1>4, Sizes
    <3> DEFINE l == Len(Contents(down))  w == Newest
    <3>2. /\ n \in Nat /\ l \in Nat /\ w \in Nat /\ sent \in Nat /\ w <= sent
          /\ n >= 1 /\ n <= Size - 1 - l /\ sent + n <= MaxDown
          /\ Size \in Nat /\ MaxDown \in Nat
      BY <1>1, <1>3, <2>1, <3>1, Sizes
    <3>3. Newest' = sent + n
      BY <1>9
    <3> HIDE DEF n, l, w
    <3>4. n \in 1..(Size - 1 - l) /\ sent + 1 \in 1..MaxDown /\ sent + 1 > w
          /\ sent + n = (sent + 1) + n - 1
      BY <3>2
    <3> QED BY <3>3, <3>4 DEF l, w
  <2>3. host.data = [k \in 1..n |-> (sent + 1) + k - 1]
    <3>1. host.data \in [1..n -> Nat]
      BY <1>3, LenProperties
    <3>2. \A k \in 1..n : host.data[k] = (sent + 1) + k - 1
      BY <1>1, <1>3 DEF Carries
    <3> QED BY <3>1, <3>2
  <2> DEFINE first == sent + 1
  <2> HIDE DEF first, n
  <2>4. /\ n \in 1..(Size - 1 - Len(Contents(down))) /\ first \in 1..MaxDown
        /\ first > Newest /\ Newest' = first + n - 1
        /\ host.data = [k \in 1..n |-> first + k - 1]
    BY <2>2, <2>3 DEF first
  <2> QED BY <1>2, <2>4 DEF DownQueue!Put, DownQueue!Run
<1>11. UpRight' /\ UpMove
  <2>1. host'.op # "read"
    BY QuietIsCall
  <2> QED BY <2>1, UpKept DEF IInv
<1> QED BY <1>7, <1>8, <1>10, <1>11 DEF Good, IInv, DownMove

LEMMA PublishWriteGood ==
  ASSUME IInv, PublishWrite
  PROVE  Good
<1>1. /\ host.op = "write" /\ host.done = Len(host.data)
      /\ down' = [down EXCEPT !.wr = host.off] /\ host' = Quiet /\ sent' = sent + host.done
      /\ UNCHANGED <<up, fw, excess, given, dropped, drained>>
  BY DEF PublishWrite, Copied
<1> QED BY <1>1, DownPuts

\* A write that fails before its offset is out, or with it, leaves the ring's
\* bytes alone, and what it reports counts as excess.
LEMMA DownMisses ==
  ASSUME IInv, host.op = "write", host' = Quiet, sent' = sent + host.done,
         excess' = excess \cup (sent + 1)..(sent + host.done),
         down' \in Ring, down'.wr = down.wr, down'.rd = down.rd,
         Pending(down') = Pending(down), Contents(down') = Contents(down),
         UNCHANGED <<up, fw, given, dropped, drained>>
  PROVE  Good
<1>1. /\ host \in Call /\ down \in Ring /\ Writing(host, down) /\ drained \in Seq(Nat)
      /\ sent \in Nat /\ sent <= MaxDown
      /\ Carries(host.data, sent, MaxDown) /\ DownStream(drained \o Contents(down), excess, sent)
  BY DEF IInv, CallsRight, DownRight
<1>2. host.done \in Nat /\ host.done <= Len(host.data) /\ Len(host.data) \in Nat
  BY <1>1 DEF Call, Writing
<1>3. sent' \in Nat /\ sent' <= MaxDown
  BY <1>1, <1>2, Sizes DEF Carries
<1>4. DownStream(drained \o Contents(down), excess', sent')
  <2>1. drained \o Contents(down) \in Seq(Nat)
    BY <1>1, RingContents, Joined
  <2> QED BY <1>1, <1>2, <2>1, DownMissed
<1>5. CallsRight'
  BY QuietIsCall DEF IInv, CallsRight
<1>6. DownRight'
  <2>1. fw'.op = "drain" => Reading(fw', down')
    <3> SUFFICES ASSUME fw.op = "drain" PROVE Reading(fw, down')
      OBVIOUS
    <3>1. Reading(fw, down) /\ fw \in Call
      BY DEF IInv, DownRight, CallsRight
    <3>2. Pending(down) <= Pending(down')
      BY <1>1, RingContents, Sizes DEF Slots
    <3> QED BY <1>1, <3>1, <3>2, ReadingKept
  <2> QED BY <1>1, <1>3, <1>4, <2>1, QuietIsCall DEF DownRight
<1>7. DownMove
  BY DEF DownMove, Newest
<1>8. UpRight' /\ UpMove
  <2>1. host'.op # "read"
    BY QuietIsCall
  <2> QED BY <2>1, UpKept DEF IInv
<1> QED BY <1>5, <1>6, <1>7, <1>8 DEF Good, IInv

LEMMA WriteFailsGood ==
  ASSUME IInv, WriteFails
  PROVE  Good
<1>1. /\ host.op = "write" /\ host' = Quiet /\ sent' = sent + host.done
      /\ UNCHANGED <<up, fw, given, dropped, drained>>
      /\ \/ /\ \E n \in 0..Len(RunOf(host)) :
                 down' = Fill(down, host.off, SubSeq(RunOf(host), 1, n))
            /\ excess' = excess \cup (sent + 1)..(sent + host.done)
         \/ down' = down /\ excess' = excess \cup (sent + 1)..(sent + host.done)
         \/ /\ host.done = Len(host.data)
            /\ down' = [down EXCEPT !.wr = host.off] /\ excess' = excess
  BY DEF WriteFails, Fails, Copied, Reported, WriteRun, RunOf
<1>2. host \in Call /\ down \in Ring /\ Writing(host, down)
  BY <1>1 DEF IInv, CallsRight, DownRight
<1>3. CASE /\ \E n \in 0..Len(RunOf(host)) :
                 down' = Fill(down, host.off, SubSeq(RunOf(host), 1, n))
           /\ excess' = excess \cup (sent + 1)..(sent + host.done)
  <2>1. PICK n \in 0..Len(RunOf(host)) : down' = Fill(down, host.off, SubSeq(RunOf(host), 1, n))
    BY <1>3
  <2>2. /\ down' \in Ring /\ down'.wr = down.wr /\ down'.rd = down.rd
        /\ Pending(down') = Pending(down) /\ Contents(down') = Contents(down)
    BY <1>2, <2>1, WriteLands
  <2> QED BY <1>1, <1>3, <2>2, DownMisses
<1>4. CASE down' = down /\ excess' = excess \cup (sent + 1)..(sent + host.done)
  BY <1>1, <1>2, <1>4, DownMisses
<1>5. CASE /\ host.done = Len(host.data)
           /\ down' = [down EXCEPT !.wr = host.off] /\ excess' = excess
  BY <1>1, <1>5, DownPuts
<1> QED BY <1>1, <1>3, <1>4, <1>5

LEMMA DrainDownGood ==
  ASSUME IInv, DrainDown
  PROVE  Good
<1>1. /\ UNCHANGED <<up, down, host, sent, excess, given, dropped, drained>>
      /\ down.wr # down.rd /\ fw' = Begun("drain", down, down.rd, <<>>)
  BY DEF DrainDown, Load, Begun, rings, history
<1>2. fw' \in Call /\ Reading(fw', down) /\ fw'.op = "drain" /\ fw'.at = "copy"
  <2>1. fw'.op = "drain" /\ fw'.at = "copy"
    BY <1>1 DEF Begun
  <2> QED BY <1>1, <2>1, ReadBegins DEF IInv, DownRight
<1>3. CallsRight'
  BY <1>1, <1>2 DEF IInv, CallsRight
<1>4. UpRight' /\ UpMove
  <2>1. fw'.op # "fill"
    BY <1>2
  <2> QED BY <1>1, <2>1, UpKept DEF IInv
<1>5. DownRight' /\ DownMove
  <2>1. Newest' = Newest /\ Contents(down)' = Contents(down)
    BY <1>1 DEF Newest
  <2>2. host'.op = "write" => Writing(host', down') /\ Carries(host'.data, sent', MaxDown)
    BY <1>1 DEF IInv, DownRight
  <2> QED BY <1>1, <1>2, <2>1, <2>2 DEF IInv, DownRight, DownMove, DownStream
<1> QED BY <1>3, <1>4, <1>5 DEF Good, IInv

LEMMA DrainChunkGood ==
  ASSUME IInv, DrainChunk
  PROVE  Good
<1>1. /\ UNCHANGED <<up, down, host, sent, excess, given, dropped, drained>>
      /\ fw.op = "drain" /\ fw.off # fw.wr /\ fw' = ReadOn(fw, down)
  BY DEF DrainChunk, ReadOn, RunEnd, rings, history
<1>2. fw' \in Call /\ Reading(fw', down)
  BY <1>1, ReadStep DEF IInv, DownRight, CallsRight
<1>3. fw'.op = fw.op /\ fw'.at = fw.at
  BY <1>1 DEF ReadOn, Call, IInv, CallsRight
<1>4. CallsRight'
  BY <1>1, <1>2, <1>3 DEF IInv, CallsRight
<1>5. UpRight' /\ UpMove
  <2>1. fw'.op # "fill"
    BY <1>1, <1>3
  <2> QED BY <1>1, <2>1, UpKept DEF IInv
<1>6. DownRight' /\ DownMove
  <2>1. Newest' = Newest /\ Contents(down)' = Contents(down)
    BY <1>1 DEF Newest
  <2>2. host'.op = "write" => Writing(host', down') /\ Carries(host'.data, sent', MaxDown)
    BY <1>1 DEF IInv, DownRight
  <2> QED BY <1>1, <1>2, <2>1, <2>2 DEF IInv, DownRight, DownMove, DownStream
<1> QED BY <1>4, <1>5, <1>6 DEF Good, IInv

LEMMA DrainDoneGood ==
  ASSUME IInv, DrainDone
  PROVE  Good
<1>1. /\ UNCHANGED <<up, host, sent, excess, given, dropped>>
      /\ fw.op = "drain" /\ fw.off = fw.wr /\ fw' = Quiet
      /\ down' = [down EXCEPT !.rd = fw.off] /\ drained' = drained \o fw.data
  BY DEF DrainDone
<1>2. /\ fw \in Call /\ down \in Ring /\ Reading(fw, down) /\ drained \in Seq(Nat)
      /\ DownStream(drained \o Contents(down), excess, sent)
  BY <1>1 DEF IInv, CallsRight, DownRight
<1>3. /\ down' \in Ring /\ down'.wr = down.wr /\ down'.slot = down.slot
      /\ Pending(down') <= Pending(down)
      /\ Contents(down) = fw.data \o Contents(down')
      /\ Len(fw.data) \in 1..Len(Contents(down))
      /\ Contents(down') = SubSeq(Contents(down), Len(fw.data) + 1, Len(Contents(down)))
  BY <1>1, <1>2, Split
<1>4. fw.data \in Seq(Nat) /\ Contents(down') \in Seq(Nat) /\ Contents(down) \in Seq(Nat)
  BY <1>2, <1>3, RingContents DEF Call
<1>5. drained' \in Seq(Nat) /\ drained' \o Contents(down') = drained \o Contents(down)
  <2>1. (drained \o fw.data) \o Contents(down') = drained \o (fw.data \o Contents(down'))
    <3> DEFINE x == drained  y == fw.data  z == Contents(down')
    <3>1. x \in Seq(Nat) /\ y \in Seq(Nat) /\ z \in Seq(Nat)
      BY <1>2, <1>4
    <3> HIDE DEF x, y, z
    <3>2. (x \o y) \o z = x \o (y \o z)
      BY <3>1, Regrouped
    <3> QED BY <3>2 DEF x, y, z
  <2> QED BY <1>1, <1>2, <1>3, <1>4, <2>1, Joined
<1>6. CallsRight'
  BY <1>1, QuietIsCall DEF IInv, CallsRight
<1>7. DownRight'
  <2>1. host'.op = "write" => Writing(host', down') /\ Carries(host'.data, sent', MaxDown)
    <3> SUFFICES ASSUME host.op = "write"
                 PROVE  Writing(host, down') /\ Carries(host.data, sent, MaxDown)
      BY <1>1
    <3>1. Writing(host, down) /\ Carries(host.data, sent, MaxDown) /\ host \in Call
      BY DEF IInv, DownRight, CallsRight
    <3> QED BY <1>2, <1>3, <3>1, WritingKept
  <2>2. fw'.op # "drain"
    BY <1>1, QuietIsCall
  <2> QED BY <1>1, <1>2, <1>3, <1>5, <2>1, <2>2 DEF IInv, DownRight
<1>8. Newest' = Newest
  <2>1. ToSet(drained) \cup ToSet(Contents(down)) = ToSet(drained') \cup ToSet(Contents(down'))
    <3> DEFINE x == drained  y == Contents(down)  u == drained'  v == Contents(down')
    <3>1. /\ x \in Seq(Nat) /\ y \in Seq(Nat) /\ u \in Seq(Nat) /\ v \in Seq(Nat)
          /\ u \o v = x \o y
      BY <1>2, <1>4, <1>5
    <3> HIDE DEF x, y, u, v
    <3>2. ToSet(x \o y) = ToSet(x) \cup ToSet(y) /\ ToSet(u \o v) = ToSet(u) \cup ToSet(v)
      BY <3>1, Joined
    <3> QED BY <3>1, <3>2 DEF x, y, u, v
  <2>2. {0} \cup ToSet(drained) \cup ToSet(Contents(down))
          = {0} \cup ToSet(drained') \cup ToSet(Contents(down'))
    BY <2>1
  <2> QED BY <2>2 DEF Newest
<1>9. DownQueue!Take
  BY <1>3, <1>8 DEF DownQueue!Take
<1>10. UpRight' /\ UpMove
  <2>1. fw'.op # "fill"
    BY <1>1, QuietIsCall
  <2> QED BY <1>1, <2>1, UpKept DEF IInv
<1> QED BY <1>6, <1>7, <1>9, <1>10 DEF Good, IInv, DownMove

LEMMA FillUpGood ==
  ASSUME IInv, FillUp
  PROVE  Good
<1>1. PICK n \in 1..Lower(Free(up), MaxUp - Made) : Load("fill", up, [k \in 1..n |-> Made + k])
  BY DEF FillUp
<1> DEFINE data == [k \in 1..n |-> Made + k]
<1>2. /\ UNCHANGED <<up, down, host, sent, excess, given, dropped, drained>>
      /\ fw' = Begun("fill", up, up.wr, data)
  BY <1>1 DEF FillUp, Load, Begun, rings, history
<1>3. Made \in Nat /\ Made <= MaxUp /\ up \in Ring
  BY MadeIs DEF IInv, UpRight
<1>4. n \in Nat /\ n \in 1..Free(up) /\ n <= MaxUp - Made
  <2>1. Free(up) \in Int
    BY <1>3, RingContents, Sizes DEF Slots
  <2> QED BY <1>3, <2>1, Sizes DEF Lower
<1>5. data \in Seq(Nat) /\ Len(data) = n /\ \A k \in 1..n : data[k] = Made + k
  <2>1. data \in [1..n -> Nat]
    BY <1>3
  <2>2. data \in Seq(Nat) /\ Len(data) = n
    BY <1>4, <2>1, SeqDef
  <2> QED BY <2>2
<1> HIDE DEF data
<1>6. fw' \in Call /\ Writing(fw', up) /\ fw'.op = "fill" /\ fw'.at = "copy" /\ fw'.data = data
  <2>1. fw'.op = "fill" /\ fw'.at = "copy" /\ fw'.data = data
    BY <1>2 DEF Begun
  <2>2. Len(data) \in 1..Free(up)
    BY <1>4, <1>5
  <2> QED BY <1>2, <1>3, <1>5, <2>1, <2>2, WriteBegins
<1>7. Carries(data, Made, MaxUp)
  BY <1>3, <1>4, <1>5, Sizes DEF Carries
<1>8. CallsRight'
  BY <1>2, <1>6 DEF IInv, CallsRight
<1>9. UpRight' /\ UpMove
  <2>1. Made' = Made /\ Contents(up)' = Contents(up)
    BY <1>2 DEF Made
  <2>2. UpStream(given, dropped, up)'
    BY <1>2 DEF IInv, UpRight, UpStream, Base, Carries
  <2>3. host'.op = "read" => Reading(host', up')
    BY <1>2 DEF IInv, UpRight
  <2> QED BY <1>2, <1>6, <1>7, <2>1, <2>2, <2>3 DEF IInv, UpRight, UpMove
<1>10. DownRight' /\ DownMove
  <2>1. fw'.op # "drain"
    BY <1>6
  <2> QED BY <1>2, <2>1, DownKept DEF IInv
<1> QED BY <1>8, <1>9, <1>10 DEF Good, IInv

LEMMA FillChunkGood ==
  ASSUME IInv, FillChunk
  PROVE  Good
<1>1. /\ UNCHANGED <<down, host, sent, excess, given, dropped, drained>>
      /\ fw.op = "fill" /\ up' = Fill(up, fw.off, RunOf(fw)) /\ fw' = WriteOn(fw)
  BY DEF FillChunk, WriteOn, FillRun, RunOf, history
<1>2. /\ fw \in Call /\ up \in Ring /\ Writing(fw, up)
      /\ Carries(fw.data, Made, MaxUp)
  BY <1>1 DEF IInv, CallsRight, UpRight
<1>3. /\ up' \in Ring /\ up'.wr = up.wr /\ up'.rd = up.rd
      /\ Pending(up') = Pending(up) /\ Contents(up') = Contents(up)
      /\ fw' \in Call /\ Writing(fw', up')
  BY <1>1, <1>2, WriteStep
<1>4. fw'.op = fw.op /\ fw'.at = fw.at /\ fw'.data = fw.data
  BY <1>1, <1>2 DEF WriteOn, Call
<1>5. CallsRight'
  BY <1>1, <1>3, <1>4 DEF IInv, CallsRight
<1>6. Made' = Made
  BY <1>1, <1>3 DEF Made
<1>7. UpRight' /\ UpMove
  <2>1. host'.op = "read" => Reading(host', up')
    <3> SUFFICES ASSUME host.op = "read" PROVE Reading(host, up')
      BY <1>1
    <3>1. Reading(host, up) /\ host \in Call
      BY DEF IInv, UpRight, CallsRight
    <3>2. Pending(up) <= Pending(up')
      BY <1>2, <1>3, RingContents, Sizes DEF Slots
    <3> QED BY <1>2, <1>3, <3>1, <3>2, ReadingKept
  <2>2. UpStream(given', dropped', up')
    BY <1>1, <1>3 DEF IInv, UpRight, UpStream, Base, Carries
  <2> QED BY <1>1, <1>2, <1>3, <1>4, <1>6, <2>1, <2>2 DEF IInv, UpRight, UpMove
<1>8. DownRight' /\ DownMove
  <2>1. fw'.op # "drain"
    BY <1>1, <1>4
  <2> QED BY <1>1, <2>1, DownKept DEF IInv
<1> QED BY <1>5, <1>7, <1>8 DEF Good, IInv

LEMMA FillDoneGood ==
  ASSUME IInv, FillDone
  PROVE  Good
<1> DEFINE n == Len(fw.data)
           b == Base(given, dropped)
<1>1. /\ UNCHANGED <<down, host, sent, excess, given, dropped, drained>>
      /\ fw.op = "fill" /\ fw.done = n
      /\ up' = [up EXCEPT !.wr = fw.off] /\ fw' = Quiet
  BY DEF FillDone, history
<1>2. /\ fw \in Call /\ up \in Ring /\ Writing(fw, up) /\ Carries(fw.data, Made, MaxUp)
      /\ given \in Seq(Nat) /\ UpStream(given, dropped, up)
  BY <1>1 DEF IInv, CallsRight, UpRight
<1>3. /\ up' \in Ring /\ up'.rd = up.rd /\ up'.slot = up.slot
      /\ n \in 1..(Size - 1 - Pending(up))
      /\ Pending(up') = Pending(up) + n
      /\ Contents(up') = Contents(up) \o fw.data
  BY <1>1, <1>2, WriteEnd
<1>4. /\ Contents(up) \in Seq(Nat) /\ fw.data \in Seq(Nat) /\ n \in Nat
      /\ Pending(up) \in Nat /\ Len(Contents(up)) = Pending(up)
      /\ b \in Nat /\ Made = b + Pending(up)
  BY <1>2, RingContents, MadeIs, Sizes DEF Call, Slots, IInv
<1>5. /\ \A k \in 1..Pending(up) : Contents(up)[k] = b + k
      /\ \A k \in 1..n : fw.data[k] = Made + k
      /\ Made + n <= MaxUp
  BY <1>2, <1>4 DEF UpStream, Carries
<1>6. /\ Len(Contents(up')) = Pending(up) + n
      /\ \A k \in 1..(Pending(up) + n) : Contents(up')[k] =
           IF k <= Pending(up) THEN Contents(up)[k] ELSE fw.data[k - Pending(up)]
  <2>1. /\ Len(Contents(up) \o fw.data) = Len(Contents(up)) + Len(fw.data)
        /\ \A k \in 1..(Len(Contents(up)) + Len(fw.data)) : (Contents(up) \o fw.data)[k] =
             IF k <= Len(Contents(up)) THEN Contents(up)[k] ELSE fw.data[k - Len(Contents(up))]
    BY <1>4, ConcatProperties
  <2> QED BY <1>3, <1>4, <2>1
<1>7. Made' = Made + n
  <2>1. Made' = b + Pending(up')
    BY <1>1 DEF Made, Base
  <2> QED BY <1>3, <1>4, <2>1
<1> HIDE DEF b
<1>8. Carries(Contents(up'), b, MaxUp)
  <2>1. ASSUME NEW k \in 1..(Pending(up) + n)
        PROVE  Contents(up')[k] = b + k
    <3>1. CASE k <= Pending(up)
      <4>1. k \in 1..Pending(up)
        BY <1>4, <2>1, <3>1
      <4>2. Contents(up')[k] = Contents(up)[k]
        BY <1>6, <2>1, <3>1
      <4> QED BY <1>5, <4>1, <4>2
    <3>2. CASE ~ k <= Pending(up)
      <4>1. k - Pending(up) \in 1..n
        BY <1>4, <2>1, <3>2
      <4>2. Contents(up')[k] = fw.data[k - Pending(up)]
        BY <1>6, <2>1, <3>2
      <4>3. Contents(up')[k] = Made + (k - Pending(up))
        BY <1>5, <4>1, <4>2
      <4> QED BY <1>4, <2>1, <4>3
    <3> QED BY <3>1, <3>2
  <2>2. b + (Pending(up) + n) <= MaxUp
    BY <1>4, <1>5, Sizes
  <2> QED BY <1>6, <2>1, <2>2 DEF Carries
<1>9. CallsRight'
  BY <1>1, QuietIsCall DEF IInv, CallsRight
<1>10. UpRight'
  <2>1. host'.op = "read" => Reading(host', up')
    <3> SUFFICES ASSUME host.op = "read" PROVE Reading(host, up')
      BY <1>1
    <3>1. Reading(host, up) /\ host \in Call
      BY DEF IInv, UpRight, CallsRight
    <3>2. Pending(up) <= Pending(up')
      BY <1>3, <1>4
    <3>3. \A k \in 1..Pending(up) : Contents(up')[k] = Contents(up)[k]
      <4>1. \A k \in 1..Pending(up) : k \in 1..(Pending(up) + n) /\ k <= Pending(up)
        BY <1>4
      <4> QED BY <1>6, <4>1
    <3> QED BY <1>2, <1>3, <3>1, <3>2, <3>3, ReadingKept
  <2>2. UpStream(given', dropped', up')
    BY <1>1, <1>2, <1>8 DEF UpStream, b
  <2>3. fw'.op # "fill"
    BY <1>1, QuietIsCall
  <2> QED BY <1>1, <1>2, <1>3, <2>1, <2>2, <2>3 DEF UpRight
<1>11. UpQueue!Put
  <2> DEFINE first == Made + 1
  <2>1. first \in 1..MaxUp /\ first > Made /\ Made' = first + n - 1
        /\ n \in 1..(Size - 1 - Len(Contents(up)))
    <3>1. n >= 1 /\ n <= Size - 1 - Len(Contents(up)) /\ Made \in Nat /\ n \in Nat
      BY <1>3, <1>4, Sizes
    <3>2. Len(Contents(up)) \in Nat
      BY <1>4
    <3> HIDE DEF n
    <3> QED BY <1>5, <1>7, <3>1, <3>2, Sizes
  <2>2. fw.data = [k \in 1..n |-> first + k - 1]
    <3>1. fw.data \in [1..n -> Nat]
      BY <1>4, LenProperties
    <3>2. \A k \in 1..n : fw.data[k] = first + k - 1
      BY <1>4, <1>5
    <3> QED BY <3>1, <3>2
  <2> HIDE DEF first, n
  <2> QED BY <1>3, <2>1, <2>2 DEF UpQueue!Put, UpQueue!Run
<1>12. DownRight' /\ DownMove
  <2>1. fw'.op # "drain"
    BY <1>1, QuietIsCall
  <2> QED BY <1>1, <2>1, DownKept DEF IInv
<1> QED BY <1>9, <1>10, <1>11, <1>12 DEF Good, IInv, UpMove

LEMMA StutterGood ==
  ASSUME IInv, UNCHANGED vars
  PROVE  Good
<1>1. UNCHANGED <<up, down, host, fw, sent, excess, given, dropped, drained>>
  BY DEF vars
<1>2. UpRight' /\ UpMove /\ DownRight' /\ DownMove
  BY <1>1, UpKept, DownKept DEF IInv
<1>3. CallsRight'
  BY <1>1 DEF IInv, CallsRight
<1> QED BY <1>2, <1>3 DEF Good, IInv

LEMMA StepGood ==
  ASSUME IInv, [Next]_vars
  PROVE  Good
<1>1. CASE Find \/ NotFound \/ New   BY <1>1, Searching
<1>2. CASE Read                      BY <1>2, ReadGood
<1>3. CASE Write                     BY <1>3, WriteGood
<1>4. CASE ReadChunk                 BY <1>4, ReadChunkGood
<1>5. CASE WriteChunk                BY <1>5, WriteChunkGood
<1>6. CASE PublishRead               BY <1>6, PublishReadGood
<1>7. CASE PublishWrite              BY <1>7, PublishWriteGood
<1>8. CASE ReadFails                 BY <1>8, ReadFailsGood
<1>9. CASE WriteFails                BY <1>9, WriteFailsGood
<1>10. CASE DrainDown                BY <1>10, DrainDownGood
<1>11. CASE DrainChunk               BY <1>11, DrainChunkGood
<1>12. CASE DrainDone                BY <1>12, DrainDoneGood
<1>13. CASE FillUp                   BY <1>13, FillUpGood
<1>14. CASE FillChunk                BY <1>14, FillChunkGood
<1>15. CASE FillDone                 BY <1>15, FillDoneGood
<1>16. CASE UNCHANGED vars           BY <1>16, StutterGood
<1> QED
  BY <1>1, <1>2, <1>3, <1>4, <1>5, <1>6, <1>7, <1>8, <1>9, <1>10, <1>11, <1>12, <1>13, <1>14,
     <1>15, <1>16 DEF Next, Copying, Moving

LEMMA InitGood ==
  ASSUME Init
  PROVE  IInv /\ UpQueue!Init /\ DownQueue!Init
<1>1. 0 \in Slots /\ <<>> \in Seq(Nat) /\ Len(<<>>) = 0
  BY Sizes DEF Slots
<1>2. up \in Ring /\ down \in Ring /\ up.rd = 0 /\ up.wr = 0 /\ down.rd = 0 /\ down.wr = 0
  BY <1>1 DEF Init, Ring
<1>3. Pending(up) = 0 /\ Pending(down) = 0 /\ Contents(up) = <<>> /\ Contents(down) = <<>>
  <2>1. Dist(0, 0) = 0
    BY <1>1, Distances
  <2>2. Pending(up) = 0 /\ Pending(down) = 0
    BY <1>2, <2>1, RingContents
  <2>3. /\ Contents(up) \in Seq(Nat) /\ Len(Contents(up)) = 0
        /\ Contents(down) \in Seq(Nat) /\ Len(Contents(down)) = 0
    BY <1>2, <2>2, RingContents
  <2> QED BY <2>2, <2>3, EmptySeq
<1>4. Base(given, dropped) = 0 /\ IsFiniteSet(dropped) /\ given = <<>> /\ dropped = {}
  <2>1. IsFiniteSet({}) /\ Cardinality({}) = 0
    BY FS_EmptySet
  <2> QED BY <1>1, <2>1 DEF Init, Base
<1>5. ToSet(<<>>) = {} /\ Ascending(<<>>)
  <2>1. DOMAIN <<>> = {}
    OBVIOUS
  <2> QED BY <2>1 DEF ToSet, Ascending
<1>6. UpStream(given, dropped, up)
  <2>1. Carries(Contents(up), 0, MaxUp)
    BY <1>1, <1>3, Sizes DEF Carries
  <2> QED BY <1>4, <1>5, <2>1 DEF UpStream
<1>7. drained = <<>> /\ excess = {} /\ sent = 0
  BY DEF Init
<1>8. DownStream(drained \o Contents(down), excess, sent)
  <2>1. <<>> \o <<>> = <<>>
    BY <1>1, ConcatEmptySeq
  <2> QED BY <1>3, <1>5, <1>7, <2>1 DEF DownStream
<1>9. host \in Call /\ host.op = "none" /\ host.at = "detached" /\ fw = Quiet
  BY <1>1 DEF Init, Quiet, Call
<1>10. IInv
  BY <1>1, <1>2, <1>4, <1>6, <1>7, <1>8, <1>9, QuietIsCall, Sizes
     DEF IInv, CallsRight, UpRight, DownRight
<1>11. Made = 0
  BY <1>3, <1>4 DEF Made, Base
<1>12. Newest = 0
  <2>1. Newest \in Nat /\ Newest <= 0
    BY <1>7, <1>10, NewestIs DEF IInv
  <2> QED BY <2>1
<1> QED BY <1>3, <1>10, <1>11, <1>12 DEF UpQueue!Init, DownQueue!Init

LEMMA Inductive == Spec => []IInv
<1>1. Init => IInv
  BY InitGood
<1>2. IInv /\ [Next]_vars => IInv'
  BY StepGood DEF Good
<1> QED BY <1>1, <1>2, PTL DEF Spec

-----------------------------------------------------------------------------
(* The theorems. *)

\* What Read returns is the firmware's stream in order, each byte once, and the
\* only bytes missing are those of a Read that failed in publishing its offset:
\* rtt.go Read and rttecho.go FillUp, any number of accesses failing.
THEOREM ReadsInOrder == Spec => []UpOnceInOrder
<1>1. IInv => UpOnceInOrder
  <2> SUFFICES ASSUME IInv PROVE UpOnceInOrder
    OBVIOUS
  <2> DEFINE b == Base(given, dropped)
  <2>1. /\ Ascending(given) /\ ToSet(given) \cup dropped = 1..b /\ ToSet(given) \cap dropped = {}
        /\ Carries(Contents(up), b, MaxUp) /\ up \in Ring
    BY DEF IInv, UpRight, UpStream
  <2>2. b \in Nat /\ Pending(up) \in Nat /\ b + Pending(up) <= MaxUp
    BY MadeIs DEF IInv
  <2>3. b \in 0..MaxUp
    BY <2>2, Sizes
  <2>4. Contents(up) = UpQueue!Run(b + 1, Pending(up))
    <3>1. Contents(up) \in [1..Pending(up) -> Nat]
      BY <2>1, RingContents, LenProperties
    <3>2. \A k \in 1..Pending(up) : Contents(up)[k] = (b + 1) + k - 1
      BY <2>1, <2>2, RingContents DEF Carries
    <3> HIDE DEF b
    <3> QED BY <3>1, <3>2 DEF UpQueue!Run
  <2> QED BY <2>1, <2>3, <2>4 DEF UpOnceInOrder
<1> QED BY <1>1, Inductive, PTL

\* The firmware gets the caller's stream in order and no byte twice, though the
\* caller goes on from the count of a Write that failed; what it does not get
\* such a Write counted: rtt.go Write and rttecho.go DrainDown.
THEOREM WritesInOrder == Spec => []DownOnceInOrder
<1>1. IInv => DownOnceInOrder
  BY DEF IInv, DownRight, DownStream, DownOnceInOrder
<1> QED BY <1>1, Inductive, PTL

\* Both rings are bounded queues: every step of the two sides puts a whole call's
\* bytes in at one end, takes a whole call's out at the other, or leaves the queue
\* as it is (rtt.go Read and Write; rttecho.go DrainDown and FillUp).
THEOREM RingsRefineQueues == Spec => RingsAreQueues
<1>1. Init => UpQueue!Init /\ DownQueue!Init
  BY InitGood
<1>2. IInv /\ [Next]_vars => UpMove /\ DownMove
  BY StepGood DEF Good
<1>3. Spec => UpQueue!Spec
  BY <1>1, <1>2, Inductive, PTL DEF Spec, UpQueue!Spec, UpMove
<1>4. Spec => DownQueue!Spec
  BY <1>1, <1>2, Inductive, PTL DEF Spec, DownQueue!Spec, DownMove
<1> QED BY <1>3, <1>4 DEF RingsAreQueues

-----------------------------------------------------------------------------
(* The search for the control block.  scan is a function of its place, which *)
(* exists because the place moves on, block by block, to the end.            *)

LEMMA ScanSizes ==
  /\ IdLen \in Nat \ {0} /\ BlockSize \in Nat \ {0} /\ SearchSize \in Nat \ {0}
  /\ HeaderLen \in Nat /\ IdLen <= BlockSize /\ Overlap = IdLen - 1 /\ Overlap \in Nat
  /\ None \notin Nat
BY ScanAssumption DEF Overlap

ScanEnd == SearchSize + BlockSize
Result(m, s, rest) ==
  IF s.at >= SearchSize THEN [addr |-> None, sticky |-> s.sticky]
  ELSE IF Hits(m, s) # {} THEN [addr |-> Min(Hits(m, s)), sticky |-> FALSE]
  ELSE rest

\* f is scan, from address lo on.
PlacesFrom(lo) == {s \in Place : s.at >= lo}
ScanBy(m, f, lo) == f = [s \in PlacesFrom(lo) |-> Result(m, s, f[NextBlock(m, s)])]

LEMMA PlaceIs ==
  ASSUME NEW s \in Place
  PROVE  /\ s.at \in Nat /\ s.at <= ScanEnd /\ s.tail \in BOOLEAN /\ s.sticky \in BOOLEAN
         /\ s = [at |-> s.at, tail |-> s.tail, sticky |-> s.sticky]
BY ScanSizes DEF Place, ScanEnd

LEMMA NextIs ==
  ASSUME NEW m, NEW s \in Place, s.at < SearchSize
  PROVE  NextBlock(m, s) \in Place /\ NextBlock(m, s).at = s.at + BlockSize
<1>1. s.at + BlockSize \in 0..(SearchSize + BlockSize)
  BY PlaceIs, ScanSizes
<1>2. (Answers(m, s) /\ BlockEnd(s) - s.at >= Overlap) \in BOOLEAN
      /\ (Answers(m, s) /\ Faulting(m, BufferAt(s), BlockEnd(s)) # {}) \in BOOLEAN
  OBVIOUS
<1> QED BY <1>1, <1>2 DEF NextBlock, Place

LEMMA ScanExists ==
  ASSUME NEW m, NEW n \in Nat
  PROVE  \E f : ScanBy(m, f, ScanEnd + 1 - n)
<1> DEFINE T == {k \in Nat : ~ \E f : ScanBy(m, f, ScanEnd + 1 - k)}
<1> SUFFICES ASSUME T # {} PROVE FALSE
  OBVIOUS
<1>1. PICK k \in T : \A y \in T : k <= y
  <2>1. T \subseteq Nat
    OBVIOUS
  <2> HIDE DEF T
  <2> QED BY <2>1, Least
<1> DEFINE lo == ScanEnd + 1 - k
<1>2. ScanEnd \in Nat
  BY ScanSizes DEF ScanEnd
<1>3. k # 0
  <2> SUFFICES ASSUME k = 0 PROVE FALSE
    OBVIOUS
  <2>1. PlacesFrom(ScanEnd + 1) = {}
    <3>1. \A s \in Place : ~ (s.at >= ScanEnd + 1)
      BY <1>2, PlaceIs
    <3> QED BY <3>1 DEF PlacesFrom
  <2> DEFINE e == [s \in {} |-> {}]
  <2>2. e = [s \in {} |-> Result(m, s, e[NextBlock(m, s)])]
    OBVIOUS
  <2> HIDE DEF e
  <2>3. ScanBy(m, e, ScanEnd + 1)
    BY <2>1, <2>2 DEF ScanBy
  <2>4. lo = ScanEnd + 1
    BY <1>2
  <2> QED BY <2>3, <2>4
<1>4. k - 1 \in Nat /\ k - 1 \notin T /\ ScanEnd + 1 - (k - 1) = lo + 1 /\ lo \in Int
  BY <1>1, <1>2, <1>3
<1>5. PICK g : ScanBy(m, g, lo + 1)
  BY <1>4
<1> HIDE DEF T, lo
<1> DEFINE h == [s \in PlacesFrom(lo) |-> Result(m, s, g[NextBlock(m, s)])]
<1>6. \A s \in PlacesFrom(lo + 1) : s \in PlacesFrom(lo) /\ g[s] = h[s]
  <2> SUFFICES ASSUME NEW s \in PlacesFrom(lo + 1) PROVE s \in PlacesFrom(lo) /\ g[s] = h[s]
    OBVIOUS
  <2>1. lo \in Int /\ s \in Place /\ s.at >= lo + 1
    BY <1>4 DEF PlacesFrom
  <2>2. s \in PlacesFrom(lo)
    BY <2>1, PlaceIs DEF PlacesFrom
  <2>3. g[s] = Result(m, s, g[NextBlock(m, s)])
    BY <1>5 DEF ScanBy
  <2> QED BY <2>2, <2>3
<1>7. \A s \in PlacesFrom(lo) : s.at < SearchSize => h[NextBlock(m, s)] = g[NextBlock(m, s)]
  <2> SUFFICES ASSUME NEW s \in PlacesFrom(lo), s.at < SearchSize
               PROVE  h[NextBlock(m, s)] = g[NextBlock(m, s)]
    OBVIOUS
  <2>1. lo \in Int /\ s \in Place /\ s.at >= lo /\ s.at \in Nat
    BY <1>4, PlaceIs DEF PlacesFrom
  <2>2. NextBlock(m, s) \in Place /\ NextBlock(m, s).at = s.at + BlockSize
    BY <2>1, NextIs
  <2>3. NextBlock(m, s).at >= lo + 1
    BY <2>1, <2>2, ScanSizes
  <2>4. NextBlock(m, s) \in PlacesFrom(lo + 1)
    BY <2>2, <2>3 DEF PlacesFrom
  <2> QED BY <1>6, <2>4
<1>8. h = [s \in PlacesFrom(lo) |-> Result(m, s, g[NextBlock(m, s)])]
  OBVIOUS
<1> HIDE DEF h
<1>9. ASSUME NEW s \in PlacesFrom(lo)
      PROVE  Result(m, s, g[NextBlock(m, s)]) = Result(m, s, h[NextBlock(m, s)])
  <2>1. s.at >= SearchSize \/ s.at < SearchSize
    BY PlaceIs, ScanSizes DEF PlacesFrom
  <2> QED BY <1>7, <2>1 DEF Result
<1>10. ScanBy(m, h, lo)
  BY <1>8, <1>9 DEF ScanBy
<1>11. k \in T
  BY <1>1
<1> QED BY <1>10, <1>11 DEF T, lo

\* What it returns, and that it returns.
LEMMA ScanIs ==
  ASSUME NEW m, NEW s \in Place
  PROVE  ScanFrom(m)[s] = Result(m, s, ScanFrom(m)[NextBlock(m, s)])
<1> DEFINE G(f) == [p \in Place |-> Result(m, p, f[NextBlock(m, p)])]
<1>1. PICK f : ScanBy(m, f, 0)
  <2>1. ScanEnd + 1 \in Nat /\ ScanEnd + 1 - (ScanEnd + 1) = 0
    BY ScanSizes DEF ScanEnd
  <2> QED BY <2>1, ScanExists
<1>2. PlacesFrom(0) = Place
  BY PlaceIs DEF PlacesFrom
<1>3. f = G(f)
  BY <1>1, <1>2 DEF ScanBy
<1>4. ScanFrom(m) = CHOOSE g : g = G(g)
  BY DEF ScanFrom, Result
<1> HIDE DEF G
<1>5. ScanFrom(m) = G(ScanFrom(m))
  BY <1>3, <1>4
<1> QED BY <1>5 DEF G

LEMMA NoEndlessScan ==
  ASSUME NEW m, NEW S, S \subseteq Place,
         \A s \in S : s.at < SearchSize /\ NextBlock(m, s) \in S
  PROVE  S = {}
<1> DEFINE T == {ScanEnd - s.at : s \in S}
<1> SUFFICES ASSUME S # {} PROVE FALSE
  OBVIOUS
<1>1. \A s \in S : s \in Place /\ ScanEnd - s.at \in Nat
  BY PlaceIs, ScanSizes DEF ScanEnd
<1>2. T \subseteq Nat /\ T # {}
  BY <1>1
<1>3. PICK n \in T : \A y \in T : n <= y
  <2> HIDE DEF T
  <2> QED BY <1>2, Least
<1>4. PICK s \in S : n = ScanEnd - s.at
  OBVIOUS
<1>5. NextBlock(m, s) \in S /\ NextBlock(m, s).at = s.at + BlockSize
  BY <1>1, NextIs
<1>6. n <= ScanEnd - (s.at + BlockSize)
  BY <1>3, <1>5
<1> QED BY <1>1, <1>4, <1>6, PlaceIs, ScanSizes DEF ScanEnd

\* Whatever answers and whatever is left over, an address that comes back is that
\* of a control block.
LEMMA ScanSound ==
  ASSUME NEW m, IsMemory(m), NEW s \in Place
  PROVE  ScanFrom(m)[s].addr \in m.good \cup {None}
<1> DEFINE S == {p \in Place : ScanFrom(m)[p].addr \notin m.good \cup {None}}
<1>1. ASSUME NEW p \in S
      PROVE  p.at < SearchSize /\ NextBlock(m, p) \in S
  <2>1. p \in Place /\ ScanFrom(m)[p].addr \notin m.good \cup {None}
    OBVIOUS
  <2>2. ScanFrom(m)[p] = Result(m, p, ScanFrom(m)[NextBlock(m, p)])
    BY <2>1, ScanIs
  <2>3. p.at < SearchSize
    <3>1. p.at >= SearchSize \/ p.at < SearchSize
      BY <2>1, PlaceIs, ScanSizes
    <3> QED BY <2>1, <2>2, <3>1 DEF Result
  <2>4. Hits(m, p) \subseteq m.good /\ m.good \subseteq Nat
    BY DEF Hits, Accepted, IsMemory
  <2>5. Hits(m, p) = {}
    <3>1. Hits(m, p) # {} => Min(Hits(m, p)) \in m.good
      BY <2>4, MinIsLeast
    <3>2. ~ (p.at >= SearchSize)
      BY <2>1, <2>3, PlaceIs, ScanSizes
    <3> QED BY <2>1, <2>2, <3>1, <3>2 DEF Result
  <2>6. ScanFrom(m)[p] = ScanFrom(m)[NextBlock(m, p)]
    <3>1. ~ (p.at >= SearchSize)
      BY <2>1, <2>3, PlaceIs, ScanSizes
    <3> QED BY <2>2, <2>5, <3>1 DEF Result
  <2>7. NextBlock(m, p) \in Place
    BY <2>1, <2>3, NextIs
  <2> QED BY <2>1, <2>3, <2>6, <2>7
<1>2. S \subseteq Place
  OBVIOUS
<1> HIDE DEF S
<1>3. S = {}
  BY <1>1, <1>2, NoEndlessScan
<1> QED BY <1>3 DEF S

\* Blocks.
LEMMA Quotient ==
  ASSUME NEW x \in Nat, NEW b \in Nat \ {0}
  PROVE  x \div b \in Nat /\ (x \div b) * b <= x /\ x < (x \div b) * b + b
OBVIOUS

LEMMA QuotientIs ==
  ASSUME NEW x \in Nat, NEW b \in Nat \ {0}, NEW k \in Nat, k * b <= x, x < k * b + b
  PROVE  x \div b = k
OBVIOUS

Aligned(at) == \E k \in Nat : at = k * BlockSize

LEMMA BlockIs ==
  ASSUME NEW x \in Nat
  PROVE  /\ BlockOf(x) \in Nat /\ BlockOf(x) <= x /\ x < BlockOf(x) + BlockSize
         /\ \A at \in Nat : Aligned(at) /\ at <= x /\ x < at + BlockSize => BlockOf(x) = at
<1>1. BlockOf(x) \in Nat /\ BlockOf(x) <= x /\ x < BlockOf(x) + BlockSize
  BY Quotient, ScanSizes DEF BlockOf
<1>2. ASSUME NEW at \in Nat, Aligned(at), at <= x, x < at + BlockSize
      PROVE  BlockOf(x) = at
  <2>1. PICK k \in Nat : at = k * BlockSize
    BY <1>2 DEF Aligned
  <2>2. x \div BlockSize = k
    BY <1>2, <2>1, QuotientIs, ScanSizes
  <2> QED BY <2>1, <2>2 DEF BlockOf
<1> QED BY <1>1, <1>2

LEMMA AlignedNext ==
  ASSUME NEW at \in Nat, Aligned(at)
  PROVE  Aligned(at + BlockSize) /\ (at = 0 \/ (at - BlockSize \in Nat /\ Aligned(at - BlockSize)))
<1>1. PICK k \in Nat : at = k * BlockSize
  BY DEF Aligned
<1>2. k + 1 \in Nat /\ (k + 1) * BlockSize = at + BlockSize
  BY <1>1, ScanSizes
<1>3. at = 0 \/ (at - BlockSize \in Nat /\ Aligned(at - BlockSize))
  <2>1. CASE k = 0
    BY <1>1, <2>1, ScanSizes
  <2>2. CASE k # 0
    <3>1. k - 1 \in Nat /\ (k - 1) * BlockSize = at - BlockSize
      BY <1>1, <2>2, ScanSizes
    <3>2. (k - 1) * BlockSize \in Nat
      BY <3>1, ScanSizes
    <3> QED BY <3>1, <3>2 DEF Aligned
  <2> QED BY <2>1, <2>2
<1> QED BY <1>2, <1>3 DEF Aligned

\* What of memory has not gone by, and where the scan may be.
Ahead(m, at) == {a \in Reachable(m) : a + IdLen > at}
FirstOf(A) == IF A = {} THEN None ELSE Min(A)
Behind(m, at) == at # 0 /\ Span(at - BlockSize, at) \subseteq m.mapped
OnTrack(m, s) ==
  /\ Aligned(s.at) /\ ~ s.sticky
  /\ s.at < SearchSize => (s.tail <=> Behind(m, s.at))

LEMMA AheadIs ==
  ASSUME NEW m, IsMemory(m), NEW at \in Nat, NEW a \in Ahead(m, at)
  PROVE  /\ a \in Nat /\ a \in m.good /\ a \in m.ids /\ a + IdLen <= SearchSize /\ a + IdLen > at
         /\ Span(BlockOf(a), Lower(BlockOf(a + IdLen - 1) + BlockSize, SearchSize)) \subseteq m.mapped
         /\ a + IdLen - 1 \in Nat
BY ScanSizes DEF Ahead, Reachable, Within, IsMemory

\* In a block that does not answer nothing reachable ends.
LEMMA HoleHides ==
  ASSUME NEW m, IsMemory(m), NEW at \in Nat, Aligned(at), at < SearchSize,
         ~ (Span(at, Lower(at + BlockSize, SearchSize)) \subseteq m.mapped),
         NEW a \in Ahead(m, at)
  PROVE  a + IdLen > at + BlockSize
<1> DEFINE z == a + IdLen - 1
<1> SUFFICES ASSUME ~ (a + IdLen > at + BlockSize) PROVE FALSE
  OBVIOUS
<1>1. /\ a \in Nat /\ z \in Nat /\ z >= at /\ z < at + BlockSize
      /\ Span(BlockOf(a), Lower(BlockOf(z) + BlockSize, SearchSize)) \subseteq m.mapped
  BY AheadIs, ScanSizes
<1>2. BlockOf(z) = at
  BY <1>1, BlockIs
<1>3. BlockOf(a) \in Nat /\ BlockOf(a) <= at
  <2>1. BlockOf(a) \in Nat /\ BlockOf(a) <= a
    BY <1>1, BlockIs
  <2>2. CASE a <= at
    BY <2>1, <2>2, <1>1
  <2>3. CASE a > at
    <3>1. a < at + BlockSize
      BY <1>1, ScanSizes
    <3>2. BlockOf(a) = at
      BY <1>1, <2>3, <3>1, BlockIs
    <3> QED BY <3>2
  <2> QED BY <1>1, <2>2, <2>3
<1>4. Span(at, Lower(at + BlockSize, SearchSize)) \subseteq Span(BlockOf(a), Lower(at + BlockSize, SearchSize))
  BY <1>3, ScanSizes DEF Span, Lower
<1> QED BY <1>1, <1>2, <1>4

LEMMA EndIs ==
  ASSUME NEW s \in Place, s.at < SearchSize
  PROVE  /\ BlockEnd(s) \in Nat /\ s.at < BlockEnd(s) /\ BlockEnd(s) <= s.at + BlockSize
         /\ BlockEnd(s) <= SearchSize /\ (BlockEnd(s) = s.at + BlockSize \/ BlockEnd(s) = SearchSize)
         /\ s.at + BlockSize < SearchSize => BlockEnd(s) = s.at + BlockSize
BY PlaceIs, ScanSizes DEF BlockEnd, Lower

\* On track, every candidate in the buffer lies in blocks that answer.
LEMMA CandidatesWithin ==
  ASSUME NEW m, IsMemory(m), NEW s \in Place, OnTrack(m, s), s.at < SearchSize,
         Span(s.at, BlockEnd(s)) \subseteq m.mapped,
         NEW a \in Candidates(m, BufferAt(s), BlockEnd(s))
  PROVE  Within(m, a) /\ a \in Nat /\ a + IdLen > s.at /\ a + IdLen <= BlockEnd(s)
<1> DEFINE at == s.at
           e == BlockEnd(s)
           z == a + IdLen - 1
<1>1. /\ at \in Nat /\ e \in Nat /\ at < e /\ e <= at + BlockSize /\ e <= SearchSize
      /\ Aligned(at)
  BY PlaceIs, EndIs DEF OnTrack
<1>2. a \in Nat /\ BufferAt(s) <= a /\ a + IdLen <= e
  BY DEF Candidates, IsMemory
<1>3. BufferAt(s) >= at - Overlap
  BY <1>1, ScanSizes DEF BufferAt
<1> HIDE DEF at, e
<1>4. z \in Nat /\ z < e /\ a + IdLen > at /\ z >= at /\ BufferAt(s) \in Int
  BY <1>1, <1>2, <1>3, ScanSizes DEF BufferAt, at
<1>5. BlockOf(z) = at
  <2>1. z < at + BlockSize
    BY <1>1, <1>4, ScanSizes
  <2> HIDE DEF z
  <2> QED BY <1>1, <1>4, <2>1, BlockIs
<1>6. Lower(at + BlockSize, SearchSize) = e
  BY DEF BlockEnd, e, at
<1>7. a + IdLen <= SearchSize
  BY <1>1, <1>2, ScanSizes
<1>8. CASE a >= at
  <2>1. BlockOf(a) = at
    BY <1>1, <1>2, <1>4, <1>8, ScanSizes, BlockIs
  <2> QED BY <1>2, <1>4, <1>5, <1>6, <1>7, <2>1 DEF Within, at, e
<1>9. CASE a < at
  <2>1. s.tail /\ Behind(m, at)
    <3>1. s.tail
      BY <1>1, <1>2, <1>9 DEF BufferAt, at
    <3> QED BY <3>1 DEF OnTrack, at
  <2>2. at - BlockSize \in Nat /\ Aligned(at - BlockSize)
    BY <1>1, <2>1, AlignedNext DEF Behind
  <2>3. a >= at - BlockSize /\ a < (at - BlockSize) + BlockSize
    BY <1>1, <1>2, <1>3, <1>4, <1>9, ScanSizes
  <2>4. BlockOf(a) = at - BlockSize
    BY <1>2, <2>2, <2>3, BlockIs
  <2>5. Span(at - BlockSize, e) \subseteq m.mapped
    <3>1. Span(at - BlockSize, e) \subseteq Span(at - BlockSize, at) \cup Span(at, e)
      BY <1>1, <2>2, ScanSizes DEF Span
    <3> QED BY <2>1, <3>1 DEF Behind, at, e
  <2> QED BY <1>2, <1>4, <1>5, <1>6, <1>7, <2>4, <2>5 DEF Within, at, e
<1> QED BY <1>1, <1>2, <1>8, <1>9

\* So nothing in it faults, and the hits are the reachable blocks that end in it.
LEMMA HitsAre ==
  ASSUME NEW m, IsMemory(m), NoHalfHeader(m), NEW s \in Place, OnTrack(m, s), s.at < SearchSize,
         Answers(m, s)
  PROVE  /\ Faulting(m, BufferAt(s), BlockEnd(s)) = {}
         /\ Hits(m, s) = {a \in Ahead(m, s.at) : a + IdLen <= BlockEnd(s)}
<1> DEFINE at == s.at
           e == BlockEnd(s)
           C == Candidates(m, BufferAt(s), BlockEnd(s))
<1>1. /\ at \in Nat /\ e \in Nat /\ at < e /\ e <= at + BlockSize /\ e <= SearchSize
      /\ Aligned(at) /\ Span(at, e) \subseteq m.mapped
  BY PlaceIs, EndIs DEF OnTrack, Answers, Reads
<1>2. \A a \in C : Within(m, a) /\ a \in Nat /\ a + IdLen > at /\ a + IdLen <= e
  BY <1>1, CandidatesWithin
<1>3. \A a \in C : Reads(m, FALSE, a, a + HeaderLen)
  BY <1>2 DEF NoHalfHeader, Reads, Candidates
<1>4. Faulting(m, BufferAt(s), BlockEnd(s)) = {}
  BY <1>3 DEF Faulting
<1>5. Hits(m, s) = C \cap m.good
  BY <1>4 DEF Hits, Accepted
<1>6. \A a \in C \cap m.good : a \in Ahead(m, at) /\ a + IdLen <= e
  BY <1>2 DEF Ahead, Reachable
<1>7. ASSUME NEW a \in Ahead(m, at), a + IdLen <= e
      PROVE  a \in C \cap m.good
  <2> DEFINE z == a + IdLen - 1
  <2>1. /\ a \in Nat /\ a \in m.good /\ a \in m.ids /\ a + IdLen > at /\ z \in Nat
        /\ Span(BlockOf(a), Lower(BlockOf(z) + BlockSize, SearchSize)) \subseteq m.mapped
    BY <1>1, AheadIs
  <2>2. BufferAt(s) <= a
    <3>1. CASE s.tail
      BY <1>1, <2>1, <3>1, ScanSizes DEF BufferAt
    <3>2. CASE ~ s.tail /\ a < at
      <4>1. z >= at /\ z < at + BlockSize /\ a >= at - BlockSize /\ at # 0
        BY <1>1, <1>7, <2>1, <3>2, ScanSizes
      <4>2. BlockOf(z) = at
        BY <1>1, <2>1, <4>1, BlockIs
      <4>3. at - BlockSize \in Nat /\ Aligned(at - BlockSize)
        BY <1>1, <4>1, AlignedNext
      <4>4. BlockOf(a) = at - BlockSize
        BY <1>1, <2>1, <3>2, <4>1, <4>3, ScanSizes, BlockIs
      <4>5. Lower(at + BlockSize, SearchSize) = e
        BY DEF BlockEnd
      <4>6. Span(at - BlockSize, e) \subseteq m.mapped
        BY <2>1, <4>2, <4>4, <4>5
      <4>7. Span(at - BlockSize, at) \subseteq Span(at - BlockSize, e)
        BY <1>1, <4>3 DEF Span
      <4>8. Behind(m, at)
        BY <4>1, <4>6, <4>7 DEF Behind
      <4> QED BY <3>2, <4>8 DEF OnTrack
    <3>3. CASE ~ s.tail /\ a >= at
      BY <3>3 DEF BufferAt
    <3> QED BY <1>1, <2>1, <3>1, <3>2, <3>3
  <2> QED BY <1>7, <2>1, <2>2 DEF Candidates
<1> HIDE DEF C
<1> QED BY <1>4, <1>5, <1>6, <1>7

\* From a place on track the search ends at the first reachable block ahead.
LEMMA ScanComplete ==
  ASSUME NEW m, IsMemory(m), NoHalfHeader(m), NEW s \in Place, OnTrack(m, s)
  PROVE  ScanFrom(m)[s] = [addr |-> FirstOf(Ahead(m, s.at)), sticky |-> FALSE]
<1> DEFINE Right(p) == ScanFrom(m)[p] = [addr |-> FirstOf(Ahead(m, p.at)), sticky |-> FALSE]
           S == {p \in Place : OnTrack(m, p) /\ ~ Right(p)}
<1>1. ASSUME NEW p \in S
      PROVE  p.at < SearchSize /\ NextBlock(m, p) \in S
  <2> DEFINE n == NextBlock(m, p)
  <2>1. p \in Place /\ OnTrack(m, p) /\ ~ Right(p) /\ p.at \in Nat /\ p.sticky = FALSE /\ Aligned(p.at)
    BY PlaceIs DEF OnTrack
  <2> HIDE DEF S
  <2>2. ScanFrom(m)[p] = Result(m, p, ScanFrom(m)[n])
    BY <2>1, ScanIs
  <2>3. p.at < SearchSize
    <3> SUFFICES ASSUME p.at >= SearchSize PROVE FALSE
      BY <2>1, ScanSizes
    <3>1. Ahead(m, p.at) = {}
      BY <2>1, AheadIs, ScanSizes
    <3>2. ScanFrom(m)[p] = [addr |-> None, sticky |-> FALSE]
      BY <2>1, <2>2 DEF Result
    <3> QED BY <2>1, <3>1, <3>2 DEF FirstOf
  <2>4. ~ (p.at >= SearchSize)
    BY <2>1, <2>3, ScanSizes
  <2>5. Hits(m, p) = {}
    <3> SUFFICES ASSUME Hits(m, p) # {} PROVE FALSE
      OBVIOUS
    <3>1. Answers(m, p)
      BY DEF Hits
    <3>2. Hits(m, p) = {a \in Ahead(m, p.at) : a + IdLen <= BlockEnd(p)}
      BY <2>1, <2>3, <3>1, HitsAre
    <3> DEFINE x == Min(Ahead(m, p.at))
               y == Min(Hits(m, p))
    <3>3. Ahead(m, p.at) \subseteq Nat /\ Hits(m, p) \subseteq Ahead(m, p.at)
      BY <2>1, <3>2, AheadIs
    <3>4. /\ x \in Ahead(m, p.at) /\ \A a \in Ahead(m, p.at) : x <= a
          /\ y \in Hits(m, p) /\ \A a \in Hits(m, p) : y <= a
      BY <3>3, MinIsLeast
    <3> HIDE DEF x, y
    <3>5. x \in Nat /\ y \in Nat /\ x <= y /\ y + IdLen <= BlockEnd(p) /\ BlockEnd(p) \in Nat
      BY <2>1, <2>3, <3>2, <3>3, <3>4, EndIs
    <3>6. x \in Hits(m, p)
      <4>1. x + IdLen <= BlockEnd(p)
        BY <3>5, ScanSizes
      <4> QED BY <3>2, <3>4, <4>1
    <3>7. x = y
      <4>1. y <= x
        BY <3>4, <3>6
      <4> QED BY <3>5, <4>1
    <3>8. ScanFrom(m)[p] = [addr |-> y, sticky |-> FALSE]
      BY <2>2, <2>4 DEF Result, y
    <3>9. FirstOf(Ahead(m, p.at)) = x
      BY <3>4 DEF FirstOf, x
    <3> QED BY <2>1, <3>7, <3>8, <3>9
  <2>6. ScanFrom(m)[p] = ScanFrom(m)[n]
    BY <2>2, <2>4, <2>5 DEF Result
  <2>7. n \in Place /\ n.at = p.at + BlockSize /\ Aligned(n.at)
    BY <2>1, <2>3, NextIs, AlignedNext
  <2>8. /\ n.tail = (Answers(m, p) /\ BlockEnd(p) - p.at >= Overlap)
        /\ n.sticky = (Answers(m, p) /\ Faulting(m, BufferAt(p), BlockEnd(p)) # {})
    BY DEF NextBlock
  <2>9. Ahead(m, n.at) \subseteq Ahead(m, p.at)
    BY <2>1, <2>7, ScanSizes, AheadIs DEF Ahead
  <2>10. p.at + BlockSize < SearchSize => BlockEnd(p) = p.at + BlockSize
    BY <2>1, <2>3, EndIs
  <2>11. Behind(m, n.at) <=> Span(p.at, n.at) \subseteq m.mapped
    <3>1. n.at # 0 /\ n.at - BlockSize = p.at
      BY <2>1, <2>7, ScanSizes
    <3> QED BY <3>1 DEF Behind
  <2> HIDE DEF n, Right
  <2>12. OnTrack(m, n) /\ Ahead(m, p.at) \subseteq Ahead(m, n.at)
    <3>1. CASE Answers(m, p)
      <4>1. /\ Faulting(m, BufferAt(p), BlockEnd(p)) = {}
            /\ Hits(m, p) = {a \in Ahead(m, p.at) : a + IdLen <= BlockEnd(p)}
        BY <2>1, <2>3, <3>1, HitsAre
      <4>2. OnTrack(m, n)
        <5> SUFFICES ASSUME n.at < SearchSize PROVE n.tail /\ Behind(m, n.at)
          BY <2>7, <2>8, <4>1 DEF OnTrack
        <5>1. BlockEnd(p) = n.at
          BY <2>7, <2>10
        <5>2. n.at - p.at >= Overlap
          BY <2>1, <2>7, ScanSizes
        <5>3. Span(p.at, n.at) \subseteq m.mapped
          BY <3>1, <5>1 DEF Answers, Reads
        <5> QED BY <2>8, <2>11, <3>1, <5>1, <5>2, <5>3
      <4>3. ASSUME NEW a \in Ahead(m, p.at) PROVE a \in Ahead(m, n.at)
        <5>1. ~ (a + IdLen <= BlockEnd(p))
          BY <2>5, <4>1
        <5>2. a \in Nat /\ a + IdLen <= SearchSize
          BY <2>1, AheadIs
        <5>3. a + IdLen > n.at
          BY <2>1, <2>3, <2>7, <5>1, <5>2, EndIs, ScanSizes
        <5> QED BY <5>3 DEF Ahead
      <4> QED BY <4>2, <4>3
    <3>2. CASE ~ Answers(m, p)
      <4>1. ~ (Span(p.at, BlockEnd(p)) \subseteq m.mapped)
        BY <2>1, <3>2 DEF Answers, Reads
      <4>2. n.tail = FALSE /\ n.sticky = FALSE
        BY <2>8, <3>2
      <4>3. OnTrack(m, n)
        <5>1. n.at < SearchSize => ~ Behind(m, n.at)
          BY <2>7, <2>10, <2>11, <4>1
        <5> QED BY <2>7, <4>2, <5>1 DEF OnTrack
      <4>4. ASSUME NEW a \in Ahead(m, p.at) PROVE a \in Ahead(m, n.at)
        <5>1. a + IdLen > n.at
          BY <2>1, <2>3, <2>7, <4>1, HoleHides DEF BlockEnd
        <5> QED BY <5>1 DEF Ahead
      <4> QED BY <4>3, <4>4
    <3> QED BY <3>1, <3>2
  <2>13. Ahead(m, n.at) = Ahead(m, p.at)
    BY <2>9, <2>12
  <2>14. ~ Right(n)
    BY <2>1, <2>6, <2>13 DEF Right
  <2> QED BY <2>3, <2>7, <2>12, <2>14 DEF S, n
<1>2. S \subseteq Place
  OBVIOUS
<1> HIDE DEF S
<1>3. S = {}
  BY <1>1, <1>2, NoEndlessScan
<1> QED BY <1>3 DEF S

\* What the last search left is what scan says of the memory it walked.
First(s) == [at |-> 0, tail |-> FALSE, sticky |-> s]
SearchRight ==
  search.memory # None =>
    /\ search.memory \in Memories /\ search.before \in BOOLEAN
    /\ search.addr = ScanFrom(search.memory)[First(search.before)].addr
    /\ search.sticky = ScanFrom(search.memory)[First(search.before)].sticky

LEMMA SearchInductive == Spec => []SearchRight
<1>1. Init => SearchRight
  BY DEF Init, NoSearch, SearchRight
<1>2. SearchRight /\ [Next]_vars => SearchRight'
  <2> SUFFICES ASSUME SearchRight, [Next]_vars PROVE SearchRight'
    OBVIOUS
  <2>1. CASE Find
    <3>1. PICK m \in Memories, s \in BOOLEAN :
            search' = [memory |-> m, addr |-> FindRTTControlBlock(m, s).addr,
                       sticky |-> FindRTTControlBlock(m, s).sticky, before |-> s]
      BY <2>1 DEF Find
    <3>2. FindRTTControlBlock(m, s) = ScanFrom(m)[First(s)]
      BY DEF FindRTTControlBlock, First
    <3>3. /\ search'.memory = m /\ search'.before = s
          /\ search'.addr = ScanFrom(m)[First(s)].addr
          /\ search'.sticky = ScanFrom(m)[First(s)].sticky
      BY <3>1, <3>2
    <3> QED BY <3>3 DEF SearchRight
  <2>2. CASE NotFound \/ New
    BY <2>2 DEF NotFound, New, NoSearch, SearchRight
  <2>3. CASE search' = search
    BY <2>3 DEF SearchRight
  <2>4. CASE ~ (Find \/ NotFound \/ New)
    <3>1. search' = search
      BY <2>4 DEF Next, vars, Read, Write, Copying, ReadChunk, WriteChunk, PublishRead,
                  PublishWrite, Fails, ReadFails, WriteFails, DrainDown, FillUp, Moving,
                  DrainChunk, DrainDone, FillChunk, FillDone
    <3> QED BY <2>3, <3>1
  <2> QED BY <2>1, <2>2, <2>4
<1> QED BY <1>1, <1>2, PTL DEF Spec

\* Before the first block there is nothing behind, and all of it is ahead.
LEMMA AtFirst ==
  ASSUME NEW m, IsMemory(m), NEW s \in BOOLEAN
  PROVE  /\ First(s) \in Place
         /\ ~ s => OnTrack(m, First(s))
         /\ FirstOf(Ahead(m, First(s).at)) = FirstReachable(m)
<1>1. First(s) \in Place /\ First(s).at = 0 /\ First(s).tail = FALSE /\ First(s).sticky = s
  BY ScanSizes DEF First, Place
<1>2. Aligned(0)
  <2>1. 0 \in Nat /\ 0 = 0 * BlockSize
    BY ScanSizes
  <2> QED BY <2>1 DEF Aligned
<1>3. ~ s => OnTrack(m, First(s))
  BY <1>1, <1>2 DEF OnTrack, Behind
<1>4. \A a \in Reachable(m) : a \in Nat /\ a + IdLen > 0
  BY ScanSizes DEF Reachable, IsMemory
<1>5. Ahead(m, 0) = Reachable(m)
  BY <1>4 DEF Ahead
<1> QED BY <1>1, <1>3, <1>5 DEF FirstOf, FirstReachable

\* FindRTTControlBlock returns the first control block whose ID lies in blocks
\* that answer, at whatever offset from their boundaries; and whatever the memory
\* holds and whatever error it starts under, nothing but a control block
\* (rtt.go: scan, with the tail of each block carried in front of the next).
THEOREM ScanFirst == Spec => []ScanFindsFirst
<1>1. SearchRight => ScanFindsFirst
  <2> DEFINE m == search.memory
             s == First(search.before)
  <2> SUFFICES ASSUME SearchRight, m # None
               PROVE  /\ search.addr \in m.good \cup {None}
                      /\ NoHalfHeader(m) /\ ~ search.before =>
                           search.addr = FirstReachable(m) /\ ~ search.sticky
    BY DEF ScanFindsFirst
  <2>1. IsMemory(m) /\ search.before \in BOOLEAN
    BY RingAssumption DEF SearchRight
  <2>2. search.addr = ScanFrom(m)[s].addr /\ search.sticky = ScanFrom(m)[s].sticky
    BY DEF SearchRight
  <2>3. /\ s \in Place
        /\ ~ search.before => OnTrack(m, s)
        /\ FirstOf(Ahead(m, s.at)) = FirstReachable(m)
    BY <2>1, AtFirst
  <2> HIDE DEF m, s
  <2>4. search.addr \in m.good \cup {None}
    BY <2>1, <2>2, <2>3, ScanSound
  <2>5. ASSUME NoHalfHeader(m), ~ search.before
        PROVE  search.addr = FirstReachable(m) /\ ~ search.sticky
    <3>1. ScanFrom(m)[s] = [addr |-> FirstReachable(m), sticky |-> FALSE]
      BY <2>1, <2>3, <2>5, ScanComplete
    <3> QED BY <2>2, <3>1
  <2> QED BY <2>4, <2>5
<1> QED BY <1>1, SearchInductive, PTL
=============================================================================
