---------------------------- MODULE BitUtilProofs ----------------------------
(***************************************************************************)
(* copyBits and readBits, for every number of bits in a byte, size of the  *)
(* buffer, length, offset and operation, and for a char of either sign:    *)
(* the bits they write are those of the source, they touch the bytes of    *)
(* their range and at most one byte to spare, and readBits aborts on       *)
(* exactly the streams that are too short.  And popcount, for every word   *)
(* of 64 bits: it returns the number of ones.                              *)
(*                                                                         *)
(* A bit position is 8q + r, bit r of byte q.  What one round does is      *)
(* said of the bits of one byte (the lemmas on Combine), then of positions *)
(* (Flat), then of the call (CopyExact).                                   *)
(*                                                                         *)
(* popcount adds words: what one bit of the adder does is said first, then *)
(* what 2, 4 and 8 of them do; no carry enters a group whose neighbour's   *)
(* top bit is not set, so that the groups add up on their own.             *)
(***************************************************************************)
EXTENDS BitUtil, FiniteSetTheorems, TLAPS

------------------------------------------------------------------------------
(* The inductive invariant.                                                *)

\* Whole bytes are read and copied until the last; an aligned readBits leaves
\* less than one byte to copyBits.
Progress ==
  /\ i # call.bits => i % ByteBits = 0
  /\ filled # call.bits => filled % ByteBits = 0
  /\ i = 0 => touched = {}
  /\ Reads /\ Aligned => filled < i + ByteBits

\* What is in memory was in the stream.
EnoughRead == Reads => BytesFor(filled) <= call.stream

IInv == /\ TypeOK
        /\ Progress
        /\ EnoughRead
        /\ CopyExact
        /\ OneByteToSpare
        /\ AbortsOnShortStream

------------------------------------------------------------------------------
(* Division by the number of bits in a byte.                               *)

\* A byte has at least one bit.
LEMMA BytePositive == ByteBits \in Nat /\ ByteBits >= 1
BY BitAssumption

\* d * q is monotonic in q.
LEMMA TimesMonotonic ==
  ASSUME NEW d \in Nat, d >= 1, NEW p \in Int, NEW q \in Int, p < q
  PROVE  d * p + d <= d * q
OBVIOUS

\* The quotient and the remainder are the only ones.
LEMMA DivUnique ==
  ASSUME NEW d \in Nat, d >= 1, NEW q \in Nat, NEW r \in 0 .. d - 1,
         NEW n, n = d * q + r
  PROVE  n \div d = q /\ n % d = r
OBVIOUS

\* A bit number is a byte and a bit of it.
LEMMA DivModOf ==
  ASSUME NEW n \in Nat
  PROVE  /\ n \div ByteBits \in Nat /\ n % ByteBits \in Byte
         /\ n = ByteBits * (n \div ByteBits) + (n % ByteBits)
<1> DEFINE q == n \div ByteBits
           r == n % ByteBits
<1>1. q \in Nat /\ r \in 0 .. ByteBits - 1 /\ n = ByteBits * q + r
  <2> HIDE DEF q, r
  <2>1. ASSUME NEW u, NEW v, u = n \div ByteBits, v = n % ByteBits
        PROVE  u \in Nat /\ v \in 0 .. ByteBits - 1 /\ n = ByteBits * u + v
    BY <2>1, BytePositive
  <2> QED
    BY <2>1 DEF q, r
<1> QED
  BY <1>1 DEF Byte

\* k bytes end on a byte boundary.
LEMMA WholeBytes ==
  ASSUME NEW k \in Nat, NEW n, n = ByteBits * k
  PROVE  n % ByteBits = 0 /\ n \div ByteBits = k
BY BytePositive, DivUnique

\* The number of bytes that hold n bits.
LEMMA BytesForIs ==
  ASSUME NEW q \in Nat, NEW r \in Byte
  PROVE  BytesFor(ByteBits * q + r) = IF r = 0 THEN q ELSE q + 1
<1>1. ByteBits \in Nat /\ ByteBits >= 1 /\ ByteBits * q \in Nat
  BY BytePositive
<1>2. CASE r = 0
  <2>1. ByteBits * q + r + ByteBits - 1 = ByteBits * q + (ByteBits - 1)
    BY <1>1, <1>2
  <2> QED
    BY <1>1, <1>2, <2>1, DivUnique DEF BytesFor
<1>3. CASE r # 0
  <2>1. ByteBits * (q + 1) = ByteBits * q + ByteBits
    BY <1>1
  <2>2. /\ ByteBits * q + r + ByteBits - 1 = ByteBits * (q + 1) + (r - 1)
        /\ r - 1 \in 0 .. ByteBits - 1
    BY <1>1, <1>3, <2>1 DEF Byte
  <2> QED
    BY <1>1, <1>3, <2>2, DivUnique DEF BytesFor
<1> QED
  BY <1>2, <1>3

\* k bytes of bits need k bytes.
LEMMA BytesForWhole ==
  ASSUME NEW k \in Nat
  PROVE  BytesFor(ByteBits * k) = k
<1>1. 0 \in Byte /\ ByteBits * k = ByteBits * k + 0
  BY BytePositive DEF Byte
<1> QED
  BY <1>1, BytesForIs

\* More bits need no fewer bytes.
LEMMA BytesForMonotonic ==
  ASSUME NEW m \in Nat, NEW n \in Nat, m <= n
  PROVE  BytesFor(m) \in Nat /\ BytesFor(m) <= BytesFor(n)
<1> DEFINE q == (m + ByteBits - 1) \div ByteBits
           r == (m + ByteBits - 1) % ByteBits
           p == (n + ByteBits - 1) \div ByteBits
           t == (n + ByteBits - 1) % ByteBits
<1>1. ByteBits \in Nat /\ ByteBits >= 1
  BY BytePositive
<1>4. /\ q \in Nat /\ r \in Byte /\ m + ByteBits - 1 = ByteBits * q + r
      /\ p \in Nat /\ t \in Byte /\ n + ByteBits - 1 = ByteBits * p + t
  <2>1. m + ByteBits - 1 \in Nat /\ n + ByteBits - 1 \in Nat
    BY <1>1
  <2> QED
    BY <2>1, DivModOf
<1>6. BytesFor(m) = q /\ BytesFor(n) = p
  BY DEF BytesFor
<1> HIDE DEF q, r, p, t
<1>5. ~(p < q)
  <2>1. p < q => ByteBits * p + ByteBits <= ByteBits * q
    BY <1>1, <1>4, TimesMonotonic
  <2>2. ByteBits * p \in Int /\ ByteBits * q \in Int
    BY <1>1, <1>4
  <2> QED
    BY <1>1, <1>4, <2>1, <2>2 DEF Byte
<1> QED
  BY <1>4, <1>5, <1>6

------------------------------------------------------------------------------
(* One round of copyBits.                                                  *)

\* The bits it copies, the first byte of dest they land in, and their mask and
\* value as a byte of the source.
Round == IF filled - i < ByteBits THEN filled - i ELSE ByteBits
At == (call.offset \div ByteBits) + (i \div ByteBits)
Mask == 0 .. Round - 1
Source == {o \in Mask : i + o \in call.src}

FirstByte == Combine(call.op, dest[At], Right(Mask, Shift), RightChar(Source, Shift))
NextByte == Combine(call.op, dest[At + 1], Left(Mask, ByteBits - Shift),
                    Left(Source, ByteBits - Shift))

\* CopyByte in terms of Round, At, Mask and Source.
LEMMA CopyByteIs ==
  ASSUME CopyByte
  PROVE  /\ Running /\ i < filled /\ i' = i + Round
         /\ dest' = [dest EXCEPT ![At] = FirstByte, ![At + 1] =
                       Combine(call.op, @, Left(Mask, ByteBits - Shift),
                               Left(Source, ByteBits - Shift))]
         /\ touched' = touched \union {At} \union
                         IF TouchesNext(Round, Left(Mask, ByteBits - Shift))
                         THEN {At + 1} ELSE {}
         /\ UNCHANGED <<call, filled, before, counted>>
BY DEF CopyByte, Round, At, Mask, Source, FirstByte, CarryMask

\* The call's fields while it runs.
LEMMA CallFacts ==
  ASSUME TypeOK, call # NoCall
  PROVE  /\ call \in Calls({"running", "aborted"})
         /\ call.bits \in 0 .. MaxBits /\ call.offset \in 0 .. MaxOffset
         /\ call.op \in Ops /\ call.stream \in -1 .. BytesFor(MaxBits)
         /\ call.src \subseteq SourceBit
         /\ MaxBits \in Nat /\ MaxOffset \in Nat
         /\ call.bits \in Nat /\ call.offset \in Nat
         /\ call.offset + call.bits <= MaxOffset + MaxBits
         /\ i \in Nat /\ filled \in Nat /\ i <= filled /\ filled <= call.bits
<1>1. call \in Calls({"running", "aborted"}) /\ MaxBits \in Nat /\ MaxOffset \in Nat
  BY BitAssumption DEF TypeOK
<1> QED
  BY <1>1 DEF Calls, TypeOK

\* A running call has a length, an offset and an operation.
LEMMA RunningIsNotNoCall == Running => call # NoCall
BY DEF Running, NoCall

\* i is at the beginning of a byte of the source.
LEMMA AtByte ==
  ASSUME TypeOK, Progress, Running, i < call.bits
  PROVE  /\ At \in Nat /\ Shift \in Byte /\ i = ByteBits * (i \div ByteBits)
         /\ i \div ByteBits \in Nat
         /\ call.offset + i = ByteBits * At + Shift
         /\ At \in Index /\ At + 1 \in Index
<1> DEFINE o == call.offset \div ByteBits
           k == i \div ByteBits
<1>1. /\ ByteBits \in Nat /\ ByteBits >= 1 /\ i \in Nat /\ call.offset \in Nat
      /\ call.bits \in Nat /\ call.offset + call.bits <= MaxOffset + MaxBits
      /\ MaxBits \in Nat /\ MaxOffset \in Nat
  BY BytePositive, CallFacts, RunningIsNotNoCall
<1>2. o \in Nat /\ Shift \in Byte /\ call.offset = ByteBits * o + Shift
  BY <1>1, DivModOf DEF Shift
<1>3. k \in Nat /\ i = ByteBits * k
  <2>1. k \in Nat /\ i % ByteBits \in Byte /\ i = ByteBits * k + (i % ByteBits)
    BY <1>1, DivModOf
  <2>2. i % ByteBits = 0
    BY <1>1 DEF Progress
  <2> HIDE DEF k
  <2> QED
    BY <1>1, <2>1, <2>2
<1>4. At = o + k
  BY DEF At
<1> HIDE DEF o, k
<1>5. ByteBits * At = ByteBits * o + ByteBits * k
  BY <1>1, <1>2, <1>3, <1>4
<1>6. call.offset + i = ByteBits * At + Shift
  BY <1>1, <1>2, <1>3, <1>4, <1>5 DEF Byte
<1>7. BytesFor(call.offset + i + 1) = At + 1
  <2>1. CASE Shift + 1 < ByteBits
    <3>1. Shift + 1 \in Byte /\ call.offset + i + 1 = ByteBits * At + (Shift + 1)
      BY <1>1, <1>2, <1>3, <1>4, <1>6, <2>1 DEF Byte
    <3> QED
      BY <1>2, <1>3, <1>4, <3>1, BytesForIs DEF Byte
  <2>2. CASE Shift + 1 = ByteBits
    <3>1. ByteBits * (At + 1) = ByteBits * At + ByteBits
      BY <1>1, <1>2, <1>3, <1>4
    <3>2. 0 \in Byte /\ call.offset + i + 1 = ByteBits * (At + 1) + 0
      BY <1>1, <1>2, <1>3, <1>4, <1>6, <2>2, <3>1 DEF Byte
    <3> QED
      BY <1>2, <1>3, <1>4, <3>2, BytesForIs
  <2> QED
    BY <1>1, <1>2, <2>1, <2>2 DEF Byte
<1>8. At + 1 <= BytesFor(MaxOffset + MaxBits)
  BY <1>1, <1>7, BytesForMonotonic
<1>9. BytesFor(MaxOffset + MaxBits) \in Nat
  BY <1>1, BytesForMonotonic
<1> QED
  BY <1>2, <1>3, <1>4, <1>6, <1>8, <1>9 DEF Index, k

\* A round copies a whole byte or all that is left in memory.
LEMMA RoundFacts ==
  ASSUME TypeOK, Progress, Running, i < filled
  PROVE  /\ Round \in 1 .. ByteBits /\ i + Round <= filled
         /\ i + Round # call.bits => (i + Round) % ByteBits = 0
         /\ Round = ByteBits \/ i + Round = filled
<1>1. /\ ByteBits \in Nat /\ ByteBits >= 1 /\ i \in Nat /\ filled \in Nat
      /\ call.bits \in Nat /\ filled <= call.bits
  BY BytePositive, CallFacts, RunningIsNotNoCall
<1>2. /\ Round \in 1 .. ByteBits /\ i + Round <= filled
      /\ Round = ByteBits \/ i + Round = filled
  BY <1>1 DEF Round
<1>3. ASSUME Round = ByteBits PROVE (i + Round) % ByteBits = 0
  <2> DEFINE k == i \div ByteBits
  <2>1. k \in Nat /\ i = ByteBits * k
    BY <1>1, AtByte
  <2> HIDE DEF k
  <2>2. i + Round = ByteBits * (k + 1) /\ k + 1 \in Nat
    BY <1>1, <1>3, <2>1
  <2> QED
    BY <2>2, WholeBytes
<1> QED
  BY <1>1, <1>2, <1>3 DEF Progress

\* A bit of a byte after a round.
LEMMA CombineBits ==
  ASSUME NEW op \in Ops, NEW d \in SUBSET Byte, NEW mask, NEW b \in SUBSET Byte
  PROVE  /\ Combine(op, d, mask, b) \in SUBSET Byte
         /\ op = "OVERWRITE" => Combine(op, d, mask, b) = (d \ mask) \union b
         /\ op = "OR" => Combine(op, d, mask, b) = d \union b
         /\ op = "AND" => Combine(op, d, mask, b) = d \ (mask \ b)
BY DEF Ops, Combine, Not

\* Shifting a byte gives a byte.
LEMMA ShiftedInByte ==
  ASSUME NEW b, Shift \in Byte
  PROVE  /\ Right(b, Shift) \in SUBSET Byte /\ Left(b, ByteBits - Shift) \in SUBSET Byte
         /\ RightChar(b, Shift) \in SUBSET Byte
BY BytePositive DEF Right, Left, RightChar, Byte

\* A round stays within the destination and does not pass filled.
LEMMA CopyByteKeepsType ==
  ASSUME TypeOK, Progress, CopyByte
  PROVE  TypeOK'
<1>1. /\ call # NoCall /\ i < call.bits /\ call.op \in Ops
      /\ ByteBits \in Nat /\ i \in Nat /\ filled \in Nat /\ call.bits \in Nat
      /\ filled <= call.bits
  BY CopyByteIs, RunningIsNotNoCall, CallFacts, BytePositive
<1>2. /\ At \in Nat /\ At + 1 \in Index /\ At \in Index /\ Shift \in Byte
  BY <1>1, CopyByteIs, AtByte
<1>3. FirstByte \in SUBSET Byte /\ NextByte \in SUBSET Byte
  <2>1. dest[At] \in SUBSET Byte /\ dest[At + 1] \in SUBSET Byte
    BY <1>2 DEF TypeOK, Array
  <2> QED
    BY <1>1, <1>2, <2>1, CombineBits, ShiftedInByte DEF FirstByte, NextByte
<1>4. dest' = [dest EXCEPT ![At] = FirstByte, ![At + 1] = NextByte]
  BY <1>2, CopyByteIs DEF NextByte, TypeOK, Array
<1>5. dest' \in Array
  BY <1>3, <1>4 DEF TypeOK, Array
<1>6. i' \in 0 .. call.bits /\ i' <= filled
  BY <1>1, CopyByteIs, RoundFacts
<1>7. touched' \subseteq Index
  BY <1>2, CopyByteIs DEF TypeOK
<1> QED
  BY <1>5, <1>6, <1>7, CopyByteIs DEF TypeOK

\* Each round but the last ends at the end of a source byte.
LEMMA CopyByteKeepsProgress ==
  ASSUME TypeOK, Progress, CopyByte
  PROVE  Progress'
<1>1. /\ Running /\ i < filled /\ i' = i + Round /\ UNCHANGED <<call, filled>>
      /\ i \in Nat /\ filled \in Nat /\ ByteBits \in Nat
  BY CopyByteIs, RunningIsNotNoCall, CallFacts, BytePositive
<1> QED
  BY <1>1, RoundFacts DEF Progress, Reads, Running, Aligned, Shift

------------------------------------------------------------------------------
(* One round of readBits.                                                  *)

Wanted == call.bits - i
FullBytes == call.bits \div ByteBits
Got == IF call.stream < FullBytes THEN call.stream ELSE FullBytes
First == call.offset \div ByteBits
FilledBytes == First .. First + Got - 1

\* ReadWholeBytes in terms of Got, First and FilledBytes.
LEMMA ReadWholeBytesIs ==
  ASSUME ReadWholeBytes
  PROVE  /\ Reads /\ Aligned /\ i = 0 /\ FullBytes > 0
         /\ dest' = [at \in Index |->
                       IF at \in FilledBytes
                       THEN {o \in Byte : (at - First) * ByteBits + o \in call.src}
                       ELSE dest[at]]
         /\ touched' = FilledBytes
         /\ i' = ByteBits * Got /\ filled' = i'
         /\ IF Got = FullBytes THEN UNCHANGED call ELSE Abort
         /\ UNCHANGED <<before, counted>>
BY DEF ReadWholeBytes, FullBytes, Got, First, FilledBytes

\* FillBuffer in terms of Wanted.
LEMMA FillBufferIs ==
  ASSUME FillBuffer
  PROVE  /\ Reads /\ (Aligned => Wanted < ByteBits)
         /\ i = filled /\ i < call.bits
         /\ \/ /\ i \div ByteBits + BytesFor(BitsRead(Wanted)) <= call.stream
               /\ filled' = i + BitsRead(Wanted) /\ UNCHANGED call
            \/ /\ ~(i \div ByteBits + BytesFor(BitsRead(Wanted)) <= call.stream)
               /\ Abort /\ UNCHANGED filled
         /\ UNCHANGED <<dest, i, before, touched, counted>>
BY DEF FillBuffer, Wanted, BytesRead

\* A failed assertion ends the call, which keeps its length and stream.
LEMMA AbortIs ==
  ASSUME TypeOK, Reads, Abort
  PROVE  /\ call' \in Calls({"running", "aborted"}) /\ call'.state = "aborted"
         /\ ~Running' /\ ~Reads'
         /\ call'.bits = call.bits /\ call'.stream = call.stream
BY CallFacts, RunningIsNotNoCall DEF Abort, Calls, Reads, Running

\* An aligned readBits starts at the first bit of a byte, and its whole bytes
\* are within the destination.
LEMMA WholeBytesFacts ==
  ASSUME TypeOK, Reads, Aligned, FullBytes > 0
  PROVE  /\ First \in Nat /\ call.offset = ByteBits * First
         /\ FullBytes \in Nat /\ Got \in 0 .. FullBytes /\ Got <= call.stream
         /\ ByteBits * Got \in Nat /\ ByteBits * Got <= call.bits
         /\ call.bits < ByteBits * FullBytes + ByteBits
         /\ FilledBytes \subseteq Index
         /\ Got < FullBytes => call.stream < BytesFor(call.bits)
<1>1. /\ ByteBits \in Nat /\ ByteBits >= 1 /\ call.offset \in Nat /\ call.bits \in Nat
      /\ call.offset + call.bits <= MaxOffset + MaxBits
      /\ MaxBits \in Nat /\ MaxOffset \in Nat /\ Shift = 0
      /\ call.stream \in -1 .. BytesFor(MaxBits) /\ call.stream # -1
  BY BytePositive, CallFacts, RunningIsNotNoCall DEF Reads, Aligned, Memory
<1>2. First \in Nat /\ call.offset = ByteBits * First
  <2>1. First \in Nat /\ call.offset = ByteBits * First + Shift
    BY <1>1, DivModOf DEF First, Shift
  <2> QED
    BY <1>1, <2>1
<1>3. PICK r \in Byte : FullBytes \in Nat /\ call.bits = ByteBits * FullBytes + r
  BY <1>1, DivModOf DEF FullBytes
<1>4. call.stream \in Nat /\ Got \in 0 .. FullBytes /\ Got <= call.stream
  <2>1. BytesFor(MaxBits) \in Nat
    BY <1>1, BytesForMonotonic
  <2> QED
    BY <1>1, <1>3, <2>1 DEF Got
<1>5. ByteBits * Got \in Nat /\ ByteBits * Got <= ByteBits * FullBytes
      /\ ByteBits * FullBytes \in Nat
  <2>1. Got < FullBytes => ByteBits * Got + ByteBits <= ByteBits * FullBytes
    BY <1>1, <1>3, <1>4, TimesMonotonic
  <2>2. ByteBits * Got \in Nat /\ ByteBits * FullBytes \in Nat
    BY <1>1, <1>3, <1>4
  <2> QED
    BY <1>1, <1>3, <1>4, <2>1, <2>2
<1>6. BytesFor(ByteBits * (First + Got)) = First + Got
  BY <1>2, <1>4, BytesForWhole
<1>7. ByteBits * (First + Got) <= MaxOffset + MaxBits /\ ByteBits * (First + Got) \in Nat
  <2>1. ByteBits * (First + Got) = ByteBits * First + ByteBits * Got
    BY <1>1, <1>2, <1>4
  <2> QED
    BY <1>1, <1>2, <1>3, <1>5, <2>1 DEF Byte
<1>8. /\ First + Got <= BytesFor(MaxOffset + MaxBits)
      /\ BytesFor(MaxOffset + MaxBits) \in Nat
  BY <1>1, <1>6, <1>7, BytesForMonotonic
<1>9. FilledBytes \subseteq Index
  BY <1>2, <1>4, <1>8 DEF FilledBytes, Index
<1>10. Got < FullBytes => call.stream < BytesFor(call.bits)
  BY <1>1, <1>3, <1>4, BytesForIs DEF Got
<1> QED
  BY <1>1, <1>2, <1>3, <1>4, <1>5, <1>9, <1>10 DEF Byte

\* A round of the buffer reads a bit at least, and no more than are wanted.
LEMMA FillFacts ==
  ASSUME TypeOK, Progress, Reads, i = filled, i < call.bits
  PROVE  /\ BitsRead(Wanted) \in Nat \ {0} /\ BitsRead(Wanted) <= Wanted
         /\ BitsRead(Wanted) # Wanted => (i + BitsRead(Wanted)) % ByteBits = 0
         /\ i \div ByteBits \in Nat
         /\ BytesFor(i + BitsRead(Wanted)) = (i \div ByteBits) + BytesFor(BitsRead(Wanted))
<1> DEFINE k == i \div ByteBits
           m == BitsRead(Wanted)
<1>1. /\ ByteBits \in Nat /\ ByteBits >= 1 /\ BufferBytes \in Nat /\ BufferBytes >= 1
      /\ i \in Nat /\ call.bits \in Nat /\ Wanted \in Nat \ {0}
  BY BytePositive, BitAssumption, CallFacts, RunningIsNotNoCall DEF Reads, Wanted
<1>2. k \in Nat /\ i = ByteBits * k
  BY <1>1, AtByte DEF Reads
<1>3. ByteBits * BufferBytes \in Nat \ {0}
  BY <1>1
<1>4. m \in Nat \ {0} /\ m <= Wanted /\ (m # Wanted => m = ByteBits * BufferBytes)
  BY <1>1, <1>3 DEF BitsRead
<1> HIDE DEF k, m
<1>5. ASSUME m # Wanted PROVE (i + m) % ByteBits = 0
  <2>1. i + m = ByteBits * (k + BufferBytes) /\ k + BufferBytes \in Nat
    BY <1>1, <1>2, <1>4, <1>5
  <2> QED
    BY <2>1, WholeBytes
<1>6. BytesFor(i + m) = k + BytesFor(m)
  <2>1. PICK q \in Nat, r \in Byte : m = ByteBits * q + r
    BY <1>4, DivModOf
  <2>2. i + m = ByteBits * (k + q) + r /\ k + q \in Nat
    BY <1>1, <1>2, <2>1 DEF Byte
  <2> QED
    BY <1>2, <2>1, <2>2, BytesForIs
<1> QED
  BY <1>2, <1>4, <1>5, <1>6 DEF k, m

\* The whole bytes of an aligned readBits fit the destination.
LEMMA ReadWholeBytesKeepsType ==
  ASSUME TypeOK, ReadWholeBytes
  PROVE  TypeOK'
<1>1. call # NoCall /\ Reads /\ Aligned /\ FullBytes > 0
  BY ReadWholeBytesIs, RunningIsNotNoCall DEF Reads
<1>2. dest' \in Array
  BY ReadWholeBytesIs DEF TypeOK, Array
<1>3. i' \in 0 .. call.bits /\ filled' = i' /\ touched' \subseteq Index
  BY <1>1, ReadWholeBytesIs, WholeBytesFacts, CallFacts
<1>4. call' \in Calls({"running", "aborted"}) /\ call'.bits = call.bits
  BY <1>1, ReadWholeBytesIs, CallFacts, AbortIs
<1> QED
  BY <1>2, <1>3, <1>4, ReadWholeBytesIs DEF TypeOK

\* A round of the buffer does not read beyond the bits of the call.
LEMMA FillBufferKeepsType ==
  ASSUME TypeOK, Progress, FillBuffer
  PROVE  TypeOK'
<1>1. call # NoCall /\ Reads /\ i = filled /\ i < call.bits
      /\ UNCHANGED <<dest, i, before, touched, counted>>
  BY FillBufferIs, RunningIsNotNoCall DEF Reads
<1>2. i \in Nat /\ call.bits \in Nat /\ call \in Calls({"running", "aborted"})
  BY <1>1, CallFacts
<1>3. call' \in Calls({"running", "aborted"}) /\ call'.bits = call.bits
  BY <1>1, <1>2, FillBufferIs, AbortIs
<1>4. filled' \in 0 .. call.bits /\ i <= filled'
  BY <1>1, <1>2, FillBufferIs, FillFacts DEF Wanted
<1> QED
  BY <1>1, <1>2, <1>3, <1>4 DEF TypeOK

\* The whole bytes were in the stream.
LEMMA ReadWholeBytesKeepsProgress ==
  ASSUME TypeOK, ReadWholeBytes
  PROVE  Progress' /\ EnoughRead'
<1>1. /\ Reads /\ Aligned /\ FullBytes > 0 /\ i' = ByteBits * Got /\ filled' = i'
      /\ touched' = FilledBytes
  BY ReadWholeBytesIs
<1>2. /\ ByteBits \in Nat /\ ByteBits >= 1 /\ Got \in Nat /\ First \in Nat
      /\ ByteBits * Got \in Nat /\ Got <= call.stream
  BY <1>1, BytePositive, WholeBytesFacts
<1>3. i' % ByteBits = 0 /\ BytesFor(i') = Got
  BY <1>1, <1>2, WholeBytes, BytesForWhole
<1>4. i' = 0 => touched' = {}
  <2>1. Got > 0 => 0 < ByteBits * Got
    BY <1>2
  <2> QED
    BY <1>1, <1>2, <2>1 DEF FilledBytes
<1>5. Reads' => call'.stream = call.stream
  BY <1>1, ReadWholeBytesIs, AbortIs
<1> QED
  BY <1>1, <1>2, <1>3, <1>4, <1>5 DEF Progress, EnoughRead

\* The bits of a round of the buffer were in the stream.
LEMMA FillBufferKeepsProgress ==
  ASSUME TypeOK, Progress, FillBuffer
  PROVE  Progress' /\ EnoughRead'
<1>1. /\ Reads /\ i = filled /\ i < call.bits /\ i' = i /\ touched' = touched
      /\ i \in Nat /\ call.bits \in Nat /\ ByteBits \in Nat
      /\ Aligned => Wanted < ByteBits
  BY FillBufferIs, CallFacts, RunningIsNotNoCall, BytePositive DEF Reads
<1>2. i % ByteBits = 0
  BY <1>1 DEF Progress
<1>3. CASE filled' = i + BitsRead(Wanted) /\ UNCHANGED call
           /\ i \div ByteBits + BytesFor(BitsRead(Wanted)) <= call.stream
  <2>1. /\ BitsRead(Wanted) \in Nat \ {0} /\ BitsRead(Wanted) <= Wanted
        /\ BitsRead(Wanted) # Wanted => filled' % ByteBits = 0
        /\ BytesFor(filled') <= call.stream
    BY <1>1, <1>3, FillFacts
  <2>2. Aligned' <=> Aligned
    BY <1>3 DEF Aligned, Shift
  <2> QED
    BY <1>1, <1>2, <1>3, <2>1, <2>2 DEF Progress, EnoughRead, Reads, Running, Wanted
<1>4. CASE Abort /\ UNCHANGED filled
  BY <1>1, <1>2, <1>4, AbortIs DEF Progress, EnoughRead
<1> QED
  BY <1>3, <1>4, FillBufferIs

\* popcount answers a word.
LEMMA PopcountType ==
  ASSUME NEW x
  PROVE  Popcount(x) \in SUBSET WordBit
BY DEF Popcount, Low, WordBit

\* Types are kept; Progress is what keeps copyBits within the destination.
LEMMA NextKeepsType ==
  ASSUME TypeOK, Progress, [Next]_vars
  PROVE  TypeOK'
<1>1. ASSUME Idle, NEW c \in Calls({"running"}), NEW d \in {{}, Byte},
             Call(c, [at \in Index |-> d])
      PROVE  TypeOK'
  <2>1. i = 0 /\ filled = 0 /\ touched \subseteq Index
    BY <1>1 DEF TypeOK, Idle, NoCall
  <2>2. c.bits \in 0 .. MaxBits /\ c \in Calls({"running", "aborted"}) /\ MaxBits \in Nat
    BY BitAssumption DEF Calls
  <2>3. dest' \in Array /\ before' \in Array
    BY <1>1 DEF Call, Array
  <2> QED
    BY <1>1, <2>1, <2>2, <2>3 DEF TypeOK, Call
<1>2. ASSUME NEW x \in Words, popcount(x) PROVE TypeOK'
  BY <1>2, PopcountType DEF TypeOK, popcount
<1>3. CASE CopyByte
  BY <1>3, CopyByteKeepsType
<1>4. CASE ReadWholeBytes
  BY <1>4, ReadWholeBytesKeepsType
<1>5. CASE FillBuffer
  BY <1>5, FillBufferKeepsType
<1>6. CASE Return
  BY <1>6 DEF Return, TypeOK, Array, NoCall
<1>7. CASE UNCHANGED vars
  BY <1>7 DEF vars, TypeOK
<1> QED
  BY <1>1, <1>2, <1>3, <1>4, <1>5, <1>6, <1>7 DEF Next

\* Copying and reading go by whole bytes until the last.
LEMMA NextKeepsProgress ==
  ASSUME TypeOK, Progress, EnoughRead, [Next]_vars
  PROVE  Progress' /\ EnoughRead'
<1>0. 0 % ByteBits = 0 /\ BytesFor(0) = 0
  <2>1. ByteBits * 0 = 0
    BY BytePositive
  <2> QED
    BY <2>1, WholeBytes, BytesForWhole
<1>1. ASSUME Idle, NEW c \in Calls({"running"}), NEW d, Call(c, d)
      PROVE  Progress' /\ EnoughRead'
  <2>1. i = 0 /\ filled = 0 /\ touched = {}
    BY <1>1 DEF TypeOK, Idle, NoCall, Progress
  <2>2. i' = 0 /\ touched' = {} /\ call' = c /\ c.stream \in Int
        /\ filled' = IF c.stream = Memory THEN c.bits ELSE 0
    BY <1>1, <2>1 DEF Call, Calls
  <2>3. Reads' => filled' = 0 /\ call'.stream >= 0
    BY <1>1, <2>2 DEF Reads, Calls, Memory
  <2> QED
    BY <1>0, <2>2, <2>3, BytePositive DEF Progress, EnoughRead
<1>2. ASSUME NEW x, popcount(x) PROVE Progress' /\ EnoughRead'
  BY <1>2 DEF Progress, EnoughRead, popcount, Reads, Running, Aligned, Shift
<1>3. CASE CopyByte
  BY <1>3, CopyByteIs, CopyByteKeepsProgress DEF EnoughRead, Reads, Running
<1>4. CASE ReadWholeBytes
  BY <1>4, ReadWholeBytesKeepsProgress
<1>5. CASE FillBuffer
  BY <1>5, FillBufferKeepsProgress
<1>6. CASE Return
  BY <1>6 DEF Return, NoCall, Progress, EnoughRead, Reads, Running
<1>7. CASE UNCHANGED vars
  BY <1>7 DEF vars, Progress, EnoughRead, Reads, Running, Aligned, Shift
<1> QED
  BY <1>1, <1>2, <1>3, <1>4, <1>5, <1>6, <1>7 DEF Next

------------------------------------------------------------------------------
(* readBits aborts on the streams that are too short.                      *)

\* readBits aborts when a round needs more bytes than the stream has: then the
\* call needs more, too.
LEMMA AbortsStep ==
  ASSUME TypeOK, Progress, EnoughRead, AbortsOnShortStream, [Next]_vars
  PROVE  AbortsOnShortStream'
<1>1. (Running /\ i = call.bits => call.stream = Memory \/ call.stream >= BytesFor(call.bits))'
  <2> SUFFICES ASSUME Running', (i = call.bits)', call'.stream # Memory
               PROVE  call'.stream >= BytesFor(call'.bits)
    OBVIOUS
  <2>1. TypeOK' /\ EnoughRead'
    BY NextKeepsType, NextKeepsProgress
  <2>2. filled' = call'.bits
    <3>1. call' # NoCall
      BY DEF Running, NoCall
    <3> QED
      BY <2>1, <3>1 DEF TypeOK, Calls
  <2>3. BytesFor(call'.bits) <= call'.stream /\ BytesFor(call'.bits) \in Nat
    <3>1. call'.bits \in Nat
      BY <2>1 DEF TypeOK, Calls, Running, NoCall
    <3> QED
      BY <2>1, <2>2, <3>1, BytesForMonotonic DEF EnoughRead, Reads
  <2>4. call'.stream \in Int
    BY <2>1 DEF TypeOK, Calls, Running, NoCall
  <2> QED
    BY <2>3, <2>4
<1>2. ASSUME call'.state = "aborted"
      PROVE  call'.stream # Memory /\ ~(call'.stream >= BytesFor(call'.bits))
  <2>1. CASE UNCHANGED call
    BY <1>2, <2>1 DEF AbortsOnShortStream
  <2>2. CASE ReadWholeBytes /\ Abort
    <3>1. /\ Reads /\ Aligned /\ FullBytes > 0
      BY <2>2, ReadWholeBytesIs
    <3>2. Got # FullBytes \/ UNCHANGED call
      BY <2>2, ReadWholeBytesIs
    <3>3. /\ Got < FullBytes \/ Got = FullBytes
          /\ Got < FullBytes => call.stream < BytesFor(call.bits)
          /\ BytesFor(call.bits) \in Nat /\ call.stream \in Int
      BY <3>1, WholeBytesFacts, CallFacts, RunningIsNotNoCall, BytesForMonotonic DEF Reads
    <3>4. call'.bits = call.bits /\ call'.stream = call.stream /\ call.stream # Memory
      BY <2>2, <3>1, AbortIs DEF Reads
    <3> QED
      BY <2>1, <3>2, <3>3, <3>4
  <2>3. CASE FillBuffer /\ Abort
           /\ ~(i \div ByteBits + BytesFor(BitsRead(Wanted)) <= call.stream)
    <3>1. Reads /\ i = filled /\ i < call.bits
      BY <2>3, FillBufferIs
    <3>2. /\ BytesFor(i + BitsRead(Wanted)) = (i \div ByteBits) + BytesFor(BitsRead(Wanted))
          /\ i + BitsRead(Wanted) \in Nat /\ i + BitsRead(Wanted) <= call.bits
          /\ call.bits \in Nat /\ call.stream \in Int
      BY <3>1, FillFacts, CallFacts, RunningIsNotNoCall DEF Reads, Wanted
    <3>3. /\ BytesFor(i + BitsRead(Wanted)) \in Nat /\ BytesFor(call.bits) \in Nat
          /\ BytesFor(i + BitsRead(Wanted)) <= BytesFor(call.bits)
      BY <3>2, BytesForMonotonic
    <3>4. call'.bits = call.bits /\ call'.stream = call.stream /\ call.stream # Memory
      BY <2>3, <3>1, AbortIs DEF Reads
    <3> QED
      BY <2>3, <3>2, <3>3, <3>4
  <2>4. CASE \E c \in Calls({"running"}) : call' = c
    BY <1>2, <2>4 DEF Calls
  <2>5. CASE call' = NoCall
    BY <1>2, <2>5 DEF NoCall
  <2>6. ReadWholeBytes => UNCHANGED call \/ Abort
    BY ReadWholeBytesIs
  <2> QED
    BY <2>1, <2>2, <2>3, <2>4, <2>5, <2>6, CopyByteIs, FillBufferIs
       DEF Next, Call, Return, popcount, vars
<1> QED
  BY <1>1, <1>2 DEF AbortsOnShortStream

------------------------------------------------------------------------------
(* The bytes a call touches.                                               *)

\* The byte of the last bit before a position, and whether it is a boundary.
LEMMA EndOfRange ==
  ASSUME NEW a \in Nat, NEW m \in 1 .. 2 * ByteBits, NEW e, e = ByteBits * a + m
  PROVE  /\ m <= ByteBits => (e - 1) \div ByteBits = a
         /\ m > ByteBits => (e - 1) \div ByteBits = a + 1
         /\ m < ByteBits => e % ByteBits # 0
         /\ m = ByteBits => e % ByteBits = 0 /\ e \div ByteBits = a + 1
<1>1. PICK c \in Nat : c = a + 1
  OBVIOUS
<1>2. ByteBits \in Nat /\ ByteBits >= 1 /\ ByteBits * a \in Nat
      /\ ByteBits * c = ByteBits * a + ByteBits
  BY <1>1, BytePositive
<1>3. CASE m <= ByteBits
  <2>1. e - 1 = ByteBits * a + (m - 1) /\ m - 1 \in 0 .. ByteBits - 1
    BY <1>2, <1>3
  <2>2. (e - 1) \div ByteBits = a
    BY <1>2, <2>1, DivUnique
  <2>3. m < ByteBits => e % ByteBits = m
    <3>1. m < ByteBits => m \in 0 .. ByteBits - 1
      BY <1>2
    <3> QED
      BY <1>2, <3>1, DivUnique
  <2>4. m = ByteBits => e = ByteBits * c
    BY <1>2
  <2>5. m = ByteBits => e % ByteBits = 0 /\ e \div ByteBits = c
    BY <2>4, WholeBytes
  <2> QED
    BY <1>1, <1>2, <1>3, <2>2, <2>3, <2>5
<1>4. CASE m > ByteBits
  <2>1. e - 1 = ByteBits * c + (m - ByteBits - 1) /\ m - ByteBits - 1 \in 0 .. ByteBits - 1
    BY <1>2, <1>4
  <2>2. (e - 1) \div ByteBits = c
    <3>1. \A v \in 0 .. ByteBits - 1 : \A n : n = ByteBits * c + v => n \div ByteBits = c
      BY <1>2, DivUnique
    <3> QED
      BY <2>1, <3>1
  <2> QED
    BY <1>1, <1>2, <1>4, <2>2
<1> QED
  BY <1>2, <1>3, <1>4

\* The mask of the carry is empty unless the copied bits cross into a byte.
LEMMA CarryIs ==
  ASSUME TypeOK, Progress, Running, i < filled
  PROVE  TouchesNext(Round, Left(Mask, ByteBits - Shift))
           <=> Shift + Round > ByteBits \/ Round = ByteBits
<1>1. /\ ByteBits \in Nat /\ ByteBits >= 1 /\ Round \in 1 .. ByteBits
      /\ Shift \in 0 .. ByteBits - 1
  BY BytePositive, RoundFacts, AtByte, CallFacts, RunningIsNotNoCall DEF Byte
<1>2. ASSUME Shift + Round > ByteBits PROVE Left(Mask, ByteBits - Shift) # {}
  <2>1. /\ ByteBits - Shift \in Mask
        /\ (ByteBits - Shift) - (ByteBits - Shift) = 0 /\ 0 \in Byte
    BY <1>1, <1>2 DEF Mask, Byte
  <2>2. 0 \in {o - (ByteBits - Shift) : o \in Mask}
    BY <2>1
  <2> QED
    BY <2>1, <2>2 DEF Left
<1>3. ASSUME ~(Shift + Round > ByteBits) PROVE Left(Mask, ByteBits - Shift) = {}
  <2> SUFFICES ASSUME NEW o \in Mask PROVE o - (ByteBits - Shift) \notin Byte
    BY DEF Left
  <2> QED
    BY <1>1, <1>3 DEF Mask, Byte
<1> QED
  BY <1>2, <1>3 DEF TouchesNext

\* The bytes of the range of a call when the first e - offset bits are copied.
RangeTo(e) == call.offset \div ByteBits .. (e - 1) \div ByteBits
Spare(e) == Shift = 0 /\ e % ByteBits = 0 /\ ~(Reads /\ Aligned)
TouchedTo(e) == IF Spare(e) THEN RangeTo(e) \union {e \div ByteBits} ELSE RangeTo(e)

\* OneByteToSpare in terms of TouchedTo.
LEMMA OneByteToSpareIs ==
  OneByteToSpare <=> (Running /\ i > 0 => touched = TouchedTo(call.offset + i))
BY DEF OneByteToSpare, TouchedTo, Spare, RangeTo

\* Before a round, all bytes in front of the one it starts in were touched.
LEMMA TouchedBefore ==
  ASSUME TypeOK, Progress, OneByteToSpare, Running, i < filled
  PROVE  touched \union {At} = (call.offset \div ByteBits) .. At
<1> DEFINE o == call.offset \div ByteBits
           k == i \div ByteBits
<1>1. /\ ByteBits \in Nat /\ ByteBits >= 1 /\ i \in Nat /\ i < call.bits
      /\ At \in Nat /\ Shift \in 0 .. ByteBits - 1 /\ k \in Nat /\ i = ByteBits * k
      /\ call.offset + i = ByteBits * At + Shift /\ At = o + k /\ o \in Nat
  <2>1. i < call.bits /\ call.offset \in Nat /\ i \in Nat
    BY CallFacts, RunningIsNotNoCall
  <2>2. o \in Nat
    BY <2>1, DivModOf
  <2> QED
    BY <2>1, <2>2, BytePositive, AtByte DEF Byte, At
<1> HIDE DEF o, k
<1>2. CASE i = 0
  <2>1. k = 0
    BY <1>1, <1>2
  <2> QED
    BY <1>1, <1>2, <2>1 DEF Progress, o
<1>3. CASE i > 0
  <2>1. k >= 1
    BY <1>1, <1>3
  <2>2. PICK e : e = call.offset + i
    OBVIOUS
  <2>3. touched = TouchedTo(e) /\ RangeTo(e) = o .. (e - 1) \div ByteBits
    BY <1>3, <2>2, OneByteToSpareIs DEF RangeTo, o
  <2>4. CASE Shift > 0
    <3>1. (e - 1) \div ByteBits = At
      BY <1>1, <2>2, <2>4, EndOfRange
    <3>2. touched = o .. At
      BY <2>3, <2>4, <3>1 DEF TouchedTo, Spare
    <3> QED
      BY <1>1, <2>1, <3>2 DEF o
  <2>5. CASE Shift = 0
    <3>1. PICK a \in Nat : a = At - 1
      BY <1>1, <2>1
    <3>2. e = ByteBits * a + ByteBits /\ ByteBits \in 1 .. 2 * ByteBits
      BY <1>1, <2>2, <2>5, <3>1
    <3>3. (e - 1) \div ByteBits = a /\ e \div ByteBits = At
      <4>1. (e - 1) \div ByteBits = a /\ e \div ByteBits = a + 1
        BY <1>1, <3>2, EndOfRange
      <4> QED
        BY <1>1, <3>1, <4>1
    <3>4. touched = o .. a \/ touched = (o .. a) \union {At}
      BY <2>3, <3>3 DEF TouchedTo
    <3>5. touched \union {At} = o .. At
      <4>1. o \in Nat /\ At = a + 1 /\ o <= At
        BY <1>1, <2>1, <3>1
      <4>2. (o .. a) \union {At} = o .. At
        BY <4>1
      <4> QED
        BY <3>4, <4>2
    <3> QED
      BY <3>5 DEF o
  <2> QED
    BY <1>1, <2>4, <2>5
<1> QED
  BY <1>1, <1>2, <1>3

\* A round touches the byte it starts in and, if it reaches it, the next.
LEMMA CopyByteTouches ==
  ASSUME TypeOK, Progress, OneByteToSpare, CopyByte
  PROVE  OneByteToSpare'
<1> DEFINE e == call.offset + i + Round
           o == call.offset \div ByteBits
<1>1. /\ Running /\ i < filled /\ i' = i + Round /\ call' = call
      /\ touched' = touched \union {At} \union
                      IF TouchesNext(Round, Left(Mask, ByteBits - Shift))
                      THEN {At + 1} ELSE {}
  BY CopyByteIs
<1>2. /\ ByteBits \in Nat /\ ByteBits >= 1 /\ i \in Nat /\ Round \in 1 .. ByteBits
      /\ At \in Nat /\ Shift \in 0 .. ByteBits - 1 /\ call.offset \in Nat
      /\ e = ByteBits * At + (Shift + Round) /\ o \in Nat /\ o <= At
      /\ i + Round <= filled
  <2>1. i < call.bits /\ call.offset \in Nat /\ i \in Nat
    BY <1>1, CallFacts, RunningIsNotNoCall
  <2>2. o \in Nat
    BY <2>1, DivModOf
  <2>3. /\ ByteBits \in Nat /\ ByteBits >= 1 /\ Round \in 1 .. ByteBits
        /\ At \in Nat /\ Shift \in 0 .. ByteBits - 1 /\ i \div ByteBits \in Nat
        /\ call.offset + i = ByteBits * At + Shift /\ i + Round <= filled
    BY <1>1, <2>1, AtByte, RoundFacts, BytePositive DEF Byte
  <2> QED
    BY <2>1, <2>2, <2>3 DEF At
<1>3. touched \union {At} = o .. At
  BY <1>1, TouchedBefore
<1>4. touched' = IF Shift + Round > ByteBits \/ Round = ByteBits
                 THEN o .. At + 1 ELSE o .. At
  <2>1. touched' = (o .. At) \union IF Shift + Round > ByteBits \/ Round = ByteBits
                                    THEN {At + 1} ELSE {}
    BY <1>1, <1>3, CarryIs
  <2> HIDE DEF o
  <2> QED
    BY <1>2, <2>1
<1>5. touched' = TouchedTo(e)
  <2>1. Shift + Round \in 1 .. 2 * ByteBits
    BY <1>2
  <2>2. /\ Shift + Round <= ByteBits => (e - 1) \div ByteBits = At
        /\ Shift + Round > ByteBits => (e - 1) \div ByteBits = At + 1
        /\ Shift + Round < ByteBits => e % ByteBits # 0
        /\ Shift + Round = ByteBits => e % ByteBits = 0 /\ e \div ByteBits = At + 1
    BY <1>2, <2>1, EndOfRange
  <2>3. Reads /\ Aligned => Round < ByteBits
    <3>1. Reads /\ Aligned => filled < i + ByteBits
      BY DEF Progress
    <3>2. filled \in Nat
      BY <1>1, CallFacts, RunningIsNotNoCall
    <3> QED
      BY <1>2, <3>1, <3>2
  <2>4. RangeTo(e) = o .. (e - 1) \div ByteBits
    BY DEF RangeTo
  <2> HIDE DEF e, o
  <2>5. CASE Shift + Round < ByteBits
    BY <1>2, <1>4, <2>2, <2>4, <2>5 DEF TouchedTo, Spare
  <2>6. CASE Shift + Round > ByteBits
    BY <1>2, <1>4, <2>2, <2>4, <2>6 DEF TouchedTo, Spare
  <2>7. CASE Shift + Round = ByteBits /\ Shift = 0
    <3>1. Spare(e) /\ RangeTo(e) = o .. At /\ e \div ByteBits = At + 1
      BY <1>2, <2>2, <2>3, <2>4, <2>7 DEF Spare
    <3>2. touched' = o .. At + 1 /\ (o .. At) \union {At + 1} = o .. At + 1
      BY <1>2, <1>4, <2>7
    <3> QED
      BY <3>1, <3>2 DEF TouchedTo
  <2>8. CASE Shift + Round = ByteBits /\ Shift # 0
    BY <1>2, <1>4, <2>2, <2>4, <2>8 DEF TouchedTo, Spare
  <2> QED
    BY <1>2, <2>5, <2>6, <2>7, <2>8
<1>6. (TouchedTo(call.offset + i))' = TouchedTo(e)
  <2>1. call'.offset + i' = e
    BY <1>1, <1>2
  <2> HIDE DEF e
  <2> QED
    BY <1>1, <2>1 DEF TouchedTo, Spare, RangeTo, Shift, Reads, Running, Aligned
<1>7. (Running /\ i > 0 => touched = TouchedTo(call.offset + i))'
  BY <1>5, <1>6
<1> QED
  BY <1>7, OneByteToSpareIs DEF OneByteToSpare, TouchedTo, Spare, RangeTo

\* The aligned readBits touches the whole bytes it reads.
LEMMA ReadWholeBytesTouches ==
  ASSUME TypeOK, ReadWholeBytes
  PROVE  OneByteToSpare'
<1>1. /\ Reads /\ Aligned /\ FullBytes > 0 /\ i' = ByteBits * Got
      /\ touched' = FilledBytes
      /\ (Got = FullBytes /\ call' = call) \/ ~Running'
  BY ReadWholeBytesIs, AbortIs
<1>2. CASE ~Running'
  BY <1>2 DEF OneByteToSpare
<1>3. CASE Got = FullBytes /\ call' = call
  <2>1. /\ ByteBits \in Nat /\ ByteBits >= 1 /\ First \in Nat /\ Got \in Nat /\ Got > 0
        /\ call.offset = ByteBits * First
    BY <1>1, <1>3, BytePositive, WholeBytesFacts
  <2>2. PICK a \in Nat : a = First + Got - 1
    BY <2>1
  <2>3. PICK e : e = call.offset + i'
    OBVIOUS
  <2>4. e = ByteBits * a + ByteBits /\ ByteBits \in 1 .. 2 * ByteBits
    BY <1>1, <2>1, <2>2, <2>3
  <2>5. (e - 1) \div ByteBits = a
    BY <2>1, <2>4, EndOfRange
  <2>6. touched' = RangeTo(e)
    BY <1>1, <2>2, <2>5 DEF FilledBytes, First, RangeTo
  <2>7. (Reads /\ Aligned)'
    BY <1>1, <1>3 DEF Reads, Running, Aligned, Shift
  <2>8. (TouchedTo(call.offset + i))' = RangeTo(e)
    BY <1>3, <2>3, <2>7 DEF TouchedTo, Spare, RangeTo
  <2> QED
    BY <2>6, <2>8, OneByteToSpareIs DEF OneByteToSpare, TouchedTo, Spare, RangeTo
<1> QED
  BY <1>1, <1>2, <1>3

\* Only the copying steps touch bytes.
LEMMA SpareStep ==
  ASSUME TypeOK, Progress, OneByteToSpare, [Next]_vars
  PROVE  OneByteToSpare'
<1>1. CASE CopyByte
  BY <1>1, CopyByteTouches
<1>2. CASE ReadWholeBytes
  BY <1>2, ReadWholeBytesTouches
<1>3. CASE FillBuffer
  <2>1. i' = i /\ touched' = touched /\ (call' = call \/ ~Running')
    BY <1>3, FillBufferIs, AbortIs
  <2> QED
    BY <2>1 DEF OneByteToSpare, Reads, Running, Aligned, Shift
<1>4. ASSUME Idle, NEW c \in Calls({"running"}), NEW d, Call(c, d)
      PROVE  OneByteToSpare'
  BY <1>4 DEF OneByteToSpare, Call, Idle, NoCall, TypeOK
<1>5. ASSUME NEW x, popcount(x) PROVE OneByteToSpare'
  BY <1>5 DEF popcount, OneByteToSpare, Reads, Running, Aligned, Shift
<1>6. CASE Return
  BY <1>6 DEF Return, OneByteToSpare
<1>7. CASE UNCHANGED vars
  BY <1>7 DEF vars, OneByteToSpare, Reads, Running, Aligned, Shift
<1> QED
  BY <1>1, <1>2, <1>3, <1>4, <1>5, <1>6, <1>7 DEF Next

------------------------------------------------------------------------------
(* The bits of the destination.                                            *)

\* Every position of an array is one bit of one byte.
LEMMA FlatBit ==
  ASSUME NEW array \in Array, NEW q \in Index, NEW r \in Byte,
         NEW x, x = ByteBits * q + r
  PROVE  x \in Flat(array) <=> r \in array[q]
<1>1. ByteBits \in Nat /\ ByteBits >= 1 /\ q \in Nat /\ r \in 0 .. ByteBits - 1
  BY BytePositive DEF Byte, Index
<1>2. r \in array[q] => x \in Flat(array)
  BY DEF Flat
<1>3. ASSUME x \in Flat(array) PROVE r \in array[q]
  <2>1. PICK p \in Index : \E o \in array[p] : x = ByteBits * p + o
    BY <1>3 DEF Flat
  <2>2. PICK o \in array[p] : x = ByteBits * p + o
    BY <2>1
  <2>3. p \in Nat /\ o \in 0 .. ByteBits - 1
    BY <1>1 DEF Index, Array, Byte
  <2>4. p = q /\ o = r
    <3>1. x \div ByteBits = p /\ x % ByteBits = o
      BY <1>1, <2>2, <2>3, DivUnique
    <3>2. x \div ByteBits = q /\ x % ByteBits = r
      BY <1>1, DivUnique
    <3> QED
      BY <3>1, <3>2
  <2> QED
    BY <2>4
<1> QED
  BY <1>2, <1>3

\* The bits of an array are positions in its bytes.
LEMMA FlatType ==
  ASSUME NEW array \in Array, NEW x \in Flat(array)
  PROVE  \E q \in Index, r \in Byte : x = ByteBits * q + r
BY DEF Flat, Array

\* The bits that come from the source, in the words of CopyExact: of those
\* before source bit n, and of those from n on, before n + m.
PlacedIn(c, lo, hi) == {c.offset + k : k \in c.src \intersect lo .. hi - 1}
RepeatedIn(c, lo, hi) == {k \in c.src \intersect lo .. hi - 1 :
                            CharSigned /\ k % ByteBits = 0}
StraysIn(c, lo, hi) == {c.offset + k - s : k \in RepeatedIn(c, lo, hi),
                                           s \in 1 .. c.offset % ByteBits}
WindowIn(c, lo, hi) == c.offset + lo .. c.offset + hi - 1

\* d with the bits from lo to hi copied into it.
WithBits(c, d, lo, hi) ==
  CASE c.op = "OVERWRITE" -> (d \ WindowIn(c, lo, hi)) \union PlacedIn(c, lo, hi)
                                  \union StraysIn(c, lo, hi)
    [] c.op = "OR" -> d \union PlacedIn(c, lo, hi) \union StraysIn(c, lo, hi)
    [] c.op = "AND" -> d \ (WindowIn(c, lo, hi) \ PlacedIn(c, lo, hi))

\* CopyExact in terms of WithBits.
LEMMA CopyExactIs ==
  ASSUME TypeOK
  PROVE  CopyExact <=> (Running => Flat(dest) = WithBits(call, Flat(before), 0, i))
<1> DEFINE window == call.offset .. call.offset + i - 1
           Copied(d, w) ==
             CASE call.op = "OVERWRITE" -> (d \ w) \union PlacedIn(call, 0, i)
                                             \union StraysIn(call, 0, i)
               [] call.op = "OR" -> d \union PlacedIn(call, 0, i) \union StraysIn(call, 0, i)
               [] call.op = "AND" -> d \ (w \ PlacedIn(call, 0, i))
<1>1. CopyExact <=> (Running => Flat(dest) = Copied(Flat(before), window))
  BY DEF CopyExact, PlacedIn, RepeatedIn, StraysIn, Shift
<1>2. WithBits(call, Flat(before), 0, i) = Copied(Flat(before), WindowIn(call, 0, i))
  BY DEF WithBits
<1>3. Running => WindowIn(call, 0, i) = window
  BY CallFacts, RunningIsNotNoCall DEF WindowIn
<1> QED
  BY <1>1, <1>2, <1>3

\* Copying the bits up to n and then m more is copying the bits up to n + m.
LEMMA WithBitsInTwo ==
  ASSUME TypeOK, Running, NEW n \in Nat, NEW m \in Nat, NEW d
  PROVE  WithBits(call, WithBits(call, d, 0, n), n, n + m) = WithBits(call, d, 0, n + m)
<1>1. /\ call.offset \in Nat /\ call.op \in Ops /\ call.src \subseteq Int
      /\ Shift \in Int
  <2>1. call.offset \in Nat /\ call.op \in Ops /\ call.src \subseteq SourceBit
    BY CallFacts, RunningIsNotNoCall
  <2> QED
    BY <2>1, DivModOf DEF Shift, Byte, SourceBit
<1>2. WindowIn(call, 0, n + m) = WindowIn(call, 0, n) \union WindowIn(call, n, n + m)
  BY <1>1 DEF WindowIn
<1>3. PlacedIn(call, 0, n + m) = PlacedIn(call, 0, n) \union PlacedIn(call, n, n + m)
  BY <1>1 DEF PlacedIn
<1>4. StraysIn(call, 0, n + m) = StraysIn(call, 0, n) \union StraysIn(call, n, n + m)
  <2>1. RepeatedIn(call, 0, n + m)
          = RepeatedIn(call, 0, n) \union RepeatedIn(call, n, n + m)
    BY <1>1 DEF RepeatedIn
  <2> QED
    BY <2>1 DEF StraysIn
<1>5. PlacedIn(call, 0, n) \intersect WindowIn(call, n, n + m) = {}
  BY <1>1 DEF PlacedIn, WindowIn
<1>6. StraysIn(call, 0, n) \intersect WindowIn(call, n, n + m) = {}
  BY <1>1 DEF StraysIn, RepeatedIn, WindowIn
<1>7. PlacedIn(call, n, n + m) \intersect WindowIn(call, 0, n) = {}
  BY <1>1 DEF PlacedIn, WindowIn
<1>8. CASE call.op = "OVERWRITE"
  BY <1>2, <1>3, <1>4, <1>5, <1>6, <1>8 DEF WithBits
<1>9. CASE call.op = "OR"
  BY <1>3, <1>4, <1>9 DEF WithBits
<1>10. CASE call.op = "AND"
  BY <1>2, <1>3, <1>5, <1>7, <1>10 DEF WithBits
<1> QED
  BY <1>1, <1>8, <1>9, <1>10 DEF Ops

\* Copying no bits changes nothing.
LEMMA WithNoBits ==
  ASSUME TypeOK, Running, NEW d
  PROVE  WithBits(call, d, 0, 0) = d
<1>1. call.offset \in Nat /\ call.op \in Ops
  BY CallFacts, RunningIsNotNoCall
<1>2. WindowIn(call, 0, 0) = {} /\ PlacedIn(call, 0, 0) = {} /\ StraysIn(call, 0, 0) = {}
  BY <1>1 DEF WindowIn, PlacedIn, StraysIn, RepeatedIn
<1> QED
  BY <1>1, <1>2 DEF WithBits, Ops

\* The byte of a position that lies within two bytes of a.
LEMMA Locate ==
  ASSUME NEW a \in Nat, NEW q \in Nat, NEW r \in Byte,
         NEW x, x = ByteBits * q + r, NEW y, y = ByteBits * a
  PROVE  /\ x \in Nat /\ y \in Nat
         /\ q = a => x = y + r
         /\ q = a + 1 => x = y + ByteBits + r
         /\ q < a => x < y
         /\ q > a + 1 => x >= y + 2 * ByteBits
<1>1. ByteBits \in Nat /\ ByteBits >= 1 /\ r \in 0 .. ByteBits - 1
      /\ ByteBits * q \in Nat /\ ByteBits * a \in Nat
  BY BytePositive DEF Byte
<1>2. PICK c \in Nat : c = a + 1
  OBVIOUS
<1>3. ByteBits * c = ByteBits * a + ByteBits /\ ByteBits * c \in Nat
  BY <1>1, <1>2
<1>4. q < a => ByteBits * q + ByteBits <= ByteBits * a
  BY <1>1, TimesMonotonic
<1>5. q > c => ByteBits * c + ByteBits <= ByteBits * q
  BY <1>1, <1>2, TimesMonotonic
<1> QED
  BY <1>1, <1>2, <1>3, <1>4, <1>5

\* The positions of a round, counted from the first bit of the byte it starts in.
LEMMA RoundBits ==
  ASSUME TypeOK, Progress, Running, i < filled, NEW y, y = ByteBits * At, NEW x \in Int
  PROVE  /\ x \in WindowIn(call, i, i + Round) <=> x - y - Shift \in Mask
         /\ x \in PlacedIn(call, i, i + Round) <=> x - y - Shift \in Source
         /\ x \in StraysIn(call, i, i + Round)
              <=> CharSigned /\ 0 \in Source /\ x - y \in 0 .. Shift - 1
<1>1. /\ ByteBits \in Nat /\ ByteBits >= 1 /\ i \in Nat /\ i < call.bits
      /\ call.offset \in Nat /\ call.src \subseteq Int
  <2>1. /\ call.offset \in Nat /\ call.src \subseteq SourceBit /\ i \in Nat
        /\ i < call.bits
    BY CallFacts, RunningIsNotNoCall
  <2> QED
    BY <2>1, BytePositive DEF SourceBit
<1>2. /\ Round \in 1 .. ByteBits /\ y \in Nat /\ Shift \in 0 .. ByteBits - 1
      /\ call.offset + i = y + Shift
  BY <1>1, AtByte, RoundFacts DEF Byte
<1>3. x \in WindowIn(call, i, i + Round) <=> x - y - Shift \in Mask
  BY <1>1, <1>2 DEF WindowIn, Mask
<1>4. x \in PlacedIn(call, i, i + Round) <=> x - y - Shift \in Source
  <2>1. ASSUME x \in PlacedIn(call, i, i + Round) PROVE x - y - Shift \in Source
    <3>1. PICK k \in call.src \intersect i .. (i + Round) - 1 : x = call.offset + k
      BY <2>1, Zenon DEF PlacedIn
    <3>2. x - y - Shift = k - i /\ k - i \in Mask /\ i + (k - i) = k
      BY <1>1, <1>2, <3>1 DEF Mask
    <3> QED
      BY <3>1, <3>2 DEF Source
  <2>2. ASSUME x - y - Shift \in Source PROVE x \in PlacedIn(call, i, i + Round)
    <3>1. PICK o \in Mask : o = x - y - Shift /\ i + o \in call.src
      BY <2>2 DEF Source
    <3>2. x = call.offset + (i + o) /\ i + o \in i .. (i + Round) - 1
      BY <1>1, <1>2, <3>1 DEF Mask
    <3> QED
      BY <3>1, <3>2, Zenon DEF PlacedIn
  <2> QED
    BY <2>1, <2>2
<1>5. RepeatedIn(call, i, i + Round) = IF CharSigned /\ 0 \in Source THEN {i} ELSE {}
  <2>1. i % ByteBits = 0
    BY <1>1 DEF Progress
  <2>2. ASSUME NEW k \in i .. (i + Round) - 1, k % ByteBits = 0 PROVE k = i
    <3>1. PICK j \in Nat : i = ByteBits * j
      BY <1>1, AtByte
    <3>2. k = ByteBits * j + (k - i) /\ k - i \in 0 .. ByteBits - 1
      BY <1>1, <1>2, <3>1
    <3>3. k % ByteBits = k - i
      <4>1. \A v \in 0 .. ByteBits - 1 : \A n : n = ByteBits * j + v => n % ByteBits = v
        BY <1>1, DivUnique
      <4> QED
        BY <3>2, <4>1
    <3> QED
      BY <1>1, <2>2, <3>3
  <2>3. 0 \in Source <=> i \in call.src
    BY <1>1, <1>2 DEF Source, Mask
  <2>4. i \in i .. (i + Round) - 1
    BY <1>1, <1>2
  <2>5. \A k : /\ k \in call.src \intersect i .. (i + Round) - 1
              /\ CharSigned /\ k % ByteBits = 0
                <=> k = i /\ CharSigned /\ 0 \in Source
    BY <2>1, <2>2, <2>3, <2>4
  <2> QED
    BY <2>5, Zenon DEF RepeatedIn
<1>6. x \in StraysIn(call, i, i + Round)
        <=> CharSigned /\ 0 \in Source /\ x - y \in 0 .. Shift - 1
  <2>1. ASSUME x \in StraysIn(call, i, i + Round)
        PROVE  CharSigned /\ 0 \in Source /\ x - y \in 0 .. Shift - 1
    <3>1. PICK k \in RepeatedIn(call, i, i + Round), s \in 1 .. Shift : x = call.offset + k - s
      BY <2>1 DEF StraysIn, Shift
    <3>2. CharSigned /\ 0 \in Source /\ k = i
      BY <1>5, <3>1
    <3> QED
      BY <1>1, <1>2, <3>1, <3>2
  <2>2. ASSUME CharSigned, 0 \in Source, x - y \in 0 .. Shift - 1
        PROVE  x \in StraysIn(call, i, i + Round)
    <3>1. PICK s \in 1 .. Shift : s = Shift - (x - y)
      BY <1>2, <2>2
    <3>2. x = call.offset + i - s /\ i \in RepeatedIn(call, i, i + Round)
      BY <1>1, <1>2, <1>5, <2>2, <3>1
    <3> QED
      BY <3>2 DEF StraysIn, Shift
  <2> QED
    BY <2>1, <2>2
<1> QED
  BY <1>3, <1>4, <1>6

\* The bits of the two bytes a round writes.
LEMMA RoundBytes ==
  ASSUME TypeOK, Progress, Running, i < filled, NEW r \in Byte
  PROVE  /\ r \in Right(Mask, Shift) <=> r - Shift \in Mask
         /\ r \in RightChar(Source, Shift)
              <=> \/ r - Shift \in Source
                  \/ CharSigned /\ 0 \in Source /\ r \in 0 .. Shift - 1
         /\ r \in Left(Mask, ByteBits - Shift) <=> r + ByteBits - Shift \in Mask
         /\ r \in Left(Source, ByteBits - Shift) <=> r + ByteBits - Shift \in Source
<1>1. ByteBits \in Nat /\ Shift \in Nat /\ r \in Nat /\ Mask \subseteq Int
      /\ Source \subseteq Int
  BY BytePositive, AtByte, CallFacts, RunningIsNotNoCall DEF Byte, Mask, Source
<1>2. ASSUME NEW b \in SUBSET Int
      PROVE  /\ r \in Right(b, Shift) <=> r - Shift \in b
             /\ r \in Left(b, ByteBits - Shift) <=> r + ByteBits - Shift \in b
  <2>1. r \in {o + Shift : o \in b} <=> r - Shift \in b
    <3>1. \A o \in Int : r = o + Shift <=> o = r - Shift
      BY <1>1
    <3> QED
      BY <1>1, <3>1
  <2>2. r \in {o - (ByteBits - Shift) : o \in b} <=> r + ByteBits - Shift \in b
    <3>1. \A o \in Int : r = o - (ByteBits - Shift) <=> o = r + ByteBits - Shift
      BY <1>1
    <3> QED
      BY <1>1, <3>1
  <2> QED
    BY <2>1, <2>2 DEF Right, Left
<1>3. r \in RightChar(Source, Shift)
        <=> \/ r \in Right(Source, Shift)
            \/ CharSigned /\ 0 \in Source /\ r \in 0 .. Shift - 1
  BY DEF RightChar
<1> QED
  BY <1>1, <1>2, <1>3

\* The copied bits before the byte boundary and after it, as in dest.
LEMMA RoundInTwoBytes ==
  ASSUME TypeOK, Progress, Running, i < filled, NEW q \in Nat, NEW r \in Byte,
         NEW x, x = ByteBits * q + r
  PROVE  /\ q = At =>
              /\ x \in WindowIn(call, i, i + Round) <=> r \in Right(Mask, Shift)
              /\ x \in PlacedIn(call, i, i + Round) \union StraysIn(call, i, i + Round)
                   <=> r \in RightChar(Source, Shift)
              /\ r \in Right(Mask, Shift) =>
                   (x \in PlacedIn(call, i, i + Round) <=> r \in RightChar(Source, Shift))
         /\ q = At + 1 =>
              /\ x \in WindowIn(call, i, i + Round) <=> r \in Left(Mask, ByteBits - Shift)
              /\ x \in PlacedIn(call, i, i + Round) <=> r \in Left(Source, ByteBits - Shift)
              /\ x \notin StraysIn(call, i, i + Round)
         /\ q \notin {At, At + 1} =>
              x \notin WindowIn(call, i, i + Round) \union PlacedIn(call, i, i + Round)
                          \union StraysIn(call, i, i + Round)
<1>1. PICK y : y = ByteBits * At
  OBVIOUS
<1>2. /\ ByteBits \in Nat /\ ByteBits >= 1 /\ Round \in 1 .. ByteBits
      /\ Shift \in 0 .. ByteBits - 1 /\ At \in Nat /\ r \in 0 .. ByteBits - 1
  BY BytePositive, AtByte, RoundFacts, CallFacts, RunningIsNotNoCall DEF Byte
<1>3. /\ x \in Nat /\ y \in Nat
      /\ q = At => x = y + r
      /\ q = At + 1 => x = y + ByteBits + r
      /\ q < At => x < y
      /\ q > At + 1 => x >= y + 2 * ByteBits
  BY <1>1, <1>2, Locate
<1>4. /\ x \in WindowIn(call, i, i + Round) <=> x - y - Shift \in Mask
      /\ x \in PlacedIn(call, i, i + Round) <=> x - y - Shift \in Source
      /\ x \in StraysIn(call, i, i + Round)
           <=> CharSigned /\ 0 \in Source /\ x - y \in 0 .. Shift - 1
  BY <1>1, <1>3, RoundBits
<1>5. /\ r \in Right(Mask, Shift) <=> r - Shift \in Mask
      /\ r \in RightChar(Source, Shift)
           <=> \/ r - Shift \in Source
               \/ CharSigned /\ 0 \in Source /\ r \in 0 .. Shift - 1
      /\ r \in Left(Mask, ByteBits - Shift) <=> r + ByteBits - Shift \in Mask
      /\ r \in Left(Source, ByteBits - Shift) <=> r + ByteBits - Shift \in Source
  BY RoundBytes
<1>6. Source \subseteq Mask /\ Mask = 0 .. Round - 1
  BY DEF Source, Mask
<1>7. CASE q = At
  <2>1. x - y - Shift = r - Shift /\ x - y = r
    BY <1>2, <1>3, <1>7
  <2>2. r - Shift \in Mask => r \notin 0 .. Shift - 1
    BY <1>2, <1>6
  <2> QED
    BY <1>2, <1>4, <1>5, <1>7, <2>1, <2>2
<1>8. CASE q = At + 1
  <2>1. x - y - Shift = r + ByteBits - Shift /\ x - y \notin 0 .. Shift - 1
    BY <1>2, <1>3, <1>8
  <2> QED
    BY <1>2, <1>4, <1>5, <1>8, <2>1
<1>9. CASE q \notin {At, At + 1}
  <2>1. x < y \/ x >= y + 2 * ByteBits
    BY <1>2, <1>3, <1>9
  <2>2. x - y - Shift \notin Mask /\ x - y \notin 0 .. Shift - 1
    BY <1>2, <1>3, <1>6, <2>1
  <2> QED
    BY <1>4, <1>6, <1>9, <2>2
<1> QED
  BY <1>7, <1>8, <1>9

\* The bits of a round are bits of dest.
LEMMA RoundWithinDest ==
  ASSUME TypeOK, Progress, Running, i < filled,
         NEW x \in PlacedIn(call, i, i + Round) \union StraysIn(call, i, i + Round)
  PROVE  \E q \in Index, r \in Byte : x = ByteBits * q + r
<1>1. PICK y : y = ByteBits * At
  OBVIOUS
<1>2. /\ ByteBits \in Nat /\ ByteBits >= 1 /\ Round \in 1 .. ByteBits
      /\ Shift \in 0 .. ByteBits - 1 /\ At \in Nat /\ At \in Index /\ At + 1 \in Index
      /\ y \in Nat
  BY <1>1, BytePositive, AtByte, RoundFacts, CallFacts, RunningIsNotNoCall DEF Byte
<1>3. x \in Int
  <2>1. call.offset \in Nat /\ call.src \subseteq Int
    BY CallFacts, RunningIsNotNoCall DEF SourceBit
  <2> QED
    BY <1>2, <2>1 DEF PlacedIn, StraysIn, RepeatedIn
<1>4. x - y \in 0 .. 2 * ByteBits - 1
  <2>1. x - y - Shift \in Mask \/ x - y \in 0 .. Shift - 1
    BY <1>1, <1>3, RoundBits DEF Source
  <2> QED
    BY <1>2, <1>3, <2>1 DEF Mask
<1>5. CASE x - y < ByteBits
  <2>1. x = ByteBits * At + (x - y) /\ x - y \in Byte
    BY <1>1, <1>2, <1>3, <1>4, <1>5 DEF Byte
  <2> QED
    BY <1>2, <2>1
<1>6. CASE ~(x - y < ByteBits)
  <2>1. PICK c \in Index : c = At + 1
    BY <1>2
  <2>2. ByteBits * c = y + ByteBits
    BY <1>1, <1>2, <2>1
  <2>3. x = ByteBits * c + (x - y - ByteBits) /\ x - y - ByteBits \in Byte
    BY <1>2, <1>3, <1>4, <1>6, <2>2 DEF Byte
  <2> QED
    BY <2>3
<1> QED
  BY <1>5, <1>6

\* The two bytes of dest after a round.
LEMMA CopyByteDest ==
  ASSUME TypeOK, Progress, CopyByte
  PROVE  /\ Running /\ i < filled /\ At \in Index /\ At + 1 \in Index /\ At \in Nat
         /\ dest[At] \in SUBSET Byte /\ dest[At + 1] \in SUBSET Byte
         /\ dest' \in Array /\ dest \in Array
         /\ dest'[At] = FirstByte /\ dest'[At + 1] = NextByte
         /\ \A q \in Index : q \notin {At, At + 1} => dest'[q] = dest[q]
<1>1. Running /\ i < filled /\ i < call.bits
  BY CopyByteIs, CallFacts, RunningIsNotNoCall
<1>2. At \in Index /\ At + 1 \in Index /\ At \in Nat
  BY <1>1, AtByte
<1>3. dest' = [dest EXCEPT ![At] = FirstByte, ![At + 1] = NextByte]
  BY <1>2, CopyByteIs DEF NextByte, TypeOK, Array
<1>4. dest' \in Array /\ dest \in Array
  BY CopyByteKeepsType DEF TypeOK
<1> QED
  BY <1>1, <1>2, <1>3, <1>4 DEF Array

\* A round copies the bits from i to i + Round, whatever the operation.
LEMMA CopyByteFlat ==
  ASSUME TypeOK, Progress, CopyByte
  PROVE  Flat(dest') = WithBits(call, Flat(dest), i, i + Round)
<1> DEFINE win == WindowIn(call, i, i + Round)
           placed == PlacedIn(call, i, i + Round)
           strays == StraysIn(call, i, i + Round)
           new == WithBits(call, Flat(dest), i, i + Round)
<1>1. /\ Running /\ i < filled /\ i < call.bits /\ call.op \in Ops
      /\ Shift \in Byte /\ At \in Nat
      /\ dest' \in Array /\ dest \in Array
      /\ dest[At] \in SUBSET Byte /\ dest[At + 1] \in SUBSET Byte
      /\ dest'[At] = FirstByte /\ dest'[At + 1] = NextByte
      /\ \A q \in Index : q \notin {At, At + 1} => dest'[q] = dest[q]
  BY CopyByteDest, AtByte, CallFacts, RunningIsNotNoCall
<1>2. /\ call.op = "OVERWRITE" => new = (Flat(dest) \ win) \union placed \union strays
      /\ call.op = "OR" => new = Flat(dest) \union placed \union strays
      /\ call.op = "AND" => new = Flat(dest) \ (win \ placed)
  BY DEF WithBits
<1>3. /\ call.op = "OVERWRITE" =>
           /\ FirstByte = (dest[At] \ Right(Mask, Shift)) \union RightChar(Source, Shift)
           /\ NextByte = (dest[At + 1] \ Left(Mask, ByteBits - Shift))
                           \union Left(Source, ByteBits - Shift)
      /\ call.op = "OR" =>
           /\ FirstByte = dest[At] \union RightChar(Source, Shift)
           /\ NextByte = dest[At + 1] \union Left(Source, ByteBits - Shift)
      /\ call.op = "AND" =>
           /\ FirstByte = dest[At] \ (Right(Mask, Shift) \ RightChar(Source, Shift))
           /\ NextByte = dest[At + 1] \ (Left(Mask, ByteBits - Shift)
                                           \ Left(Source, ByteBits - Shift))
  BY <1>1, CombineBits, ShiftedInByte DEF FirstByte, NextByte
<1>4. ASSUME NEW q \in Index, NEW r \in Byte, NEW x, x = ByteBits * q + r
      PROVE  x \in Flat(dest') <=> x \in new
  <2>0. q \in Nat
    BY DEF Index
  <2>1. (x \in Flat(dest') <=> r \in dest'[q]) /\ (x \in Flat(dest) <=> r \in dest[q])
    BY <1>1, <1>4, FlatBit
  <2>2. /\ q = At =>
             /\ x \in win <=> r \in Right(Mask, Shift)
             /\ x \in placed \union strays <=> r \in RightChar(Source, Shift)
             /\ r \in Right(Mask, Shift) => (x \in placed <=> r \in RightChar(Source, Shift))
        /\ q = At + 1 =>
             /\ x \in win <=> r \in Left(Mask, ByteBits - Shift)
             /\ x \in placed <=> r \in Left(Source, ByteBits - Shift)
             /\ x \notin strays
        /\ q \notin {At, At + 1} => x \notin win \union placed \union strays
    BY <1>1, <1>4, <2>0, RoundInTwoBytes
  <2> HIDE DEF win, placed, strays, new
  <2>3. CASE q = At
    <3>1. x \in Flat(dest') <=> r \in FirstByte
      BY <1>1, <2>1, <2>3
    <3> QED
      BY <1>1, <1>2, <1>3, <2>1, <2>2, <2>3, <3>1 DEF Ops
  <2>4. CASE q = At + 1
    <3>1. x \in Flat(dest') <=> r \in NextByte
      BY <1>1, <2>1, <2>4
    <3> QED
      BY <1>1, <1>2, <1>3, <2>1, <2>2, <2>4, <3>1 DEF Ops
  <2>5. CASE q \notin {At, At + 1}
    BY <1>1, <1>2, <2>1, <2>2, <2>5 DEF Ops
  <2> QED
    BY <2>3, <2>4, <2>5
<1>5. ASSUME NEW x \in Flat(dest') \union new
      PROVE  \E q \in Index, r \in Byte : x = ByteBits * q + r
  <2>1. x \in Flat(dest') \union Flat(dest) \union (placed \union strays)
    <3> HIDE DEF win, placed, strays, new
    <3> QED
      BY <1>1, <1>2 DEF Ops
  <2>2. CASE x \in Flat(dest') \union Flat(dest)
    BY <1>1, <2>2, FlatType
  <2>3. CASE x \in placed \union strays
    BY <1>1, <2>3, RoundWithinDest
  <2> QED
    BY <2>1, <2>2, <2>3
<1> HIDE DEF new
<1>6. \A x : x \in Flat(dest') <=> x \in new
  BY <1>4, <1>5
<1> QED
  BY <1>6 DEF new

\* CopyExactIs after a step.
LEMMA CopyExactAfter ==
  (TypeOK => (CopyExact <=> (Running => Flat(dest) = WithBits(call, Flat(before), 0, i))))'
<1> DEFINE Exact == TypeOK =>
             (CopyExact <=> (Running => Flat(dest) = WithBits(call, Flat(before), 0, i)))
<1>1. Exact
  BY CopyExactIs
<1> HIDE DEF Exact
<1>2. Exact'
  BY <1>1, PTL
<1> QED
  BY <1>2 DEF Exact

\* A step that leaves the call and its bytes alone.
LEMMA SameCopies ==
  ASSUME TypeOK, TypeOK', CopyExact, UNCHANGED <<call, i, dest, before>>
  PROVE  CopyExact'
<1>1. Running => Flat(dest) = WithBits(call, Flat(before), 0, i)
  BY CopyExactIs
<1>2. (Running => Flat(dest) = WithBits(call, Flat(before), 0, i))'
  BY <1>1 DEF Running
<1> QED
  BY <1>2, CopyExactAfter

\* A round extends what was copied by its own bits.
LEMMA CopyByteCopies ==
  ASSUME TypeOK, Progress, CopyExact, CopyByte
  PROVE  CopyExact'
<1>1. /\ Running /\ i < filled /\ i' = i + Round /\ UNCHANGED <<call, before>>
      /\ i \in Nat /\ Round \in Nat
  BY CopyByteIs, RoundFacts, CallFacts, RunningIsNotNoCall
<1>2. Flat(dest) = WithBits(call, Flat(before), 0, i)
  BY <1>1, CopyExactIs
<1>3. Flat(dest') = WithBits(call, Flat(before), 0, i + Round)
  BY <1>1, <1>2, CopyByteFlat, WithBitsInTwo
<1>4. TypeOK'
  BY CopyByteKeepsType
<1>5. (Running => Flat(dest) = WithBits(call, Flat(before), 0, i))'
  BY <1>1, <1>3
<1> QED
  BY <1>4, <1>5, CopyExactAfter

\* The whole bytes of an aligned readBits are the bits of the source in place.
LEMMA WholeBytesInPlace ==
  ASSUME TypeOK, ReadWholeBytes, Got = FullBytes,
         NEW q \in Index, NEW r \in Byte, NEW x, x = ByteBits * q + r
  PROVE  /\ q \in FilledBytes <=> x \in WindowIn(call, 0, ByteBits * Got)
         /\ q \in FilledBytes =>
              (x \in PlacedIn(call, 0, ByteBits * Got) <=> (q - First) * ByteBits + r \in call.src)
         /\ x \in PlacedIn(call, 0, ByteBits * Got) => q \in FilledBytes
<1>1. /\ Reads /\ Aligned /\ FullBytes > 0
  BY ReadWholeBytesIs
<1>2. /\ ByteBits \in Nat /\ ByteBits >= 1 /\ r \in 0 .. ByteBits - 1 /\ q \in Nat
      /\ First \in Nat /\ Got \in Nat /\ call.offset = ByteBits * First
      /\ call.offset \in Nat /\ call.src \subseteq Int
  BY <1>1, BytePositive, WholeBytesFacts, CallFacts, RunningIsNotNoCall
     DEF Byte, Index, Reads, SourceBit
<1>3. PICK last \in Nat : last = First + Got
  BY <1>2
<1>4. /\ ByteBits * last = ByteBits * First + ByteBits * Got
      /\ ByteBits * q \in Nat /\ ByteBits * First \in Nat /\ ByteBits * Got \in Nat
  BY <1>2, <1>3
<1>5. /\ q < First => ByteBits * q + ByteBits <= ByteBits * First
      /\ q < last => ByteBits * q + ByteBits <= ByteBits * last
      /\ First < q => ByteBits * First + ByteBits <= ByteBits * q
      /\ last < q => ByteBits * last + ByteBits <= ByteBits * q
  BY <1>2, TimesMonotonic
<1>6. q \in FilledBytes <=> x \in call.offset .. (call.offset + ByteBits * Got) - 1
  <2>1. q \in FilledBytes <=> First <= q /\ q < last
    BY <1>2, <1>3 DEF FilledBytes
  <2>2. CASE q < First
    BY <1>2, <1>4, <1>5, <2>1, <2>2
  <2>3. CASE First <= q /\ q < last
    <3>1. ByteBits * First <= ByteBits * q
      BY <1>2, <1>4, <1>5, <2>3
    <3> QED
      BY <1>2, <1>4, <1>5, <2>1, <2>3, <3>1
  <2>4. CASE last <= q
    <3>1. ByteBits * last <= ByteBits * q
      BY <1>2, <1>3, <1>4, <1>5, <2>4
    <3> QED
      BY <1>2, <1>4, <2>1, <2>4, <3>1
  <2> QED
    BY <1>2, <1>3, <2>2, <2>3, <2>4
<1>7. WindowIn(call, 0, ByteBits * Got) = call.offset .. (call.offset + ByteBits * Got) - 1
  BY <1>2, <1>4 DEF WindowIn
<1>8. (q - First) * ByteBits + r = x - call.offset
  BY <1>2, <1>4
<1>9. x \in PlacedIn(call, 0, ByteBits * Got)
        <=> x - call.offset \in call.src \intersect 0 .. ByteBits * Got - 1
  <2>1. x \in Nat
    BY <1>2, <1>4
  <2>2. \A k \in Int : x = call.offset + k <=> k = x - call.offset
    BY <1>2, <2>1
  <2> QED
    BY <1>2, <2>2 DEF PlacedIn
<1>10. x - call.offset \in 0 .. ByteBits * Got - 1 <=> x \in WindowIn(call, 0, ByteBits * Got)
  <2>1. PICK w \in Nat : w = ByteBits * Got
    BY <1>4
  <2>2. x \in Nat /\ call.offset \in Nat
    BY <1>2, <1>4
  <2>3. x - call.offset \in 0 .. w - 1 <=> x \in call.offset .. (call.offset + w) - 1
    BY <2>2
  <2> QED
    BY <1>7, <2>1, <2>3
<1> QED
  BY <1>6, <1>7, <1>8, <1>9, <1>10

\* WithNoBits after a step.
LEMMA NothingCopiedAfter ==
  (TypeOK /\ Running => WithBits(call, Flat(before), 0, 0) = Flat(before))'
<1> DEFINE Nothing == TypeOK /\ Running => WithBits(call, Flat(before), 0, 0) = Flat(before)
<1>1. Nothing
  BY WithNoBits
<1> HIDE DEF Nothing
<1>2. Nothing'
  BY <1>1, PTL
<1> QED
  BY <1>2 DEF Nothing

\* The bits of the whole bytes are bits of dest.
LEMMA PlacedWithinDest ==
  ASSUME TypeOK, ReadWholeBytes, Got = FullBytes, NEW x \in PlacedIn(call, 0, ByteBits * Got)
  PROVE  \E q \in Index, r \in Byte : x = ByteBits * q + r
<1>1. Reads /\ Aligned /\ FullBytes > 0
  BY ReadWholeBytesIs
<1>2. /\ ByteBits \in Nat /\ ByteBits >= 1 /\ First \in Nat /\ Got \in Nat
      /\ call.offset = ByteBits * First /\ FilledBytes \subseteq Index
      /\ call.src \subseteq Int
  BY <1>1, BytePositive, WholeBytesFacts, CallFacts, RunningIsNotNoCall
     DEF Reads, SourceBit
<1>3. PICK k \in Nat : x = call.offset + k /\ k < ByteBits * Got
  <2>1. PICK w \in Int : w = ByteBits * Got
    BY <1>2
  <2> QED
    BY <1>2, <2>1 DEF PlacedIn
<1>4. PICK p \in Nat, r \in Byte : k = ByteBits * p + r
  BY <1>3, DivModOf
<1>5. p < Got
  <2>1. Got < p => ByteBits * Got + ByteBits <= ByteBits * p
    BY <1>2, TimesMonotonic
  <2>2. ByteBits * p \in Nat /\ ByteBits * Got \in Nat
    BY <1>2, <1>4
  <2> QED
    BY <1>2, <1>3, <1>4, <2>1, <2>2 DEF Byte
<1>6. First + p \in Index
  BY <1>2, <1>4, <1>5 DEF FilledBytes
<1>7. x = ByteBits * (First + p) + r
  <2>1. ByteBits * (First + p) = ByteBits * First + ByteBits * p
    BY <1>2, <1>4
  <2> QED
    BY <1>2, <1>3, <1>4, <2>1 DEF Byte
<1> QED
  BY <1>4, <1>6, <1>7

\* Reading whole bytes in place copies their bits.
LEMMA ReadWholeBytesCopies ==
  ASSUME TypeOK, Progress, CopyExact, ReadWholeBytes
  PROVE  CopyExact'
<1>1. /\ Reads /\ Running /\ Aligned /\ FullBytes > 0 /\ i = 0
      /\ dest' = [at \in Index |->
                    IF at \in FilledBytes
                    THEN {o \in Byte : (at - First) * ByteBits + o \in call.src}
                    ELSE dest[at]]
      /\ i' = ByteBits * Got /\ UNCHANGED before
      /\ (Got = FullBytes /\ UNCHANGED call) \/ ~Running'
  BY ReadWholeBytesIs, AbortIs DEF Reads
<1>2. CASE ~Running'
  BY <1>2 DEF CopyExact
<1>3. CASE Got = FullBytes /\ UNCHANGED call
  <2> DEFINE w == ByteBits * Got
             new == WithBits(call, Flat(dest), 0, w)
  <2>1. /\ call.op = "OVERWRITE" /\ Shift = 0 /\ dest \in Array /\ dest' \in Array
        /\ w \in Nat
    BY <1>1, ReadWholeBytesKeepsType, WholeBytesFacts DEF Aligned, TypeOK
  <2>2. Flat(dest) = Flat(before)
    <3>1. Flat(dest) = WithBits(call, Flat(before), 0, 0)
      BY <1>1, CopyExactIs
    <3> QED
      BY <1>1, <3>1, WithNoBits
  <2>3. new = (Flat(dest) \ WindowIn(call, 0, w)) \union PlacedIn(call, 0, w)
    <3>1. StraysIn(call, 0, w) = {}
      BY <2>1 DEF StraysIn, Shift
    <3> QED
      BY <2>1, <3>1 DEF WithBits
  <2>4. ASSUME NEW q \in Index, NEW r \in Byte, NEW x, x = ByteBits * q + r
        PROVE  x \in Flat(dest') <=> x \in new
    <3>1. (x \in Flat(dest') <=> r \in dest'[q]) /\ (x \in Flat(dest) <=> r \in dest[q])
      BY <2>1, <2>4, FlatBit
    <3>2. /\ q \in FilledBytes <=> x \in WindowIn(call, 0, w)
          /\ q \in FilledBytes =>
               (x \in PlacedIn(call, 0, w) <=> (q - First) * ByteBits + r \in call.src)
          /\ x \in PlacedIn(call, 0, w) => q \in FilledBytes
      BY <1>3, <2>4, WholeBytesInPlace
    <3>3. dest'[q] = IF q \in FilledBytes
                     THEN {o \in Byte : (q - First) * ByteBits + o \in call.src}
                     ELSE dest[q]
      BY <1>1
    <3> HIDE DEF w, new
    <3> QED
      BY <2>3, <3>1, <3>2, <3>3
  <2>5. ASSUME NEW x \in Flat(dest') \union new
        PROVE  \E q \in Index, r \in Byte : x = ByteBits * q + r
    <3>1. CASE x \in Flat(dest') \union Flat(dest)
      BY <2>1, <3>1, FlatType
    <3>2. CASE x \in PlacedIn(call, 0, w)
      BY <1>3, <3>2, PlacedWithinDest
    <3> HIDE DEF w, new
    <3> QED
      BY <2>3, <2>5, <3>1, <3>2
  <2>6. Flat(dest') = new
    <3> HIDE DEF new
    <3>1. \A x : x \in Flat(dest') <=> x \in new
      BY <2>4, <2>5
    <3> QED
      BY <3>1
  <2>7. (Running => Flat(dest) = WithBits(call, Flat(before), 0, i))'
    <3>1. /\ call' = call /\ i' = w /\ before' = before
          /\ Flat(dest') = WithBits(call, Flat(before), 0, w)
      BY <1>1, <1>3, <2>2, <2>6
    <3> HIDE DEF w
    <3> QED
      BY <3>1
  <2> QED
    BY <2>7, ReadWholeBytesKeepsType, CopyExactAfter
<1> QED
  BY <1>1, <1>2, <1>3

\* No other action moves i or writes to dest in the middle of a call.
LEMMA CopiesStep ==
  ASSUME TypeOK, Progress, CopyExact, [Next]_vars
  PROVE  CopyExact'
<1>0. TypeOK'
  BY NextKeepsType
<1>1. CASE CopyByte
  BY <1>1, CopyByteCopies
<1>2. CASE ReadWholeBytes
  BY <1>2, ReadWholeBytesCopies
<1>3. CASE FillBuffer
  <2>1. UNCHANGED <<i, dest, before>> /\ (UNCHANGED call \/ ~Running')
    BY <1>3, FillBufferIs, AbortIs
  <2>2. ~Running' => CopyExact'
    BY DEF CopyExact
  <2> QED
    BY <1>0, <2>1, <2>2, SameCopies
<1>4. ASSUME Idle, NEW c \in Calls({"running"}), NEW d \in {{}, Byte},
             Call(c, [at \in Index |-> d])
      PROVE  CopyExact'
  <2>1. i' = 0 /\ dest' = before'
    BY <1>4 DEF Call, Idle, NoCall, TypeOK
  <2>3. (Running => Flat(dest) = WithBits(call, Flat(before), 0, i))'
    <3>1. (TypeOK /\ Running => WithBits(call, Flat(before), 0, 0) = Flat(before))'
      BY NothingCopiedAfter
    <3> QED
      BY <1>0, <2>1, <3>1
  <2> QED
    BY <1>0, <2>3, CopyExactAfter
<1>5. ASSUME NEW x, popcount(x) PROVE CopyExact'
  BY <1>0, <1>5, SameCopies DEF popcount
<1>6. CASE Return
  BY <1>6 DEF Return, CopyExact, Running, NoCall
<1>7. CASE UNCHANGED vars
  BY <1>0, <1>7, SameCopies DEF vars
<1> QED
  BY <1>1, <1>2, <1>3, <1>4, <1>5, <1>6, <1>7 DEF Next

------------------------------------------------------------------------------
(* popcount.                                                               *)

\* A carry enters bit b of x + y: below it is a bit set in both, and every bit
\* between is set in one.
Carry(x, y, b) == \E g \in x \intersect y : g < b /\ (g + 1 .. b - 1) \subseteq x \union y
CarryBit(x, y, b) == IF Carry(x, y, b) THEN 1 ELSE 0

\* No carry passes a bit that is set in neither.
LEMMA CarryStops ==
  ASSUME NEW x \in SUBSET Int, NEW y \in SUBSET Int, NEW b \in Int, b - 1 \notin x \union y
  PROVE  CarryBit(x, y, b) = 0
<1> SUFFICES ASSUME NEW g \in x \intersect y, g < b, (g + 1 .. b - 1) \subseteq x \union y
             PROVE FALSE
  BY DEF Carry, CarryBit
<1>1. g # b - 1
  OBVIOUS
<1>2. b - 1 \in g + 1 .. b - 1
  BY <1>1
<1> QED
  BY <1>2

\* A carry leaves bit b when both are set, or one is and a carry enters.
LEMMA CarryRuns ==
  ASSUME NEW x \in SUBSET Int, NEW y \in SUBSET Int, NEW b \in Int
  PROVE  Carry(x, y, b + 1) <=> \/ b \in x /\ b \in y
                                \/ (b \in x \/ b \in y) /\ Carry(x, y, b)
<1>1. ASSUME NEW g \in x \intersect y, g < b + 1, (g + 1 .. b + 1 - 1) \subseteq x \union y
      PROVE  \/ b \in x /\ b \in y
             \/ (b \in x \/ b \in y) /\ Carry(x, y, b)
  <2>1. CASE g # b
    <3>1. b \in g + 1 .. b + 1 - 1 /\ (g + 1 .. b - 1) \subseteq (g + 1 .. b + 1 - 1) /\ g < b
      BY <1>1, <2>1
    <3> QED
      BY <1>1, <3>1 DEF Carry
  <2> QED
    BY <2>1
<1>2. ASSUME b \in x /\ b \in y PROVE Carry(x, y, b + 1)
  <2>1. b < b + 1 /\ (b + 1 .. b + 1 - 1) = {}
    OBVIOUS
  <2> QED
    BY <1>2, <2>1 DEF Carry
<1>3. ASSUME b \in x \/ b \in y, Carry(x, y, b) PROVE Carry(x, y, b + 1)
  <2>1. PICK g \in x \intersect y : g < b /\ (g + 1 .. b - 1) \subseteq x \union y
    BY <1>3 DEF Carry
  <2>2. g < b + 1 /\ \A z \in g + 1 .. b + 1 - 1 : z \in g + 1 .. b - 1 \/ z = b
    BY <2>1
  <2> QED
    BY <1>3, <2>1, <2>2 DEF Carry
<1> QED
  BY <1>1, <1>2, <1>3 DEF Carry

\* One bit of the adder: the three that enter make its sum and its carry.
LEMMA BitSum ==
  ASSUME NEW x \in SUBSET WordBit, NEW y \in SUBSET WordBit, NEW b \in WordBit
  PROVE  Bit(x, b) + Bit(y, b) + CarryBit(x, y, b)
           = Bit(Plus(x, y), b) + 2 * CarryBit(x, y, b + 1)
<1>1. x \in SUBSET Int /\ y \in SUBSET Int /\ b \in Int
  BY DEF WordBit
<1>2. b \in Plus(x, y) <=> (b \in x <=> (b \in y <=> Carry(x, y, b)))
  <2> DEFINE carry == Carry(x, y, b)
             odd == ((b \in x) # (b \in y)) # carry
  <2>1. b \in Plus(x, y) <=> odd
    BY Zenon DEF Plus, Carry
  <2>2. carry \in BOOLEAN
    BY DEF Carry
  <2>3. odd <=> (b \in x <=> (b \in y <=> carry))
    <3> HIDE DEF carry
    <3> QED
      BY <2>2
  <2> HIDE DEF odd
  <2> QED
    BY <2>1, <2>3, Zenon
<1>3. Carry(x, y, b + 1) <=> \/ b \in x /\ b \in y
                             \/ (b \in x \/ b \in y) /\ Carry(x, y, b)
  BY <1>1, CarryRuns
<1> DEFINE in == CarryBit(x, y, b)
           out == CarryBit(x, y, b + 1)
           sum == Bit(Plus(x, y), b)
<1>4. in \in 0 .. 1 /\ (in = 1 <=> Carry(x, y, b))
  BY DEF CarryBit
<1>5. out \in 0 .. 1 /\ (out = 1 <=> Carry(x, y, b + 1))
  BY DEF CarryBit
<1>6. sum \in 0 .. 1 /\ (sum = 1 <=> b \in Plus(x, y))
  BY DEF Bit
<1> HIDE DEF in, out, sum
<1>7. CASE b \in x /\ b \in y
  <2>1. /\ b \in Plus(x, y) <=> Carry(x, y, b)
        /\ Carry(x, y, b + 1)
    BY <1>2, <1>3, <1>7, Zenon
  <2>2. Bit(x, b) = 1 /\ Bit(y, b) = 1
    BY <1>7 DEF Bit
  <2>3. Bit(x, b) + Bit(y, b) + in = sum + 2 * out
    BY <1>4, <1>5, <1>6, <2>1, <2>2
  <2> QED
    BY <2>3 DEF in, out, sum
<1>8. CASE (b \in x /\ b \notin y) \/ (b \notin x /\ b \in y)
  <2>1. /\ b \in Plus(x, y) <=> ~Carry(x, y, b)
        /\ Carry(x, y, b + 1) <=> Carry(x, y, b)
    BY <1>2, <1>3, <1>8, Zenon
  <2>2. Bit(x, b) + Bit(y, b) = 1
    BY <1>8 DEF Bit
  <2>3. Bit(x, b) + Bit(y, b) + in = sum + 2 * out
    BY <1>4, <1>5, <1>6, <2>1, <2>2
  <2> QED
    BY <2>3 DEF in, out, sum
<1>9. CASE b \notin x /\ b \notin y
  <2>1. /\ b \in Plus(x, y) <=> Carry(x, y, b)
        /\ ~Carry(x, y, b + 1)
    BY <1>2, <1>3, <1>9, Zenon
  <2>2. Bit(x, b) = 0 /\ Bit(y, b) = 0
    BY <1>9 DEF Bit
  <2>3. Bit(x, b) + Bit(y, b) + in = sum + 2 * out
    BY <1>4, <1>5, <1>6, <2>1, <2>2
  <2> QED
    BY <2>3 DEF in, out, sum
<1> QED
  BY <1>7, <1>8, <1>9

\* The numbers in the 2, 4 or 8 bits from bit a on.
Two(x, a) == Bit(x, a) + 2 * Bit(x, a + 1)
Four(x, a) == Two(x, a) + 4 * Two(x, a + 2)
Eight(x, a) == Four(x, a) + 16 * Four(x, a + 4)

\* They are below 2^2, 2^4 and 2^8.
LEMMA GroupTypes ==
  ASSUME NEW x, NEW a \in Int
  PROVE  /\ Bit(x, a) \in 0 .. 1 /\ Two(x, a) \in 0 .. 3
         /\ Four(x, a) \in 0 .. 15 /\ Eight(x, a) \in 0 .. 255
BY DEF Bit, Two, Four, Eight

\* Two bits of the adder.
LEMMA TwoSum ==
  ASSUME NEW x \in SUBSET WordBit, NEW y \in SUBSET WordBit, NEW a \in 0 .. 62
  PROVE  Two(x, a) + Two(y, a) + CarryBit(x, y, a)
           = Two(Plus(x, y), a) + 4 * CarryBit(x, y, a + 2)
<1>1. a \in WordBit /\ a + 1 \in WordBit /\ a + 1 + 1 = a + 2
  BY DEF WordBit
<1>2. /\ Bit(x, a) + Bit(y, a) + CarryBit(x, y, a)
           = Bit(Plus(x, y), a) + 2 * CarryBit(x, y, a + 1)
      /\ Bit(x, a + 1) + Bit(y, a + 1) + CarryBit(x, y, a + 1)
           = Bit(Plus(x, y), a + 1) + 2 * CarryBit(x, y, a + 2)
  <2>1. Bit(x, a + 1) + Bit(y, a + 1) + CarryBit(x, y, a + 1)
          = Bit(Plus(x, y), a + 1) + 2 * CarryBit(x, y, a + 1 + 1)
    BY <1>1, BitSum, Zenon
  <2> QED
    BY <1>1, <2>1, BitSum
<1>3. /\ {Bit(x, a), Bit(x, a + 1), Bit(y, a), Bit(y, a + 1)} \subseteq Int
      /\ {Bit(Plus(x, y), a), Bit(Plus(x, y), a + 1)} \subseteq Int
      /\ {CarryBit(x, y, a), CarryBit(x, y, a + 1), CarryBit(x, y, a + 2)} \subseteq Int
  BY DEF Bit, CarryBit
<1> QED
  BY <1>2, <1>3 DEF Two

\* Four bits of the adder.
LEMMA FourSum ==
  ASSUME NEW x \in SUBSET WordBit, NEW y \in SUBSET WordBit, NEW a \in 0 .. 60
  PROVE  Four(x, a) + Four(y, a) + CarryBit(x, y, a)
           = Four(Plus(x, y), a) + 16 * CarryBit(x, y, a + 4)
<1>1. a \in 0 .. 62 /\ a + 2 \in 0 .. 62 /\ a + 2 + 2 = a + 4 /\ a \in Int /\ a + 2 \in Int
  OBVIOUS
<1>2. /\ Two(x, a) + Two(y, a) + CarryBit(x, y, a)
           = Two(Plus(x, y), a) + 4 * CarryBit(x, y, a + 2)
      /\ Two(x, a + 2) + Two(y, a + 2) + CarryBit(x, y, a + 2)
           = Two(Plus(x, y), a + 2) + 4 * CarryBit(x, y, a + 4)
  <2>1. Two(x, a + 2) + Two(y, a + 2) + CarryBit(x, y, a + 2)
          = Two(Plus(x, y), a + 2) + 4 * CarryBit(x, y, a + 2 + 2)
    BY <1>1, TwoSum, Zenon
  <2> QED
    BY <1>1, <2>1, TwoSum
<1>3. /\ {Two(x, a), Two(x, a + 2), Two(y, a), Two(y, a + 2)} \subseteq Int
      /\ {Two(Plus(x, y), a), Two(Plus(x, y), a + 2)} \subseteq Int
      /\ {CarryBit(x, y, a), CarryBit(x, y, a + 2), CarryBit(x, y, a + 4)} \subseteq Int
  BY DEF Two, Bit, CarryBit
<1> QED
  BY <1>2, <1>3 DEF Four

\* Eight bits of the adder.
LEMMA EightSum ==
  ASSUME NEW x \in SUBSET WordBit, NEW y \in SUBSET WordBit, NEW a \in 0 .. 56
  PROVE  Eight(x, a) + Eight(y, a) + CarryBit(x, y, a)
           = Eight(Plus(x, y), a) + 256 * CarryBit(x, y, a + 8)
<1>1. a \in 0 .. 60 /\ a + 4 \in 0 .. 60 /\ a + 4 + 4 = a + 8
  OBVIOUS
<1>2. /\ Four(x, a) + Four(y, a) + CarryBit(x, y, a)
           = Four(Plus(x, y), a) + 16 * CarryBit(x, y, a + 4)
      /\ Four(x, a + 4) + Four(y, a + 4) + CarryBit(x, y, a + 4)
           = Four(Plus(x, y), a + 4) + 16 * CarryBit(x, y, a + 8)
  <2>1. Four(x, a + 4) + Four(y, a + 4) + CarryBit(x, y, a + 4)
          = Four(Plus(x, y), a + 4) + 16 * CarryBit(x, y, a + 4 + 4)
    BY <1>1, FourSum, Zenon
  <2> QED
    BY <1>1, <2>1, FourSum
<1>3. /\ {Four(x, a), Four(x, a + 4), Four(y, a), Four(y, a + 4)} \subseteq Int
      /\ {Four(Plus(x, y), a), Four(Plus(x, y), a + 4)} \subseteq Int
      /\ {CarryBit(x, y, a), CarryBit(x, y, a + 4), CarryBit(x, y, a + 8)} \subseteq Int
  BY DEF Four, Two, Bit, CarryBit
<1> QED
  BY <1>2, <1>3 DEF Eight

\* Sums and masks are words.
LEMMA WordTypes ==
  ASSUME NEW x, NEW y, NEW n
  PROVE  Plus(x, y) \in SUBSET WordBit /\ Groups(n) \in SUBSET WordBit
BY DEF Plus, Groups

\* x >> n is a word, and its bit b is bit b + n of x.
LEMMA Shifted ==
  ASSUME NEW x \in SUBSET WordBit, NEW n \in Nat
  PROVE  /\ ShiftRight(x, n) \in SUBSET WordBit
         /\ \A b \in Int : b \in ShiftRight(x, n) <=> b >= 0 /\ b + n \in x
<1>1. x \subseteq 0 .. 63
  BY DEF WordBit
<1>2. ASSUME NEW b \in ShiftRight(x, n) PROVE b \in 0 .. 63 /\ b >= 0 /\ b + n \in x
  BY <1>1 DEF ShiftRight
<1>3. ASSUME NEW b \in Int, b >= 0, b + n \in x PROVE b \in ShiftRight(x, n)
  <2>1. b + n >= n /\ b = (b + n) - n
    BY <1>3
  <2> QED
    BY <1>3, <2>1 DEF ShiftRight
<1> QED
  BY <1>2, <1>3 DEF WordBit

\* So are its groups of bits.
LEMMA ShiftedGroups ==
  ASSUME NEW x \in SUBSET WordBit, NEW n \in Nat, NEW a \in Nat
  PROVE  /\ Bit(ShiftRight(x, n), a) = Bit(x, a + n)
         /\ Two(ShiftRight(x, n), a) = Two(x, a + n)
         /\ Four(ShiftRight(x, n), a) = Four(x, a + n)
         /\ Eight(ShiftRight(x, n), a) = Eight(x, a + n)
<1>1. ASSUME NEW b \in Nat PROVE Bit(ShiftRight(x, n), b) = Bit(x, b + n)
  BY Shifted DEF Bit
<1>2. ASSUME NEW b \in Nat PROVE Two(ShiftRight(x, n), b) = Two(x, b + n)
  <2>1. b + 1 \in Nat /\ b + 1 + n = b + n + 1
    OBVIOUS
  <2>2. Bit(ShiftRight(x, n), b) = Bit(x, b + n)
        /\ Bit(ShiftRight(x, n), b + 1) = Bit(x, b + 1 + n)
    BY <1>1, <2>1, Zenon
  <2> QED
    BY <2>1, <2>2, Zenon DEF Two
<1>3. ASSUME NEW b \in Nat PROVE Four(ShiftRight(x, n), b) = Four(x, b + n)
  <2>1. b + 2 \in Nat /\ b + 2 + n = b + n + 2
    OBVIOUS
  <2>2. Two(ShiftRight(x, n), b) = Two(x, b + n)
        /\ Two(ShiftRight(x, n), b + 2) = Two(x, b + 2 + n)
    BY <1>2, <2>1, Zenon
  <2> QED
    BY <2>1, <2>2, Zenon DEF Four
<1>4. Eight(ShiftRight(x, n), a) = Eight(x, a + n)
  <2>1. a + 4 \in Nat /\ a + 4 + n = a + n + 4
    OBVIOUS
  <2>2. Four(ShiftRight(x, n), a) = Four(x, a + n)
        /\ Four(ShiftRight(x, n), a + 4) = Four(x, a + 4 + n)
    BY <1>3, <2>1, Zenon
  <2> QED
    BY <2>1, <2>2, Zenon DEF Eight
<1> QED
  BY <1>1, <1>2, <1>3, <1>4

\* Which bits of a group the masks of popcount keep: the lower half; the bit
\* below the group is in no mask.
LEMMA Masked ==
  ASSUME NEW a \in 0 .. 63
  PROVE  /\ a % 2 = 0 => a \in Groups(1) /\ a + 1 \notin Groups(1) /\ a - 1 \notin Groups(1)
         /\ a % 4 = 0 => /\ a \in Groups(2) /\ a + 1 \in Groups(2)
                         /\ a + 2 \notin Groups(2) /\ a + 3 \notin Groups(2)
                         /\ a - 1 \notin Groups(2)
         /\ a % 8 = 0 => /\ {a, a + 1, a + 2, a + 3} \subseteq Groups(4)
                         /\ {a + 4, a + 5, a + 6, a + 7} \intersect Groups(4) = {}
<1>1. ASSUME a % 2 = 0
      PROVE a \in Groups(1) /\ a + 1 \notin Groups(1) /\ a - 1 \notin Groups(1)
  <2>1. (a \div 1) % 2 = 0 /\ ((a + 1) \div 1) % 2 = 1 /\ ((a - 1) \div 1) % 2 = 1
    BY <1>1
  <2> QED
    BY <2>1 DEF Groups, WordBit
<1>2. ASSUME a % 4 = 0
      PROVE  /\ a \in Groups(2) /\ a + 1 \in Groups(2)
             /\ a + 2 \notin Groups(2) /\ a + 3 \notin Groups(2)
             /\ a - 1 \notin Groups(2)
  <2>1. /\ (a \div 2) % 2 = 0 /\ ((a + 1) \div 2) % 2 = 0
        /\ ((a + 2) \div 2) % 2 = 1 /\ ((a + 3) \div 2) % 2 = 1
        /\ ((a - 1) \div 2) % 2 = 1 /\ a + 1 \in 0 .. 63
    BY <1>2
  <2> QED
    BY <2>1 DEF Groups, WordBit
<1>3. ASSUME a % 8 = 0
      PROVE  /\ {a, a + 1, a + 2, a + 3} \subseteq Groups(4)
             /\ {a + 4, a + 5, a + 6, a + 7} \intersect Groups(4) = {}
  <2>1. /\ (a \div 4) % 2 = 0 /\ ((a + 1) \div 4) % 2 = 0
        /\ ((a + 2) \div 4) % 2 = 0 /\ ((a + 3) \div 4) % 2 = 0
        /\ ((a + 4) \div 4) % 2 = 1 /\ ((a + 5) \div 4) % 2 = 1
        /\ ((a + 6) \div 4) % 2 = 1 /\ ((a + 7) \div 4) % 2 = 1
        /\ a + 1 \in 0 .. 63 /\ a + 2 \in 0 .. 63 /\ a + 3 \in 0 .. 63
    BY <1>3
  <2> QED
    BY <2>1 DEF Groups, WordBit
<1> QED
  BY <1>1, <1>2, <1>3

\* (x & 0x5555...) + ((x >> 1) & 0x5555...): every pair of bits is the sum of
\* the two bits that were there.
LEMMA PairsCounted ==
  ASSUME NEW x \in SUBSET WordBit, NEW a \in 0 .. 63, a % 2 = 0
  PROVE  Two(SumOfGroups(x, 1), a) = Bit(x, a) + Bit(x, a + 1)
<1> DEFINE y == ShiftRight(x, 1)
           u == x \intersect Groups(1)
           v == y \intersect Groups(1)
<1>1. y \in SUBSET WordBit /\ Bit(y, a) = Bit(x, a + 1)
  BY a \in Nat, 1 \in Nat, Shifted, ShiftedGroups, Zenon
<1>2. a \in 0 .. 62 /\ a \in Int /\ a \in Groups(1) /\ a + 1 \notin Groups(1) /\ a - 1 \notin Groups(1)
  BY Masked
<1> HIDE DEF y
<1>3. Two(u, a) = Bit(x, a) /\ Two(v, a) = Bit(y, a)
  BY <1>2 DEF Two, Bit
<1>4. u \in SUBSET WordBit /\ v \in SUBSET WordBit /\ a - 1 \notin u \union v
  BY <1>1, <1>2
<1>5. SumOfGroups(x, 1) = Plus(u, v)
  BY DEF SumOfGroups, y
<1> HIDE DEF u, v
<1>6. CarryBit(u, v, a) = 0
  <2>1. u \in SUBSET Int /\ v \in SUBSET Int
    BY <1>4 DEF WordBit
  <2> QED
    BY <1>2, <1>4, <2>1, CarryStops
<1>7. Two(u, a) + Two(v, a) + CarryBit(u, v, a)
        = Two(Plus(u, v), a) + 4 * CarryBit(u, v, a + 2)
  BY <1>2, <1>4, TwoSum
<1>8. /\ Bit(x, a) \in 0 .. 1 /\ Bit(y, a) \in 0 .. 1
      /\ Two(Plus(u, v), a) \in 0 .. 3 /\ CarryBit(u, v, a + 2) \in 0 .. 1
  BY <1>2, GroupTypes DEF CarryBit
<1> QED
  BY <1>1, <1>3, <1>5, <1>6, <1>7, <1>8

\* The same with 0x3333...: every four bits are the sum of two pairs.
LEMMA FoursCounted ==
  ASSUME NEW x \in SUBSET WordBit, NEW a \in 0 .. 63, a % 4 = 0
  PROVE  Four(SumOfGroups(x, 2), a) = Two(x, a) + Two(x, a + 2)
<1> DEFINE y == ShiftRight(x, 2)
           u == x \intersect Groups(2)
           v == y \intersect Groups(2)
<1>1. y \in SUBSET WordBit /\ Two(y, a) = Two(x, a + 2)
  BY a \in Nat, 2 \in Nat, Shifted, ShiftedGroups, Zenon
<1>2. /\ a \in 0 .. 60 /\ a \in Int /\ a \in Groups(2) /\ a + 1 \in Groups(2)
      /\ a + 2 \notin Groups(2) /\ a + 3 \notin Groups(2) /\ a - 1 \notin Groups(2)
  BY Masked
<1> HIDE DEF y
<1>3. Four(u, a) = Two(x, a) /\ Four(v, a) = Two(y, a)
  <2>1. a + 2 + 1 = a + 3
    OBVIOUS
  <2> QED
    BY <1>2, <2>1 DEF Four, Two, Bit
<1>4. u \in SUBSET WordBit /\ v \in SUBSET WordBit /\ a - 1 \notin u \union v
  BY <1>1, <1>2
<1>5. SumOfGroups(x, 2) = Plus(u, v)
  BY DEF SumOfGroups, y
<1> HIDE DEF u, v
<1>6. CarryBit(u, v, a) = 0
  <2>1. u \in SUBSET Int /\ v \in SUBSET Int
    BY <1>4 DEF WordBit
  <2> QED
    BY <1>2, <1>4, <2>1, CarryStops
<1>7. Four(u, a) + Four(v, a) + CarryBit(u, v, a)
        = Four(Plus(u, v), a) + 16 * CarryBit(u, v, a + 4)
  BY <1>2, <1>4, FourSum
<1>8. /\ Two(x, a) \in 0 .. 3 /\ Two(y, a) \in 0 .. 3
      /\ Four(Plus(u, v), a) \in 0 .. 15 /\ CarryBit(u, v, a + 4) \in 0 .. 1
  BY <1>2, GroupTypes DEF CarryBit
<1> QED
  BY <1>1, <1>3, <1>5, <1>6, <1>7, <1>8

\* The top bit of a small group is not set.
LEMMA TopBits ==
  ASSUME NEW x, NEW a \in Int
  PROVE  /\ Four(x, a) <= 7 => a + 3 \notin x
         /\ Eight(x, a) <= 127 => a + 7 \notin x
<1>1. a + 2 + 1 = a + 3 /\ a + 4 + 2 + 1 = a + 7
  OBVIOUS
<1>2. ASSUME a + 3 \in x PROVE Four(x, a) >= 8
  BY <1>1, <1>2 DEF Four, Two, Bit
<1>3. ASSUME a + 7 \in x PROVE Eight(x, a) >= 128
  BY <1>1, <1>3 DEF Eight, Four, Two, Bit
<1> QED
  BY <1>2, <1>3, GroupTypes

\* (x + (x >> 4)) & 0x0f0f...: every byte is the sum of its two halves, when no
\* half is above 4, so that no carry crosses one.
LEMMA BytesCounted ==
  ASSUME NEW x \in SUBSET WordBit, \A c \in 0 .. 63 : c % 4 = 0 => Four(x, c) <= 4,
         NEW a \in 0 .. 63, a % 8 = 0
  PROVE  Eight(Plus(x, ShiftRight(x, 4)) \intersect Groups(4), a) = Four(x, a) + Four(x, a + 4)
<1> DEFINE y == ShiftRight(x, 4)
           s == Plus(x, y)
           t == s \intersect Groups(4)
<1>1. y \in SUBSET WordBit /\ Four(y, a) = Four(x, a + 4)
  <2>1. a \in Nat /\ 4 \in Nat
    OBVIOUS
  <2>2. y \in SUBSET WordBit
    BY <2>1, Shifted, Zenon
  <2>3. Four(y, a) = Four(x, a + 4)
    BY <2>1, ShiftedGroups, Zenon
  <2> QED
    BY <2>2, <2>3
<1>2. /\ a \in 0 .. 60 /\ a \in Int /\ {a, a + 1, a + 2, a + 3} \subseteq Groups(4)
      /\ {a + 4, a + 5, a + 6, a + 7} \intersect Groups(4) = {}
  BY Masked
<1>3. Four(x, a) <= 4 /\ Four(x, a + 4) <= 4
  BY <1>2
<1>4. a - 1 \notin x \union y
  <2>1. a - 1 \notin x
    <3>1. CASE a = 0
      BY <3>1 DEF WordBit
    <3>2. CASE a # 0
      <4>1. a - 4 \in 0 .. 63 /\ (a - 4) % 4 = 0 /\ a - 4 \in Int /\ a - 4 + 3 = a - 1
        BY <3>2
      <4>2. Four(x, a - 4) <= 4 /\ Four(x, a - 4) \in 0 .. 15
        BY <4>1, GroupTypes
      <4>3. Four(x, a - 4) <= 7 => a - 4 + 3 \notin x
        BY <4>1, TopBits
      <4> QED
        BY <4>1, <4>2, <4>3
    <3> QED
      BY <3>1, <3>2
  <2>2. a - 1 \notin y
    <3>1. a + 3 \notin x
      BY <1>2, <1>3, GroupTypes, TopBits
    <3>2. a - 1 \in Int /\ a - 1 + 4 = a + 3
      OBVIOUS
    <3> QED
      BY <3>1, <3>2, Shifted
  <2> QED
    BY <2>1, <2>2
<1> HIDE DEF y
<1>5. CarryBit(x, y, a) = 0
  <2>1. x \in SUBSET Int /\ y \in SUBSET Int
    BY <1>1 DEF WordBit
  <2> QED
    BY <1>2, <1>4, <2>1, CarryStops
<1>6. Four(x, a) + Four(y, a) + CarryBit(x, y, a) = Four(s, a) + 16 * CarryBit(x, y, a + 4)
  BY <1>1, <1>2, FourSum
<1>7. /\ Four(x, a) \in 0 .. 15 /\ Four(x, a + 4) \in 0 .. 15
      /\ Four(s, a) \in 0 .. 15 /\ CarryBit(x, y, a + 4) \in 0 .. 1
  BY <1>2, GroupTypes DEF CarryBit
<1>8. Four(s, a) = Four(x, a) + Four(x, a + 4)
  BY <1>1, <1>3, <1>5, <1>6, <1>7
<1> HIDE DEF s
<1>9. Eight(t, a) = Four(s, a)
  <2>1. a + 2 + 1 = a + 3 /\ a + 4 + 1 = a + 5 /\ a + 4 + 2 = a + 6 /\ a + 6 + 1 = a + 7
    OBVIOUS
  <2>2. Four(t, a) = Four(s, a)
    BY <1>2, <2>1 DEF Four, Two, Bit
  <2>3. Four(t, a + 4) = 0
    BY <1>2, <2>1 DEF Four, Two, Bit
  <2> QED
    BY <1>2, <2>2, <2>3, GroupTypes DEF Eight
<1> QED
  BY <1>8, <1>9 DEF s, y

\* No byte of x is more than "most".
BytesUpTo(x, most) == \A c \in 0 .. 127 : c % 8 = 0 => Eight(x, c) <= most

\* x + (x >> n), a byte at a time: while the bytes are small no carry crosses.
LEMMA BytesAdded ==
  ASSUME NEW x \in SUBSET WordBit, BytesUpTo(x, 63),
         NEW n \in 0 .. 63, n % 8 = 0, NEW a \in 0 .. 63, a % 8 = 0
  PROVE  Eight(Plus(x, ShiftRight(x, n)), a) = Eight(x, a) + Eight(x, a + n)
<1> DEFINE y == ShiftRight(x, n)
<1>1. \A c \in 0 .. 127 : c % 8 = 0 => Eight(x, c) <= 63
  BY DEF BytesUpTo
<1>2. y \in SUBSET WordBit /\ Eight(y, a) = Eight(x, a + n)
  BY a \in Nat, n \in Nat, Shifted, ShiftedGroups, Zenon
<1>3. a \in 0 .. 56 /\ a \in Int /\ a + n \in 0 .. 127 /\ (a + n) % 8 = 0
  OBVIOUS
<1>4. /\ Eight(x, a) <= 63 /\ Eight(x, a + n) <= 63
      /\ Eight(x, a) \in 0 .. 255 /\ Eight(x, a + n) \in 0 .. 255
  <2>1. a \in 0 .. 127 /\ a + n \in Int
    BY <1>3
  <2> QED
    BY <1>1, <1>3, <2>1, GroupTypes
<1>5. ASSUME NEW c \in Int, c \in 8 .. 127, c % 8 = 0 PROVE c - 1 \notin x
  <2>1. c - 8 \in 0 .. 127 /\ (c - 8) % 8 = 0 /\ c - 8 \in Int /\ c - 8 + 7 = c - 1
    BY <1>5
  <2>2. Eight(x, c - 8) <= 63 /\ Eight(x, c - 8) \in 0 .. 255
    BY <1>1, <2>1, GroupTypes
  <2>3. Eight(x, c - 8) <= 127 => c - 8 + 7 \notin x
    BY <2>1, TopBits
  <2> QED
    BY <2>1, <2>2, <2>3
<1>6. a - 1 \notin x \union y
  <2>1. CASE a = 0
    <3>1. -1 \notin WordBit /\ a - 1 = -1
      BY <2>1 DEF WordBit
    <3> QED
      BY <1>2, <3>1
  <2>2. CASE a # 0
    <3>1. a \in 8 .. 127 /\ a + n \in 8 .. 127 /\ a + n \in Int /\ a - 1 \in Int
          /\ a - 1 + n = a + n - 1
      BY <1>3, <2>2
    <3>2. a - 1 \notin x /\ a + n - 1 \notin x
      BY <1>3, <1>5, <3>1
    <3>3. a - 1 \notin y
      BY <3>1, <3>2, n \in Nat, Shifted, Zenon
    <3> QED
      BY <3>2, <3>3
  <2> QED
    BY <2>1, <2>2
<1> HIDE DEF y
<1>7. CarryBit(x, y, a) = 0
  <2>1. x \in SUBSET Int /\ y \in SUBSET Int
    BY <1>2 DEF WordBit
  <2> QED
    BY <1>3, <1>6, <2>1, CarryStops
<1>8. Eight(x, a) + Eight(y, a) + CarryBit(x, y, a)
        = Eight(Plus(x, y), a) + 256 * CarryBit(x, y, a + 8)
  BY <1>2, <1>3, EightSum
<1>9. Eight(Plus(x, y), a) \in 0 .. 255 /\ CarryBit(x, y, a + 8) \in 0 .. 1
  BY <1>3, GroupTypes DEF CarryBit
<1>10. Eight(Plus(x, y), a) = Eight(x, a) + Eight(x, a + n)
  <2> DEFINE e == Eight(x, a)
             f == Eight(x, a + n)
             g == Eight(Plus(x, y), a)
             c == CarryBit(x, y, a + 8)
  <2>1. e + f + 0 = g + 256 * c
    BY <1>2, <1>7, <1>8, Zenon
  <2>2. e \in 0 .. 255 /\ f \in 0 .. 255 /\ e <= 63 /\ f <= 63 /\ g \in 0 .. 255 /\ c \in 0 .. 1
    BY <1>4, <1>9, Zenon
  <2>3. g = e + f
    <3> HIDE DEF e, f, g, c
    <3> QED
      BY <2>1, <2>2
  <2> QED
    BY <2>3
<1> QED
  BY <1>10 DEF y

\* The ones among the next 4, 8, 16 or 32 bits.
Ones4(x, a) == (Bit(x, a) + Bit(x, a + 1)) + (Bit(x, a + 2) + Bit(x, a + 3))
Ones8(x, a) == Ones4(x, a) + Ones4(x, a + 4)
Ones16(x, a) == Ones8(x, a) + Ones8(x, a + 8)
Ones32(x, a) == Ones16(x, a) + Ones16(x, a + 16)

\* They are no more than the bits.
LEMMA OnesTypes ==
  ASSUME NEW x, NEW a \in Int
  PROVE  /\ Ones4(x, a) \in 0 .. 4 /\ Ones8(x, a) \in 0 .. 8
         /\ Ones16(x, a) \in 0 .. 16 /\ Ones32(x, a) \in 0 .. 32
<1>1. \A b \in Int : Ones4(x, b) \in 0 .. 4
  BY DEF Ones4, Bit
<1>2. \A b \in Int : Ones8(x, b) \in 0 .. 8
  BY <1>1 DEF Ones8
<1>3. \A b \in Int : Ones16(x, b) \in 0 .. 16
  BY <1>2 DEF Ones16
<1>4. Ones32(x, a) \in 0 .. 32
  BY <1>3 DEF Ones32
<1> QED
  BY <1>1, <1>2, <1>3, <1>4

\* The bytes beyond the word are 0.
LEMMA NothingBeyond ==
  ASSUME NEW x \in SUBSET WordBit, NEW a \in 64 .. 127
  PROVE  Eight(x, a) = 0
<1>1. /\ a \notin x /\ a + 1 \notin x /\ a + 2 \notin x /\ a + 2 + 1 \notin x
      /\ a + 4 \notin x /\ a + 4 + 1 \notin x /\ a + 4 + 2 \notin x /\ a + 4 + 2 + 1 \notin x
  BY DEF WordBit
<1> QED
  BY <1>1 DEF Eight, Four, Two, Bit

\* Bytes may be said to be larger.
LEMMA SmallBytes ==
  ASSUME NEW x, NEW most \in 0 .. 63, BytesUpTo(x, most)
  PROVE  BytesUpTo(x, 63)
<1> SUFFICES ASSUME NEW c \in 0 .. 127, c % 8 = 0 PROVE Eight(x, c) <= 63
  BY DEF BytesUpTo
<1>1. Eight(x, c) <= most
  BY DEF BytesUpTo
<1>2. Eight(x, c) \in 0 .. 255
  <2>1. c \in Int
    OBVIOUS
  <2> QED
    BY <2>1, GroupTypes, Zenon
<1> QED
  BY <1>1, <1>2

\* x + (x >> n) at most doubles every byte.
LEMMA BytesDouble ==
  ASSUME NEW x \in SUBSET WordBit, NEW most \in 0 .. 63,
         BytesUpTo(x, most),
         NEW n \in 0 .. 63, n % 8 = 0
  PROVE  BytesUpTo(Plus(x, ShiftRight(x, n)), 2 * most)
<1> SUFFICES ASSUME NEW c \in 0 .. 127, c % 8 = 0
             PROVE  Eight(Plus(x, ShiftRight(x, n)), c) <= 2 * most
  BY DEF BytesUpTo
<1> DEFINE s == Plus(x, ShiftRight(x, n))
<1>1. CASE c >= 64
  <2>1. c \in 64 .. 127 /\ s \in SUBSET WordBit
    BY <1>1, WordTypes
  <2>2. Eight(s, c) = 0
    BY <2>1, NothingBeyond, Zenon
  <2> QED
    BY <2>2
<1>2. CASE c < 64
  <2>1. c \in 0 .. 63 /\ c + n \in 0 .. 127 /\ (c + n) % 8 = 0 /\ c \in Int /\ c + n \in Int
    BY <1>2
  <2>2. BytesUpTo(x, 63)
    BY SmallBytes
  <2>3. Eight(s, c) = Eight(x, c) + Eight(x, c + n)
    BY <2>1, <2>2, BytesAdded
  <2>4. Eight(x, c) <= most /\ Eight(x, c + n) <= most
    BY <2>1 DEF BytesUpTo
  <2>5. Eight(x, c) \in 0 .. 255 /\ Eight(x, c + n) \in 0 .. 255
    BY <2>1, GroupTypes
  <2> HIDE DEF s
  <2>6. Eight(s, c) <= 2 * most
    BY <2>3, <2>4, <2>5
  <2> QED
    BY <2>6 DEF s
<1> QED
  BY <1>1, <1>2

\* Bit a adds itself to the ones up to it.
LEMMA OneMoreBit ==
  ASSUME NEW x \in SUBSET WordBit, NEW a \in Nat
  PROVE  /\ Cardinality(x \intersect (0 .. a)) = Cardinality(x \intersect (0 .. a - 1)) + Bit(x, a)
         /\ Cardinality(x \intersect (0 .. a - 1)) \in Nat
<1> DEFINE old == x \intersect (0 .. a - 1)
<1>1. IsFiniteSet(old)
  <2>1. IsFiniteSet(0 .. a - 1)
    BY FS_Interval
  <2> QED
    BY <2>1, FS_Subset
<1>2. Cardinality(old) \in Nat
  BY <1>1, FS_CardinalityType
<1>3. CASE a \in x
  <2>1. x \intersect (0 .. a) = old \union {a} /\ a \notin old
    BY <1>3
  <2>2. Cardinality(old \union {a}) = Cardinality(old) + 1
    BY <1>1, <2>1, FS_AddElement
  <2> QED
    BY <1>2, <1>3, <2>1, <2>2 DEF Bit
<1>4. CASE a \notin x
  <2>1. x \intersect (0 .. a) = old
    BY <1>4
  <2> QED
    BY <1>2, <1>4, <2>1 DEF Bit
<1> QED
  BY <1>2, <1>3, <1>4

\* The ones below bit a.
Upto(x, a) == Cardinality(x \intersect (0 .. a - 1))

\* One bit further.
LEMMA UptoNext ==
  ASSUME NEW x \in SUBSET WordBit, NEW a \in Nat
  PROVE  Upto(x, a + 1) = Upto(x, a) + Bit(x, a) /\ Upto(x, a) \in Nat
<1>1. 0 .. a + 1 - 1 = 0 .. a
  OBVIOUS
<1>2. Upto(x, a + 1) = Cardinality(x \intersect (0 .. a))
  BY <1>1 DEF Upto
<1> QED
  BY <1>2, OneMoreBit, Zenon DEF Upto

\* 32 bits further.
LEMMA UptoMore ==
  ASSUME NEW x \in SUBSET WordBit, NEW a \in Nat
  PROVE  Upto(x, a + 32) = Upto(x, a) + Ones32(x, a)
<1>1. ASSUME NEW b \in Nat
      PROVE  Upto(x, b + 4) = Upto(x, b) + Ones4(x, b) /\ Upto(x, b) \in Nat
  <2>1. /\ b + 1 \in Nat /\ b + 2 \in Nat /\ b + 3 \in Nat
        /\ b + 1 + 1 = b + 2 /\ b + 2 + 1 = b + 3 /\ b + 3 + 1 = b + 4
    OBVIOUS
  <2>2. /\ Upto(x, b + 1) = Upto(x, b) + Bit(x, b) /\ Upto(x, b) \in Nat
        /\ Upto(x, b + 1 + 1) = Upto(x, b + 1) + Bit(x, b + 1)
        /\ Upto(x, b + 2 + 1) = Upto(x, b + 2) + Bit(x, b + 2)
        /\ Upto(x, b + 3 + 1) = Upto(x, b + 3) + Bit(x, b + 3)
    BY <2>1, UptoNext, Zenon
  <2>3. /\ Bit(x, b) \in Nat /\ Bit(x, b + 1) \in Nat
        /\ Bit(x, b + 2) \in Nat /\ Bit(x, b + 3) \in Nat
    BY DEF Bit
  <2> QED
    BY <2>1, <2>2, <2>3 DEF Ones4
<1>2. ASSUME NEW b \in Nat
      PROVE  Upto(x, b + 8) = Upto(x, b) + Ones8(x, b) /\ Upto(x, b) \in Nat
  <2>1. b + 4 \in Nat /\ b + 4 + 4 = b + 8
    OBVIOUS
  <2>2. Ones4(x, b) \in Nat /\ Ones4(x, b + 4) \in Nat
    BY OnesTypes
  <2> QED
    BY <1>1, <2>1, <2>2 DEF Ones8
<1>3. ASSUME NEW b \in Nat
      PROVE  Upto(x, b + 16) = Upto(x, b) + Ones16(x, b) /\ Upto(x, b) \in Nat
  <2>1. b + 8 \in Nat /\ b + 8 + 8 = b + 16
    OBVIOUS
  <2>2. Ones8(x, b) \in Nat /\ Ones8(x, b + 8) \in Nat
    BY OnesTypes
  <2> QED
    BY <1>2, <2>1, <2>2 DEF Ones16
<1>4. Upto(x, a + 32) = Upto(x, a) + Ones32(x, a)
  <2>1. a + 16 \in Nat /\ a + 16 + 16 = a + 32
    OBVIOUS
  <2>2. Ones16(x, a) \in Nat /\ Ones16(x, a + 16) \in Nat
    BY OnesTypes
  <2> QED
    BY <1>3, <2>1, <2>2 DEF Ones32
<1> QED
  BY <1>4

\* The ones of a word are those of its two halves.
LEMMA OnesOfAWord ==
  ASSUME NEW x \in SUBSET WordBit
  PROVE  Cardinality(x) = Ones32(x, 0) + Ones32(x, 32)
<1>1. Upto(x, 0) = 0
  <2>1. x \intersect (0 .. 0 - 1) = {}
    OBVIOUS
  <2> QED
    BY <2>1, FS_EmptySet DEF Upto
<1>2. Upto(x, 64) = Cardinality(x)
  <2>1. x \intersect (0 .. 64 - 1) = x
    <3>1. 0 .. 64 - 1 = WordBit
      BY DEF WordBit
    <3> QED
      BY <3>1
  <2> QED
    BY <2>1 DEF Upto
<1>3. 0 \in Nat /\ 32 \in Nat
  OBVIOUS
<1>4. \A a, b \in Nat : b = a + 32 => Upto(x, b) = Upto(x, a) + Ones32(x, a)
  BY UptoMore
<1>5. Upto(x, 32) = Upto(x, 0) + Ones32(x, 0) /\ Upto(x, 64) = Upto(x, 32) + Ones32(x, 32)
  <2>1. 32 = 0 + 32 /\ 64 = 32 + 32
    OBVIOUS
  <2> QED
    BY <1>3, <1>4, <2>1, 64 \in Nat, Zenon
<1>6. Ones32(x, 0) \in Nat /\ Ones32(x, 32) \in Nat
  BY OnesTypes
<1> QED
  BY <1>1, <1>2, <1>5, <1>6

\* What & 0x7f keeps of a sum of at most 64 is the sum.
LEMMA LowNumber ==
  ASSUME NEW x \in SUBSET WordBit, Eight(x, 0) <= 64
  PROVE  Low(x) \subseteq 0 .. 6 /\ Number(Low(x)) = Eight(x, 0)
<1>1. Eight(x, 0) = Bit(x, 0) + 2 * Bit(x, 1) + 4 * (Bit(x, 2) + 2 * Bit(x, 3))
                    + 16 * (Bit(x, 4) + 2 * Bit(x, 5) + 4 * (Bit(x, 6) + 2 * Bit(x, 7)))
  BY DEF Eight, Four, Two
<1>2. /\ Bit(x, 0) \in 0 .. 1 /\ Bit(x, 1) \in 0 .. 1 /\ Bit(x, 2) \in 0 .. 1 /\ Bit(x, 3) \in 0 .. 1
      /\ Bit(x, 4) \in 0 .. 1 /\ Bit(x, 5) \in 0 .. 1 /\ Bit(x, 6) \in 0 .. 1 /\ Bit(x, 7) \in 0 .. 1
  BY DEF Bit
<1>3. Bit(x, 7) = 0
  BY <1>1, <1>2
<1>4. \A b \in 0 .. 6 : Bit(Low(x), b) = Bit(x, b)
  BY DEF Low, Bit
<1>5. Number(Low(x)) = Bit(x, 0) + 2 * Bit(x, 1) + 4 * Bit(x, 2) + 8 * Bit(x, 3)
                       + 16 * Bit(x, 4) + 32 * Bit(x, 5) + 64 * Bit(x, 6)
  BY <1>4 DEF Number
<1>6. Low(x) \subseteq 0 .. 6
  BY DEF Low
<1> QED
  BY <1>1, <1>2, <1>3, <1>5, <1>6

\* The six steps of popcount leave the number of ones in the lowest byte.
LEMMA PopcountCounts ==
  ASSUME NEW x \in SUBSET WordBit
  PROVE  Popcount(x) \subseteq 0 .. 6 /\ Number(Popcount(x)) = Cardinality(x)
<1> DEFINE twos == SumOfGroups(x, 1)
           fours == SumOfGroups(twos, 2)
           sums == Plus(fours, ShiftRight(fours, 4)) \intersect Groups(4)
           pairs == Plus(sums, ShiftRight(sums, 8))
           quads == Plus(pairs, ShiftRight(pairs, 16))
           total == Plus(quads, ShiftRight(quads, 32))
<1>1. Popcount(x) = Low(total)
  BY Zenon DEF Popcount
<1>2. /\ twos \in SUBSET WordBit /\ fours \in SUBSET WordBit /\ sums \in SUBSET WordBit
      /\ pairs \in SUBSET WordBit /\ quads \in SUBSET WordBit /\ total \in SUBSET WordBit
  BY WordTypes DEF SumOfGroups
<1>3. ASSUME NEW c \in 0 .. 63, c % 4 = 0
      PROVE  Four(fours, c) = Ones4(x, c) /\ Four(fours, c) <= 4
  <2>1. c + 2 \in 0 .. 63 /\ c % 2 = 0 /\ (c + 2) % 2 = 0 /\ c + 2 + 1 = c + 3
    BY <1>3
  <2> HIDE DEF twos
  <2>2. Four(fours, c) = Two(twos, c) + Two(twos, c + 2)
    BY <1>2, <1>3, FoursCounted
  <2> USE DEF twos
  <2>3. Two(twos, c) = Bit(x, c) + Bit(x, c + 1)
    BY <2>1, PairsCounted
  <2>4. Two(twos, c + 2) = Bit(x, c + 2) + Bit(x, c + 3)
    <3>1. Two(twos, c + 2) = Bit(x, c + 2) + Bit(x, c + 2 + 1)
      BY <2>1, PairsCounted, Zenon
    <3> QED
      BY <2>1, <3>1
  <2> HIDE DEF twos, fours
  <2>5. Ones4(x, c) \in 0 .. 4
    BY OnesTypes
  <2> QED
    BY <2>2, <2>3, <2>4, <2>5 DEF Ones4
<1> HIDE DEF twos, fours
<1>4. ASSUME NEW c \in 0 .. 63, c % 8 = 0
      PROVE  Eight(sums, c) = Ones8(x, c)
  <2>1. c % 4 = 0 /\ c + 4 \in 0 .. 63 /\ (c + 4) % 4 = 0
    BY <1>4
  <2>2. Eight(sums, c) = Four(fours, c) + Four(fours, c + 4)
    BY <1>2, <1>3, <1>4, BytesCounted
  <2> QED
    BY <1>3, <2>1, <2>2 DEF Ones8
<1> HIDE DEF sums
<1>5. BytesUpTo(sums, 8)
  <2> SUFFICES ASSUME NEW c \in 0 .. 127, c % 8 = 0 PROVE Eight(sums, c) <= 8
    BY DEF BytesUpTo
  <2>1. CASE c < 64
    <3>1. Ones8(x, c) \in 0 .. 8
      BY OnesTypes
    <3> QED
      BY <1>4, <2>1, <3>1
  <2>2. CASE c >= 64
    BY <1>2, <2>2, NothingBeyond
  <2> QED
    BY <2>1, <2>2
<1>6. ASSUME NEW c \in 0 .. 55, c % 8 = 0
      PROVE  Eight(pairs, c) = Ones16(x, c)
  <2>1. 8 \in 0 .. 63 /\ 8 % 8 = 0 /\ c \in 0 .. 63 /\ c + 8 \in 0 .. 63 /\ (c + 8) % 8 = 0
    BY <1>6
  <2>2. Eight(pairs, c) = Eight(sums, c) + Eight(sums, c + 8)
    BY <1>2, <1>5, <1>6, <2>1, SmallBytes, BytesAdded
  <2> QED
    BY <1>4, <1>6, <2>1, <2>2 DEF Ones16
<1>7. BytesUpTo(pairs, 16)
  <2>1. 8 \in 0 .. 63 /\ 8 % 8 = 0 /\ 2 * 8 = 16
    OBVIOUS
  <2> QED
    BY <1>2, <1>5, <2>1, BytesDouble
<1> HIDE DEF pairs
<1>8. ASSUME NEW c \in 0 .. 39, c % 8 = 0
      PROVE  Eight(quads, c) = Ones32(x, c)
  <2>1. /\ 16 \in 0 .. 63 /\ 16 % 8 = 0 /\ c \in 0 .. 63 /\ c \in 0 .. 55
        /\ c + 16 \in 0 .. 55 /\ (c + 16) % 8 = 0
    BY <1>8
  <2>2. Eight(quads, c) = Eight(pairs, c) + Eight(pairs, c + 16)
    BY <1>2, <1>7, <1>8, <2>1, SmallBytes, BytesAdded
  <2> QED
    BY <1>6, <1>8, <2>1, <2>2 DEF Ones32
<1>9. BytesUpTo(quads, 32)
  <2>1. 16 \in 0 .. 63 /\ 16 % 8 = 0 /\ 2 * 16 = 32
    OBVIOUS
  <2> QED
    BY <1>2, <1>7, <2>1, BytesDouble
<1> HIDE DEF quads
<1>10. Eight(total, 0) = Ones32(x, 0) + Ones32(x, 32)
  <2>1. /\ 32 \in 0 .. 63 /\ 32 % 8 = 0 /\ 0 \in 0 .. 63 /\ 0 % 8 = 0 /\ 0 + 32 = 32
        /\ 0 \in 0 .. 39 /\ 32 \in 0 .. 39
    OBVIOUS
  <2>2. Eight(total, 0) = Eight(quads, 0) + Eight(quads, 0 + 32)
    BY <1>2, <1>9, <2>1, SmallBytes, BytesAdded
  <2> QED
    BY <1>8, <2>1, <2>2
<1> HIDE DEF total
<1>11. Eight(total, 0) = Cardinality(x)
  BY <1>10, OnesOfAWord
<1>12. Eight(total, 0) <= 64
  BY <1>10, OnesTypes
<1> QED
  BY <1>1, <1>2, <1>11, <1>12, LowNumber

\* Only popcount gives an answer.
LEMMA AnswersStep ==
  ASSUME PopcountIsCardinality, [Next]_vars
  PROVE  PopcountIsCardinality'
<1>1. ASSUME NEW x \in Words, popcount(x) PROVE PopcountIsCardinality'
  <2>1. x \in SUBSET WordBit
    BY BitAssumption DEF WordBit
  <2>2. counted' = {[word |-> x, result |-> Popcount(x)]}
    BY <1>1 DEF popcount
  <2>3. Popcount(x) \subseteq 0 .. 6 /\ Number(Popcount(x)) = Cardinality(x)
    BY <2>1, PopcountCounts
  <2> QED
    BY <2>2, <2>3 DEF PopcountIsCardinality
<1>2. CASE counted' = {}
  BY <1>2 DEF PopcountIsCardinality
<1>3. CASE UNCHANGED counted
  BY <1>3 DEF PopcountIsCardinality
<1>4. CASE CopyByte \/ ReadWholeBytes \/ FillBuffer \/ Return
  BY <1>2, <1>3, <1>4 DEF CopyByte, ReadWholeBytes, FillBuffer, Return
<1>5. ASSUME NEW c, NEW d, Call(c, d) PROVE PopcountIsCardinality'
  BY <1>3, <1>5 DEF Call
<1> QED
  BY <1>1, <1>3, <1>4, <1>5 DEF Next, vars

------------------------------------------------------------------------------
(* The theorems.                                                           *)

\* Nothing is copied yet.
LEMMA InitIInv == Init => IInv
<1> SUFFICES ASSUME Init PROVE IInv
  OBVIOUS
<1>1. TypeOK
  BY DEF Init, TypeOK, Array, NoCall
<1>2. Progress /\ EnoughRead /\ OneByteToSpare /\ AbortsOnShortStream /\ CopyExact
  BY DEF Init, Progress, EnoughRead, OneByteToSpare, AbortsOnShortStream, CopyExact,
         Reads, Running, NoCall
<1> QED
  BY <1>1, <1>2 DEF IInv

\* Each part of IInv is kept, with the help of those before it.
LEMMA NextIInv == IInv /\ [Next]_vars => IInv'
BY NextKeepsType, NextKeepsProgress, CopiesStep, SpareStep, AbortsStep DEF IInv

\* The invariant holds in every reachable state.
LEMMA Invariance == Spec => []IInv
BY InitIInv, NextIInv, PTL DEF Spec

\* The range of a call and its byte to spare lie in the destination, and the
\* copied bits never run ahead of those in memory.
THEOREM TypeCorrect == Spec => []TypeOK
BY Invariance, PTL DEF IInv

\* copyBits and readBits write the bits of the source and keep all others, but
\* for the strays of a signed char: for every byte width, offset, length,
\* operation and buffer, and after every byte copied (BitUtil.h:79-112).
THEOREM CopiesExactly == Spec => []CopyExact
BY Invariance, PTL DEF IInv

\* A call touches the bytes of its range and one to spare, when the copy ends on
\* a byte boundary; the aligned readBits touches none (BitUtil.h:81, 89).
THEOREM TouchesItsRange == Spec => []OneByteToSpare
BY Invariance, PTL DEF IInv

\* readBits aborts on every stream that is too short and on no other (BitUtil.h:
\* 139, 143, 154).
THEOREM AbortsExactly == Spec => []AbortsOnShortStream
BY Invariance, PTL DEF IInv

\* Every number popcount returned is the number of ones of the word it was
\* given.
THEOREM AnswersAreRight == Spec => []PopcountIsCardinality
<1>1. Init => PopcountIsCardinality
  BY DEF Init, PopcountIsCardinality
<1> QED
  BY <1>1, AnswersStep, PTL DEF Spec

\* Bits still to be read, plus bits still to be copied.
Remaining == (call.bits - filled) + (call.bits - i)

\* What is copied is in memory, and what is in memory is of the call.
WithinCall ==
  Running => /\ i \in Nat /\ filled \in Nat /\ call.bits \in Nat
             /\ i <= filled /\ filled <= call.bits

\* A round copies a byte, fills the buffer with at least one bit, or ends the
\* call: a call of n bits takes at most 2n rounds (BitUtil.h:79, 139, 150).
THEOREM RoundsProgress ==
  Spec => [][Running => Remaining' \in 0 .. Remaining - 1 \/ ~Running']_vars
<1>1. IInv => WithinCall
  BY CallFacts, RunningIsNotNoCall DEF IInv, WithinCall
<1>2. ASSUME IInv, WithinCall, WithinCall', Running, Next
      PROVE  Remaining' \in 0 .. Remaining - 1 \/ ~Running'
  <2> SUFFICES ASSUME Running' PROVE Remaining' \in 0 .. Remaining - 1
    OBVIOUS
  <2>1. /\ i \in Nat /\ filled \in Nat /\ call.bits \in Nat
        /\ i <= filled /\ filled <= call.bits /\ ByteBits \in Nat /\ ByteBits >= 1
    BY <1>2, BytePositive DEF WithinCall
  <2>2. /\ i' \in Nat /\ filled' \in Nat /\ call'.bits \in Nat
        /\ i' <= filled' /\ filled' <= call'.bits
    BY <1>2 DEF WithinCall
  <2>3. CASE CopyByte
    <3>1. call' = call /\ filled' = filled /\ i' > i
      BY <2>1, <2>3 DEF CopyByte
    <3> QED
      BY <2>1, <2>2, <3>1 DEF Remaining
  <2>4. CASE ReadWholeBytes
    <3>1. /\ Reads /\ Aligned /\ i = 0 /\ FullBytes \in Nat \ {0}
          /\ filled' = ByteBits * Got /\ i' = ByteBits * Got
          /\ Got = FullBytes /\ UNCHANGED call
      BY <1>2, <2>4, ReadWholeBytesIs, WholeBytesFacts, AbortIs DEF IInv
    <3>2. filled < ByteBits /\ ByteBits <= ByteBits * FullBytes
      BY <1>2, <2>1, <3>1 DEF IInv, Progress
    <3> QED
      BY <2>1, <2>2, <3>1, <3>2 DEF Remaining
  <2>5. CASE FillBuffer
    <3>1. /\ Reads /\ i = filled /\ i < call.bits /\ i' = i
          /\ filled' = i + BitsRead(Wanted) /\ UNCHANGED call
      BY <1>2, <2>5, FillBufferIs, AbortIs DEF IInv
    <3>2. BitsRead(Wanted) \in Nat \ {0}
      BY <1>2, <3>1, FillFacts DEF IInv
    <3> QED
      BY <2>1, <2>2, <3>1, <3>2 DEF Remaining
  <2>6. ~Return /\ ~Idle
    BY <1>2 DEF Return, Idle, Running, NoCall
  <2> QED
    BY <1>2, <2>3, <2>4, <2>5, <2>6 DEF Next
<1> QED
  BY <1>1, <1>2, Invariance, PTL DEF Spec
==============================================================================
