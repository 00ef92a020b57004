------------------------------- MODULE BitUtil -------------------------------
(***************************************************************************)
(* BitUtil.h: copyBits, readBits and popcount.                             *)
(*                                                                         *)
(* A byte is the set of its bits that are 1, numbered from the most        *)
(* significant one, as copyBits counts them; its 8 bits are scaled to      *)
(* ByteBits.  copyBits handles one source byte per step; readBits fills a  *)
(* buffer from a stream and copies it, or copies whole bytes at once.      *)
(*                                                                         *)
(* "before" and "touched" are history variables: the destination when the  *)
(* call began, and the bytes of it the call has read or written.           *)
(***************************************************************************)
EXTENDS Integers, FiniteSets

CONSTANTS ByteBits,    \* 8
          CharSigned,  \* char is signed, as on x86
          BufferBytes, \* IO_BUFFER_SIZE
          MaxBits,     \* bound: bits of a call
          MaxOffset,   \* bound: bit offset of a call
          Words        \* arguments of popcount, as sets of bits 0 .. 63

ASSUME BitAssumption == /\ {ByteBits, BufferBytes} \subseteq Nat \ {0}
                        /\ CharSigned \in BOOLEAN
                        /\ {MaxBits, MaxOffset} \subseteq Nat
                        /\ Words \subseteq SUBSET (0 .. 63)

VARIABLES call,     \* the running call, or NoCall
          dest, i,  \* the byte array; source bits copied so far
          filled,   \* source bits that are in memory
          before, touched,
          counted   \* {}, or the answer of popcount

vars == <<call, dest, i, filled, before, touched, counted>>

Ops == {"OVERWRITE", "OR", "AND"}
Byte == 0 .. ByteBits - 1
BytesFor(bits) == (bits + ByteBits - 1) \div ByteBits
SourceBit == 0 .. MaxBits - 1
Index == 0 .. BytesFor(MaxOffset + MaxBits)   \* a byte to spare, see OneByteToSpare
Array == [Index -> SUBSET Byte]

\* The bytes of the source stream, or Memory for a copyBits of an array.
Memory == -1
NoCall == [src |-> {}, bits |-> 0, offset |-> 0, op |-> "OR", stream |-> Memory,
           state |-> "none"]
Running == call.state = "running"
Idle == call = NoCall /\ counted = {}
Shift == call.offset % ByteBits

Init == /\ call = NoCall
        /\ dest = [at \in Index |-> {}] /\ before = dest
        /\ i = 0 /\ filled = 0 /\ touched = {}
        /\ counted = {}

Call(c, d) == /\ call' = c
              /\ dest' = d /\ before' = d
              /\ filled' = IF c.stream = Memory THEN c.bits ELSE 0
              /\ UNCHANGED <<i, touched, counted>>

------------------------------------------------------------------------------
(* copyBits: one byte of the source, shifted, lands in two of dest.        *)

Not(b) == Byte \ b
Right(b, n) == {o + n : o \in b} \intersect Byte   \* of an unsigned char
Left(b, n) == {o - n : o \in b} \intersect Byte

\* "char >> n" repeats the sign.
RightChar(b, n) ==
  Right(b, n) \union IF CharSigned /\ 0 \in b THEN 0 .. n - 1 ELSE {}

CarryMask(mask) == Left(mask, ByteBits - Shift)

\* faulty: AND clears the bits around the copied ones
Combine_AndClears(op, d, mask, b) ==
  IF op = "AND" THEN d \intersect b
  ELSE (IF op = "OR" THEN d ELSE d \ mask) \union b

Combine(op, d, mask, b) ==
  IF op = "AND" THEN d \intersect (b \union Not(mask))
  ELSE (IF op = "OR" THEN d ELSE d \ mask) \union b

\* faulty: without the test of lastCarryMask
TouchesNext_Always(n, carry) == TRUE

TouchesNext(n, carry) == n = ByteBits \/ carry # {}

CopyByte == LET n == IF filled - i < ByteBits THEN filled - i ELSE ByteBits
                mask == 0 .. n - 1        \* lastByteMask; a full byte has all
                b == {o \in mask : i + o \in call.src}
                at == call.offset \div ByteBits + i \div ByteBits
                carry == CarryMask(mask)
  IN  /\ Running
      /\ i < filled
      /\ dest' = [dest EXCEPT
           ![at] = Combine(call.op, @, Right(mask, Shift), RightChar(b, Shift)),
           ![at + 1] = Combine(call.op, @, carry, Left(b, ByteBits - Shift))]
      /\ touched' = touched \union {at} \union
                      IF TouchesNext(n, carry) THEN {at + 1} ELSE {}
      /\ i' = i + n
      /\ UNCHANGED <<call, filled, before, counted>>

------------------------------------------------------------------------------
(* readBits: assert(in) ends the program when the stream is short.         *)

Reads == Running /\ call.stream # Memory
Aligned == call.op = "OVERWRITE" /\ Shift = 0

Abort == call' = [call EXCEPT !.state = "aborted"]

\* in.read(dest + byteOffset, fullBytes)
ReadWholeBytes ==
  LET fullBytes == call.bits \div ByteBits
      got == IF call.stream < fullBytes THEN call.stream ELSE fullBytes
      first == call.offset \div ByteBits
      filledBytes == first .. first + got - 1
  IN  /\ Reads /\ Aligned
      /\ i = 0 /\ fullBytes > 0
      /\ dest' = [at \in Index |->
                    IF at \in filledBytes
                    THEN {o \in Byte : (at - first) * ByteBits + o \in call.src}
                    ELSE dest[at]]
      /\ touched' = filledBytes
      /\ i' = ByteBits * got /\ filled' = i'
      /\ IF got = fullBytes THEN UNCHANGED call ELSE Abort
      /\ UNCHANGED <<before, counted>>

\* faulty: a last round of less than a byte reads nothing
BitsRead_WholeBytes(wanted) ==
  LET most == ByteBits * BufferBytes
  IN  IF wanted < most THEN wanted - (wanted % ByteBits) ELSE most

\* faulty: always a full buffer
BitsRead_FullBuffer(wanted) == ByteBits * BufferBytes

BitsRead(wanted) ==
  LET most == ByteBits * BufferBytes IN IF wanted < most THEN wanted ELSE most

\* faulty: the last, partial byte is not read from the stream
BytesRead_RoundsDown(bitsRead) == bitsRead \div ByteBits

BytesRead(bitsRead) == BytesFor(bitsRead)

FillBuffer ==
  LET bitsRead == BitsRead(call.bits - i)
  IN  /\ Reads
      /\ Aligned => call.bits - i < ByteBits     \* lastByte
      /\ i = filled /\ i < call.bits
      /\ IF i \div ByteBits + BytesRead(bitsRead) <= call.stream
         THEN filled' = i + bitsRead /\ UNCHANGED call
         ELSE Abort /\ UNCHANGED filled
      /\ UNCHANGED <<dest, i, before, touched, counted>>

\* The caller goes on, or after an abort a new program starts.
Return == /\ \/ Running /\ i = call.bits
             \/ call.state = "aborted"
             \/ counted # {}
          /\ call' = NoCall
          /\ dest' = [at \in Index |-> {}] /\ before' = dest'
          /\ i' = 0 /\ filled' = 0 /\ touched' = {}
          /\ counted' = {}

------------------------------------------------------------------------------
(* popcount without the POPCNT instruction, on words of 64 bits.           *)

WordBit == 0 .. 63
ShiftRight(x, n) == {b - n : b \in {c \in x : c >= n}}
Groups(n) == {b \in WordBit : (b \div n) % 2 = 0}   \* 0x5555.., 0x3333.., 0x0f0f..

\* A carry into b starts where both have a 1 and runs through ones of either.
Plus(x, y) ==
  LET carry(b) == \E g \in x \intersect y : g < b /\ (g + 1 .. b - 1) \subseteq x \union y
  IN  {b \in WordBit : ((b \in x) # (b \in y)) # carry(b)}

SumOfGroups(x, n) ==
  Plus(x \intersect Groups(n), ShiftRight(x, n) \intersect Groups(n))

\* faulty: a mask of six bits
Low_SixBits(x) == x \intersect 0 .. 5

Low(x) == x \intersect 0 .. 6       \* x & 0x7F

Popcount(x) ==
  LET bytes == SumOfGroups(SumOfGroups(x, 1), 2)
      sums == Plus(bytes, ShiftRight(bytes, 4)) \intersect Groups(4)
      pairs == Plus(sums, ShiftRight(sums, 8))
      quads == Plus(pairs, ShiftRight(pairs, 16))
  IN  Low(Plus(quads, ShiftRight(quads, 32)))

popcount(x) == /\ counted' = {[word |-> x, result |-> Popcount(x)]}
               /\ UNCHANGED <<call, dest, i, filled, before, touched>>

Calls(state) == [src: SUBSET SourceBit, bits: 0 .. MaxBits, offset: 0 .. MaxOffset,
                 op: Ops, stream: -1 .. BytesFor(MaxBits), state: state]

Next == \/ Idle /\ \/ \E c \in Calls({"running"}), d \in {{}, Byte} :
                         Call(c, [at \in Index |-> d])
                   \/ \E x \in Words : popcount(x)
        \/ CopyByte \/ ReadWholeBytes \/ FillBuffer \/ Return

Spec == Init /\ [][Next]_vars
             /\ WF_vars(CopyByte \/ ReadWholeBytes \/ FillBuffer \/ Return)
------------------------------------------------------------------------------

TypeOK == /\ call \in Calls({"running", "aborted"}) \/ call = NoCall
          /\ dest \in Array /\ before \in Array
          /\ {i, filled} \subseteq 0 .. call.bits /\ i <= filled
          /\ touched \subseteq Index
          /\ counted \subseteq [word: Words, result: SUBSET WordBit]

Flat(array) == UNION {{ByteBits * at + o : o \in array[at]} : at \in Index}

(* After every byte, at every offset and across byte and buffer boundaries,*)
(* the destination is what the operation makes of the source bits copied   *)
(* so far, and each bit outside them is as before, except that a source    *)
(* byte whose first bit is 1 also sets the Shift bits before its place     *)
(* (BitUtil.h:88 and 104 shift a signed char), unless the operation is AND.*)
CopyExact ==
  LET copied == call.src \intersect 0 .. i - 1
      window == call.offset .. call.offset + i - 1
      placed == {call.offset + k : k \in copied}
      repeated == {k \in copied : CharSigned /\ k % ByteBits = 0}
      strays == {call.offset + k - s : k \in repeated, s \in 1 .. Shift}
      old == Flat(before)
  IN  Running => Flat(dest) =
        CASE call.op = "OVERWRITE" -> (old \ window) \union placed \union strays
          [] call.op = "OR" -> old \union placed \union strays
          [] call.op = "AND" -> old \ (window \ placed)

(* A call reads and writes the bytes of its range only; a copy that starts *)
(* and ends on a byte boundary also touches one byte after it (BitUtil.h:  *)
(* 81 and 89 always use dest[i + 1]), which its caller has to own.  The    *)
(* aligned readBits does not.                                              *)
OneByteToSpare ==
  LET end == call.offset + i
      range == call.offset \div ByteBits .. (end - 1) \div ByteBits
      spare == /\ Shift = 0 /\ end % ByteBits = 0
               /\ ~(Reads /\ Aligned)
  IN  Running /\ i > 0 =>
        touched = IF spare THEN range \union {end \div ByteBits} ELSE range

(* readBits needs the bytes that hold its bits and not one more: it aborts *)
(* on every shorter stream and on no other, however many rounds of the     *)
(* buffer it takes (BitUtil.h:139, 143, 154).                              *)
AbortsOnShortStream ==
  LET enough == call.stream = Memory \/ call.stream >= BytesFor(call.bits)
  IN  /\ call.state = "aborted" => ~enough
      /\ Running /\ i = call.bits => enough

\* The number a result stands for.
Bit(x, b) == IF b \in x THEN 1 ELSE 0
Number(x) == Bit(x, 0) + 2 * Bit(x, 1) + 4 * Bit(x, 2) + 8 * Bit(x, 3)
               + 16 * Bit(x, 4) + 32 * Bit(x, 5) + 64 * Bit(x, 6)

(* popcount adds neighbouring groups of bits in place: no group overflows, *)
(* and the 7 bits it keeps hold every answer, 64 included (BitUtil.h:55).  *)
PopcountIsCardinality ==
  \A answer \in counted : /\ answer.result \subseteq 0 .. 6
                          /\ Number(answer.result) = Cardinality(answer.word)

(* Every copy ends, whatever the lengths of range, buffer and stream: each *)
(* round of the loop of readBits (BitUtil.h:150) makes progress.           *)
CopyReturns == Running ~> ~Running
==============================================================================
