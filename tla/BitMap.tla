-------------------------------- MODULE BitMap --------------------------------
(***************************************************************************)
(* bitmap.h: BitMaps of up to Width bits, each in one word.  A word is the *)
(* set of its bit positions that are 1: "|", "&", "^" and "~" are union,   *)
(* intersection, symmetric difference and complement, _maskbit(pos) is     *)
(* {pos}.  The bits of a word at and above the length of its map are its   *)
(* padding.  A bit reference is used where it is made, as map[i] is in     *)
(* "a[i] = b[j]"; positions are below the length, as the header asks.      *)
(***************************************************************************)
EXTENDS Integers

CONSTANTS Obj,     \* the BitMaps of a program
          Width    \* bits of a word: 64

ASSUME WidthAssumption == Width \in Nat \ {0}

VARIABLES map,     \* per BitMap: its length and its word
          answer   \* what the last call returned

vars == <<map, answer>>

Void == -1
Word == 0 .. Width - 1
Length == 0 .. Width
NewMap == [len: Length, data: SUBSET Word]

Below(n) == 0 .. n - 1
Xor(a, b) == (a \ b) \union (b \ a)

Init == /\ map \in [Obj -> [len: Length, data: {{}}]]   \* BitMap(len)
        /\ answer = Void

Answers(a) == answer' = a /\ UNCHANGED map

BecomesWord(o, d) == /\ map' = [map EXCEPT ![o].data = d]
                     /\ answer' = Void

Becomes(o, m) == map' = [map EXCEPT ![o] = m] /\ answer' = Void

------------------------------------------------------------------------------
(* Whole maps.                                                             *)

\* The value is taken as it is, wider than the length or not.
construct(o, len, value) == Becomes(o, [len |-> len, data |-> value])

copy(o, from) == Becomes(o, map[from])

flip_all(o) == BecomesWord(o, Word \ map[o].data)

\* (1ull << len) - 1ull.  A shift by 64 is undefined: what x86-64 computes takes
\* the count modulo the width of the word.
LowOnes(len) == Below(len % Width)

\* faulty: a mask of len + 1 bits
AllOnes_OneMore(len) == 0 .. len

\* faulty: no case of its own for a full word
AllOnes_NoFullCase(len) == LowOnes(len)

AllOnes(len) == IF len = Width THEN Word ELSE LowOnes(len)

set_all(o) == BecomesWord(o, AllOnes(map[o].len))

reset_all(o) == BecomesWord(o, {})

\* faulty: the lowest bit counts as position 1, as ffs(3) has it
FirstBit_FromOne(m) ==
  IF m.data = {} THEN m.len
  ELSE (CHOOSE i \in m.data : \A j \in m.data : i <= j) + 1

FirstBit(m) == IF m.data = {} THEN m.len
               ELSE CHOOSE i \in m.data : \A j \in m.data : i <= j

ffs(o) == Answers(FirstBit(map[o]))

------------------------------------------------------------------------------
(* Single bits, by position or through operator[].                         *)

set(o, pos, value) ==
  /\ pos < map[o].len
  /\ BecomesWord(o, IF value THEN map[o].data \union {pos} ELSE map[o].data \ {pos})

reset(o, pos) == set(o, pos, FALSE)

flip(o, pos) == /\ pos < map[o].len
                /\ BecomesWord(o, Xor(map[o].data, {pos}))

test(o, pos) == /\ pos < map[o].len
                /\ Answers(IF pos \in map[o].data THEN 1 ELSE 0)

\* o[pos] = from[at]: the source word is tested at the target's position.
assign_reference(o, pos, from, at) ==
  /\ pos < map[o].len /\ at < map[from].len
  /\ BecomesWord(o, IF pos \in map[from].data THEN map[o].data \union {pos}
                                              ELSE map[o].data \ {pos})

------------------------------------------------------------------------------
(* Two maps.                                                               *)

Binary == {"^", "&", "|"}

WordOp(op, a, b) == CASE op = "^" -> Xor(a, b)
                      [] op = "&" -> a \intersect b
                      [] op = "|" -> a \union b

\* "to" may be one of the operands, as it is in to ^= q.
combine(to, op, p, q) ==
  Becomes(to, [len |-> map[p].len, data |-> WordOp(op, map[p].data, map[q].data)])

combine_assign(o, op, other) ==
  BecomesWord(o, WordOp(op, map[o].data, map[other].data))

Same(m, n) == m.len = n.len /\ m.data = n.data

equal(o, p) == Answers(IF Same(map[o], map[p]) THEN 1 ELSE 0)

Next == \E o \in Obj :
          \/ \E len \in Length, value \in SUBSET Word : construct(o, len, value)
          \/ flip_all(o) \/ set_all(o) \/ reset_all(o) \/ ffs(o)
          \/ \E pos \in Word : \/ reset(o, pos) \/ flip(o, pos) \/ test(o, pos)
                               \/ \E value \in BOOLEAN : set(o, pos, value)
          \/ \E from \in Obj, pos, at \in Word : assign_reference(o, pos, from, at)
          \/ \E p, q \in Obj, op \in Binary : combine(o, op, p, q)
          \/ \E other \in Obj, op \in Binary : combine_assign(o, op, other)
          \/ \E p \in Obj : copy(o, p) \/ equal(o, p)

Spec == Init /\ [][Next]_vars

------------------------------------------------------------------------------
(* Properties.                                                             *)

\* Types: no operation sets a bit beyond the word.
TypeOK == map \in [Obj -> NewMap] /\ answer \in {Void} \union (0 .. Width)

Bits(m) == m.data \intersect Below(m.len)
Padding(m) == m.data \ Below(m.len)

\* Seen below its length, a BitMap is the set of positions Bitset describes,
\* whatever its padding holds.
View == INSTANCE Bitset WITH size <- [o \in Obj |-> map[o].len],
                             bits <- [o \in Obj |-> Bits(map[o])]

ImplementsBitset == View!Spec

\* A call on o is, below the length, the operation of Bitset it is named for; "=="
\* and ffs are exact but where the padding comes in.
BitsetCall(o) ==
  /\ set_all(o) => View!Fill(o)
  /\ reset_all(o) => View!Clear(o)
  /\ flip_all(o) => View!Invert(o)
  /\ ffs(o) => IF Padding(map[o]) = {} THEN View!FirstExactly(o) ELSE View!First(o)
  /\ \A pos \in Word : /\ reset(o, pos) => View!Put(o, pos, FALSE)
                       /\ flip(o, pos) => View!Toggle(o, pos)
                       /\ test(o, pos) => View!Test(o, pos)
                       /\ \A x \in BOOLEAN : set(o, pos, x) => View!Put(o, pos, x)
  /\ \A p \in Obj :
       /\ copy(o, p) => View!Copy(o, p)
       /\ equal(o, p) => IF Padding(map[o]) = Padding(map[p])
                         THEN View!EqualExactly(o, p) ELSE View!Equal(o, p)
  /\ \A op \in Binary, p \in Obj :
       /\ combine_assign(o, op, p) => View!Combine(o, op, o, p)
       /\ \A q \in Obj : combine(o, op, p, q) => View!Combine(o, op, p, q)

\* Every call is the operation of std::bitset it is named for, at every length:
\* set() sets all the bits of a full word too (bitmap.h:56), "==" misses an equality
\* only of maps that differ above their length (bitmap.h:207).
EachCallIsItsBitsetCall == [][\A o \in Obj : BitsetCall(o)]_vars

\* Assigning a bit reference assigns the bit (bitmap.h:166).
ReferenceAssignsBit ==
  [][\A o, from \in Obj, pos, at \in Word : assign_reference(o, pos, from, at)
        => (pos \in map'[o].data <=> at \in map[from].data)]_vars
==============================================================================
