-------------------------- MODULE BloomFilterProofs --------------------------
(***************************************************************************)
(* The safety properties of class BloomFilter, for every number of objects *)
(* and blocks, every set of keys, hash function, seed and word size.       *)
(*                                                                         *)
(* The calls fall into six kinds of step: one that changes no filter, one  *)
(* that gives an object a new value, one that spoils it, one that destroys *)
(* it, and two that give the program a byte array and take it away.  What  *)
(* is proved of the calls is proved of the kinds.                          *)
(***************************************************************************)
EXTENDS BloomFilter, BloomStructProofs, FiniteSetTheorems

USE DEF BlockType, StructOf

------------------------------------------------------------------------------
(* The inductive invariant.                                                *)

FilterArgs == [entries: Entries, error: Error \intersect ValidError,
               seed: (Seed \ {0}) \union {DefaultSeed}]

\* Struct b with keys ks is a filter in heap h: sized by the arguments it was
\* built with, in a live block that is long enough, which has its keys' bits.
Sound(b, h, ks) ==
  /\ b \in StructOf(Block \union {NULL})
  /\ b.ready = 1 /\ b.bf \in Block
  /\ SizedByArgs(b) /\ ArgsOf(b) \in FilterArgs
  /\ h[b.bf].live /\ b.bytes <= h[b.bf].size
  /\ b.bits # 0 => \A k \in ks : Probes(b, k) \subseteq h[b.bf].ones

BitsInBlocks == \A p \in Block : heap[p].ones \subseteq 0 .. 8 * heap[p].size - 1

FiltersInv == \A o \in alive \ spoiled : Sound(obj[o], heap, keys[o])

\* Who points to what: objects that may be used have a block of their own, all
\* others have none, and the byte array is nobody's bit array.
OwnInv ==
  /\ \A o \in Obj : o \notin alive \ spoiled => obj[o].bf = NULL
  /\ \A o \in Obj : obj[o].bf \in Block =>
       /\ raw.bf # obj[o].bf
       /\ \A u \in Obj : obj[u].bf = obj[o].bf => u = o

\* The byte array the program carries has, if it came from a filter, the bits of
\* the keys that filter had.
RawInv ==
  /\ raw.bf = NULL => raw = NoRaw
  /\ raw.bf # NULL => heap[raw.bf].live /\ heap[raw.bf].size = raw.len
  /\ raw.args = NoArgs => raw.keys = {}
  /\ raw.args # NoArgs => /\ raw.bf # NULL
                          /\ raw.args \in FilterArgs
                          /\ RawFilter.bits # 0
                          /\ \A k \in raw.keys :
                               Probes(RawFilter, k) \subseteq heap[raw.bf].ones

IInv == TypeOK /\ FiltersInv /\ OwnInv /\ RawInv

\* malloc never hands out the null pointer.
LEMMA NullIsNoBlock == NULL \notin Block
BY ArgsAssumption

\* A zeroed struct has the type of a struct.
LEMMA ClearedType == Cleared \in StructOf(Block \union {NULL})
BY HashAssumption DEF Cleared, HashWord

\* No object exists and no block is live.
LEMMA InitIInv == Init => IInv
<1> SUFFICES ASSUME Init PROVE IInv
  OBVIOUS
<1>1. obj \in [Obj -> StructOf(Block \union {NULL})]
  BY ClearedType DEF Init
<1>2. heap \in [Block -> BlockType] /\ BitsInBlocks
  BY DEF Init, NoBlock, BitsInBlocks
<1>3. raw \in [bf: Block \union {NULL}, len: Nat, args: ArgsType, keys: SUBSET Key]
  BY HashAssumption DEF Init, NoRaw, NoArgs, ArgsType, HashWord
<1>4. TypeOK
  BY <1>1, <1>2, <1>3 DEF Init, TypeOK, Void, BitsInBlocks
<1>5. OwnInv
  BY NullIsNoBlock DEF Init, OwnInv, Cleared
<1> QED
  BY <1>4, <1>5 DEF Init, IInv, FiltersInv, RawInv, NoRaw

------------------------------------------------------------------------------
(* The kinds of step.                                                      *)

\* The filters, the byte array and the heap stay; a call that looked something
\* up, or that threw before it changed anything.
Quiet == /\ UNCHANGED <<alive, obj, heap, raw, keys, spoiled>>
         /\ result' \in {0, 1, Throws}

\* Object o becomes the filter b with keys ks.  Its block is the one it had, a
\* free one, or the byte array, which is then no longer the program's; the
\* block it had before, if another, is given back; no other block changes.
NewValue(o, b, ks) ==
  /\ Becomes(o, b, ks)
  /\ ks \subseteq Key
  /\ Sound(b, heap', ks)
  /\ heap' \in [Block -> BlockType]
  /\ heap'[b.bf].ones \subseteq 0 .. 8 * heap'[b.bf].size - 1
  /\ \A q \in Block : q # b.bf =>
       heap'[q] = IF q = obj[o].bf THEN NoBlock ELSE heap[q]
  /\ \/ raw' = raw /\ (b.bf = obj[o].bf \/ ~heap[b.bf].live)
     \/ raw' = NoRaw /\ b.bf = raw.bf /\ obj[o].bf = NULL

\* An assignment to o threw half way through.
Spoils(o) == /\ o \in alive
             /\ obj' = [obj EXCEPT ![o] = obj'[o]]
             /\ obj'[o] \in StructOf(Block \union {NULL}) /\ obj'[o].bf = NULL
             /\ spoiled' = spoiled \union {o}
             /\ keys' = [keys EXCEPT ![o] = {}]
             /\ result' = Throws
             /\ UNCHANGED <<alive, heap, raw>>

Destroys(o) == /\ o \in alive
               /\ alive' = alive \ {o}
               /\ spoiled' = spoiled \ {o}
               /\ obj' = [obj EXCEPT ![o] = Cleared]
               /\ keys' = [keys EXCEPT ![o] = {}]
               /\ heap' = IF obj[o].bf \in Block
                          THEN [heap EXCEPT ![obj[o].bf] = NoBlock] ELSE heap
               /\ result' = Void
               /\ UNCHANGED raw

\* What a receiver with these arguments would make of a byte array.
FilterOf(args) == [Configured(Cleared, args.entries, args.error)
                     EXCEPT !.hashSeed = args.seed]

\* The program gets a byte array in a block of its own: the bits of a filter
\* built with args that has keys ks, or bits of unknown origin.
Gets(p, len, ones, args, ks) ==
  /\ Carries(p, len, ones, args, ks)
  /\ p \in Block /\ len \in Nat /\ ones \subseteq 0 .. 8 * len - 1
  /\ \/ args = NoArgs /\ ks = {}
     \/ /\ args \in FilterArgs /\ ks \subseteq Key
        /\ FilterOf(args).bits # 0
        /\ \A k \in ks : Probes(FilterOf(args), k) \subseteq ones

------------------------------------------------------------------------------
(* The kinds of step keep the invariant.                                   *)

\* A call that answers or throws without a change.
LEMMA QuietKeepsIInv ==
  ASSUME IInv, Quiet
  PROVE  IInv'
BY DEF Quiet, IInv, TypeOK, FiltersInv, OwnInv, RawInv, RawFilter

\* A block that nobody owns can be given to an object.
LEMMA FreeBlockIsUnowned ==
  ASSUME IInv, NEW p \in Block, ~heap[p].live
  PROVE  /\ raw.bf # p
         /\ \A u \in Obj : obj[u].bf # p
<1>1. raw.bf # p
  BY NullIsNoBlock DEF IInv, RawInv
<1>2. ASSUME NEW u \in Obj, obj[u].bf = p PROVE FALSE
  <2>1. u \in alive \ spoiled
    BY <1>2, NullIsNoBlock DEF IInv, OwnInv
  <2> QED
    BY <1>2, <2>1 DEF IInv, FiltersInv, Sound
<1> QED
  BY <1>1, <1>2

\* Becoming a new value touches no block of another object or of the program.
LEMMA NewValueFrame ==
  ASSUME IInv, NEW o \in Obj, NEW b, NEW ks, NewValue(o, b, ks)
  PROVE  /\ b.bf \in Block
         /\ raw'.bf # b.bf
         /\ \A u \in Obj : u # o =>
              /\ obj'[u] = obj[u] /\ keys'[u] = keys[u]
              /\ u \in alive' \ spoiled' <=> u \in alive \ spoiled
              /\ obj[u].bf # b.bf
              /\ obj[u].bf \in Block => heap'[obj[u].bf] = heap[obj[u].bf]
         /\ raw'.bf \in Block => raw' = raw /\ heap'[raw.bf] = heap[raw.bf]
         /\ o \in alive' \ spoiled' /\ obj'[o] = b /\ keys'[o] = ks
         /\ alive' \subseteq Obj /\ spoiled' \subseteq alive'
<1>1. /\ b.bf \in Block
      /\ o \in alive' \ spoiled' /\ obj'[o] = b /\ keys'[o] = ks
      /\ alive' \subseteq Obj /\ spoiled' \subseteq alive'
      /\ \A u \in Obj : u # o =>
           /\ obj'[u] = obj[u] /\ keys'[u] = keys[u]
           /\ u \in alive' \ spoiled' <=> u \in alive \ spoiled
  BY DEF NewValue, Becomes, Sound, IInv, TypeOK
<1>2. raw'.bf # b.bf /\ \A u \in Obj : u # o => obj[u].bf # b.bf
  <2>1. CASE raw' = raw /\ b.bf = obj[o].bf
    BY <1>1, <2>1 DEF IInv, OwnInv
  <2>2. CASE raw' = raw /\ ~heap[b.bf].live
    BY <1>1, <2>2, FreeBlockIsUnowned
  <2>3. CASE raw' = NoRaw /\ b.bf = raw.bf
    BY <1>1, <2>3, NullIsNoBlock DEF IInv, OwnInv, NoRaw
  <2> QED
    BY <2>1, <2>2, <2>3 DEF NewValue
<1>3. ASSUME NEW u \in Obj, u # o, obj[u].bf \in Block
      PROVE  heap'[obj[u].bf] = heap[obj[u].bf]
  <2>1. obj[u].bf # b.bf /\ obj[u].bf # obj[o].bf
    BY <1>2, <1>3 DEF IInv, OwnInv
  <2> QED
    BY <1>3, <2>1 DEF NewValue
<1>4. ASSUME raw'.bf \in Block
      PROVE  raw' = raw /\ heap'[raw.bf] = heap[raw.bf]
  <2>1. raw' = raw
    BY <1>4, NullIsNoBlock DEF NewValue, NoRaw
  <2>2. raw.bf # b.bf /\ raw.bf # obj[o].bf /\ raw.bf \in Block
    BY <1>2, <1>4, <2>1 DEF IInv, OwnInv
  <2> QED
    BY <2>1, <2>2 DEF NewValue
<1> QED
  BY <1>1, <1>2, <1>3, <1>4

\* An object gets a fresh filter of its own.
LEMMA NewValueKeepsIInv ==
  ASSUME IInv, NEW o \in Obj, NEW b, NEW ks, NewValue(o, b, ks)
  PROVE  IInv'
<1>0. raw' \in {raw, NoRaw}
  BY DEF NewValue
<1>1. TypeOK'
  <2>1. /\ obj' \in [Obj -> StructOf(Block \union {NULL})]
        /\ keys' \in [Obj -> SUBSET Key] /\ result' = Void
    BY DEF NewValue, Becomes, Sound, IInv, TypeOK
  <2>2. raw' \in [bf: Block \union {NULL}, len: Nat, args: ArgsType, keys: SUBSET Key]
    BY <1>0, HashAssumption DEF IInv, TypeOK, NoRaw, NoArgs, ArgsType, HashWord
  <2>3. \A p \in Block : heap'[p].ones \subseteq 0 .. 8 * heap'[p].size - 1
    <3> SUFFICES ASSUME NEW p \in Block
                 PROVE  heap'[p].ones \subseteq 0 .. 8 * heap'[p].size - 1
      OBVIOUS
    <3>1. CASE p = b.bf
      BY <3>1 DEF NewValue
    <3>2. CASE p # b.bf
      <4>1. heap'[p] = NoBlock \/ heap'[p] = heap[p]
        BY <3>2 DEF NewValue
      <4>2. heap'[p].ones = {} \/ heap'[p] = heap[p]
        BY <4>1 DEF NoBlock
      <4> QED
        BY <4>2 DEF IInv, TypeOK
    <3> QED
      BY <3>1, <3>2
  <2> QED
    BY <2>1, <2>2, <2>3, NewValueFrame DEF TypeOK, NewValue
<1>2. FiltersInv'
  <2> SUFFICES ASSUME NEW u \in alive' \ spoiled' PROVE Sound(obj'[u], heap', keys'[u])
    BY DEF FiltersInv
  <2>1. u \in Obj
    BY NewValueFrame
  <2>2. CASE u = o
    BY <2>2, NewValueFrame DEF NewValue
  <2>3. CASE u # o
    <3>1. /\ obj'[u] = obj[u] /\ keys'[u] = keys[u]
          /\ Sound(obj[u], heap, keys[u])
          /\ obj[u].bf \in Block => heap'[obj[u].bf] = heap[obj[u].bf]
      BY <2>1, <2>3, NewValueFrame DEF IInv, FiltersInv
    <3> QED
      BY <3>1 DEF Sound
  <2> QED
    BY <2>2, <2>3
<1>3. OwnInv'
  BY NewValueFrame, NullIsNoBlock, <1>0 DEF OwnInv, IInv, NoRaw
<1>4. RawInv'
  <2>1. CASE raw' = raw /\ raw.bf \in Block
    BY <2>1, NewValueFrame DEF RawInv, IInv, RawFilter
  <2>2. CASE raw' = raw /\ raw.bf = NULL
    BY <2>2 DEF RawInv, IInv
  <2>3. CASE raw' = NoRaw
    BY <2>3 DEF RawInv, NoRaw
  <2> QED
    BY <1>0, <2>1, <2>2, <2>3 DEF IInv, TypeOK
<1> QED
  BY <1>1, <1>2, <1>3, <1>4 DEF IInv

\* An assignment fails after it has given up the block.
LEMMA SpoilsKeepsIInv ==
  ASSUME IInv, NEW o \in Obj, Spoils(o)
  PROVE  IInv'
<1>1. /\ obj'[o].bf = NULL /\ o \notin alive' \ spoiled'
      /\ \A u \in Obj : u # o => /\ obj'[u] = obj[u] /\ keys'[u] = keys[u]
                                 /\ u \in alive' \ spoiled' <=> u \in alive \ spoiled
      /\ heap' = heap /\ raw' = raw /\ alive' \subseteq Obj
  BY DEF Spoils, IInv, TypeOK
<1>2. TypeOK'
  BY DEF Spoils, IInv, TypeOK
<1>3. FiltersInv'
  BY <1>1 DEF IInv, FiltersInv
<1>4. OwnInv'
  BY <1>1, NullIsNoBlock DEF IInv, OwnInv
<1>5. RawInv'
  BY <1>1 DEF IInv, RawInv, RawFilter
<1> QED
  BY <1>2, <1>3, <1>4, <1>5 DEF IInv

\* An object goes, and its block with it.
LEMMA DestroysKeepsIInv ==
  ASSUME IInv, NEW o \in Obj, Destroys(o)
  PROVE  IInv'
<1>1. /\ obj'[o].bf = NULL /\ o \notin alive' \ spoiled'
      /\ \A u \in Obj : u # o => /\ obj'[u] = obj[u] /\ keys'[u] = keys[u]
                                 /\ u \in alive' \ spoiled' <=> u \in alive \ spoiled
      /\ raw' = raw /\ alive' \subseteq Obj
  BY DEF Destroys, IInv, TypeOK, Cleared
<1>2. /\ heap' \in [Block -> BlockType]
      /\ \A q \in Block : heap'[q].ones = {} \/ heap'[q] = heap[q]
      /\ \A q \in Block : q # obj[o].bf => heap'[q] = heap[q]
  BY DEF Destroys, IInv, TypeOK, NoBlock
<1>3. TypeOK'
  <2>1. obj' \in [Obj -> StructOf(Block \union {NULL})] /\ keys' \in [Obj -> SUBSET Key]
    BY ClearedType DEF Destroys, IInv, TypeOK
  <2>2. \A q \in Block : heap'[q].ones \subseteq 0 .. 8 * heap'[q].size - 1
    BY <1>2 DEF IInv, TypeOK
  <2> QED
    BY <1>2, <2>1, <2>2 DEF Destroys, IInv, TypeOK
<1>4. FiltersInv'
  <2> SUFFICES ASSUME NEW u \in alive' \ spoiled' PROVE Sound(obj'[u], heap', keys'[u])
    BY DEF FiltersInv
  <2>1. /\ u \in Obj /\ u # o /\ obj'[u] = obj[u] /\ keys'[u] = keys[u]
        /\ Sound(obj[u], heap, keys[u])
    BY <1>1 DEF IInv, FiltersInv
  <2>2. obj[u].bf \in Block /\ obj[u].bf # obj[o].bf
    BY <2>1 DEF Sound, IInv, OwnInv
  <2> QED
    BY <1>2, <2>1, <2>2 DEF Sound
<1>5. OwnInv'
  BY <1>1, NullIsNoBlock DEF IInv, OwnInv
<1>6. RawInv'
  <2>1. raw.bf \in Block => heap'[raw.bf] = heap[raw.bf]
    BY <1>2, NullIsNoBlock DEF IInv, OwnInv, Destroys
  <2> QED
    BY <1>1, <2>1 DEF IInv, TypeOK, RawInv, RawFilter
<1> QED
  BY <1>3, <1>4, <1>5, <1>6 DEF IInv

\* A block that nobody owns, or that the program gives up, may change.
LEMMA BlockOfProgram ==
  ASSUME IInv, NEW p \in Block, raw.bf = p \/ ~heap[p].live,
         heap' \in [Block -> BlockType],
         \A q \in Block : q # p => heap'[q] = heap[q],
         heap'[p].ones \subseteq 0 .. 8 * heap'[p].size - 1,
         UNCHANGED <<alive, obj, keys, spoiled>>
  PROVE  FiltersInv' /\ BitsInBlocks'
<1>1. \A u \in Obj : obj[u].bf # p
  BY FreeBlockIsUnowned DEF IInv, OwnInv
<1>2. FiltersInv'
  <2> SUFFICES ASSUME NEW u \in alive \ spoiled PROVE Sound(obj[u], heap', keys[u])
    BY DEF FiltersInv
  <2>1. u \in Obj /\ Sound(obj[u], heap, keys[u])
    BY DEF IInv, TypeOK, FiltersInv
  <2> QED
    BY <1>1, <2>1 DEF Sound
<1> QED
  BY <1>2 DEF IInv, TypeOK, BitsInBlocks

\* The filter whose bytes are in transit, by its arguments.
LEMMA RawFilterIsFilterOf == RawFilter = FilterOf(raw.args)
BY DEF RawFilter, FilterOf

\* The arguments of a filter are arguments.
LEMMA FilterArgsType == FilterArgs \subseteq ArgsType
<1>1. Entries \subseteq Nat /\ ValidError \subseteq Nat
  BY ArgsAssumption, ErrorAssumption DEF ValidError
<1>2. (Seed \ {0}) \union {DefaultSeed} \subseteq HashWord
  BY ObjAssumption, HashAssumption
<1> QED
  BY <1>1, <1>2 DEF FilterArgs, ArgsType

\* Bytes brought from elsewhere have arguments of no filter.
LEMMA NoArgsIsNotFilterArgs == NoArgs \in ArgsType /\ NoArgs \notin FilterArgs
BY HashAssumption DEF NoArgs, ArgsType, FilterArgs, ValidError, HashWord

\* Bytes come into transit.
LEMMA GetsKeepsIInv ==
  ASSUME IInv, NEW p, NEW len, NEW ones, NEW args, NEW ks,
         Gets(p, len, ones, args, ks)
  PROVE  IInv'
<1>1. /\ p \in Block /\ len \in Nat /\ ones \subseteq 0 .. 8 * len - 1
      /\ raw.bf = NULL /\ ~heap[p].live
      /\ heap' = [heap EXCEPT ![p] = BlockOf(len, ones)]
      /\ raw' = [bf |-> p, len |-> len, args |-> args, keys |-> ks]
      /\ result' = Void
      /\ UNCHANGED <<alive, obj, keys, spoiled>>
  BY DEF Gets, Carries
<1>2. \/ args = NoArgs /\ ks = {}
      \/ /\ args \in FilterArgs /\ ks \subseteq Key
         /\ FilterOf(args).bits # 0
         /\ \A k \in ks : Probes(FilterOf(args), k) \subseteq ones
  BY DEF Gets
<1>3. /\ heap' \in [Block -> BlockType]
      /\ heap'[p] = [live |-> TRUE, size |-> len, ones |-> ones]
      /\ \A q \in Block : q # p => heap'[q] = heap[q]
  BY <1>1 DEF IInv, TypeOK, BlockOf
<1>4. FiltersInv' /\ BitsInBlocks'
  BY <1>1, <1>3, BlockOfProgram
<1>5. args \in ArgsType /\ ks \subseteq Key
  BY <1>2, FilterArgsType, NoArgsIsNotFilterArgs
<1>6. TypeOK'
  <2>1. raw' \in [bf: Block \union {NULL}, len: Nat, args: ArgsType, keys: SUBSET Key]
    BY <1>1, <1>5
  <2> QED
    BY <1>1, <1>3, <1>4, <2>1 DEF IInv, TypeOK, BitsInBlocks
<1>7. OwnInv'
  BY <1>1, FreeBlockIsUnowned DEF IInv, OwnInv
<1>8. RawInv'
  <2>1. raw'.bf = p /\ raw'.len = len /\ raw'.args = args /\ raw'.keys = ks
    BY <1>1
  <2>2. RawFilter' = FilterOf(args)
    BY <2>1 DEF RawFilter, FilterOf
  <2>3. heap'[raw'.bf].live /\ heap'[raw'.bf].size = raw'.len
    BY <1>3, <2>1
  <2>4. raw'.bf # NULL
    BY <1>1, <2>1, NullIsNoBlock
  <2>5. CASE args = NoArgs /\ ks = {}
    BY <2>1, <2>3, <2>4, <2>5 DEF RawInv
  <2>6. CASE /\ args \in FilterArgs /\ FilterOf(args).bits # 0
             /\ \A k \in ks : Probes(FilterOf(args), k) \subseteq ones
    <3>1. args # NoArgs /\ heap'[raw'.bf].ones = ones
      BY <1>3, <2>1, <2>6, NoArgsIsNotFilterArgs
    <3> QED
      BY <2>1, <2>2, <2>3, <2>4, <2>6, <3>1 DEF RawInv
  <2> QED
    BY <1>2, <2>5, <2>6
<1> QED
  BY <1>4, <1>6, <1>7, <1>8 DEF IInv

\* Bytes in transit are given back.
LEMMA DropKeepsIInv ==
  ASSUME IInv, drop_bytes
  PROVE  IInv'
<1>1. /\ raw.bf \in Block
      /\ heap' = [heap EXCEPT ![raw.bf] = NoBlock] /\ raw' = NoRaw
      /\ result' = Void /\ UNCHANGED <<alive, obj, keys, spoiled>>
  BY DEF drop_bytes, IInv, TypeOK
<1>2. /\ heap' \in [Block -> BlockType] /\ heap'[raw.bf].ones = {}
      /\ \A q \in Block : q # raw.bf => heap'[q] = heap[q]
  BY <1>1 DEF IInv, TypeOK, NoBlock
<1>3. FiltersInv' /\ BitsInBlocks'
  BY <1>1, <1>2, BlockOfProgram
<1>4. TypeOK'
  <2>1. raw' \in [bf: Block \union {NULL}, len: Nat, args: ArgsType, keys: SUBSET Key]
    BY <1>1, NoArgsIsNotFilterArgs DEF NoRaw
  <2> QED
    BY <1>1, <1>2, <1>3, <2>1 DEF IInv, TypeOK, BitsInBlocks
<1>5. OwnInv'
  BY <1>1, NullIsNoBlock DEF IInv, OwnInv, NoRaw
<1>6. RawInv'
  BY <1>1 DEF RawInv, NoRaw
<1> QED
  BY <1>3, <1>4, <1>5, <1>6 DEF IInv

------------------------------------------------------------------------------
(* Facts about the structs the calls build.                                *)

\* The bytes of a filter that has bits never outnumber its bits, which is what
\* the copying calls ask realloc for (BloomFilter.h:76, 105).
LEMMA BytesAtMostBits ==
  ASSUME NEW b, WellSized(b), b.bits # 0
  PROVE  b.bytes \in Nat /\ b.bytes <= b.bits
BY DEF WellSized, BytesFor

\* What a usable object owns and holds.
LEMMA UsableIsSound ==
  ASSUME IInv, NEW o \in Obj, Usable(o)
  PROVE  /\ o \in alive \ spoiled /\ obj[o].bits # 0
         /\ Sound(obj[o], heap, keys[o]) /\ WellSized(obj[o])
         /\ keys[o] \subseteq Key
         /\ \A k \in keys[o] : Probes(obj[o], k) \subseteq heap[obj[o].bf].ones
BY SizedByArgsIsWellSized DEF IInv, TypeOK, FiltersInv, Usable, Sound

\* A constructor's struct, before it has a block and in block p.
Made(n, e, s) == Seeded(Configured(Cleared, n, e), s)
Placed(n, e, s, p) == [Made(n, e, s) EXCEPT !.bf = p, !.ready = 1]

\* A struct sized and allocated by a constructor.
LEMMA PlacedStruct ==
  ASSUME NEW n \in Entries, NEW e \in ValidError, e \in Error,
         NEW s \in Seed, NEW p \in Block
  PROVE  /\ Placed(n, e, s, p) \in StructOf(Block \union {NULL})
         /\ Placed(n, e, s, p).ready = 1 /\ Placed(n, e, s, p).bf = p
         /\ SizedByArgs(Placed(n, e, s, p))
         /\ ArgsOf(Placed(n, e, s, p)) \in FilterArgs
         /\ ArgsOf(Placed(n, e, s, p)) = ArgsOf(Made(n, e, s))
         /\ Placed(n, e, s, p).bytes = Made(n, e, s).bytes
         /\ Made(n, e, s).bytes \in Nat
<1> DEFINE d == Configured(Cleared, n, e)
           b == Made(n, e, s)
           c == Placed(n, e, s, p)
<1>1. /\ d \in StructOf(Block \union {NULL}) /\ SizedByArgs(d)
      /\ d.entries = n /\ d.error = e /\ d.hashSeed = DefaultSeed
  BY ConfiguredIsSized, ArgsAssumption
<1> HIDE DEF d
<1>2. /\ b \in StructOf(Block \union {NULL}) /\ SizedByArgs(b)
      /\ b.entries = n /\ b.error = e
      /\ b.hashSeed \in (Seed \ {0}) \union {DefaultSeed}
  <2>1. s \in HashWord /\ (s > 0 => s \in Seed \ {0})
    BY ObjAssumption
  <2>2. b = Seeded(d, s)
    BY DEF d, Made
  <2>3. CASE s > 0
    BY <1>1, <2>1, <2>2, <2>3 DEF Seeded, SizedByArgs
  <2>4. CASE ~(s > 0)
    BY <1>1, <2>2, <2>4 DEF Seeded
  <2> QED
    BY <2>3, <2>4
<1>3. c = [b EXCEPT !.bf = p, !.ready = 1]
  BY DEF Placed
<1> HIDE DEF b, c
<1>4. /\ c \in StructOf(Block \union {NULL}) /\ c.ready = 1 /\ c.bf = p
      /\ c.entries = b.entries /\ c.error = b.error /\ c.hashSeed = b.hashSeed
      /\ c.bits = b.bits /\ c.bytes = b.bytes /\ c.hashes = b.hashes
      /\ b.bytes \in Nat
  BY <1>2, <1>3
<1>5. SizedByArgs(c) /\ ArgsOf(c) = ArgsOf(b)
  BY <1>2, <1>4 DEF SizedByArgs, ArgsOf
<1>6. ArgsOf(c) \in FilterArgs
  BY <1>2, <1>4 DEF ArgsOf, FilterArgs
<1> QED
  BY <1>4, <1>5, <1>6 DEF b, c

\* The constructors that check their arguments let only valid ones through.
LEMMA CheckedError ==
  ASSUME NEW n \in Entries, NEW e \in Error, ValidArgs(n, e)
  PROVE  e \in ValidError
BY ArgsAssumption, SizesPositive

\* Filters built with the same arguments probe the same bits.
LEMMA FilterOfArgs ==
  ASSUME NEW b, SizedByArgs(b)
  PROVE  /\ FilterOf(ArgsOf(b)).bits = b.bits
         /\ \A k : Probes(FilterOf(ArgsOf(b)), k) = Probes(b, k)
<1> DEFINE c == Configured(Cleared, b.entries, b.error)
           f == [c EXCEPT !.hashSeed = b.hashSeed]
<1>1. c = [Cleared EXCEPT !.entries = b.entries, !.error = b.error,
                          !.bits = b.bits, !.bytes = b.bytes,
                          !.hashes = b.hashes, !.hashSeed = DefaultSeed]
  BY DEF SizedByArgs, Configured
<1>2. f.bits = b.bits /\ f.hashes = b.hashes /\ f.hashSeed = b.hashSeed
  BY <1>1 DEF Cleared
<1>3. FilterOf(ArgsOf(b)) = f
  BY DEF FilterOf, ArgsOf
<1> HIDE DEF f
<1>4. \A k : Probes(f, k) = Probes(b, k)
  BY <1>2, SameProbes
<1> QED
  BY <1>2, <1>3, <1>4

\* The keys that arrive with a byte array have their bits in it.
LEMMA ArrivingHaveBits ==
  ASSUME IInv, NEW b, SizedByArgs(b)
  PROVE  /\ Arriving(b) \subseteq Key
         /\ \A k \in Arriving(b) : Probes(b, k) \subseteq heap[raw.bf].ones
<1>1. CASE ArgsOf(b) = raw.args /\ raw.args # NoArgs
  <2>1. Arriving(b) = raw.keys /\ RawFilter = FilterOf(ArgsOf(b))
    BY <1>1, RawFilterIsFilterOf DEF Arriving
  <2>2. \A k \in raw.keys : Probes(RawFilter, k) \subseteq heap[raw.bf].ones
    BY <1>1 DEF IInv, RawInv
  <2> QED
    BY <2>1, <2>2, FilterOfArgs DEF IInv, TypeOK
<1>2. CASE ArgsOf(b) # raw.args \/ raw.args = NoArgs
  BY <1>2 DEF Arriving, IInv, RawInv
<1> QED
  BY <1>1, <1>2

\* Copying the bytes of a filter copies the bits of its keys.
LEMMA CopiedHasBits ==
  ASSUME IInv, NEW o \in Obj, Usable(o)
  PROVE  /\ Copied(obj[o]) \subseteq 0 .. 8 * obj[o].bytes - 1
         /\ obj[o].bytes \in Nat
         /\ \A k \in keys[o] : Probes(obj[o], k) \subseteq Copied(obj[o])
<1>1. /\ Sound(obj[o], heap, keys[o]) /\ WellSized(obj[o]) /\ obj[o].bits # 0
      /\ \A k \in keys[o] : k \in Key /\ Probes(obj[o], k) \subseteq heap[obj[o].bf].ones
  BY UsableIsSound
<1>2. /\ obj[o].bytes \in Nat
      /\ 0 .. obj[o].bits - 1 \subseteq 0 .. 8 * obj[o].bytes - 1
  BY <1>1, BitsInBytes
<1>3. heap[obj[o].bf].ones \subseteq Nat
  BY <1>1 DEF Sound, IInv, TypeOK
<1>4. Copied(obj[o]) = heap[obj[o].bf].ones \intersect (0 .. 8 * obj[o].bytes - 1)
  BY <1>2, <1>3 DEF Copied
<1>5. \A k \in keys[o] : Probes(obj[o], k) \subseteq 0 .. 8 * obj[o].bytes - 1
  BY <1>1, <1>2, ProbesInBits
<1> QED
  BY <1>1, <1>2, <1>4, <1>5

------------------------------------------------------------------------------
(* Every call is a step of one of the kinds.                               *)

\* The checking constructor gives the object a zeroed block, or throws.
LEMMA ConstructOutcome ==
  ASSUME IInv, NEW o \in Obj, NEW n \in Entries, NEW e \in Error, NEW s \in Seed,
         construct(o, n, e, s)
  PROVE  \/ throw
         \/ \E b : /\ NewValue(o, b, {}) /\ raw' = raw
                   /\ o \notin alive /\ heap'[b.bf].ones = {}
<1>1. CASE throw
  BY <1>1
<1>2. CASE ~throw
  <2> DEFINE b == Made(n, e, s)
             c(p) == Placed(n, e, s, p)
  <2>1. e \in ValidError
    BY <1>2, CheckedError DEF construct
  <2>2. PICK p \in Block :
          /\ ~heap[p].live
          /\ heap' = [heap EXCEPT ![p] = Zeroed(b.bytes)]
          /\ Becomes(o, c(p), {})
          /\ raw' = raw
    BY <1>2 DEF construct, Made, Placed
  <2> DEFINE d == c(p)
  <2>3. /\ d \in StructOf(Block \union {NULL}) /\ d.ready = 1 /\ d.bf = p
        /\ SizedByArgs(d) /\ ArgsOf(d) \in FilterArgs
        /\ d.bytes = b.bytes /\ b.bytes \in Nat
    BY <2>1, PlacedStruct
  <2> HIDE DEF d, b
  <2>4. o \notin alive /\ obj[o].bf = NULL
    BY DEF construct, IInv, OwnInv
  <2>5. /\ heap' \in [Block -> BlockType]
        /\ heap'[p] = [live |-> TRUE, size |-> b.bytes, ones |-> {}]
        /\ \A q \in Block : q # p => heap'[q] = heap[q]
    BY <2>2, <2>3 DEF IInv, TypeOK, Zeroed
  <2>6. Sound(d, heap', {})
    BY <2>3, <2>5 DEF Sound
  <2>7. Becomes(o, d, {})
    BY <2>2 DEF d
  <2>8. NewValue(o, d, {})
    BY <2>2, <2>3, <2>4, <2>5, <2>6, <2>7, NullIsNoBlock DEF NewValue
  <2> QED
    BY <2>2, <2>3, <2>4, <2>5, <2>8
<1> QED
  BY <1>1, <1>2

\* The moving constructor makes the program's byte array the new filter's own.
LEMMA MovingOutcome ==
  ASSUME IInv, NEW o \in Obj, NEW n \in Entries, NEW e \in Error, NEW s \in Seed,
         construct_moving(o, n, e, s)
  PROVE  \/ throw
         \/ \E b : /\ NewValue(o, b, Arriving(b)) /\ raw' = NoRaw
                   /\ o \notin alive /\ raw.bf # NULL /\ heap' = heap
                   /\ b.bf = raw.bf
<1> DEFINE b == Made(n, e, s)
           c == Placed(n, e, s, raw.bf)
<1>1. CASE throw
  BY <1>1
<1>2. CASE ~throw
  <2>1. /\ o \notin alive /\ raw.bf \in Block /\ e \in ValidError
        /\ obj[o].bf = NULL /\ heap[raw.bf].live /\ heap[raw.bf].size = raw.len
    BY DEF construct_moving, IInv, TypeOK, OwnInv, RawInv
  <2>2. /\ raw.len = b.bytes /\ Becomes(o, c, Arriving(b))
        /\ raw' = NoRaw /\ heap' = heap
    BY <1>2 DEF construct_moving, Taken, Made, Placed
  <2>3. /\ c \in StructOf(Block \union {NULL}) /\ c.ready = 1 /\ c.bf = raw.bf
        /\ SizedByArgs(c) /\ ArgsOf(c) \in FilterArgs /\ ArgsOf(c) = ArgsOf(b)
        /\ c.bytes = b.bytes /\ b.bytes \in Nat
    BY <2>1, PlacedStruct
  <2> HIDE DEF c, b
  <2>4. Arriving(b) = Arriving(c)
    BY <2>3 DEF Arriving
  <2>5. /\ Arriving(c) \subseteq Key
        /\ \A k \in Arriving(c) : Probes(c, k) \subseteq heap[raw.bf].ones
    BY <2>3, ArrivingHaveBits
  <2>6. Sound(c, heap', Arriving(c))
    BY <2>1, <2>2, <2>3, <2>5 DEF Sound
  <2>7. heap' \in [Block -> BlockType] /\ heap'[raw.bf].ones \subseteq 0 .. 8 * heap'[raw.bf].size - 1
    BY <2>1, <2>2 DEF IInv, TypeOK
  <2>8. NewValue(o, c, Arriving(c))
    BY <2>1, <2>2, <2>3, <2>4, <2>5, <2>6, <2>7, NullIsNoBlock DEF NewValue
  <2> QED
    BY <2>1, <2>2, <2>3, <2>8, NullIsNoBlock
<1> QED
  BY <1>1, <1>2

\* The copying constructor is the same, with a block of its own.
LEMMA CopyingOutcome ==
  ASSUME IInv, NEW o \in Obj, NEW n \in Entries, NEW e \in Error, NEW s \in Seed,
         construct_copying(o, n, e, s)
  PROVE  \/ throw
         \/ \E b : /\ NewValue(o, b, Arriving(b)) /\ raw' = raw
                   /\ o \notin alive /\ raw.bf # NULL
                   /\ heap'[b.bf].ones = heap[raw.bf].ones
<1> DEFINE b == Made(n, e, s)
           c(p) == Placed(n, e, s, p)
<1>1. CASE throw
  BY <1>1
<1>2. CASE ~throw
  <2>1. /\ o \notin alive /\ obj[o].bf = NULL /\ raw.bf # NULL /\ raw.bf \in Block
        /\ heap[raw.bf].size = raw.len
    BY DEF construct_copying, IInv, TypeOK, OwnInv, RawInv
  <2>2. e \in ValidError
    BY <1>2, CheckedError DEF construct_copying
  <2>3. PICK p \in Block :
          /\ ~heap[p].live /\ raw.len = b.bytes
          /\ heap' = [heap EXCEPT ![p] = BlockOf(b.bytes, heap[raw.bf].ones)]
          /\ Becomes(o, c(p), Arriving(b))
          /\ raw' = raw
    <3>1. \E p \in Block :
            /\ ~heap[p].live
            /\ \/ /\ raw.len # b.bytes
                  /\ heap' = Abandoned(p, b.bytes)
                  /\ result' = Throws
                  /\ UNCHANGED <<alive, obj, raw, keys, spoiled>>
               \/ /\ raw.len = b.bytes
                  /\ heap' = [heap EXCEPT ![p] = BlockOf(b.bytes, heap[raw.bf].ones)]
                  /\ Becomes(o, c(p), Arriving(b))
                  /\ raw' = raw
      BY <1>2 DEF construct_copying, Made, Placed
    <3> QED
      BY <1>2, <3>1 DEF throw, Abandoned
  <2> DEFINE d == c(p)
  <2>4. /\ d \in StructOf(Block \union {NULL}) /\ d.ready = 1 /\ d.bf = p
        /\ SizedByArgs(d) /\ ArgsOf(d) \in FilterArgs /\ ArgsOf(d) = ArgsOf(b)
        /\ d.bytes = b.bytes /\ b.bytes \in Nat
    BY <2>2, PlacedStruct
  <2>5. Becomes(o, d, Arriving(b))
    BY <2>3
  <2> HIDE DEF d, b
  <2>6. Arriving(b) = Arriving(d)
    BY <2>4 DEF Arriving
  <2>7. /\ Arriving(d) \subseteq Key
        /\ \A k \in Arriving(d) : Probes(d, k) \subseteq heap[raw.bf].ones
    BY <2>4, ArrivingHaveBits
  <2>8. heap[raw.bf].ones \subseteq 0 .. 8 * b.bytes - 1
        /\ heap[raw.bf].ones \subseteq Nat
    BY <2>1, <2>3 DEF IInv, TypeOK
  <2>9. /\ heap' \in [Block -> BlockType]
        /\ heap'[p] = [live |-> TRUE, size |-> b.bytes, ones |-> heap[raw.bf].ones]
        /\ \A q \in Block : q # p => heap'[q] = heap[q]
    BY <2>3, <2>4, <2>8 DEF IInv, TypeOK, BlockOf
  <2>10. Sound(d, heap', Arriving(d))
    BY <2>4, <2>7, <2>9 DEF Sound
  <2>11. NewValue(o, d, Arriving(d))
    BY <2>1, <2>3, <2>4, <2>5, <2>6, <2>7, <2>8, <2>9, <2>10, NullIsNoBlock
       DEF NewValue
  <2> QED
    BY <2>1, <2>3, <2>4, <2>9, <2>11
<1> QED
  BY <1>1, <1>2

\* realloc asks for as many bytes as the source has bits, and the source's
\* bytes are copied into them.
Reallocates(q, p, from) ==
  heap' = Reallocated(q, p, obj[from].bits, Copied(obj[from]))

\* Block p is long enough for the source and has its bits, and only those.
HasCopy(p, from) == /\ heap'[p].live
                    /\ obj[from].bytes <= heap'[p].size
                    /\ heap'[p].ones = Copied(obj[from])
                    /\ heap'[p].ones \subseteq 0 .. 8 * heap'[p].size - 1
                    /\ heap' \in [Block -> BlockType]

OthersStay(q, p) ==
  \A x \in Block : x # p => heap'[x] = IF x = q THEN NoBlock ELSE heap[x]

\* realloc and the copy after it leave the source's bits in the block.
LEMMA ReallocatedBlock ==
  ASSUME IInv, NEW from \in Obj, Usable(from), NEW q, NEW p \in Block,
         Reallocates(q, p, from)
  PROVE  HasCopy(p, from) /\ OthersStay(q, p)
<1>1. /\ obj[from].bits \in Nat /\ obj[from].bytes \in Nat
      /\ obj[from].bytes <= obj[from].bits
      /\ Copied(obj[from]) \subseteq 0 .. 8 * obj[from].bytes - 1
  BY UsableIsSound, BytesAtMostBits, CopiedHasBits DEF WellSized
<1>2. Copied(obj[from]) \subseteq 0 .. 8 * obj[from].bits - 1
  BY <1>1
<1>3. Copied(obj[from]) \subseteq Nat
  BY <1>2
<1>4. /\ heap' \in [Block -> BlockType]
      /\ heap'[p] = [live |-> TRUE, size |-> obj[from].bits,
                     ones |-> Copied(obj[from])]
      /\ \A x \in Block : x # p => heap'[x] = IF x = q THEN NoBlock ELSE heap[x]
  BY <1>1, <1>3 DEF Reallocates, Reallocated, BlockOf, NoBlock, IInv, TypeOK
<1> QED
  BY <1>1, <1>2, <1>4 DEF HasCopy, OthersStay

\* A struct that is the source's but for the pointer is as sound as the source.
CopyOf(from, p) == [obj[from] EXCEPT !.bf = p]

\* A copy in a block of its own holds the keys of its source.
LEMMA CopyIsSound ==
  ASSUME IInv, NEW from \in Obj, Usable(from), NEW p \in Block, HasCopy(p, from)
  PROVE  /\ Sound(CopyOf(from, p), heap', keys[from])
         /\ CopyOf(from, p).bf = p /\ keys[from] \subseteq Key
<1> DEFINE b == CopyOf(from, p)
<1>1. /\ Sound(obj[from], heap, keys[from]) /\ keys[from] \subseteq Key
      /\ \A k \in keys[from] : Probes(obj[from], k) \subseteq Copied(obj[from])
  BY UsableIsSound, CopiedHasBits
<1>2. /\ b \in StructOf(Block \union {NULL}) /\ b.bf = p /\ b.ready = 1
      /\ b.entries = obj[from].entries /\ b.error = obj[from].error
      /\ b.hashSeed = obj[from].hashSeed /\ b.bits = obj[from].bits
      /\ b.bytes = obj[from].bytes /\ b.hashes = obj[from].hashes
  BY <1>1 DEF Sound, CopyOf
<1> HIDE DEF b
<1>3. SizedByArgs(b) /\ ArgsOf(b) \in FilterArgs
  BY <1>1, <1>2 DEF Sound, SizedByArgs, ArgsOf
<1>4. \A k : Probes(b, k) = Probes(obj[from], k)
  BY <1>2, SameProbes
<1>5. Sound(b, heap', keys[from])
  BY <1>1, <1>2, <1>3, <1>4 DEF Sound, HasCopy
<1> QED
  BY <1>1, <1>2, <1>5 DEF b

\* An object becomes a copy of another.
Copies(o, from, p) ==
  /\ NewValue(o, CopyOf(from, p), keys[from])
  /\ raw' = raw
  /\ Usable(from) /\ o # from /\ p \in Block
  /\ heap'[p].ones = Copied(obj[from])

\* The copy constructor throws or makes a copy.
LEMMA CopyConstructOutcome ==
  ASSUME IInv, NEW o \in Obj, NEW from \in Obj, copy_construct(o, from)
  PROVE  throw \/ \E p : Copies(o, from, p)
<1>1. CASE throw
  BY <1>1
<1>2. CASE ~throw
  <2>1. o \notin alive /\ obj[o].bf = NULL /\ Usable(from) /\ o # from
    BY DEF copy_construct, IInv, OwnInv, Usable
  <2>2. PICK p \in Block :
          /\ ~heap[p].live
          /\ Reallocates(NULL, p, from)
          /\ Becomes(o, [Sized(Cleared, obj[from]) EXCEPT !.bf = p], keys[from])
          /\ raw' = raw
    BY <1>2 DEF copy_construct, Reallocates
  <2>3. [Sized(Cleared, obj[from]) EXCEPT !.bf = p] = CopyOf(from, p)
    <3>1. obj[from] \in StructOf(Block \union {NULL})
      BY DEF IInv, TypeOK
    <3> QED
      BY <3>1 DEF Sized, CopyOf
  <2>4. HasCopy(p, from) /\ OthersStay(NULL, p)
    BY <2>1, <2>2, ReallocatedBlock
  <2>5. /\ Sound(CopyOf(from, p), heap', keys[from])
        /\ CopyOf(from, p).bf = p /\ keys[from] \subseteq Key
    BY <2>1, <2>4, CopyIsSound
  <2>6. Becomes(o, CopyOf(from, p), keys[from])
    BY <2>2, <2>3
  <2>7. NewValue(o, CopyOf(from, p), keys[from])
    BY <2>1, <2>2, <2>4, <2>5, <2>6, NullIsNoBlock DEF NewValue, HasCopy, OthersStay
  <2> QED
    BY <2>1, <2>2, <2>4, <2>7 DEF Copies, HasCopy
<1> QED
  BY <1>1, <1>2

\* operator= copies in place or through realloc, or gives up.
LEMMA AssignOutcome ==
  ASSUME IInv, NEW o \in Obj, NEW from \in Obj, assign(o, from)
  PROVE  (\E p : Copies(o, from, p)) \/ Spoils(o)
<1> DEFINE s == obj[from]
<1>1. /\ o \in alive /\ Usable(from) /\ o # from /\ raw' = raw
      /\ o \in spoiled => OldBits(obj[o]) # s.bits
  BY DEF assign
<1>2. obj[o] \in StructOf(Block \union {NULL}) /\ s \in StructOf(Block \union {NULL})
  BY DEF IInv, TypeOK
<1>3. CASE /\ OldBits(obj[o]) = s.bits
           /\ heap' = [heap EXCEPT ![obj[o].bf].ones = Copied(s)]
           /\ Becomes(o, Sized(obj[o], s), keys[from])
  <2> DEFINE p == obj[o].bf
  <2>1. Sound(obj[o], heap, keys[o]) /\ obj[o].bits = s.bits
    BY <1>1, <1>2, <1>3 DEF IInv, FiltersInv, Sound, OldBits
  <2>2. SizedByArgs(s) /\ s.bytes \in Nat
    BY <1>1, <1>2, UsableIsSound DEF Sound
  <2>3. /\ p \in Block /\ heap[p].live
        /\ s.bytes <= heap[p].size
        /\ Sized(obj[o], s) = CopyOf(from, p)
    BY <1>2, <2>1, <2>2 DEF Sound, SizedByArgs, Sized, CopyOf
  <2>4. Copied(s) \subseteq 0 .. 8 * s.bytes - 1 /\ Copied(s) \subseteq Nat
    BY <1>1, CopiedHasBits
  <2> HIDE DEF p
  <2>5. /\ heap' \in [Block -> BlockType]
        /\ heap'[p].live = heap[p].live
        /\ heap'[p].size = heap[p].size
        /\ heap'[p].ones = Copied(s)
        /\ \A q \in Block : q # p => heap'[q] = heap[q]
    BY <1>3, <2>3, <2>4 DEF IInv, TypeOK, p
  <2>6. Copied(s) \subseteq 0 .. 8 * heap[p].size - 1
    <3>1. heap[p].size \in Nat
      BY <2>3 DEF IInv, TypeOK
    <3> QED
      BY <2>2, <2>3, <2>4, <3>1
  <2>7. HasCopy(p, from)
    BY <2>3, <2>5, <2>6 DEF HasCopy
  <2>8. /\ Sound(CopyOf(from, p), heap', keys[from])
        /\ CopyOf(from, p).bf = p /\ keys[from] \subseteq Key
    BY <1>1, <2>3, <2>7, CopyIsSound
  <2>9. Becomes(o, CopyOf(from, p), keys[from])
    BY <1>3, <2>3
  <2>10. NewValue(o, CopyOf(from, p), keys[from])
    BY <1>1, <2>5, <2>7, <2>8, <2>9 DEF NewValue, HasCopy, p
  <2> QED
    BY <1>1, <2>3, <2>5, <2>10 DEF Copies
<1>4. ASSUME NEW p \in Block, p = obj[o].bf \/ ~heap[p].live,
             Reallocates(obj[o].bf, p, from),
             Becomes(o, [Sized(obj[o], s) EXCEPT !.bf = p], keys[from])
      PROVE  Copies(o, from, p)
  <2>1. [Sized(obj[o], s) EXCEPT !.bf = p] = CopyOf(from, p)
    BY <1>2 DEF Sized, CopyOf
  <2>2. Becomes(o, CopyOf(from, p), keys[from])
    BY <1>4, <2>1
  <2>3. HasCopy(p, from) /\ OthersStay(obj[o].bf, p)
    BY <1>1, <1>4, ReallocatedBlock
  <2>4. /\ Sound(CopyOf(from, p), heap', keys[from])
        /\ CopyOf(from, p).bf = p /\ keys[from] \subseteq Key
    BY <1>1, <2>3, CopyIsSound
  <2>5. NewValue(o, CopyOf(from, p), keys[from])
    BY <1>1, <1>4, <2>2, <2>3, <2>4 DEF NewValue, HasCopy, OthersStay
  <2> QED
    BY <1>1, <1>4, <2>3, <2>5 DEF Copies, HasCopy
<1>5. CASE /\ obj' = [obj EXCEPT ![o] = HalfSized(obj[o], s)]
           /\ spoiled' = spoiled \union {o}
           /\ keys' = [keys EXCEPT ![o] = {}]
           /\ result' = Throws
           /\ UNCHANGED <<alive, heap>>
  <2>1. /\ HalfSized(obj[o], s) \in StructOf(Block \union {NULL})
        /\ HalfSized(obj[o], s).bf = NULL
    BY <1>2 DEF HalfSized
  <2>2. obj'[o] = HalfSized(obj[o], s)
    BY <1>5 DEF IInv, TypeOK
  <2> QED
    BY <1>1, <1>5, <2>1, <2>2 DEF Spoils
<1> QED
  BY <1>3, <1>4, <1>5 DEF assign, Reallocates

\* The destructor gives back what the object owns.
LEMMA DestroyOutcome ==
  ASSUME IInv, NEW o \in Obj, destroy(o)
  PROVE  Destroys(o)
<1>1. obj[o].bf \in Block => obj[o].ready = 1
  BY NullIsNoBlock DEF IInv, OwnInv, FiltersInv, Sound
<1>2. obj[o].bf \in Block \union {NULL}
  BY DEF IInv, TypeOK
<1> QED
  BY <1>1, <1>2, NullIsNoBlock DEF destroy, Destroys

\* An object keeps its struct and its block, and gets other bits and other keys.
Rewrites(o, ones, ks) ==
  /\ NewValue(o, obj[o], ks) /\ raw' = raw
  /\ Usable(o)
  /\ heap'[obj[o].bf].ones = ones

\* A change of the bits in place, down to the keys they still hold.
LEMMA RewriteOutcome ==
  ASSUME IInv, NEW o \in Obj, Usable(o), NEW ones, NEW ks,
         ones \subseteq 0 .. 8 * heap[obj[o].bf].size - 1,
         ks \subseteq Key, \A k \in ks : Probes(obj[o], k) \subseteq ones,
         heap' = [heap EXCEPT ![obj[o].bf].ones = ones],
         Becomes(o, obj[o], ks), raw' = raw
  PROVE  Rewrites(o, ones, ks)
<1>1. Sound(obj[o], heap, keys[o])
  BY UsableIsSound
<1>2. obj[o].bf \in Block /\ heap[obj[o].bf] \in BlockType
  BY <1>1 DEF Sound, IInv, TypeOK
<1>3. ones \subseteq Nat
  OBVIOUS
<1>4. /\ heap' \in [Block -> BlockType]
      /\ heap'[obj[o].bf].ones = ones
      /\ heap'[obj[o].bf].live = heap[obj[o].bf].live
      /\ heap'[obj[o].bf].size = heap[obj[o].bf].size
      /\ \A q \in Block : q # obj[o].bf => heap'[q] = heap[q]
  BY <1>2, <1>3 DEF IInv, TypeOK
<1>5. Sound(obj[o], heap', ks)
  BY <1>1, <1>4 DEF Sound
<1>6. NewValue(o, obj[o], ks)
  BY <1>4, <1>5 DEF NewValue
<1> QED
  BY <1>4, <1>6 DEF Rewrites

\* The bits of an object's own byte array, and those realloc left beyond it.
LEMMA UsableBlock ==
  ASSUME IInv, NEW o \in Obj, Usable(o)
  PROVE  /\ obj[o].bf \in Block /\ heap \in [Block -> BlockType]
         /\ heap[obj[o].bf].size \in Nat /\ obj[o].bytes \in Nat
         /\ obj[o].bytes <= heap[obj[o].bf].size
         /\ heap[obj[o].bf].ones \subseteq 0 .. 8 * heap[obj[o].bf].size - 1
         /\ heap[obj[o].bf].ones \subseteq Nat
         /\ \A k \in Key : /\ Probes(obj[o], k) \subseteq 0 .. 8 * obj[o].bytes - 1
                           /\ Probes(obj[o], k) \subseteq 0 .. 8 * heap[obj[o].bf].size - 1
                           /\ Probes(obj[o], k) # {}
<1>1. /\ Sound(obj[o], heap, keys[o]) /\ WellSized(obj[o]) /\ obj[o].bits # 0
  BY UsableIsSound
<1>2. /\ obj[o].bf \in Block /\ heap \in [Block -> BlockType]
      /\ heap[obj[o].bf].size \in Nat /\ obj[o].bytes \in Nat
      /\ obj[o].bytes <= heap[obj[o].bf].size
      /\ heap[obj[o].bf].ones \subseteq 0 .. 8 * heap[obj[o].bf].size - 1
      /\ heap[obj[o].bf].ones \subseteq Nat
  BY <1>1 DEF Sound, IInv, TypeOK
<1>3. \A k \in Key : /\ Probes(obj[o], k) \subseteq 0 .. 8 * obj[o].bytes - 1
                     /\ Probes(obj[o], k) # {}
  BY <1>1, ProbesInBits, BitsInBytes
<1>4. 0 .. 8 * obj[o].bytes - 1 \subseteq 0 .. 8 * heap[obj[o].bf].size - 1
  BY <1>2
<1> QED
  BY <1>2, <1>3, <1>4

\* add sets the probes of the key.
LEMMA AddOutcome ==
  ASSUME IInv, NEW o \in Obj, NEW k \in Key, add(o, k)
  PROVE  Rewrites(o, Ones(o) \union Probes(obj[o], k), keys[o] \union {k})
<1> DEFINE ones == Ones(o) \union Probes(obj[o], k)
<1>1. /\ Usable(o) /\ raw' = raw
      /\ Becomes(o, obj[o], keys[o] \union {k})
  BY DEF add
<1>2. heap' = [heap EXCEPT ![obj[o].bf].ones = ones]
  BY <1>1, UsableBlock DEF add, Ones
<1>3. /\ keys[o] \union {k} \subseteq Key
      /\ \A j \in keys[o] \union {k} : Probes(obj[o], j) \subseteq ones
  BY <1>1, UsableIsSound DEF Ones
<1>4. ones \subseteq 0 .. 8 * heap[obj[o].bf].size - 1
  BY <1>1, UsableBlock DEF Ones
<1> QED
  BY <1>1, <1>2, <1>3, <1>4, RewriteOutcome

\* What lies beyond the byte array of an object.
Beyond(o) == {x \in Ones(o) : x >= 8 * obj[o].bytes}

\* reset clears the bytes of the filter.
LEMMA ResetOutcome ==
  ASSUME IInv, NEW o \in Obj, reset(o)
  PROVE  Rewrites(o, Beyond(o), {})
<1>1. Usable(o) /\ raw' = raw /\ Becomes(o, obj[o], {})
  BY DEF reset
<1>2. heap' = [heap EXCEPT ![obj[o].bf].ones = Beyond(o)]
  BY <1>1, UsableBlock DEF reset, Beyond, Ones
<1>3. Beyond(o) \subseteq 0 .. 8 * heap[obj[o].bf].size - 1
  BY <1>1, UsableBlock DEF Beyond, Ones
<1> QED
  BY <1>1, <1>2, <1>3, RewriteOutcome

\* set refuses bytes of another length or copies them.
LEMMA SetOutcome ==
  ASSUME IInv, NEW o \in Obj, set(o)
  PROVE  \/ throw
         \/ /\ Rewrites(o, Beyond(o) \union heap[raw.bf].ones, Arriving(obj[o]))
            /\ raw.bf # NULL
<1>1. CASE throw
  BY <1>1
<1>2. CASE ~throw
  <2> DEFINE ones == Beyond(o) \union heap[raw.bf].ones
  <2>1. /\ Usable(o) /\ raw' = raw /\ raw.bf # NULL /\ raw.len = obj[o].bytes
        /\ Becomes(o, obj[o], Arriving(obj[o]))
    BY <1>2 DEF set
  <2>2. heap' = [heap EXCEPT ![obj[o].bf].ones = ones]
    BY <1>2, <2>1, UsableBlock DEF set, Beyond, Ones
  <2>3. /\ Arriving(obj[o]) \subseteq Key
        /\ \A k \in Arriving(obj[o]) : Probes(obj[o], k) \subseteq heap[raw.bf].ones
    BY <2>1, UsableIsSound, ArrivingHaveBits DEF Sound
  <2>4. heap[raw.bf].ones \subseteq 0 .. 8 * obj[o].bytes - 1
    BY <2>1 DEF IInv, TypeOK, RawInv
  <2>5. ones \subseteq 0 .. 8 * heap[obj[o].bf].size - 1
    <3>1. Beyond(o) \subseteq 0 .. 8 * heap[obj[o].bf].size - 1
      BY <2>1, UsableBlock DEF Beyond, Ones
    <3>2. 0 .. 8 * obj[o].bytes - 1 \subseteq 0 .. 8 * heap[obj[o].bf].size - 1
      BY <2>1, UsableBlock
    <3> QED
      BY <2>4, <3>1, <3>2
  <2>6. \A k \in Arriving(obj[o]) : Probes(obj[o], k) \subseteq ones
    BY <2>3
  <2> QED
    BY <2>1, <2>2, <2>3, <2>5, <2>6, RewriteOutcome
<1> QED
  BY <1>1, <1>2

\* contains changes nothing.
LEMMA LookupOutcome ==
  ASSUME NEW o \in Obj, NEW k \in Key, contains(o, k) \/ contains_array(o, k)
  PROVE  Quiet
BY DEF contains, contains_array, Quiet

\* The program copies the byte array of a filter, or brings one of its own.
LEMMA TakeOutcome ==
  ASSUME IInv, NEW o \in Obj, take_bitmap(o)
  PROVE  /\ Usable(o)
         /\ \E p : Gets(p, obj[o].bytes, Copied(obj[o]), ArgsOf(obj[o]), keys[o])
<1>1. PICK p \in Block : Carries(p, obj[o].bytes, Copied(obj[o]), ArgsOf(obj[o]), keys[o])
  BY DEF take_bitmap
<1>2. Usable(o)
  BY DEF take_bitmap
<1>3. /\ Copied(obj[o]) \subseteq 0 .. 8 * obj[o].bytes - 1
      /\ obj[o].bytes \in Nat
      /\ \A k \in keys[o] : Probes(obj[o], k) \subseteq Copied(obj[o])
  BY <1>2, CopiedHasBits
<1>4. /\ ArgsOf(obj[o]) \in FilterArgs /\ SizedByArgs(obj[o])
      /\ keys[o] \subseteq Key /\ obj[o].bits # 0
  BY <1>2, UsableIsSound DEF Sound
<1>5. /\ FilterOf(ArgsOf(obj[o])).bits # 0
      /\ \A k \in keys[o] : Probes(FilterOf(ArgsOf(obj[o])), k) \subseteq Copied(obj[o])
  BY <1>3, <1>4, FilterOfArgs
<1> QED
  BY <1>1, <1>2, <1>3, <1>4, <1>5 DEF Gets

\* Bytes brought from elsewhere are the bytes of no filter.
LEMMA BringOutcome ==
  ASSUME IInv, NEW len \in RawLen, bring_bytes(len)
  PROVE  \E p : Gets(p, len, 0 .. 8 * len - 1, NoArgs, {})
<1>1. len \in Nat
  BY ObjAssumption
<1> QED
  BY <1>1 DEF bring_bytes, Gets

------------------------------------------------------------------------------
(* So every step keeps the invariant.                                      *)

NewValueOf(o) == \E b, ks : NewValue(o, b, ks)
GetsSome == \E p, len, ones, args, ks : Gets(p, len, ones, args, ks)
FailedAssign(o) == Spoils(o) /\ \E from \in Obj : assign(o, from)

\* Every step is of one of a few kinds, told apart by what they do to the
\* ownership of blocks.
LEMMA NextIsOfAKind ==
  ASSUME IInv, [Next]_vars
  PROVE  \/ Quiet \/ UNCHANGED vars \/ GetsSome \/ drop_bytes
         \/ \E o \in Obj : NewValueOf(o) \/ FailedAssign(o) \/ Destroys(o)
<1>0. throw => Quiet
  BY DEF throw, Quiet
<1>1. ASSUME NEW o \in Obj, Construct(o) PROVE Quiet \/ NewValueOf(o)
  <2>1. PICK n \in Entries, e \in Error, s \in Seed :
          \/ construct(o, n, e, s)
          \/ construct_moving(o, n, e, s)
          \/ construct_copying(o, n, e, s)
    BY <1>1 DEF Construct
  <2> QED
    BY <1>0, <2>1, ConstructOutcome, MovingOutcome, CopyingOutcome DEF NewValueOf
<1>2. ASSUME NEW o \in Obj, NEW from \in Obj, copy_construct(o, from) \/ assign(o, from)
      PROVE  Quiet \/ NewValueOf(o) \/ FailedAssign(o)
  BY <1>0, <1>2, CopyConstructOutcome, AssignOutcome DEF Copies, NewValueOf, FailedAssign
<1>3. ASSUME NEW o \in Obj, destroy(o) PROVE Destroys(o)
  BY <1>3, DestroyOutcome
<1>4. ASSUME NEW o \in Obj, reset(o) \/ set(o) PROVE Quiet \/ NewValueOf(o)
  BY <1>0, <1>4, ResetOutcome, SetOutcome DEF Rewrites, NewValueOf
<1>5. ASSUME NEW o \in Obj, NEW k \in Key, add(o, k) PROVE NewValueOf(o)
  BY <1>5, AddOutcome DEF Rewrites, NewValueOf
<1>6. ASSUME NEW o \in Obj, NEW k \in Key, contains(o, k) \/ contains_array(o, k)
      PROVE  Quiet
  BY <1>6, LookupOutcome
<1>7. ASSUME NEW o \in Obj, take_bitmap(o) PROVE GetsSome
  BY <1>7, TakeOutcome DEF GetsSome
<1>8. ASSUME NEW len \in RawLen, bring_bytes(len) PROVE GetsSome
  BY <1>8, BringOutcome DEF GetsSome
<1> QED
  BY <1>1, <1>2, <1>3, <1>4, <1>5, <1>6, <1>7, <1>8 DEF Next

\* So the invariant needs one lemma for each kind.
LEMMA NextKeepsIInv == IInv /\ [Next]_vars => IInv'
<1> SUFFICES ASSUME IInv, [Next]_vars PROVE IInv'
  OBVIOUS
<1>1. CASE Quiet
  BY <1>1, QuietKeepsIInv
<1>2. CASE UNCHANGED vars
  BY <1>2 DEF vars, IInv, TypeOK, FiltersInv, OwnInv, RawInv, RawFilter
<1>3. CASE GetsSome
  BY <1>3, GetsKeepsIInv DEF GetsSome
<1>4. CASE drop_bytes
  BY <1>4, DropKeepsIInv
<1>5. ASSUME NEW o \in Obj, NewValueOf(o) PROVE IInv'
  BY <1>5, NewValueKeepsIInv DEF NewValueOf
<1>6. ASSUME NEW o \in Obj, FailedAssign(o) PROVE IInv'
  BY <1>6, SpoilsKeepsIInv DEF FailedAssign
<1>7. ASSUME NEW o \in Obj, Destroys(o) PROVE IInv'
  BY <1>7, DestroysKeepsIInv
<1> QED
  BY <1>1, <1>2, <1>3, <1>4, <1>5, <1>6, <1>7, NextIsOfAKind

\* The invariant holds in every reachable state.
LEMMA Invariance == Spec => []IInv
<1> QED
  BY InitIInv, NextKeepsIInv, PTL DEF Spec

------------------------------------------------------------------------------
(* The theorems.                                                           *)

\* The objects, the heap, the byte array in transit and the results keep their
\* types, and no call sets a bit outside a block.
THEOREM TypeCorrect == Spec => []TypeOK
<1>1. IInv => TypeOK
  BY DEF IInv
<1> QED
  BY <1>1, Invariance, PTL

\* A block has one owner: an object or the program.  Copying, moving, assigning,
\* failing and destroying, in any order and with any number of objects, never
\* make two pointers to a block, or one to a block that was freed.
THEOREM BlocksHaveOneOwner == Spec => []SoleOwner
<1>1. IInv => SoleOwner
  <2> SUFFICES ASSUME IInv, NEW p \in Block, Owned(p)
               PROVE  /\ heap[p].live
                      /\ Cardinality(Owners(p)) + (IF raw.bf = p THEN 1 ELSE 0) = 1
    BY DEF SoleOwner
  <2>1. Owners(p) \subseteq Obj
    BY DEF Owners, IInv, TypeOK
  <2>2. CASE raw.bf = p
    <3>1. Owners(p) = {} /\ heap[p].live
      BY <2>1, <2>2, NullIsNoBlock DEF Owners, IInv, OwnInv, RawInv
    <3>2. Cardinality({}) = 0
      BY FS_EmptySet
    <3> QED
      BY <2>2, <3>1, <3>2
  <2>3. CASE raw.bf # p
    <3>1. PICK o \in Obj : o \in alive /\ obj[o].bf = p
      BY <2>1, <2>3 DEF Owned, Owners
    <3>2. Owners(p) = {o}
      BY <2>1, <3>1 DEF Owners, IInv, OwnInv
    <3>3. heap[p].live
      BY <3>1, NullIsNoBlock DEF IInv, OwnInv, FiltersInv, Sound
    <3>4. Cardinality({o}) = 1
      BY FS_Singleton
    <3> QED
      BY <2>3, <3>2, <3>3, <3>4
  <2> QED
    BY <2>2, <2>3
<1> QED
  BY <1>1, Invariance, PTL

\* Whatever a call reads or writes lies in the block of the object it is called
\* on, and what an assignment that threw left behind points to nothing.
THEOREM MemorySafety == Spec => []MemorySafe
<1>1. IInv => MemorySafe
  <2> SUFFICES ASSUME IInv PROVE MemorySafe
    OBVIOUS
  <2>1. ASSUME NEW o \in Obj, Usable(o)
        PROVE  /\ obj[o].ready = 1 /\ obj[o].bf \in Block
               /\ obj[o].bytes <= heap[obj[o].bf].size
               /\ \A k \in Key : \A x \in Probes(obj[o], k) : x \div 8 < obj[o].bytes
    <3>1. Sound(obj[o], heap, keys[o]) /\ WellSized(obj[o]) /\ obj[o].bits # 0
      BY <2>1, UsableIsSound
    <3>2. \A k \in Key : Probes(obj[o], k) \subseteq 0 .. obj[o].bits - 1
      BY <3>1, ProbesInBits
    <3>3. \A x \in 0 .. obj[o].bits - 1 : x \div 8 < obj[o].bytes
      BY <3>1, BitsInBytes
    <3> QED
      BY <3>1, <3>2, <3>3 DEF Sound
  <2>2. raw.bf # NULL => heap[raw.bf].size = raw.len
    BY DEF IInv, RawInv
  <2>3. \A o \in spoiled : obj[o].bf = NULL
    BY DEF IInv, TypeOK, OwnInv
  <2> QED
    BY <2>1, <2>2, <2>3 DEF MemorySafe
<1> QED
  BY <1>1, Invariance, PTL

\* No false negatives, through copies, assignments and byte arrays alike, for
\* any hash function.
THEOREM NoFalseNegatives == Spec => []NoFalseNegative
<1>1. IInv => NoFalseNegative
  BY UsableIsSound DEF NoFalseNegative, Contained, Ones
<1> QED
  BY <1>1, Invariance, PTL

\* What division leaves over, by a divisor that is not a literal.
LEMMA DivMod ==
  ASSUME NEW d \in Int, NEW n \in Int, NEW q \in Int, NEW r \in Int,
         d > 0, n >= 0, q = n \div d, r = n % d
  PROVE  n = q * d + r
OBVIOUS

\* A word loop and a left-over loop count every bit of the byte array once, for
\* any word size and any number of bytes.
LEMMA CountedIsAll ==
  ASSUME NEW bytes \in Nat
  PROVE  Counted(bytes) = 0 .. 8 * bytes - 1
<1>1. WordBytes \in Int /\ WordBytes > 0 /\ bytes \in Int /\ bytes >= 0
  BY ObjAssumption
<1>2. PICK q \in Int : q = bytes \div WordBytes
  BY <1>1
<1>3. PICK r \in Int : r = bytes % WordBytes
  BY <1>1
<1>4. bytes = q * WordBytes + r
  BY <1>1, <1>2, <1>3, DivMod
<1>5. PICK w \in Int : w = q * WordBytes
  BY <1>1
<1>6. 8 * WordBytes * q = 8 * w
  BY <1>1, <1>5
<1>7. bytes - r = w
  BY <1>4, <1>5
<1>8. \A x \in 0 .. 8 * bytes - 1 : x < 8 * w \/ x \div 8 >= w
  OBVIOUS
<1>9. Counted(bytes) = {x \in 0 .. 8 * bytes - 1 : x < 8 * w \/ x \div 8 >= w}
  BY <1>2, <1>3, <1>6, <1>7 DEF Counted
<1> QED
  BY <1>8, <1>9

\* popcount counts every bit of the filter once, whatever the number of bytes that
\* is left over after the whole words (BloomFilter.h:146).
THEOREM PopcountExact == Spec => []PopcountIsExact
<1>1. IInv => PopcountIsExact
  <2> SUFFICES ASSUME IInv, NEW o \in Obj, Usable(o)
               PROVE  popcount(o) =
                        Cardinality({x \in Ones(o) : x \div 8 < obj[o].bytes})
    BY DEF PopcountIsExact
  <2>1. Ones(o) \subseteq Nat /\ obj[o].bytes \in Nat
    BY UsableBlock DEF Ones
  <2>2. \A x \in Nat : x \div 8 < obj[o].bytes <=> x \in 0 .. 8 * obj[o].bytes - 1
    BY <2>1
  <2>3. Counted(obj[o].bytes) \intersect Ones(o)
          = {x \in Ones(o) : x \div 8 < obj[o].bytes}
    BY <2>1, <2>2, CountedIsAll
  <2> QED
    BY <2>3 DEF popcount
<1> QED
  BY <1>1, Invariance, PTL

------------------------------------------------------------------------------
(* Blocks are not lost.                                                    *)

\* A step that gives an object a new value gives back the block it had, or
\* keeps it, and owns the block it uses.
LEMMA NewValueLosesNothing ==
  ASSUME IInv, NEW o \in Obj, NEW b, NEW ks, NewValue(o, b, ks), NEW p \in Block
  PROVE  ~LosesBlock(p)
<1> SUFFICES ASSUME LosesBlock(p) PROVE FALSE
  OBVIOUS
<1>1. heap'[p].live /\ ~Owned(p)' /\ (heap[p].live => Owned(p))
  BY DEF LosesBlock
<1>2. obj'[o] = b /\ o \in alive' /\ alive' = alive \union {o}
  BY DEF NewValue, Becomes, IInv, TypeOK
<1>3. p # b.bf
  BY <1>1, <1>2 DEF Owned, Owners
<1>4. p # obj[o].bf /\ heap'[p] = heap[p]
  BY <1>1, <1>3 DEF NewValue, NoBlock
<1>5. Owned(p)
  BY <1>1, <1>4
<1>6. CASE raw.bf = p
  <2>1. raw' = raw
    BY <1>3, <1>6 DEF NewValue
  <2> QED
    BY <1>1, <1>6, <2>1 DEF Owned
<1>7. CASE raw.bf # p
  <2>1. PICK u \in alive : obj[u].bf = p
    BY <1>5, <1>7 DEF Owned, Owners
  <2>2. u \in Obj /\ u # o
    BY <1>4, <2>1 DEF IInv, TypeOK
  <2>3. obj'[u] = obj[u] /\ u \in alive'
    BY <1>2, <2>1, <2>2, NewValueFrame
  <2> QED
    BY <1>1, <2>1, <2>3 DEF Owned, Owners
<1> QED
  BY <1>6, <1>7

\* An assignment whose realloc fails is the one call that loses a block.
THEOREM LeaksOnlyByFailedAssign == Spec => LeakOnlyByFailedAssign
<1> DEFINE Fails == \E o, from \in Obj : assign(o, from) /\ result' = Throws
<1>1. IInv /\ [Next]_vars => [\A p \in Block : LosesBlock(p) => Fails]_vars
  <2> SUFFICES ASSUME IInv, [Next]_vars, NEW p \in Block, LosesBlock(p)
               PROVE  Fails
    OBVIOUS
  <2>0. heap'[p].live /\ ~Owned(p)' /\ (heap[p].live => Owned(p))
    BY DEF LosesBlock
  <2>1. CASE UNCHANGED <<alive, obj, heap, raw>>
    BY <2>0, <2>1 DEF Owned, Owners
  <2>2. Quiet \/ UNCHANGED vars => UNCHANGED <<alive, obj, heap, raw>>
    BY DEF Quiet, vars
  <2>3. ASSUME NEW q, NEW len, NEW ones, NEW args, NEW ks,
               Gets(q, len, ones, args, ks)
        PROVE  FALSE
    <3>1. /\ raw'.bf = q /\ raw.bf = NULL /\ UNCHANGED <<alive, obj>>
          /\ q \in Block /\ heap' = [heap EXCEPT ![q] = BlockOf(len, ones)]
      BY <2>3 DEF Gets, Carries
    <3>2. p # q /\ heap'[p] = heap[p]
      BY <2>0, <3>1 DEF Owned, IInv, TypeOK
    <3> QED
      BY <2>0, <3>1, <3>2, NullIsNoBlock DEF Owned, Owners
  <2>4. CASE drop_bytes
    <3>1. /\ heap' = [heap EXCEPT ![raw.bf] = NoBlock] /\ raw.bf \in Block
          /\ UNCHANGED <<alive, obj>>
      BY <2>4 DEF drop_bytes, IInv, TypeOK
    <3>2. p # raw.bf /\ heap'[p] = heap[p]
      BY <2>0, <3>1 DEF IInv, TypeOK, NoBlock
    <3> QED
      BY <2>0, <3>1, <3>2 DEF Owned, Owners
  <2>5. ASSUME NEW o \in Obj, NewValueOf(o) PROVE FALSE
    BY <2>5, NewValueLosesNothing DEF NewValueOf
  <2>6. ASSUME NEW o \in Obj, FailedAssign(o) PROVE Fails
    BY <2>6 DEF FailedAssign, Spoils
  <2>7. ASSUME NEW o \in Obj, Destroys(o) PROVE FALSE
    <3>1. /\ raw' = raw /\ alive' = alive \ {o}
          /\ \A u \in Obj : u # o => obj'[u] = obj[u]
          /\ obj[o].bf \in Block => heap' = [heap EXCEPT ![obj[o].bf] = NoBlock]
          /\ obj[o].bf \notin Block => heap' = heap
      BY <2>7 DEF Destroys, IInv, TypeOK
    <3>2. p # obj[o].bf /\ heap'[p] = heap[p]
      BY <2>0, <3>1 DEF IInv, TypeOK, NoBlock
    <3> QED
      BY <2>0, <3>1, <3>2 DEF Owned, Owners, IInv, TypeOK
  <2> QED
    BY <2>1, <2>2, <2>3, <2>4, <2>5, <2>6, <2>7, NextIsOfAKind DEF GetsSome
<1> QED
  BY <1>1, Invariance, PTL DEF Spec, LeakOnlyByFailedAssign

------------------------------------------------------------------------------
(* Every call is a step of FilterValues: what a program sees of a filter   *)
(* are its arguments, its keys and the keys it answers true for.           *)

ArgsView(o) == IF Usable(o) THEN ArgsOf(obj[o]) ELSE NoArgs
KeysView(o) == IF Usable(o) THEN keys[o] ELSE {}
PositiveView(o) == IF Usable(o) THEN Positive(obj[o], Ones(o)) ELSE {}

PostView == [sent |-> raw.bf # NULL, args |-> raw.args, members |-> raw.keys,
             positive |-> IF raw.bf = NULL THEN {} ELSE RawPositive]

SameView(o) == /\ Usable(o)' <=> Usable(o)
               /\ ArgsView(o)' = ArgsView(o)
               /\ KeysView(o)' = KeysView(o)
               /\ PositiveView(o)' = PositiveView(o)

\* Values!Becomes, object by object.
LEMMA BecomesByView ==
  ASSUME NEW o \in Obj, \A u \in Obj : u # o => SameView(u), Usable(o)',
         NEW a, NEW m, NEW q,
         ArgsView(o)' = a /\ KeysView(o)' = m /\ PositiveView(o)' = q
  PROVE  Values!Becomes(o, a, m, q)
<1>1. {u \in Obj : Usable(u)'} = {u \in Obj : Usable(u)} \union {o}
  BY DEF SameView
<1>2. [u \in Obj |-> ArgsView(u)'] = [[u \in Obj |-> ArgsView(u)] EXCEPT ![o] = a]
  BY DEF SameView
<1>3. [u \in Obj |-> KeysView(u)'] = [[u \in Obj |-> KeysView(u)] EXCEPT ![o] = m]
  BY DEF SameView
<1>4. [u \in Obj |-> PositiveView(u)']
        = [[u \in Obj |-> PositiveView(u)] EXCEPT ![o] = q]
  BY DEF SameView
<1> QED
  BY <1>1, <1>2, <1>3, <1>4
     DEF Values!Becomes, ArgsView, KeysView, PositiveView

\* A step of one object, which loses its value.
LEMMA LoseByView ==
  ASSUME NEW o \in Obj, \A u \in Obj : u # o => SameView(u), ~Usable(o)',
         result' \in {Void, Throws}, PostView' = PostView
  PROVE  Values!Lose(o)
<1>1. {u \in Obj : Usable(u)'} = {u \in Obj : Usable(u)} \ {o}
  BY DEF SameView
<1>2. ArgsView(o)' = NoArgs /\ KeysView(o)' = {} /\ PositiveView(o)' = {}
  BY DEF ArgsView, KeysView, PositiveView, NoArgs
<1>3. [u \in Obj |-> ArgsView(u)'] = [[u \in Obj |-> ArgsView(u)] EXCEPT ![o] = NoArgs]
  BY <1>2 DEF SameView
<1>4. [u \in Obj |-> KeysView(u)'] = [[u \in Obj |-> KeysView(u)] EXCEPT ![o] = {}]
  BY <1>2 DEF SameView
<1>5. [u \in Obj |-> PositiveView(u)']
        = [[u \in Obj |-> PositiveView(u)] EXCEPT ![o] = {}]
  BY <1>2 DEF SameView
<1> QED
  BY <1>1, <1>3, <1>4, <1>5
     DEF Values!Lose, ArgsView, KeysView, PositiveView, PostView,
         Values!Ok, Values!Throws, Void, Throws

\* A step that changes the view of no object.
LEMMA FiltersStayByView ==
  ASSUME \A u \in Obj : SameView(u)
  PROVE  UNCHANGED Values!filters
<1>1. {u \in Obj : Usable(u)'} = {u \in Obj : Usable(u)}
  BY DEF SameView
<1>2. /\ [u \in Obj |-> ArgsView(u)'] = [u \in Obj |-> ArgsView(u)]
      /\ [u \in Obj |-> KeysView(u)'] = [u \in Obj |-> KeysView(u)]
      /\ [u \in Obj |-> PositiveView(u)'] = [u \in Obj |-> PositiveView(u)]
  BY DEF SameView
<1> QED
  BY <1>1, <1>2 DEF Values!filters, ArgsView, KeysView, PositiveView

\* An object whose struct, keys and block stay looks the same.
LEMMA LooksTheSame ==
  ASSUME IInv, NEW u \in Obj, obj'[u] = obj[u], keys'[u] = keys[u],
         u \in alive' \ spoiled' <=> u \in alive \ spoiled,
         obj[u].bf \in Block => heap'[obj[u].bf] = heap[obj[u].bf]
  PROVE  SameView(u)
<1>1. Usable(u)' <=> Usable(u)
  BY DEF Usable
<1>2. Usable(u) => Ones(u)' = Ones(u)
  BY UsableBlock DEF Ones
<1> QED
  BY <1>1, <1>2 DEF SameView, ArgsView, KeysView, PositiveView

\* The byte array looks the same when it and its block stay.
LEMMA PostLooksTheSame ==
  ASSUME IInv, raw' = raw, raw.bf \in Block => heap'[raw.bf] = heap[raw.bf]
  PROVE  PostView' = PostView
<1>1. raw.bf \in Block \union {NULL}
  BY DEF IInv, TypeOK
<1>2. RawFilter' = RawFilter
  BY DEF RawFilter
<1> QED
  BY <1>1, <1>2 DEF PostView, RawPositive

\* A new value, seen from outside: the other filters are what they were.
LEMMA NewValueView ==
  ASSUME IInv, NEW o \in Obj, NEW b, NEW ks, NewValue(o, b, ks)
  PROVE  /\ \A u \in Obj : u # o => SameView(u)
         /\ raw' = raw => PostView' = PostView
         /\ result' = Void
         /\ Usable(o)' <=> b.bits # 0
         /\ b.bits # 0 => \A a, m, q :
              a = ArgsOf(b) /\ m = ks /\ q = Positive(b, heap'[b.bf].ones)
                => Values!Becomes(o, a, m, q)
<1>1. \A u \in Obj : u # o => SameView(u)
  BY NewValueFrame, LooksTheSame
<1>2. raw' = raw => PostView' = PostView
  BY NewValueFrame, PostLooksTheSame
<1>3. o \in alive' \ spoiled' /\ obj'[o] = b /\ keys'[o] = ks /\ result' = Void
  BY DEF NewValue, Becomes, IInv, TypeOK
<1>4. Usable(o)' <=> b.bits # 0
  BY <1>3 DEF Usable
<1>5. ASSUME b.bits # 0, NEW a, NEW m, NEW q,
             a = ArgsOf(b), m = ks, q = Positive(b, heap'[b.bf].ones)
      PROVE  Values!Becomes(o, a, m, q)
  <2>1. ArgsView(o)' = a /\ KeysView(o)' = m /\ PositiveView(o)' = q
    BY <1>3, <1>4, <1>5 DEF ArgsView, KeysView, PositiveView, Ones
  <2> QED
    BY <1>1, <1>4, <1>5, <2>1, BecomesByView
<1> QED
  BY <1>1, <1>2, <1>3, <1>4, <1>5

\* Without a byte array the program has nothing in transit.
LEMMA NoRawView ==
  ASSUME raw' = NoRaw
  PROVE  PostView' = Values!Empty
<1>1. raw'.bf = NULL /\ raw'.args = NoArgs /\ raw'.keys = {}
  BY DEF NoRaw
<1>2. (raw'.bf # NULL) = FALSE
  BY <1>1
<1> QED
  BY <1>1, <1>2, Zenon DEF PostView, Values!Empty

\* A filter that is made with no bits is no filter: nothing is visible of it.
LEMMA NewWithoutBits ==
  ASSUME IInv, NEW o \in Obj, o \notin alive, NEW b, NEW ks,
         NewValue(o, b, ks), b.bits = 0
  PROVE  /\ raw' = raw => Values!Lose(o)
         /\ raw' = NoRaw => Values!Withdraw
<1>1. /\ \A u \in Obj : u # o => SameView(u)
      /\ raw' = raw => PostView' = PostView
      /\ ~Usable(o)' /\ result' = Void
  BY NewValueView
<1>2. raw' = raw => Values!Lose(o)
  BY <1>1, LoseByView
<1>3. ASSUME raw' = NoRaw PROVE Values!Withdraw
  <2>1. SameView(o)
    BY <1>1 DEF Usable, SameView, ArgsView, KeysView, PositiveView, NoArgs
  <2>2. UNCHANGED Values!filters
    BY <1>1, <2>1, FiltersStayByView
  <2> QED
    BY <1>1, <1>3, <2>2
       DEF Values!Withdraw, Values!Empty, Values!Ok, NoRaw, NoArgs, Void
<1> QED
  BY <1>2, <1>3

\* Construction gives an object an empty filter.
LEMMA ConstructSteps ==
  ASSUME IInv, NEW o \in Obj, NEW b, NewValue(o, b, {}), raw' = raw,
         o \notin alive, heap'[b.bf].ones = {}
  PROVE  Values!Next
<1>1. CASE b.bits = 0
  BY <1>1, NewWithoutBits DEF Values!Next
<1>2. CASE b.bits # 0
  <2>1. /\ Values!Becomes(o, ArgsOf(b), {}, {})
        /\ PostView' = PostView /\ result' = Void
    <3>1. WellSized(b)
      BY SizedByArgsIsWellSized DEF NewValue, Sound
    <3>2. Positive(b, heap'[b.bf].ones) = {}
      BY <1>2, <3>1, ProbesInBits DEF Positive
    <3> QED
      BY <1>2, <3>2, NewValueView
  <2>2. ArgsOf(b) \in FilterArgs
    BY DEF NewValue, Sound
  <2>3. Values!New(o, ArgsOf(b))
    BY <2>1 DEF Values!New, Values!Ok, Void, PostView, Usable
  <2> QED
    BY <2>2, <2>3 DEF Values!Next, FilterArgs
<1> QED
  BY <1>1, <1>2 DEF NewValue, Sound

\* A filter made of, or set to, the byte array in transit is the one that was
\* sent if its arguments are the sender's.
LEMMA ReceiveSteps ==
  ASSUME IInv, NEW o \in Obj, NEW b, NewValue(o, b, Arriving(b)), b.bits # 0,
         raw.bf # NULL, raw' \in {raw, NoRaw},
         Positive(b, heap'[b.bf].ones) = Positive(b, heap[raw.bf].ones)
  PROVE  Values!Next
<1>1. /\ SizedByArgs(b) /\ ArgsOf(b) \in FilterArgs
  BY DEF NewValue, Sound
<1>2. /\ \A a, m, q : a = ArgsOf(b) /\ m = Arriving(b)
                        /\ q = Positive(b, heap[raw.bf].ones)
                          => Values!Becomes(o, a, m, q)
      /\ raw' = raw => PostView' = PostView
      /\ result' = Void
  BY NewValueView
<1>3. CASE ArgsOf(b) = raw.args
  <2>1. Positive(b, heap[raw.bf].ones) = RawPositive
    <3>1. RawFilter = FilterOf(ArgsOf(b))
      BY <1>3, RawFilterIsFilterOf
    <3>2. \A k : Probes(RawFilter, k) = Probes(b, k)
      BY <1>1, <3>1, FilterOfArgs
    <3> QED
      BY <1>1, <1>3, <3>2, NoArgsIsNotFilterArgs DEF RawPositive, Positive
  <2>2. Arriving(b) = raw.keys
    BY <1>3 DEF Arriving
  <2>3. \A a, m, q : a = raw.args /\ m = raw.keys /\ q = RawPositive
                        => Values!Becomes(o, a, m, q)
    BY <1>2, <1>3, <2>1, <2>2
  <2>4. raw' = NoRaw => PostView' = Values!Empty
    BY NoRawView
  <2>5. Values!Becomes(o, raw.args, raw.keys, RawPositive)
    BY <2>3 DEF Values!Becomes
  <2>6. Values!Receive(o, ArgsOf(b))
    BY <1>2, <1>3, <2>4, <2>5
       DEF Values!Receive, Values!Becomes, PostView, Values!Ok, Void
  <2> QED
    BY <1>1, <2>6 DEF Values!Next, FilterArgs
<1>4. CASE ArgsOf(b) # raw.args
  <2>1. Arriving(b) = {} /\ Positive(b, heap[raw.bf].ones) \in SUBSET Key
    BY <1>4 DEF Arriving, Positive
  <2>2. \E q \in SUBSET Key : Values!Becomes(o, ArgsOf(b), {}, q)
    BY <1>2, <2>1
  <2>3. raw' = NoRaw => PostView' = Values!Empty
    BY NoRawView
  <2>4. Values!Receive(o, ArgsOf(b))
    BY <1>2, <1>4, <2>2, <2>3 DEF Values!Receive, PostView, Values!Ok, Void
  <2> QED
    BY <1>1, <2>4 DEF Values!Next, FilterArgs
<1> QED
  BY <1>3, <1>4

\* set gives an object the keys of the bytes in transit.
LEMMA SetSteps ==
  ASSUME IInv, NEW o \in Obj, raw.bf # NULL,
         Rewrites(o, Beyond(o) \union heap[raw.bf].ones, Arriving(obj[o]))
  PROVE  Values!Next
<1>1. /\ NewValue(o, obj[o], Arriving(obj[o])) /\ obj[o].bits # 0 /\ raw' = raw
      /\ heap'[obj[o].bf].ones = Beyond(o) \union heap[raw.bf].ones
      /\ Usable(o)
  BY DEF Rewrites, Usable
<1>2. \A k \in Key : Probes(obj[o], k) \intersect Beyond(o) = {}
  <2> SUFFICES ASSUME NEW k \in Key, NEW x \in Probes(obj[o], k) PROVE x \notin Beyond(o)
    OBVIOUS
  <2>1. x \in 0 .. 8 * obj[o].bytes - 1 /\ obj[o].bytes \in Nat
    BY <1>1, UsableBlock
  <2> QED
    BY <2>1 DEF Beyond
<1>3. Positive(obj[o], heap'[obj[o].bf].ones) = Positive(obj[o], heap[raw.bf].ones)
  BY <1>1, <1>2 DEF Positive
<1> QED
  BY <1>1, <1>3, ReceiveSteps

\* A copy has the arguments, the keys and the answers of its source.
LEMMA CopySteps ==
  ASSUME IInv, NEW o \in Obj, NEW from \in Obj, NEW p, Copies(o, from, p)
  PROVE  Values!Next
<1> DEFINE b == CopyOf(from, p)
<1>1. /\ NewValue(o, b, keys[from]) /\ Usable(from) /\ raw' = raw
      /\ heap'[p].ones = Copied(obj[from])
  BY DEF Copies
<1>2. obj[from] \in StructOf(Block \union {NULL}) /\ obj[from].bits # 0
  BY <1>1 DEF IInv, TypeOK, Usable
<1>3. /\ b.bf = p /\ ArgsOf(b) = ArgsOf(obj[from])
      /\ b.bits = obj[from].bits /\ b.hashes = obj[from].hashes
      /\ b.hashSeed = obj[from].hashSeed
  BY <1>2 DEF CopyOf, ArgsOf
<1> HIDE DEF b
<1>4. Positive(b, heap'[b.bf].ones) = Positive(obj[from], Ones(from))
  <2>1. \A k : Probes(b, k) = Probes(obj[from], k)
    BY <1>3, SameProbes
  <2>2. \A k \in Key : Probes(obj[from], k) \subseteq 0 .. 8 * obj[from].bytes - 1
    BY <1>1, UsableBlock
  <2>3. \A k \in Key : Probes(obj[from], k) \subseteq Copied(obj[from])
                         <=> Probes(obj[from], k) \subseteq Ones(from)
    BY <1>1, <2>2, UsableBlock DEF Copied, Ones
  <2> QED
    BY <1>1, <1>3, <2>1, <2>3 DEF Positive
<1>5. /\ \A a, m, q : a = ArgsOf(obj[from]) /\ m = keys[from]
                        /\ q = Positive(obj[from], Ones(from))
                          => Values!Becomes(o, a, m, q)
      /\ PostView' = PostView /\ result' = Void
  BY <1>1, <1>2, <1>3, <1>4, NewValueView
<1>6. Values!Copy(o, from)
  <2>1. /\ from \in {u \in Obj : Usable(u)}
        /\ [u \in Obj |-> ArgsView(u)][from] = ArgsOf(obj[from])
        /\ [u \in Obj |-> KeysView(u)][from] = keys[from]
        /\ [u \in Obj |-> PositiveView(u)][from] = Positive(obj[from], Ones(from))
    BY <1>1 DEF ArgsView, KeysView, PositiveView
  <2>2. Values!Becomes(o, ArgsOf(obj[from]), keys[from], Positive(obj[from], Ones(from)))
    BY <1>5 DEF Values!Becomes
  <2> QED
    BY <1>5, <2>1, <2>2 DEF Values!Copy, Values!Becomes, Values!Ok, Void, PostView,
                            ArgsView, KeysView, PositiveView
<1> QED
  BY <1>6 DEF Values!Next

\* add gives an object one key more.
LEMMA AddSteps ==
  ASSUME IInv, NEW o \in Obj, NEW k \in Key,
         Rewrites(o, Ones(o) \union Probes(obj[o], k), keys[o] \union {k})
  PROVE  Values!Next
<1> DEFINE q == Positive(obj[o], Ones(o) \union Probes(obj[o], k))
<1>1. /\ NewValue(o, obj[o], keys[o] \union {k}) /\ obj[o].bits # 0 /\ raw' = raw
      /\ heap'[obj[o].bf].ones = Ones(o) \union Probes(obj[o], k)
      /\ Usable(o)
  BY DEF Rewrites, Usable
<1>2. /\ \A a, m, r : a = ArgsOf(obj[o]) /\ m = keys[o] \union {k} /\ r = q
                        => Values!Becomes(o, a, m, r)
      /\ PostView' = PostView /\ result' = Void
  BY <1>1, NewValueView
<1>3. /\ Positive(obj[o], Ones(o)) \union {k} \subseteq q /\ q \in SUBSET Key
      /\ k \in Positive(obj[o], Ones(o)) => q = Positive(obj[o], Ones(o))
  BY DEF Positive
<1> HIDE DEF q
<1>4. Values!Add(o, k)
  <2>1. /\ o \in {u \in Obj : Usable(u)}
        /\ [u \in Obj |-> ArgsView(u)][o] = ArgsOf(obj[o])
        /\ [u \in Obj |-> KeysView(u)][o] = keys[o]
        /\ [u \in Obj |-> PositiveView(u)][o] = Positive(obj[o], Ones(o))
    BY <1>1 DEF ArgsView, KeysView, PositiveView
  <2> QED
    BY <1>2, <1>3, <2>1
       DEF Values!Add, Values!Ok, Void, PostView, ArgsView, KeysView, PositiveView
<1> QED
  BY <1>4 DEF Values!Next

\* reset takes all keys from an object.
LEMMA ResetSteps ==
  ASSUME IInv, NEW o \in Obj, Rewrites(o, Beyond(o), {})
  PROVE  Values!Next
<1>1. /\ NewValue(o, obj[o], {}) /\ obj[o].bits # 0 /\ raw' = raw
      /\ heap'[obj[o].bf].ones = Beyond(o)
      /\ Usable(o)
  BY DEF Rewrites, Usable
<1>2. Positive(obj[o], Beyond(o)) = {}
  <2>1. \A k \in Key : ~(Probes(obj[o], k) \subseteq Beyond(o))
    BY <1>1, UsableBlock DEF Beyond
  <2> QED
    BY <2>1 DEF Positive
<1>3. /\ \A a, m, q : a = ArgsOf(obj[o]) /\ m = {} /\ q = {}
                        => Values!Becomes(o, a, m, q)
      /\ PostView' = PostView /\ result' = Void
  BY <1>1, <1>2, NewValueView
<1>4. Values!Clear(o)
  BY <1>1, <1>3 DEF Values!Clear, Values!Ok, Void, PostView
<1> QED
  BY <1>4 DEF Values!Next

\* A call that changes nothing: it refused, or it looked a key up.
LEMMA ThrowSteps ==
  ASSUME throw
  PROVE  Values!Next
<1>1. \A u \in Obj : SameView(u)
  BY DEF throw, SameView, ArgsView, KeysView, PositiveView, Usable, Ones
<1>2. PostView' = PostView
  BY DEF throw, PostView, RawPositive, RawFilter
<1>3. UNCHANGED Values!filters
  BY <1>1, FiltersStayByView
<1>4. Values!Refuse
  BY <1>2, <1>3 DEF throw, Values!Refuse, Values!filters, Values!Throws, Throws, PostView
<1> QED
  BY <1>4 DEF Values!Next

\* contains answers by the view.
LEMMA LookupSteps ==
  ASSUME NEW o \in Obj, NEW k \in Key, contains(o, k) \/ contains_array(o, k)
  PROVE  Values!Next
<1>1. /\ Usable(o) /\ UNCHANGED <<alive, obj, heap, raw, keys, spoiled>>
      /\ \E b \in Key : result' = IF Contained(o, b) THEN 1 ELSE 0
  BY DEF contains, contains_array
<1>2. \A u \in Obj : SameView(u)
  BY <1>1 DEF SameView, ArgsView, KeysView, PositiveView, Usable, Ones
<1>3. PostView' = PostView
  BY <1>1 DEF PostView, RawPositive, RawFilter
<1>4. UNCHANGED Values!filters
  BY <1>2, FiltersStayByView
<1>5. PICK b \in Key : result' = IF Contained(o, b) THEN 1 ELSE 0
  BY <1>1
<1>6. Contained(o, b) <=> b \in [u \in Obj |-> PositiveView(u)][o]
  BY <1>1 DEF Contained, PositiveView, Positive
<1>7. Values!Lookup(o, b)
  BY <1>1, <1>3, <1>4, <1>5, <1>6
     DEF Values!Lookup, Values!filters, PostView, PositiveView
<1> QED
  BY <1>7 DEF Values!Next

\* A spoiled or destroyed object is no longer a filter.
LEMMA SpoilSteps ==
  ASSUME IInv, NEW o \in Obj, Spoils(o) \/ Destroys(o)
  PROVE  Values!Next
<1>1. /\ o \notin alive' \ spoiled' /\ raw' = raw /\ result' \in {Void, Throws}
      /\ \A u \in Obj : u # o => /\ obj'[u] = obj[u] /\ keys'[u] = keys[u]
                                 /\ u \in alive' \ spoiled' <=> u \in alive \ spoiled
  BY DEF Spoils, Destroys, IInv, TypeOK
<1>2. \A p \in Block : p # obj[o].bf => heap'[p] = heap[p]
  BY DEF Spoils, Destroys, IInv, TypeOK
<1>3. ASSUME NEW u \in Obj, u # o, obj[u].bf \in Block
      PROVE  heap'[obj[u].bf] = heap[obj[u].bf]
  BY <1>2, <1>3 DEF IInv, OwnInv
<1>4. \A u \in Obj : u # o => SameView(u)
  BY <1>1, <1>3, LooksTheSame
<1>5. raw.bf \in Block => heap'[raw.bf] = heap[raw.bf]
  BY <1>2 DEF IInv, OwnInv
<1>6. ~Usable(o)'
  BY <1>1 DEF Usable
<1>7. Values!Lose(o)
  BY <1>1, <1>4, <1>5, <1>6, LoseByView, PostLooksTheSame
<1> QED
  BY <1>7 DEF Values!Next

\* A byte array that the program gets or drops is in none of the filters.
LEMMA FiltersKeepTheirBlocks ==
  ASSUME IInv, NEW p \in Block, raw.bf = p \/ ~heap[p].live,
         \A q \in Block : q # p => heap'[q] = heap[q],
         UNCHANGED <<alive, obj, keys, spoiled>>
  PROVE  UNCHANGED Values!filters
<1>1. \A u \in Obj : obj[u].bf # p
  BY FreeBlockIsUnowned DEF IInv, OwnInv
<1>2. \A u \in Obj : SameView(u)
  BY <1>1, LooksTheSame
<1> QED
  BY <1>2, FiltersStayByView

\* Dropping the bytes in transit changes the view of no object.
LEMMA DropSteps ==
  ASSUME IInv, drop_bytes
  PROVE  Values!Next
<1>1. /\ raw.bf \in Block /\ \A q \in Block : q # raw.bf => heap'[q] = heap[q]
      /\ raw' = NoRaw /\ result' = Void /\ UNCHANGED <<alive, obj, keys, spoiled>>
  BY DEF drop_bytes, IInv, TypeOK
<1>2. UNCHANGED Values!filters
  BY <1>1, FiltersKeepTheirBlocks
<1>3. Values!Withdraw
  BY <1>1, <1>2, NoRawView DEF Values!Withdraw, Values!Ok, Void, PostView
<1> QED
  BY <1>3 DEF Values!Next

\* What the program gets is a byte array of its own.
LEMMA GetsView ==
  ASSUME IInv, NEW p, NEW len, NEW ones, NEW args, NEW ks,
         Gets(p, len, ones, args, ks)
  PROVE  /\ UNCHANGED Values!filters /\ result' = Void
         /\ \A ps : ps = (IF args = NoArgs THEN {} ELSE Positive(FilterOf(args), ones))
              => PostView' = [sent |-> TRUE, args |-> args, members |-> ks, positive |-> ps]
<1>1. /\ p \in Block /\ ~heap[p].live /\ heap' = [heap EXCEPT ![p] = BlockOf(len, ones)]
      /\ raw' = [bf |-> p, len |-> len, args |-> args, keys |-> ks]
      /\ result' = Void /\ UNCHANGED <<alive, obj, keys, spoiled>>
  BY DEF Gets, Carries
<1>2. /\ heap'[p].ones = ones /\ \A q \in Block : q # p => heap'[q] = heap[q]
  BY <1>1 DEF IInv, TypeOK, BlockOf
<1>3. UNCHANGED Values!filters
  BY <1>1, <1>2, FiltersKeepTheirBlocks
<1>4. /\ raw'.bf = p /\ raw'.args = args /\ raw'.keys = ks /\ raw'.bf # NULL
  BY <1>1, NullIsNoBlock
<1>5. RawPositive' = IF args = NoArgs THEN {} ELSE Positive(FilterOf(args), ones)
  BY <1>2, <1>4 DEF RawPositive, RawFilter, FilterOf
<1>6. (raw'.bf # NULL) = TRUE
  BY <1>4
<1> QED
  BY <1>1, <1>3, <1>4, <1>5, <1>6, Zenon DEF PostView

\* Bytes brought from elsewhere carry the keys of no filter.
LEMMA BringSteps ==
  ASSUME IInv, NEW len \in RawLen, bring_bytes(len)
  PROVE  Values!Next
<1>1. PICK p : Gets(p, len, 0 .. 8 * len - 1, NoArgs, {})
  BY BringOutcome
<1>2. /\ UNCHANGED Values!filters /\ result' = Void
      /\ PostView' = [sent |-> TRUE, args |-> NoArgs, members |-> {}, positive |-> {}]
  BY <1>1, GetsView
<1>3. Values!PostBytes
  BY <1>2 DEF Values!PostBytes, Values!Ok, Void, PostView
<1> QED
  BY <1>3 DEF Values!Next

\* The bytes taken from an object carry its keys.
LEMMA TakeSteps ==
  ASSUME IInv, NEW o \in Obj, take_bitmap(o)
  PROVE  Values!Next
<1>1. PICK p : Gets(p, obj[o].bytes, Copied(obj[o]), ArgsOf(obj[o]), keys[o])
  BY TakeOutcome
<1>2. Usable(o)
  BY TakeOutcome
<1>3. SizedByArgs(obj[o]) /\ ArgsOf(obj[o]) # NoArgs
  BY <1>2, UsableIsSound, NoArgsIsNotFilterArgs DEF Sound
<1>4. Positive(FilterOf(ArgsOf(obj[o])), Copied(obj[o])) = Positive(obj[o], Ones(o))
  <2>1. \A k : Probes(FilterOf(ArgsOf(obj[o])), k) = Probes(obj[o], k)
    BY <1>3, FilterOfArgs
  <2>2. \A k \in Key : Probes(obj[o], k) \subseteq Copied(obj[o])
                         <=> Probes(obj[o], k) \subseteq Ones(o)
    BY <1>2, UsableBlock DEF Copied, Ones
  <2> QED
    BY <2>1, <2>2 DEF Positive
<1>5. /\ UNCHANGED Values!filters /\ result' = Void
      /\ PostView' = [sent |-> TRUE, args |-> ArgsOf(obj[o]), members |-> keys[o],
                      positive |-> Positive(obj[o], Ones(o))]
  BY <1>1, <1>3, <1>4, GetsView
<1>6. /\ o \in {u \in Obj : Usable(u)}
      /\ [u \in Obj |-> ArgsView(u)][o] = ArgsOf(obj[o])
      /\ [u \in Obj |-> KeysView(u)][o] = keys[o]
      /\ [u \in Obj |-> PositiveView(u)][o] = Positive(obj[o], Ones(o))
  BY <1>2 DEF ArgsView, KeysView, PositiveView
<1>7. Values!Post(o)
  BY <1>5, <1>6
     DEF Values!Post, Values!Ok, Void, PostView, ArgsView, KeysView, PositiveView
<1> QED
  BY <1>7 DEF Values!Next

\* A constructor given a byte array, moving it or copying it.
LEMMA ArriveSteps ==
  ASSUME IInv, NEW o \in Obj, o \notin alive, NEW b, NewValue(o, b, Arriving(b)),
         raw.bf # NULL, raw' \in {raw, NoRaw},
         heap'[b.bf].ones = heap[raw.bf].ones
  PROVE  Values!Next
<1>1. CASE b.bits = 0
  BY <1>1, NewWithoutBits DEF Values!Next
<1>2. CASE b.bits # 0
  BY <1>2, ReceiveSteps
<1> QED
  BY <1>1, <1>2

\* Every step is a step of FilterValues.
LEMMA NextImplementsFilterValues ==
  ASSUME IInv, [Next]_vars
  PROVE  [Values!Next]_Values!vars
<1>1. ASSUME NEW o \in Obj, Construct(o) PROVE Values!Next
  <2>1. PICK n \in Entries, e \in Error, s \in Seed :
          \/ construct(o, n, e, s)
          \/ construct_moving(o, n, e, s)
          \/ construct_copying(o, n, e, s)
    BY <1>1 DEF Construct
  <2>2. CASE construct(o, n, e, s)
    BY <2>2, ConstructOutcome, ConstructSteps, ThrowSteps
  <2>3. CASE construct_moving(o, n, e, s)
    BY <2>3, MovingOutcome, ArriveSteps, ThrowSteps
  <2>4. CASE construct_copying(o, n, e, s)
    BY <2>4, CopyingOutcome, ArriveSteps, ThrowSteps
  <2> QED
    BY <2>1, <2>2, <2>3, <2>4
<1>2. ASSUME NEW o \in Obj, NEW from \in Obj, copy_construct(o, from) \/ assign(o, from)
      PROVE  Values!Next
  BY <1>2, CopyConstructOutcome, AssignOutcome, CopySteps, SpoilSteps, ThrowSteps
<1>3. ASSUME NEW o \in Obj, destroy(o) PROVE Values!Next
  BY <1>3, DestroyOutcome, SpoilSteps
<1>4. ASSUME NEW o \in Obj, reset(o) \/ set(o) PROVE Values!Next
  BY <1>4, ResetOutcome, ResetSteps, SetOutcome, SetSteps, ThrowSteps
<1>5. ASSUME NEW o \in Obj, NEW k \in Key, add(o, k) PROVE Values!Next
  BY <1>5, AddOutcome, AddSteps
<1>6. ASSUME NEW o \in Obj, NEW k \in Key, contains(o, k) \/ contains_array(o, k)
      PROVE  Values!Next
  BY <1>6, LookupSteps
<1>7. ASSUME NEW o \in Obj, take_bitmap(o) PROVE Values!Next
  BY <1>7, TakeSteps
<1>8. ASSUME NEW len \in RawLen, bring_bytes(len) PROVE Values!Next
  BY <1>8, BringSteps
<1>9. CASE UNCHANGED vars
  <2>1. \A u \in Obj : SameView(u)
    BY <1>9 DEF vars, SameView, ArgsView, KeysView, PositiveView, Usable, Ones
  <2>2. PostView' = PostView /\ result' = result
    BY <1>9 DEF vars, PostView, RawPositive, RawFilter
  <2>3. UNCHANGED Values!filters
    BY <2>1, FiltersStayByView
  <2> QED
    BY <2>2, <2>3 DEF Values!vars, Values!filters, PostView
<1> QED
  BY <1>1, <1>2, <1>3, <1>4, <1>5, <1>6, <1>7, <1>8, <1>9, DropSteps DEF Next

\* No object has a value.
LEMMA InitImplementsFilterValues == Init => Values!Init
<1> SUFFICES ASSUME Init PROVE Values!Init
  OBVIOUS
<1>1. \A o \in Obj : ~Usable(o)
  BY DEF Init, Usable
<1>2. raw.bf = NULL /\ raw.args = NoArgs /\ raw.keys = {} /\ result = Void
  BY DEF Init, NoRaw
<1>3. (raw.bf # NULL) = FALSE
  BY <1>2
<1>4. PostView = Values!Empty
  BY <1>2, <1>3, Zenon DEF PostView, Values!Empty
<1> QED
  BY <1>1, <1>2, <1>4 DEF Values!Init, Values!Ok, Void, PostView

\* Class BloomFilter implements FilterValues: copies share no bits, the receiver
\* of a byte array that was built with the sender's arguments is the sender's
\* equal, a call that throws changes no other filter.
THEOREM Refinement == Spec => ImplementsFilterValues
<1>1. Init => Values!Init
  BY InitImplementsFilterValues
<1>2. IInv /\ [Next]_vars => [Values!Next]_Values!vars
  BY NextImplementsFilterValues
<1> QED
  BY <1>1, <1>2, Invariance, PTL DEF Spec, ImplementsFilterValues, Values!Spec
==============================================================================
