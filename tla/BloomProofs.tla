----------------------------- MODULE BloomProofs -----------------------------
(***************************************************************************)
(* The safety properties of Bloom, for every set of keys and blocks, every *)
(* hash function, every word size and every error rate.                    *)
(***************************************************************************)
EXTENDS Bloom, BloomStructProofs, TLAPS

USE DEF BlockType, StructOf, Probing

------------------------------------------------------------------------------
(* The inductive invariant: types, what the fields of a ready filter are,  *)
(* and that a filter which is not ready, or has no bits, holds no key.     *)

ReadyInv == Ready => /\ WellSized(bloom)
                     /\ bloom.bf \in Block
                     /\ heap[bloom.bf].live
                     /\ heap[bloom.bf].size = bloom.bytes

EmptyInv == ~Probing => inserted = {}

IInv == TypeOK /\ ReadyInv /\ EmptyInv /\ OnlyInsertedBits

\* The early-exit loop of bloom_check_ns and the counting loop of
\* bloom_check_add decide the same thing.
LEMMA IndexSetIsProbes ==
  ASSUME NEW b, WellSized(b), NEW k, NEW ones
  PROVE  ContainedNs(b, ones, k) <=> Probes(b, k) \subseteq ones
BY DEF ContainedNs, Probes, ProbesUpTo, WellSized

\* A block that is left alone, or emptied, holds no bit outside it.
LEMMA BitsStayInBlocks ==
  ASSUME BitsInBlocks,
         \A p \in Block : heap'[p] = heap[p] \/ heap'[p].ones = {}
  PROVE  BitsInBlocks'
<1> SUFFICES ASSUME NEW p \in Block
             PROVE  heap'[p].ones \subseteq 0 .. 8 * heap'[p].size - 1
  BY DEF BitsInBlocks
<1>1. heap[p].ones \subseteq 0 .. 8 * heap[p].size - 1
  BY DEF BitsInBlocks
<1>2. CASE heap'[p] = heap[p]
  BY <1>1, <1>2
<1>3. CASE heap'[p].ones = {}
  BY <1>3
<1> QED
  BY <1>2, <1>3

\* A struct nobody initialised is not ready.
LEMMA InitIInv == Init => IInv
<1> SUFFICES ASSUME Init PROVE IInv
  OBVIOUS
<1>1. ~Ready
  BY DEF Init, Ready
<1>2. bloom \in StructType
  <2>1. PICK r \in {0, 1} :
          bloom = [Cleared EXCEPT !.bf = Garbage, !.ready = r]
    BY DEF Init
  <2>2. 0 \in HashWord
    BY HashAssumption DEF HashWord
  <2> QED
    BY <2>1, <2>2 DEF StructType, Cleared
<1>3. heap \in [Block -> BlockType]
  BY DEF Init, NoBlock
<1>4. BitsInBlocks
  BY DEF Init, NoBlock, BitsInBlocks
<1>5. TypeOK
  BY <1>2, <1>3, <1>4 DEF Init, TypeOK, Void
<1> QED
  BY <1>1, <1>5 DEF IInv, ReadyInv, EmptyInv, OnlyInsertedBits, Init

------------------------------------------------------------------------------
(* Heaps that hold a filter: b's block is live, as long as b says, and its *)
(* bits are the probes of keys.  bloom_add takes one such heap to another. *)

Holds(b, h, keys) == /\ h \in [Block -> BlockType]
                     /\ \A p \in Block : h[p].ones \subseteq 0 .. 8 * h[p].size - 1
                     /\ b.bf \in Block
                     /\ h[b.bf].live
                     /\ h[b.bf].size = b.bytes
                     /\ h[b.bf].ones = UNION {Probes(b, k) : k \in keys}

WithBits(b, h, bits) == [h EXCEPT ![b.bf].ones = @ \union bits]

\* The invariant of a ready filter, in terms of Holds.
LEMMA ReadyHolds ==
  ASSUME TypeOK, Ready
  PROVE  (ReadyInv /\ OnlyInsertedBits) <=> (WellSized(bloom) /\ Holds(bloom, heap, inserted))
BY DEF TypeOK, BitsInBlocks, ReadyInv, OnlyInsertedBits, Holds, Ones

\* Bits below b.bits are bits of b's block.
LEMMA BitsFit ==
  ASSUME NEW b, WellSized(b), NEW h, NEW keys, Holds(b, h, keys),
         NEW bits \in SUBSET (0 .. b.bits - 1)
  PROVE  /\ WithBits(b, h, bits) \in [Block -> BlockType]
         /\ \A p \in Block : WithBits(b, h, bits)[p].ones
                               \subseteq 0 .. 8 * WithBits(b, h, bits)[p].size - 1
         /\ WithBits(b, h, bits)[b.bf].live
         /\ WithBits(b, h, bits)[b.bf].size = b.bytes
         /\ WithBits(b, h, bits)[b.bf].ones = h[b.bf].ones \union bits
<1> DEFINE g == WithBits(b, h, bits)
<1>1. bits \subseteq Nat
  BY DEF WellSized
<1>2. g \in [Block -> BlockType]
  BY <1>1 DEF WithBits, Holds
<1>3. /\ g[b.bf].live /\ g[b.bf].size = b.bytes
      /\ g[b.bf].ones = h[b.bf].ones \union bits
      /\ \A p \in Block : p # b.bf => g[p] = h[p]
  BY DEF WithBits, Holds
<1>4. bits \subseteq 0 .. 8 * b.bytes - 1
  <2>1. b.bits \in Nat /\ b.bytes \in Nat
    BY BytesCoverBits DEF WellSized
  <2>2. \A x \in 0 .. b.bits - 1 : x < 8 * b.bytes
    BY <2>1, BytesCoverBits DEF WellSized
  <2>3. \A x \in 0 .. b.bits - 1 : x \in 0 .. 8 * b.bytes - 1
    BY <2>1, <2>2
  <2> QED
    BY <2>3
<1>5. h[b.bf].ones \subseteq 0 .. 8 * b.bytes - 1
  BY DEF Holds
<1> HIDE DEF g
<1>6. ASSUME NEW p \in Block PROVE g[p].ones \subseteq 0 .. 8 * g[p].size - 1
  <2>1. CASE p = b.bf
    BY <1>3, <1>4, <1>5, <2>1
  <2>2. CASE p # b.bf
    BY <1>3, <2>2 DEF Holds
  <2> QED
    BY <2>1, <2>2
<1> QED
  BY <1>2, <1>3, <1>6 DEF g

\* Setting a key's probes adds the key and nothing else.
LEMMA AddedHolds ==
  ASSUME NEW b, WellSized(b), b.bits # 0, NEW h, NEW keys, Holds(b, h, keys), NEW k \in Key
  PROVE  Holds(b, WithBits(b, h, Probes(b, k)), keys \union {k})
<1>1. Probes(b, k) \subseteq 0 .. b.bits - 1
  BY ProbesInBits
<1>2. (UNION {Probes(b, j) : j \in keys}) \union Probes(b, k)
        = UNION {Probes(b, j) : j \in keys \union {k}}
  OBVIOUS
<1> DEFINE g == WithBits(b, h, Probes(b, k))
<1>3. /\ g \in [Block -> BlockType]
      /\ \A p \in Block : g[p].ones \subseteq 0 .. 8 * g[p].size - 1
      /\ g[b.bf].live /\ g[b.bf].size = b.bytes
      /\ g[b.bf].ones = h[b.bf].ones \union Probes(b, k)
  BY <1>1, BitsFit
<1>4. b.bf \in Block /\ h[b.bf].ones = UNION {Probes(b, j) : j \in keys}
  BY DEF Holds
<1> HIDE DEF g
<1>5. Holds(b, g, keys \union {k})
  BY <1>2, <1>3, <1>4 DEF Holds
<1> QED
  BY <1>5 DEF g

------------------------------------------------------------------------------
(* What each call does to the state, in the terms of IInv.                 *)

\* bloom_init (bloom.c:140-160) leaves an unready filter and the heap alone,
\* or a ready one whose fresh zeroed block is as long as its fields say.
LEMMA InitOutcome ==
  ASSUME IInv, NEW n \in Entries, NEW e \in Error, bloom_init(n, e)
  PROVE  /\ bloom' \in StructType /\ started' /\ inserted' = {}
         /\ \/ ~Ready' /\ heap' = heap /\ result' = 1
            \/ /\ Ready' /\ WellSized(bloom') /\ bloom'.bf \in Block
               /\ heap' = [heap EXCEPT ![bloom'.bf] = Zeroed(bloom'.bytes)]
               /\ result' = 0
<1>0. n \in Nat /\ e \in 0 .. One /\ e \in Nat
  BY ArgsAssumption, ErrorAssumption
<1>1. started' = TRUE /\ inserted' = {} /\ bloom \in StructType
  BY DEF bloom_init, IInv, TypeOK
<1>2. CASE ~ValidArgs(n, e)
  <2>1. bloom' = [bloom EXCEPT !.ready = 0] /\ UNCHANGED heap /\ result' = 1
    BY <1>2 DEF bloom_init, RejectArgs
  <2>2. bloom' \in StructType /\ bloom'.ready = 0
    BY <1>1, <2>1 DEF StructType
  <2> QED
    BY <1>1, <2>1, <2>2 DEF Ready
<1>3. CASE ValidArgs(n, e)
  <2> DEFINE b == Configured(bloom, n, e)
  <2>1. /\ BitsFor(n, e) \in Nat /\ HashesFor(e) \in Nat \ {0}
        /\ BytesFor(BitsFor(n, e)) \in Nat
    BY <1>0, <1>3, SizesPositive, SizesAreNat, BytesCoverBits
  <2>2. DefaultSeed \in HashWord
    BY HashAssumption
  <2>3. b \in StructType /\ WellSized(b)
    BY <1>0, <1>1, <2>1, <2>2 DEF Configured, StructType, WellSized
  <2> HIDE DEF b
  <2>4. \/ bloom' = [b EXCEPT !.bf = NULL, !.ready = 0]
           /\ result' = 1 /\ heap' = heap
        \/ \E p \in Block :
             /\ bloom' = [b EXCEPT !.bf = p, !.ready = 1]
             /\ heap' = [heap EXCEPT ![p] = Zeroed(b.bytes)]
             /\ result' = 0
    BY <1>3 DEF bloom_init, b
  <2>5. CASE bloom' = [b EXCEPT !.bf = NULL, !.ready = 0]
             /\ result' = 1 /\ heap' = heap
    <3>1. bloom' \in StructType /\ bloom'.ready = 0
      BY <2>3, <2>5 DEF StructType
    <3> QED
      BY <1>1, <2>5, <3>1 DEF Ready
  <2>6. ASSUME NEW p \in Block,
               bloom' = [b EXCEPT !.bf = p, !.ready = 1],
               heap' = [heap EXCEPT ![p] = Zeroed(b.bytes)],
               result' = 0
        PROVE  /\ bloom' \in StructType
               /\ Ready' /\ WellSized(bloom') /\ bloom'.bf \in Block
               /\ heap' = [heap EXCEPT ![bloom'.bf] = Zeroed(bloom'.bytes)]
    <3>1. /\ bloom' \in StructType /\ bloom'.ready = 1 /\ bloom'.bf = p
          /\ bloom'.bytes = b.bytes /\ bloom'.bits = b.bits
          /\ bloom'.hashes = b.hashes /\ bloom'.hashSeed = b.hashSeed
      BY <2>3, <2>6 DEF StructType
    <3> QED
      BY <1>1, <2>3, <2>6, <3>1 DEF Ready, WellSized
  <2> QED
    BY <1>1, <2>4, <2>5, <2>6
<1> QED
  BY <1>2, <1>3

\* bloom_add and bloom_add_ns: on a ready filter the block gains exactly the
\* key's probes.
WriteOutcome(k) ==
  /\ Probing
  /\ heap' = [heap EXCEPT ![bloom.bf].ones = @ \union Probes(bloom, k)]
  /\ inserted' = inserted \union {k}
  /\ bloom' = bloom /\ started' = started

\* Both ways to add a key refuse, or write its probes.
LEMMA AddOutcome ==
  ASSUME IInv, NEW k \in Key, bloom_add(k) \/ bloom_add_ns(k)
  PROVE  \/ /\ ~Ready /\ result' = -1
            /\ UNCHANGED <<bloom, heap, started, inserted>>
         \/ WriteOutcome(k) /\ result' \in {Void, Reported(bloom, Ones, k)}
<1>1. bloom.ready \in {0, 1}
  BY DEF IInv, TypeOK, StructType
<1>2. CASE bloom_add(k) /\ bloom.ready = 0
  BY <1>2 DEF bloom_add, NotInitialized, Ready
<1>3. CASE bloom_add(k) /\ bloom.ready # 0
  <2>1. Probing
    BY <1>1, <1>3 DEF bloom_add, NotInitialized, Ready, Probing
  <2> QED
    BY <1>3, <2>1 DEF bloom_add, NotInitialized, WriteOutcome, AddedBits
<1>4. CASE bloom_add_ns(k)
  BY <1>4 DEF bloom_add_ns, WriteOutcome, AddedBitsNs
<1> QED
  BY <1>2, <1>3, <1>4

\* bloom_check and bloom_check_ns: nothing but the result changes.
LEMMA CheckOutcome ==
  ASSUME IInv, NEW k \in Key, bloom_check(k) \/ bloom_check_ns(k)
  PROVE  /\ UNCHANGED <<bloom, heap, started, inserted>>
         /\ \/ ~Ready /\ result' = -1
            \/ Probing /\ result' = Reported(bloom, Ones, k)
<1>1. bloom.ready \in {0, 1}
  BY DEF IInv, TypeOK, StructType
<1>2. Ready => WellSized(bloom)
  BY DEF IInv, ReadyInv
<1>3. CASE bloom_check(k)
  <2>1. CASE bloom.ready = 0
    BY <1>3, <2>1 DEF bloom_check, NotInitialized, Ready
  <2>2. CASE bloom.ready # 0
    BY <1>1, <1>3, <2>2 DEF bloom_check, NotInitialized, Ready, Probing
  <2> QED
    BY <2>1, <2>2
<1>4. CASE bloom_check_ns(k)
  <2>1. Probing /\ Ready
    BY <1>4 DEF bloom_check_ns, Probing
  <2>2. ContainedNs(bloom, Ones, k) <=> Probes(bloom, k) \subseteq Ones
    BY <1>2, <2>1, IndexSetIsProbes
  <2> QED
    BY <1>4, <2>1, <2>2 DEF bloom_check_ns, Reported
<1> QED
  BY <1>3, <1>4

\* bloom_free (bloom.c:211-220): the filter is not ready afterwards and its
\* block, if it had one, has gone back to the heap.
LEMMA FreeOutcome ==
  ASSUME IInv, bloom_free
  PROVE  /\ bloom' \in StructType /\ ~Ready' /\ started' = started
         /\ inserted' = {} /\ result' = Void
         /\ heap' = IF Ready THEN [heap EXCEPT ![bloom.bf] = NoBlock] ELSE heap
<1>1. bloom \in StructType /\ bloom' = [bloom EXCEPT !.bf = NULL, !.ready = 0]
  BY DEF IInv, TypeOK, bloom_free
<1>2. bloom' \in StructType /\ bloom'.ready = 0 /\ bloom.ready \in {0, 1}
  BY <1>1 DEF StructType
<1>3. Ready <=> bloom.ready # 0
  BY <1>2 DEF Ready, bloom_free
<1> QED
  BY <1>2, <1>3 DEF bloom_free, Released, Ready

------------------------------------------------------------------------------
(* Every call keeps the invariant.                                         *)

\* bloom_init, each of its three exits.
LEMMA InitKeepsIInv ==
  ASSUME IInv, NEW n \in Entries, NEW e \in Error, bloom_init(n, e)
  PROVE  IInv'
<1>1. /\ bloom' \in StructType /\ started' = TRUE /\ inserted' = {}
      /\ result' \in {0, 1}
  BY InitOutcome DEF bloom_init
<1>2. CASE ~Ready' /\ heap' = heap
  <2>1. BitsInBlocks'
    BY <1>2, BitsStayInBlocks DEF IInv, TypeOK
  <2> QED
    BY <1>1, <1>2, <2>1 DEF IInv, TypeOK, ReadyInv, EmptyInv, OnlyInsertedBits
<1>3. CASE /\ Ready' /\ WellSized(bloom') /\ bloom'.bf \in Block
           /\ heap' = [heap EXCEPT ![bloom'.bf] = Zeroed(bloom'.bytes)]
  <2>1. bloom'.bytes \in Nat
    BY <1>1 DEF StructType
  <2>2. heap' \in [Block -> BlockType]
    BY <1>3, <2>1 DEF IInv, TypeOK, Zeroed
  <2>3. heap'[bloom'.bf] = [live |-> TRUE, size |-> bloom'.bytes, ones |-> {}]
    BY <1>3 DEF IInv, TypeOK, Zeroed
  <2>4. UNION {Probes(bloom', k) : k \in inserted'} = {}
    BY <1>1
  <2>5. OnlyInsertedBits'
    BY <2>3, <2>4 DEF OnlyInsertedBits, Ones
  <2>6. BitsInBlocks'
    <3>1. \A p \in Block : heap'[p] = heap[p] \/ heap'[p].ones = {}
      BY <1>3, <2>3 DEF IInv, TypeOK
    <3> QED
      BY <3>1, BitsStayInBlocks DEF IInv, TypeOK
  <2> QED
    BY <1>1, <1>3, <2>2, <2>3, <2>5, <2>6 DEF IInv, TypeOK, ReadyInv, EmptyInv
<1> QED
  BY <1>2, <1>3, InitOutcome

\* bloom_add and bloom_add_ns.
LEMMA AddKeepsIInv ==
  ASSUME IInv, NEW k \in Key, bloom_add(k) \/ bloom_add_ns(k)
  PROVE  IInv'
<1>1. CASE ~Ready /\ result' = -1 /\ UNCHANGED <<bloom, heap, started, inserted>>
  BY <1>1 DEF IInv, TypeOK, ReadyInv, EmptyInv, OnlyInsertedBits, Ready, Ones,
              BitsInBlocks
<1>2. CASE WriteOutcome(k) /\ result' \in {Void, Reported(bloom, Ones, k)}
  <2>1. /\ bloom' = bloom /\ started' = started /\ inserted' = inserted \union {k}
        /\ heap' = WithBits(bloom, heap, Probes(bloom, k))
        /\ Ready /\ Ready' /\ bloom.bits # 0
    BY <1>2 DEF WriteOutcome, WithBits, Ready
  <2>2. WellSized(bloom) /\ Holds(bloom, heap, inserted)
    BY <2>1, ReadyHolds DEF IInv
  <2>3. Holds(bloom', heap', inserted')
    BY <2>1, <2>2, AddedHolds
  <2>4. result' \in {-1, 0, 1, Void}
    BY <1>2 DEF Reported
  <2>5. TypeOK'
    BY <2>1, <2>3, <2>4 DEF Holds, IInv, TypeOK, BitsInBlocks
  <2> QED
    BY <2>1, <2>2, <2>3, <2>5
       DEF IInv, ReadyInv, EmptyInv, OnlyInsertedBits, Holds, Ones
<1> QED
  BY <1>1, <1>2, AddOutcome

\* bloom_check and bloom_check_ns.
LEMMA CheckKeepsIInv ==
  ASSUME IInv, NEW k \in Key, bloom_check(k) \/ bloom_check_ns(k)
  PROVE  IInv'
<1>1. UNCHANGED <<bloom, heap, started, inserted>> /\ result' \in {-1, 0, 1}
  BY CheckOutcome DEF Reported
<1> QED
  BY <1>1 DEF IInv, TypeOK, ReadyInv, EmptyInv, OnlyInsertedBits, Ready, Ones,
              BitsInBlocks

\* bloom_free, also of a filter that is not ready.
LEMMA FreeKeepsIInv ==
  ASSUME IInv, bloom_free
  PROVE  IInv'
<1>1. /\ bloom' \in StructType /\ ~Ready' /\ started' = started
      /\ inserted' = {} /\ result' = Void
      /\ heap' = IF Ready THEN [heap EXCEPT ![bloom.bf] = NoBlock] ELSE heap
  BY FreeOutcome
<1>2. heap' \in [Block -> BlockType]
  BY <1>1 DEF IInv, TypeOK, NoBlock
<1>3. BitsInBlocks'
  <2>1. \A p \in Block : heap'[p] = heap[p] \/ heap'[p].ones = {}
    BY <1>1 DEF IInv, TypeOK, NoBlock
  <2> QED
    BY <2>1, BitsStayInBlocks DEF IInv, TypeOK
<1>4. TypeOK'
  BY <1>1, <1>2, <1>3 DEF IInv, TypeOK
<1> QED
  BY <1>1, <1>4 DEF IInv, ReadyInv, EmptyInv, OnlyInsertedBits

\* bloom_reset (bloom.c:222-230) clears every byte, hence every bit.
LEMMA ResetErases ==
  ASSUME IInv, Ready
  PROVE  Erased(bloom, Ones) = {}
<1>1. WellSized(bloom)
  BY DEF IInv, ReadyInv
<1>2. Ones = UNION {Probes(bloom, k) : k \in inserted}
  BY DEF IInv, OnlyInsertedBits
<1>3. Ones \subseteq 0 .. bloom.bits - 1
  <2>1. CASE bloom.bits = 0
    BY <1>2, <2>1 DEF IInv, EmptyInv
  <2>2. CASE bloom.bits # 0
    BY <1>1, <1>2, <2>2, ProbesInBits DEF IInv, TypeOK
  <2> QED
    BY <2>1, <2>2
<1>4. \A x \in 0 .. bloom.bits - 1 : x < 8 * bloom.bytes
  BY <1>1, BytesCoverBits DEF WellSized
<1>5. \A x \in Ones : ~(x >= 8 * bloom.bytes)
  <2> SUFFICES ASSUME NEW x \in Ones PROVE ~(x >= 8 * bloom.bytes)
    OBVIOUS
  <2>1. x \in Nat /\ bloom.bytes \in Nat /\ x < 8 * bloom.bytes
    BY <1>1, <1>3, <1>4 DEF IInv, TypeOK, StructType, WellSized
  <2> QED
    BY <2>1
<1> QED
  BY <1>5 DEF Erased

\* bloom_reset clears the whole block: no bit lies beyond its bytes.
LEMMA ResetOutcome ==
  ASSUME IInv, bloom_reset
  PROVE  /\ UNCHANGED <<bloom, started>>
         /\ \/ ~Ready /\ result' = 1 /\ UNCHANGED <<heap, inserted>>
            \/ /\ Ready /\ Ready' /\ result' = 0 /\ inserted' = {}
               /\ heap' = [heap EXCEPT ![bloom.bf].ones = {}]
<1>1. bloom.ready \in {0, 1}
  BY DEF IInv, TypeOK, StructType
<1>2. CASE bloom.ready = 0
  BY <1>2 DEF bloom_reset, Ready
<1>3. CASE bloom.ready # 0
  <2>1. Ready /\ Ready'
    BY <1>1, <1>3 DEF bloom_reset, Ready
  <2>2. bloom.bf \in Block /\ heap \in [Block -> BlockType]
    BY <2>1 DEF IInv, ReadyInv, TypeOK
  <2>3. heap' = [heap EXCEPT ![bloom.bf].ones = Erased(bloom, Ones)]
    BY <1>3, <2>2 DEF bloom_reset, Ones
  <2> QED
    BY <1>3, <2>1, <2>3, ResetErases DEF bloom_reset
<1> QED
  BY <1>2, <1>3

\* bloom_reset.
LEMMA ResetKeepsIInv ==
  ASSUME IInv, bloom_reset
  PROVE  IInv'
<1>1. CASE ~Ready /\ result' = 1 /\ UNCHANGED <<bloom, started, heap, inserted>>
  BY <1>1 DEF IInv, TypeOK, ReadyInv, EmptyInv, OnlyInsertedBits, Ready, Ones,
              BitsInBlocks
<1>2. CASE /\ Ready /\ Ready' /\ result' = 0 /\ inserted' = {}
           /\ UNCHANGED <<bloom, started>>
           /\ heap' = [heap EXCEPT ![bloom.bf].ones = {}]
  <2>1. /\ WellSized(bloom) /\ bloom.bf \in Block /\ heap[bloom.bf].live
        /\ heap[bloom.bf].size = bloom.bytes
    BY <1>2 DEF IInv, ReadyInv
  <2>2. heap' \in [Block -> BlockType]
    BY <1>2 DEF IInv, TypeOK
  <2>3. /\ heap'[bloom.bf].live = heap[bloom.bf].live
        /\ heap'[bloom.bf].size = heap[bloom.bf].size
        /\ heap'[bloom.bf].ones = {}
    BY <1>2, <2>1 DEF IInv, TypeOK
  <2>4. UNION {Probes(bloom', k) : k \in inserted'} = {}
    BY <1>2
  <2>5. OnlyInsertedBits'
    BY <1>2, <2>3, <2>4 DEF OnlyInsertedBits, Ones
  <2>6. BitsInBlocks'
    <3>1. \A p \in Block : heap'[p] = heap[p] \/ heap'[p].ones = {}
      BY <1>2, <2>3 DEF IInv, TypeOK
    <3> QED
      BY <3>1, BitsStayInBlocks DEF IInv, TypeOK
  <2> QED
    BY <1>2, <2>1, <2>2, <2>3, <2>5, <2>6 DEF IInv, TypeOK, ReadyInv, EmptyInv
<1> QED
  BY <1>1, <1>2, ResetOutcome

\* Every step of the C API keeps the invariant.
LEMMA NextKeepsIInv == IInv /\ [Next]_vars => IInv'
<1> SUFFICES ASSUME IInv, [Next]_vars PROVE IInv'
  OBVIOUS
<1>1. ASSUME NEW n \in Entries, NEW e \in Error, bloom_init(n, e) PROVE IInv'
  BY <1>1, InitKeepsIInv
<1>2. ASSUME NEW n \in Entries, NEW e \in Error, bloom_init_size(n, e) PROVE IInv'
  BY <1>2, InitKeepsIInv DEF bloom_init_size
<1>3. ASSUME NEW k \in Key, bloom_check(k) \/ bloom_check_ns(k) PROVE IInv'
  BY <1>3, CheckKeepsIInv
<1>4. ASSUME NEW k \in Key, bloom_add(k) \/ bloom_add_ns(k) PROVE IInv'
  BY <1>4, AddKeepsIInv
<1>5. CASE bloom_free
  BY <1>5, FreeKeepsIInv
<1>6. CASE bloom_reset
  BY <1>6, ResetKeepsIInv
<1>7. CASE UNCHANGED vars
  BY <1>7 DEF vars, IInv, TypeOK, ReadyInv, EmptyInv, OnlyInsertedBits, Ready, Ones,
              BitsInBlocks
<1> QED
  BY <1>1, <1>2, <1>3, <1>4, <1>5, <1>6, <1>7 DEF Next

\* The invariant holds in every reachable state.
LEMMA Invariance == Spec => []IInv
<1> QED
  BY InitIInv, NextKeepsIInv, PTL DEF Spec

------------------------------------------------------------------------------
(* The theorems.                                                           *)

\* The fields of the struct, the heap and the results keep their types,
\* whatever calls a caller makes.
THEOREM TypeCorrect == Spec => []TypeOK
<1>1. IInv => TypeOK
  BY DEF IInv
<1> QED
  BY <1>1, Invariance, PTL

\* No call on a ready filter touches memory outside the block it owns
\* (test_bit_set_bit, bloom_reset, bloom_free).
THEOREM MemorySafety == Spec => []MemorySafe
<1>1. IInv => MemorySafe
  <2> SUFFICES ASSUME IInv, Ready
               PROVE  /\ bloom.bf \in Block
                      /\ heap[bloom.bf].live
                      /\ heap[bloom.bf].size = bloom.bytes
                      /\ bloom.bits # 0 =>
                           \A k \in Key : \A x \in Probes(bloom, k) :
                             x \div 8 < bloom.bytes
    BY DEF MemorySafe
  <2>1. WellSized(bloom)
    BY DEF IInv, ReadyInv
  <2>2. bloom.bits # 0 =>
          \A k \in Key : Probes(bloom, k) \subseteq 0 .. bloom.bits - 1
    BY <2>1, ProbesInBits
  <2>3. \A x \in 0 .. bloom.bits - 1 : x \div 8 < bloom.bytes
    BY <2>1, BytesCoverBits DEF WellSized
  <2> QED
    BY <2>2, <2>3 DEF IInv, ReadyInv
<1> QED
  BY <1>1, Invariance, PTL

\* The bit array of a ready filter is the union of the probes of its keys.
THEOREM BitsAreInsertions == Spec => []OnlyInsertedBits
<1>1. IInv => OnlyInsertedBits
  BY DEF IInv
<1> QED
  BY <1>1, Invariance, PTL

\* A Bloom filter has no false negatives, for any hash function, any width of
\* hash word and size_t, any capacity and error rate, and any order of calls.
THEOREM NoFalseNegatives == Spec => []NoFalseNegative
<1>1. IInv => NoFalseNegative
  <2> SUFFICES ASSUME IInv, Ready, NEW k \in inserted
               PROVE  /\ Reported(bloom, Ones, k) = 1
                      /\ ContainedNs(bloom, Ones, k)
    BY DEF NoFalseNegative
  <2>1. WellSized(bloom)
    BY DEF IInv, ReadyInv
  <2>2. Probes(bloom, k) \subseteq Ones
    BY DEF IInv, OnlyInsertedBits
  <2>3. ContainedNs(bloom, Ones, k)
    BY <2>1, <2>2, IndexSetIsProbes
  <2> QED
    BY <2>2, <2>3 DEF Reported
<1> QED
  BY <1>1, Invariance, PTL

\* The block a filter owns never becomes unreachable except by bloom_init on
\* a filter that is still ready (bloom.h:156).
THEOREM LeaksOnlyByReinit == Spec => LeakOnlyByReinit
<1> DEFINE Loses(p) == Owns(p) /\ heap'[p].live /\ ~Owns(p)'
           Reinit == \E n \in Entries, e \in Error : bloom_init(n, e)
<1>1. IInv /\ [Next]_vars => \A p \in Block : Loses(p) => Reinit
  <2> SUFFICES ASSUME IInv, [Next]_vars, NEW p \in Block, Loses(p)
               PROVE  Reinit
    OBVIOUS
  <2>1. CASE bloom_free
    <3>1. Ready /\ bloom.bf = p /\ heap'[p].live
      BY DEF Owns
    <3>2. heap' = [heap EXCEPT ![p] = NoBlock]
      BY <2>1, <3>1, FreeOutcome
    <3>3. ~heap'[p].live
      BY <3>2 DEF IInv, TypeOK, NoBlock
    <3> QED
      BY <3>1, <3>3
  <2>2. CASE UNCHANGED <<bloom, started>>
    BY <2>2 DEF Owns, Ready
  <2>3. ASSUME NEW k \in Key, bloom_check(k) \/ bloom_check_ns(k)
        PROVE  UNCHANGED <<bloom, started>>
    BY <2>3, CheckOutcome
  <2>4. ASSUME NEW k \in Key, bloom_add(k) \/ bloom_add_ns(k)
        PROVE  UNCHANGED <<bloom, started>>
    BY <2>4, AddOutcome DEF WriteOutcome
  <2>5. bloom_reset => UNCHANGED <<bloom, started>>
    BY DEF bloom_reset
  <2>6. UNCHANGED vars => UNCHANGED <<bloom, started>>
    BY DEF vars
  <2> QED
    BY <2>1, <2>2, <2>3, <2>4, <2>5, <2>6 DEF Next, bloom_init_size
<1> QED
  BY <1>1, Invariance, PTL DEF Spec, LeakOnlyByReinit

\* The number of bits of every valid request fits a size_t.
NoOverflow == \A n \in Entries : \A e \in Error :
                ValidArgs(n, e) => CeilDiv(n * Bpe[e], 100) < SizeMod

\* A successful bloom_init leaves bits to probe.
LEMMA InitGivesBits ==
  ASSUME IInv, NoOverflow, NEW n \in Entries, NEW e \in Error, bloom_init(n, e)
  PROVE  SuccessIsUsable'
<1>1. bloom \in StructType
  BY DEF IInv, TypeOK
<1>2. n \in Nat /\ e \in 0 .. One
  BY ArgsAssumption
<1>3. CASE ~ValidArgs(n, e)
  <2>1. bloom' = [bloom EXCEPT !.ready = 0]
    BY <1>3 DEF bloom_init, RejectArgs
  <2>2. bloom'.ready = 0
    BY <1>1, <2>1 DEF StructType
  <2> QED
    BY <2>2 DEF SuccessIsUsable, Ready
<1>4. CASE ValidArgs(n, e)
  <2> DEFINE b == Configured(bloom, n, e)
  <2>1. BitsFor(n, e) # 0
    BY <1>2, <1>4, SizesPositive DEF NoOverflow
  <2>2. b \in StructType /\ b.bits # 0
    <3>1. /\ e \in Nat /\ BitsFor(n, e) \in Nat /\ HashesFor(e) \in Nat
          /\ BytesFor(BitsFor(n, e)) \in Nat /\ DefaultSeed \in HashWord
      BY <1>2, <1>4, SizesPositive, SizesAreNat, BytesCoverBits, HashAssumption,
         ErrorAssumption
    <3> QED
      BY <1>1, <1>2, <2>1, <3>1 DEF Configured, StructType
  <2> HIDE DEF b
  <2>3. \/ bloom' = [b EXCEPT !.bf = NULL, !.ready = 0]
        \/ \E p \in Block : bloom' = [b EXCEPT !.bf = p, !.ready = 1]
    BY <1>4 DEF bloom_init, b
  <2>4. bloom'.bits # 0
    BY <2>2, <2>3 DEF StructType
  <2> QED
    BY <2>4 DEF SuccessIsUsable
<1> QED
  BY <1>3, <1>4

\* The size_t that wraps around (bloom.c:119) is the only way to a ready filter
\* of no bits: without it bloom_init keeps what bloom.h:71-72 says of it.
THEOREM SuccessIsUsableIfItFits ==
  ASSUME NoOverflow
  PROVE  Spec => []SuccessIsUsable
<1>1. Init => SuccessIsUsable
  BY DEF Init, SuccessIsUsable, Ready
<1>2. IInv /\ SuccessIsUsable /\ [Next]_vars => SuccessIsUsable'
  <2> SUFFICES ASSUME IInv, SuccessIsUsable, [Next]_vars
               PROVE  SuccessIsUsable'
    OBVIOUS
  <2>1. ASSUME NEW n \in Entries, NEW e \in Error,
               bloom_init(n, e) \/ bloom_init_size(n, e)
        PROVE  SuccessIsUsable'
    BY <2>1, InitGivesBits DEF bloom_init_size
  <2>2. CASE UNCHANGED <<bloom, started>>
    BY <2>2 DEF SuccessIsUsable, Ready
  <2>3. ASSUME NEW k \in Key, \/ bloom_check(k) \/ bloom_check_ns(k)
                              \/ bloom_add(k) \/ bloom_add_ns(k)
        PROVE  UNCHANGED <<bloom, started>>
    BY <2>3, CheckOutcome, AddOutcome DEF WriteOutcome
  <2>4. bloom_free => ~Ready'
    BY FreeOutcome
  <2>5. bloom_reset => UNCHANGED <<bloom, started>>
    BY DEF bloom_reset
  <2> QED
    BY <2>1, <2>2, <2>3, <2>4, <2>5 DEF Next, vars, SuccessIsUsable
<1> QED
  BY <1>1, <1>2, Invariance, PTL DEF Spec

------------------------------------------------------------------------------
(* Every call of bloom.c is a step of ApproxSet.                           *)

\* In a filter without a bit set no key is positive: it has hash functions.
LEMMA NoBitsNoPositives ==
  ASSUME NEW b, WellSized(b), b.bits # 0
  PROVE  {k \in Key : Reported(b, {}, k) = 1} = {}
<1>1. \A k \in Key : Probes(b, k) # {}
  BY ProbesInBits
<1> QED
  BY <1>1 DEF Reported

\* The keys a lookup reports, by their probes.
LEMMA PositiveKeys ==
  /\ Probing => Positive = {k \in Key : Probes(bloom, k) \subseteq Ones}
  /\ ~Probing => Positive = {}
BY DEF Positive, Reported

\* Growing the bit array turns no positive into a negative.
LEMMA AddSteps ==
  ASSUME IInv, IInv', NEW k \in Key, WriteOutcome(k),
         result' \in {Void, Reported(bloom, Ones, k)}
  PROVE  Promise!Add(k)
<1>1. /\ bloom' = bloom /\ Ready /\ Ready' /\ bloom.bf \in Block
      /\ bloom.bits # 0
      /\ inserted' = inserted \union {k}
  BY DEF WriteOutcome, Ready, IInv, ReadyInv
<1>2. Ones' = Ones \union Probes(bloom, k)
  <2>1. heap'[bloom.bf].ones = heap[bloom.bf].ones \union Probes(bloom, k)
    BY <1>1 DEF WriteOutcome, IInv, TypeOK
  <2> QED
    BY <1>1, <2>1 DEF Ones
<1>3. Positive = {j \in Key : Probes(bloom, j) \subseteq Ones}
  BY <1>1, PositiveKeys
<1>4. Positive' = {j \in Key : Probes(bloom, j) \subseteq Ones'}
  BY <1>1 DEF Positive, Reported
<1>5. Positive \union {k} \subseteq Positive' /\ Positive' \subseteq Key
  BY <1>2, <1>3, <1>4
<1>6. k \in Positive => Positive' = Positive
  BY <1>2, <1>3, <1>4
<1>7. result' \in {IF k \in Positive THEN 1 ELSE 0, Promise!Void}
  BY <1>3 DEF Reported, Void, Promise!Void
<1>8. Ready' = Ready
  BY <1>1
<1> QED
  BY <1>1, <1>5, <1>6, <1>7, <1>8 DEF Promise!Add

\* bloom_init opens the set or fails to.
LEMMA InitSteps ==
  ASSUME IInv, IInv', NEW n \in Entries, NEW e \in Error, bloom_init(n, e)
  PROVE  Promise!Open \/ Promise!OpenFails
<1>1. inserted' = {}
  BY DEF bloom_init
<1>2. CASE ~Ready' /\ result' = 1
  <2>1. Positive' = {}
    BY <1>2 DEF Positive
  <2> QED
    BY <1>1, <1>2, <2>1 DEF Promise!OpenFails
<1>3. CASE Ready' /\ result' = 0
  <2>1. WellSized(bloom') /\ Ones' = {}
    BY <1>1, <1>3 DEF IInv, ReadyInv, OnlyInsertedBits
  <2>2. Positive' = {}
    BY <1>3, <2>1, NoBitsNoPositives DEF Positive
  <2> QED
    BY <1>1, <1>3, <2>2 DEF Promise!Open
<1> QED
  BY <1>2, <1>3, InitOutcome

\* bloom_reset empties the filter and every lookup answers 0 again.
LEMMA ResetSteps ==
  ASSUME IInv, IInv', bloom_reset
  PROVE  Promise!Clear \/ Promise!Refuse
<1>1. CASE ~Ready /\ result' = 1 /\ UNCHANGED <<bloom, started, heap, inserted>>
  <2>1. Ready' = Ready /\ Positive' = Positive
    BY <1>1 DEF Ready, Positive, Ones
  <2> QED
    BY <1>1, <2>1 DEF Promise!Refuse
<1>2. CASE Ready /\ Ready' /\ result' = 0 /\ inserted' = {}
  <2>1. WellSized(bloom') /\ Ones' = {}
    BY <1>2 DEF IInv, ReadyInv, OnlyInsertedBits
  <2>2. Positive' = {}
    BY <1>2, <2>1, NoBitsNoPositives DEF Positive
  <2> QED
    BY <1>2, <2>2 DEF Promise!Clear
<1> QED
  BY <1>1, <1>2, ResetOutcome

\* A lookup answers, or is refused.
LEMMA CheckSteps ==
  ASSUME IInv, NEW k \in Key, bloom_check(k) \/ bloom_check_ns(k)
  PROVE  Promise!Lookup(k) \/ Promise!Refuse
<1>1. UNCHANGED <<bloom, heap, started, inserted>>
  BY CheckOutcome
<1>2. Ready' = Ready /\ Positive' = Positive
  BY <1>1 DEF Ready, Positive, Ones
<1>3. CASE ~Ready /\ result' = -1
  BY <1>1, <1>2, <1>3 DEF Promise!Refuse
<1>4. CASE Probing /\ result' = Reported(bloom, Ones, k)
  <2>1. result' = IF k \in Positive THEN 1 ELSE 0
    BY <1>4 DEF Positive, Reported
  <2> QED
    BY <1>1, <1>2, <1>4, <2>1 DEF Promise!Lookup
<1> QED
  BY <1>3, <1>4, CheckOutcome

\* Every step of the C API is a step of the promise, or changes nothing in it.
LEMMA NextImplementsApproxSet ==
  ASSUME IInv, IInv', [Next]_vars
  PROVE  [Promise!Next]_(Promise!vars)
<1>1. ASSUME NEW n \in Entries, NEW e \in Error,
             bloom_init(n, e) \/ bloom_init_size(n, e)
      PROVE  Promise!Next
  BY <1>1, InitSteps DEF bloom_init_size, Promise!Next
<1>2. ASSUME NEW k \in Key, bloom_check(k) \/ bloom_check_ns(k)
      PROVE  Promise!Next
  BY <1>2, CheckSteps DEF Promise!Next
<1>3. ASSUME NEW k \in Key, bloom_add(k) \/ bloom_add_ns(k)
      PROVE  Promise!Next
  <2>1. CASE ~Ready /\ result' = -1 /\ UNCHANGED <<bloom, heap, started, inserted>>
    <3>1. Ready' = Ready /\ Positive' = Positive
      BY <2>1 DEF Ready, Positive, Ones
    <3> QED
      BY <2>1, <3>1 DEF Promise!Refuse, Promise!Next
  <2>2. CASE WriteOutcome(k) /\ result' \in {Void, Reported(bloom, Ones, k)}
    BY <2>2, AddSteps DEF Promise!Next
  <2> QED
    BY <1>3, <2>1, <2>2, AddOutcome
<1>4. CASE bloom_free
  <2>1. ~Ready' /\ inserted' = {} /\ result' = Void
    BY <1>4, FreeOutcome
  <2>2. Positive' = {}
    BY <2>1 DEF Positive
  <2> QED
    BY <2>1, <2>2 DEF Promise!Close, Promise!Next, Void, Promise!Void
<1>5. CASE bloom_reset
  BY <1>5, ResetSteps DEF Promise!Next
<1>6. CASE UNCHANGED vars
  BY <1>6 DEF vars, Promise!vars, Ready, Positive, Ones
<1> QED
  BY <1>1, <1>2, <1>3, <1>4, <1>5, <1>6 DEF Next

\* The C API implements the approximate set of ApproxSet: bits and hashes are
\* invisible to the caller, except as false positives.
THEOREM Refinement == Spec => ImplementsApproxSet
<1>1. Init => Promise!Init
  BY DEF Init, Promise!Init, Ready, Positive, Void, Promise!Void
<1>2. IInv /\ IInv' /\ [Next]_vars => [Promise!Next]_(Promise!vars)
  BY NextImplementsApproxSet
<1> QED
  BY <1>1, <1>2, Invariance, PTL DEF Spec, ImplementsApproxSet, Promise!Spec
==============================================================================
