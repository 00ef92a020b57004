---------------------------- MODULE PyBloomProofs ----------------------------
(***************************************************************************)
(* The safety properties of the Python class, for every set of keys and    *)
(* way to encode them, every hash function, seed, word and int size.       *)
(***************************************************************************)
EXTENDS PyBloom, BloomStructProofs

USE DEF BlockType, StructOf

------------------------------------------------------------------------------
(* The inductive invariant: types, who owns the blocks, what the fields of *)
(* a ready filter are, and that it reports every key of "added".           *)

ReadyInv == Ready => /\ WellSized(bloom)
                     /\ bloom.bf \in Block
                     /\ heap[bloom.bf].size = bloom.bytes

AddedInv == Ready => /\ \A k \in added : Probes(bloom, Encoded[k]) \subseteq Ones
                     /\ bloom.bits = 0 => added = {}

IInv == TypeOK /\ BlocksAreOwned /\ ReadyInv /\ AddedInv

Stays == UNCHANGED <<exists, bloom, heap, added>>

\* The bytes of a supported key are a key of the C API.
LEMMA EncodedIsKey == \A k \in Supported : Encoded[k] \in Key
BY PyAssumption DEF Supported

\* No object exists.
LEMMA InitIInv == Init => IInv
<1> SUFFICES ASSUME Init PROVE IInv
  OBVIOUS
<1>1. 0 \in HashWord
  BY HashAssumption DEF HashWord
<1>2. bloom \in StructOf(Block \union {NULL})
  BY <1>1 DEF Init, Cleared
<1>3. heap \in [Block -> BlockType] /\ \A p \in Block : heap[p] = NoBlock
  BY DEF Init, NoBlock
<1>4. ~Ready
  BY DEF Init, Ready
<1> QED
  BY <1>2, <1>3, <1>4
     DEF Init, IInv, TypeOK, BlocksAreOwned, ReadyInv, AddedInv, NoBlock, Void

\* A seed changes the seed and nothing else.
LEMMA SeededIsSized ==
  ASSUME NEW b \in StructOf(Block \union {NULL}), NEW s \in Seed \union {NoSeed}
  PROVE  /\ Seeded(b, s) \in StructOf(Block \union {NULL})
         /\ WellSized(b) => WellSized(Seeded(b, s))
         /\ Seeded(b, s).bits = b.bits /\ Seeded(b, s).bytes = b.bytes
         /\ Seeded(b, s).bf = b.bf /\ Seeded(b, s).ready = b.ready
BY PyAssumption DEF Seeded, WellSized

------------------------------------------------------------------------------
(* What each method does to the state.                                     *)

\* __init__ leaves an object without a filter, or one with a fresh zeroed block
\* as long as its fields say (pybf.cpp:24-47, bloom.c:140-160).
LEMMA InitOutcome ==
  ASSUME IInv, NEW n \in Items, NEW e \in Error, NEW s \in Seed \union {NoSeed},
         __init__(n, e, s)
  PROVE  /\ bloom' \in StructOf(Block \union {NULL})
         /\ exists' /\ added' = {} /\ reply' = None
         /\ \A p \in Block : ~heap[p].live
         /\ \/ ~Ready' /\ heap' = heap /\ result' = 1
            \/ /\ Ready' /\ WellSized(bloom') /\ bloom'.bf \in Block
               /\ heap' = [heap EXCEPT ![bloom'.bf] = Zeroed(bloom'.bytes)]
               /\ result' = 0
<1> DEFINE m == Converted(n)
           c == Configured(Cleared, m, e)
           b == Seeded(c, s)
<1>0. ~exists /\ exists' = TRUE /\ added' = {} /\ reply' = None
  BY DEF __init__
<1>1. \A p \in Block : ~heap[p].live
  BY <1>0 DEF IInv, BlocksAreOwned, Ready
<1>2. m \in Nat /\ e \in 0 .. One
  <2>1. n \in Int
    BY ArgsAssumption DEF Items
  <2> QED
    BY <2>1, ArgsAssumption, HashAssumption DEF Converted
<1>3. Cleared \in StructOf(Block \union {NULL})
  BY HashAssumption DEF Cleared, HashWord
<1> HIDE DEF m
<1>4. CASE ~ValidArgs(m, e)
  <2>1. bloom' = Seeded(Cleared, s) /\ heap' = heap /\ result' = 1
    BY <1>4 DEF __init__, m
  <2>2. bloom'.ready = 0 /\ bloom' \in StructOf(Block \union {NULL})
    BY <2>1, <1>3, SeededIsSized DEF Cleared
  <2> QED
    BY <1>0, <1>1, <2>1, <2>2 DEF Ready
<1>5. CASE ValidArgs(m, e)
  <2>1. c \in StructOf(Block \union {NULL}) /\ WellSized(c) /\ c.ready = 0
    BY <1>2, <1>5, SizesPositive, ConfiguredIsSized, SizedByArgsIsWellSized
  <2> HIDE DEF c
  <2>2. b \in StructOf(Block \union {NULL}) /\ WellSized(b) /\ b.ready = 0
    BY <2>1, SeededIsSized
  <2> HIDE DEF b
  <2>3. \/ bloom' = b /\ heap' = heap /\ result' = 1
        \/ \E p \in Block : /\ bloom' = [b EXCEPT !.bf = p, !.ready = 1]
                            /\ heap' = [heap EXCEPT ![p] = Zeroed(b.bytes)]
                            /\ result' = 0
    BY <1>5 DEF __init__, b, c, m
  <2>4. CASE bloom' = b /\ heap' = heap /\ result' = 1
    BY <1>0, <1>1, <2>2, <2>4 DEF Ready
  <2>5. ASSUME NEW p \in Block,
               bloom' = [b EXCEPT !.bf = p, !.ready = 1],
               heap' = [heap EXCEPT ![p] = Zeroed(b.bytes)]
        PROVE  /\ bloom' \in StructOf(Block \union {NULL})
               /\ Ready' /\ WellSized(bloom') /\ bloom'.bf \in Block
               /\ heap' = [heap EXCEPT ![bloom'.bf] = Zeroed(bloom'.bytes)]
    <3>1. /\ bloom' \in StructOf(Block \union {NULL}) /\ bloom'.ready = 1
          /\ bloom'.bf = p
          /\ bloom'.bytes = b.bytes /\ bloom'.bits = b.bits
          /\ bloom'.hashes = b.hashes /\ bloom'.hashSeed = b.hashSeed
      BY <2>2, <2>5
    <3> QED
      BY <1>0, <2>2, <2>5, <3>1 DEF Ready, WellSized
  <2> QED
    BY <1>0, <1>1, <2>3, <2>4, <2>5
<1> QED
  BY <1>4, <1>5

\* add, on a filter, gives its block the probes of the key.
Writes(k) == /\ Probing
             /\ heap' = [heap EXCEPT ![bloom.bf].ones = @ \union Probes(bloom, Encoded[k])]
             /\ result' = IF Probes(bloom, Encoded[k]) \subseteq Ones THEN 1 ELSE 0

\* add refuses silently without a filter, or writes the key's probes.
LEMMA AddOutcome ==
  ASSUME IInv, NEW k \in PyKey, add(k)
  PROVE  /\ k \in Supported /\ exists /\ reply' = None
         /\ UNCHANGED <<exists, bloom>> /\ added' = added \union {k}
         /\ \/ ~Ready /\ heap' = heap /\ result' = -1
            \/ Writes(k)
<1>1. bloom.ready \in {0, 1} /\ exists
  BY DEF IInv, TypeOK, add
<1>2. CASE Ready
  BY <1>2 DEF add, Writes, Hashed, Check, OnesIfReady, Ready
<1>3. CASE ~Ready
  <2>1. bloom.ready = 0
    BY <1>1, <1>3 DEF Ready
  <2> QED
    BY <1>3, <2>1 DEF add, Check
<1> QED
  BY <1>2, <1>3 DEF add

\* "in" changes only what is answered, and answers by Positive.
LEMMA ContainsOutcome ==
  ASSUME IInv, NEW k \in PyKey, __contains__(k)
  PROVE  /\ Stays /\ k \in Supported /\ exists
         /\ Ready => Probing
         /\ result' = IF ~Ready THEN -1 ELSE IF k \in Positive THEN 1 ELSE 0
         /\ reply' = IF k \in Positive THEN 1 ELSE 0
<1>1. bloom.ready \in {0, 1} /\ exists /\ k \in Supported
  BY DEF IInv, TypeOK, __contains__
<1>2. CASE Ready
  <2>1. Probing /\ bloom.ready = 1
    BY <1>2 DEF __contains__, Ready
  <2>2. result' = Check(bloom, Ones, k)
    BY <1>2 DEF __contains__, OnesIfReady
  <2>3. Check(bloom, Ones, k) \in {0, 1}
    BY <2>1 DEF Check
  <2>4. k \in Positive <=> Check(bloom, Ones, k) = 1
    BY <1>1, <2>1 DEF Positive
  <2> QED
    BY <1>1, <1>2, <2>1, <2>2, <2>3, <2>4 DEF __contains__, Member, Stays
<1>3. CASE ~Ready
  <2>1. bloom.ready = 0 /\ Positive = {}
    BY <1>1, <1>3 DEF Ready, Positive, Probing
  <2> QED
    BY <1>1, <1>3, <2>1 DEF __contains__, Check, Member, Stays
<1> QED
  BY <1>2, <1>3

\* __del__ gives the block of the filter back (pybf.cpp:96-104).
LEMMA DelOutcome ==
  ASSUME IInv, __del__
  PROVE  /\ ~Ready' /\ bloom' = Cleared /\ added' = {} /\ exists' = FALSE
         /\ result' = Void /\ reply' = None
         /\ heap' = IF Ready THEN [heap EXCEPT ![bloom.bf] = NoBlock] ELSE heap
<1>1. Ready <=> bloom.ready # 0
  BY DEF IInv, TypeOK, Ready, __del__
<1> QED
  BY <1>1 DEF __del__, Freed, Ready

------------------------------------------------------------------------------
(* Every method keeps the invariant.                                       *)

\* __init__, which drops what bloom_init returns.
LEMMA InitKeepsIInv ==
  ASSUME IInv, NEW n \in Items, NEW e \in Error, NEW s \in Seed \union {NoSeed},
         __init__(n, e, s)
  PROVE  IInv'
<1>1. /\ bloom' \in StructOf(Block \union {NULL})
      /\ exists' \in BOOLEAN /\ added' = {} /\ reply' = None
      /\ result' \in {-1, 0, 1, Void}
      /\ \A p \in Block : ~heap[p].live
  BY InitOutcome DEF __init__
<1>2. CASE ~Ready' /\ heap' = heap
  BY <1>1, <1>2 DEF IInv, TypeOK, BlocksAreOwned, ReadyInv, AddedInv
<1>3. CASE /\ Ready' /\ WellSized(bloom') /\ bloom'.bf \in Block
           /\ heap' = [heap EXCEPT ![bloom'.bf] = Zeroed(bloom'.bytes)]
  <2>1. bloom'.bytes \in Nat
    BY <1>1
  <2>2. heap' \in [Block -> BlockType]
    BY <1>3, <2>1 DEF IInv, TypeOK, Zeroed
  <2>3. /\ heap'[bloom'.bf] = [live |-> TRUE, size |-> bloom'.bytes, ones |-> {}]
        /\ \A p \in Block : p # bloom'.bf => heap'[p] = heap[p]
    BY <1>3 DEF IInv, TypeOK, Zeroed
  <2>4. \A p \in Block : heap'[p].ones \subseteq 0 .. 8 * heap'[p].size - 1
    BY <2>3 DEF IInv, TypeOK
  <2>5. TypeOK'
    BY <1>1, <2>2, <2>4 DEF TypeOK
  <2>6. BlocksAreOwned'
    BY <1>1, <1>3, <2>3 DEF BlocksAreOwned
  <2> QED
    BY <1>1, <1>3, <2>3, <2>5, <2>6 DEF IInv, ReadyInv, AddedInv
<1> QED
  BY <1>2, <1>3, InitOutcome

\* set_seed moves the probes of all keys: none counts as added any more.
LEMMA SetSeedKeepsIInv ==
  ASSUME IInv, NEW s \in Seed, set_seed(s)
  PROVE  IInv'
<1>1. /\ bloom' = Seeded(bloom, s) /\ added' = {} /\ reply' = None
      /\ UNCHANGED <<exists, heap, result>>
  BY DEF set_seed
<1>2. /\ bloom' \in StructOf(Block \union {NULL})
      /\ WellSized(bloom) => WellSized(bloom')
      /\ bloom'.bits = bloom.bits /\ bloom'.bytes = bloom.bytes
      /\ bloom'.bf = bloom.bf /\ bloom'.ready = bloom.ready
  BY <1>1, SeededIsSized DEF IInv, TypeOK
<1>3. Ready' = Ready
  BY <1>1, <1>2 DEF Ready
<1> QED
  BY <1>1, <1>2, <1>3 DEF IInv, TypeOK, BlocksAreOwned, ReadyInv, AddedInv

\* __del__ frees the filter, if there is one.
LEMMA DelKeepsIInv ==
  ASSUME IInv, __del__
  PROVE  IInv'
<1>1. /\ ~Ready' /\ bloom' = Cleared /\ added' = {} /\ exists' = FALSE
      /\ result' = Void /\ reply' = None
      /\ heap' = IF Ready THEN [heap EXCEPT ![bloom.bf] = NoBlock] ELSE heap
  BY DelOutcome
<1>2. bloom' \in StructOf(Block \union {NULL})
  BY <1>1, HashAssumption DEF Cleared, HashWord
<1>3. heap' \in [Block -> BlockType] /\ \A p \in Block : ~heap'[p].live
  BY <1>1 DEF IInv, TypeOK, NoBlock, BlocksAreOwned
<1>4. \A p \in Block : heap'[p].ones \subseteq 0 .. 8 * heap'[p].size - 1
  <2>1. \A p \in Block : heap'[p] = heap[p] \/ heap'[p].ones = {}
    BY <1>1 DEF IInv, TypeOK, NoBlock
  <2> QED
    BY <2>1 DEF IInv, TypeOK
<1> QED
  BY <1>1, <1>2, <1>3, <1>4 DEF IInv, TypeOK, BlocksAreOwned, ReadyInv, AddedInv, Void

\* The block a filter is in, after the probes of k are set in it.
LEMMA WrittenBlock ==
  ASSUME IInv, NEW k \in Supported, Writes(k)
  PROVE  /\ heap' \in [Block -> BlockType]
         /\ bloom.bf \in Block /\ WellSized(bloom)
         /\ heap'[bloom.bf].ones = Ones \union Probes(bloom, Encoded[k])
         /\ Probes(bloom, Encoded[k]) \subseteq 0 .. 8 * heap[bloom.bf].size - 1
         /\ \A p \in Block : /\ heap'[p].live = heap[p].live
                             /\ heap'[p].size = heap[p].size
                             /\ p # bloom.bf => heap'[p].ones = heap[p].ones
<1>1. /\ WellSized(bloom) /\ bloom.bf \in Block /\ bloom.bits # 0
      /\ heap[bloom.bf].size = bloom.bytes
  BY DEF IInv, ReadyInv, Writes, Probing
<1>2. Probes(bloom, Encoded[k]) \subseteq 0 .. bloom.bits - 1
  BY <1>1, EncodedIsKey, ProbesInBits
<1>3. Probes(bloom, Encoded[k]) \subseteq 0 .. 8 * heap[bloom.bf].size - 1
  BY <1>1, <1>2, BitsInBytes
<1>4. Probes(bloom, Encoded[k]) \subseteq Nat
  BY <1>1, <1>2 DEF WellSized
<1> QED
  BY <1>1, <1>3, <1>4 DEF Writes, IInv, TypeOK, Ones

\* add.
LEMMA AddKeepsIInv ==
  ASSUME IInv, NEW k \in PyKey, add(k)
  PROVE  IInv'
<1>1. /\ k \in Supported /\ reply' = None
      /\ UNCHANGED <<exists, bloom>> /\ added' = added \union {k}
      /\ added' \subseteq Supported /\ Ready' = Ready
  BY AddOutcome DEF IInv, TypeOK, Ready
<1>2. CASE ~Ready /\ heap' = heap /\ result' = -1
  BY <1>1, <1>2 DEF IInv, TypeOK, BlocksAreOwned, ReadyInv, AddedInv
<1>3. CASE Writes(k)
  <2>1. Ready /\ bloom.bits # 0 /\ result' \in {-1, 0, 1, Void}
    BY <1>3 DEF Writes, Probing
  <2>2. \A p \in Block : heap'[p].ones \subseteq 0 .. 8 * heap'[p].size - 1
    <3> SUFFICES ASSUME NEW p \in Block
                 PROVE  heap'[p].ones \subseteq 0 .. 8 * heap'[p].size - 1
      OBVIOUS
    <3>1. heap[p].ones \subseteq 0 .. 8 * heap[p].size - 1
      BY DEF IInv, TypeOK
    <3> QED
      BY <1>1, <1>3, <3>1, WrittenBlock DEF Ones
  <2>3. TypeOK'
    BY <1>1, <1>3, <2>1, <2>2, WrittenBlock DEF IInv, TypeOK
  <2>4. BlocksAreOwned'
    BY <1>1, <1>3, WrittenBlock DEF IInv, BlocksAreOwned
  <2>5. ReadyInv'
    BY <1>1, <1>3, WrittenBlock DEF IInv, ReadyInv
  <2>6. AddedInv'
    <3>1. Ones' = Ones \union Probes(bloom, Encoded[k])
      BY <1>1, <1>3, WrittenBlock DEF Ones
    <3>2. \A j \in added' : Probes(bloom, Encoded[j]) \subseteq Ones'
      BY <1>1, <2>1, <3>1 DEF IInv, AddedInv
    <3> QED
      BY <1>1, <2>1, <3>2 DEF AddedInv
  <2> QED
    BY <2>3, <2>4, <2>5, <2>6 DEF IInv
<1> QED
  BY <1>2, <1>3, AddOutcome

\* A narrowed size is an int, if not the size.
LEMMA ToIntIsInt == \A n \in Nat : ToInt(n) \in Int
BY PyAssumption DEF ToInt

\* The methods that only answer.
AnswersOnly == \/ \E k \in PyKey : unsupported(k) \/ __contains__(k)
               \/ refused \/ __len__ \/ num_hashes \/ error \/ fpr

\* They keep the invariant and the filter.
LEMMA AnswersKeepIInv ==
  ASSUME IInv, AnswersOnly
  PROVE  IInv' /\ Stays
<1>1. /\ Stays /\ result' \in {-1, 0, 1, Void}
      /\ reply' \in Int \union {None, NotImplementedError, SystemError}
  <2>1. ASSUME NEW k \in PyKey, unsupported(k)
        PROVE  /\ Stays /\ result' = result
               /\ reply' \in {NotImplementedError, SystemError}
    BY <2>1 DEF unsupported, Stays
  <2>2. ASSUME NEW k \in PyKey, __contains__(k)
        PROVE  Stays /\ result' \in {-1, 0, 1} /\ reply' \in {0, 1}
    BY <2>2, ContainsOutcome
  <2>3. bloom.bits \in Nat /\ bloom.hashes \in Nat
    BY DEF IInv, TypeOK
  <2>4. ASSUME __len__ \/ num_hashes \/ error \/ fpr
        PROVE  /\ Stays /\ result' = result
               /\ reply' \in Int \union {NotImplementedError}
    <3>1. \A rate \in 0 .. One : rate \in Int
      BY ErrorAssumption
    <3> QED
      BY <2>3, <2>4, <3>1, ToIntIsInt
         DEF __len__, num_hashes, error, fpr, Answers, Stays
  <2>5. ASSUME refused PROVE Stays /\ result' = result /\ reply' = SystemError
    BY <2>5 DEF refused, Stays
  <2>6. result \in {-1, 0, 1, Void}
    BY DEF IInv, TypeOK
  <2> QED
    BY <2>1, <2>2, <2>4, <2>5, <2>6 DEF AnswersOnly
<1> QED
  BY <1>1 DEF Stays, IInv, TypeOK, BlocksAreOwned, ReadyInv, AddedInv, Ready, Ones

\* Every method keeps the invariant.
LEMMA NextKeepsIInv == IInv /\ [Next]_vars => IInv'
<1> SUFFICES ASSUME IInv, [Next]_vars PROVE IInv'
  OBVIOUS
<1>1. ASSUME NEW n \in Items, NEW e \in Error, NEW s \in Seed \union {NoSeed},
             __init__(n, e, s)
      PROVE  IInv'
  BY <1>1, InitKeepsIInv
<1>2. ASSUME NEW s \in Seed, set_seed(s) PROVE IInv'
  BY <1>2, SetSeedKeepsIInv
<1>3. CASE __del__
  BY <1>3, DelKeepsIInv
<1>4. ASSUME NEW k \in PyKey, add(k) PROVE IInv'
  BY <1>4, AddKeepsIInv
<1>5. CASE AnswersOnly
  BY <1>5, AnswersKeepIInv
<1>6. CASE UNCHANGED vars
  BY <1>6 DEF vars, IInv, TypeOK, BlocksAreOwned, ReadyInv, AddedInv, Ready, Ones
<1> QED
  BY <1>1, <1>2, <1>3, <1>4, <1>5, <1>6 DEF Next, AnswersOnly

\* The invariant holds in every reachable state.
LEMMA Invariance == Spec => []IInv
<1> QED
  BY InitIInv, NextKeepsIInv, PTL DEF Spec

------------------------------------------------------------------------------
(* The theorems.                                                           *)

\* The object, its struct, the heap and what the methods answer keep their
\* types, and no method sets a bit outside a block.
THEOREM TypeCorrect == Spec => []TypeOK
<1>1. IInv => TypeOK
  BY DEF IInv
<1> QED
  BY <1>1, Invariance, PTL

\* The extension neither leaks a bit array nor keeps a freed one, whatever the
\* order of __init__, failed allocations, set_seed and __del__.
THEOREM BlocksOwned == Spec => []BlocksAreOwned
<1>1. IInv => BlocksAreOwned
  BY DEF IInv
<1> QED
  BY <1>1, Invariance, PTL

\* AddedAreIn for an object that has a filter.
AddedAreInFilter == Ready => added \subseteq Positive

\* What test_pybf.py:19 relies on does hold of an object that has a filter: its
\* keys are in until the next set_seed.  (AddedAreIn, which asks it of every
\* object, does not hold: see the finding.)
THEOREM NoFalseNegatives == Spec => []AddedAreInFilter
<1>1. IInv => AddedAreInFilter
  <2> SUFFICES ASSUME IInv, Ready, NEW k \in added PROVE k \in Positive
    BY DEF AddedAreInFilter
  <2>1. /\ Probes(bloom, Encoded[k]) \subseteq Ones /\ bloom.bits # 0
        /\ k \in Supported /\ bloom.ready = 1
    BY DEF IInv, TypeOK, AddedInv, Ready
  <2> QED
    BY <2>1 DEF Positive, Probing, Check
<1> QED
  BY <1>1, Invariance, PTL

\* "in" is True exactly when there is a filter that reports the key: the -1 that
\* bloom_check answers without one never comes out as True (pybf.py).
THEOREM InIsNeverTrueWithoutFilter == Spec => InNeedsAFilter
<1>1. IInv /\ [Next]_vars =>
        [\A k \in Supported :
           __contains__(k) => reply' = IF k \in Positive THEN 1 ELSE 0]_vars
  <2>1. \A k \in Supported : k \in PyKey
    BY PyAssumption DEF Supported
  <2> QED
    BY <2>1, ContainsOutcome
<1> QED
  BY <1>1, Invariance, PTL DEF Spec, InNeedsAFilter

------------------------------------------------------------------------------
(* Every method but set_seed is a step of ApproxSet.                       *)

\* The keys a lookup reports, by their probes.
LEMMA PositiveKeys ==
  /\ ~Probing => Positive = {}
  /\ Probing =>
       Positive = {k \in Supported : Probes(bloom, Encoded[k]) \subseteq Ones}
BY DEF Positive, Check, Probing, Ready

\* __init__ opens the set empty, or fails.
LEMMA InitSteps ==
  ASSUME IInv, IInv', NEW n \in Items, NEW e \in Error,
         NEW s \in Seed \union {NoSeed}, __init__(n, e, s)
  PROVE  Promise!Open \/ Promise!OpenFails
<1>1. added' = {}
  BY InitOutcome
<1>2. CASE ~Ready' /\ result' = 1
  <2>1. Positive' = {}
    BY <1>2 DEF Positive, Probing
  <2> QED
    BY <1>2, <2>1 DEF Promise!OpenFails
<1>3. CASE /\ Ready' /\ bloom'.bf \in Block /\ result' = 0
           /\ heap' = [heap EXCEPT ![bloom'.bf] = Zeroed(bloom'.bytes)]
  <2>1. Ones' = {}
    BY <1>3 DEF Ones, Zeroed, IInv, TypeOK
  <2>2. Positive' = {}
    <3>1. Probing' => WellSized(bloom') /\ bloom'.bits # 0
      BY <1>3 DEF IInv, ReadyInv, Probing
    <3>2. Probing' => \A k \in Supported : Probes(bloom', Encoded[k]) # {}
      BY <3>1, EncodedIsKey, ProbesInBits
    <3>3. bloom'.ready = 1
      BY <1>3 DEF Ready
    <3> QED
      BY <2>1, <3>2, <3>3 DEF Positive, Check
  <2> QED
    BY <1>1, <1>3, <2>1, <2>2 DEF Promise!Open
<1> QED
  BY <1>2, <1>3, InitOutcome

\* add takes every probe of the key into the bit array and loses none; without a
\* filter it is refused, and the key is a member of nothing.
LEMMA AddSteps ==
  ASSUME IInv, IInv', NEW k \in PyKey, add(k)
  PROVE  k \in Supported /\ (Promise!Add(k) \/ Promise!Refuse)
<1>1. /\ k \in Supported /\ UNCHANGED <<exists, bloom>>
      /\ added' = added \union {k} /\ Ready' = Ready /\ Probing' = Probing
  BY AddOutcome DEF Ready, Probing
<1>2. CASE ~Ready /\ heap' = heap /\ result' = -1
  <2>1. Positive = {} /\ Positive' = {}
    BY <1>1, <1>2 DEF Positive, Probing
  <2> QED
    BY <1>1, <1>2, <2>1 DEF Promise!Refuse
<1>3. CASE Writes(k)
  <2>1. Probing /\ Ready /\ bloom.ready = 1
    BY <1>3 DEF Writes, Probing, Ready
  <2>2. Ones' = Ones \union Probes(bloom, Encoded[k])
    BY <1>1, <1>3, WrittenBlock DEF Ones
  <2>3. Positive = {j \in Supported : Probes(bloom, Encoded[j]) \subseteq Ones}
    BY <2>1, PositiveKeys
  <2>4. Positive' = {j \in Supported : Probes(bloom, Encoded[j]) \subseteq Ones'}
    BY <1>1, <2>1 DEF Positive, Check
  <2>5. Positive \union {k} \subseteq Positive' /\ Positive' \subseteq Supported
    BY <1>1, <2>2, <2>3, <2>4
  <2>6. k \in Positive => Positive' = Positive
    BY <2>2, <2>3, <2>4
  <2>7. result' = IF k \in Positive THEN 1 ELSE 0
    BY <1>1, <1>3, <2>3 DEF Writes
  <2> QED
    BY <1>1, <2>1, <2>5, <2>6, <2>7 DEF Promise!Add
<1> QED
  BY <1>1, <1>2, <1>3, AddOutcome

\* A lookup answers, or is refused.
LEMMA ContainsSteps ==
  ASSUME IInv, NEW k \in PyKey, __contains__(k)
  PROVE  k \in Supported /\ (Promise!Lookup(k) \/ Promise!Refuse)
<1>1. Stays /\ k \in Supported
      /\ result' = IF ~Ready THEN -1 ELSE IF k \in Positive THEN 1 ELSE 0
  BY ContainsOutcome
<1>2. Ready' = Ready /\ Positive' = Positive /\ added' = added
  BY <1>1 DEF Stays, Ready, Probing, Positive, Ones
<1>3. CASE Ready
  BY <1>1, <1>2, <1>3 DEF Promise!Lookup
<1>4. CASE ~Ready
  BY <1>1, <1>2, <1>4 DEF Promise!Refuse
<1> QED
  BY <1>1, <1>3, <1>4

Reseeds == \E s \in Seed : set_seed(s)

\* Every method but set_seed is a step of ApproxSet.
LEMMA NextKeepsPromise ==
  ASSUME IInv, IInv', [Next]_vars
  PROVE  [Promise!Next \/ Reseeds]_(Promise!vars)
<1>1. ASSUME NEW n \in Items, NEW e \in Error, NEW s \in Seed \union {NoSeed},
             __init__(n, e, s)
      PROVE  Promise!Next
  BY <1>1, InitSteps DEF Promise!Next
<1>2. ASSUME NEW k \in PyKey, add(k) PROVE Promise!Next
  BY <1>2, AddSteps DEF Promise!Next
<1>3. ASSUME NEW k \in PyKey, __contains__(k) PROVE Promise!Next
  BY <1>3, ContainsSteps DEF Promise!Next
<1>4. CASE __del__
  <2>1. ~Ready' /\ result' = Void
    BY <1>4, DelOutcome
  <2>2. Positive' = {}
    BY <2>1 DEF Positive, Probing
  <2> QED
    BY <2>1, <2>2 DEF Promise!Close, Promise!Next, Void, Promise!Void
<1>5. ASSUME Stays, result' = result PROVE UNCHANGED Promise!vars
  BY <1>5 DEF Stays, Promise!vars, Ready, Probing, Positive, Ones
<1>6. ASSUME NEW k \in PyKey, unsupported(k) PROVE UNCHANGED Promise!vars
  BY <1>5, <1>6 DEF unsupported, Stays
<1>7. CASE __len__ \/ num_hashes \/ error \/ fpr \/ refused
  BY <1>5, <1>7 DEF __len__, num_hashes, error, fpr, refused, Answers, Stays
<1>8. CASE UNCHANGED vars
  BY <1>5, <1>8 DEF vars, Stays
<1> QED
  BY <1>1, <1>2, <1>3, <1>4, <1>6, <1>7, <1>8 DEF Next, Reseeds

\* The methods implement the approximate set of ApproxSet, the same that the C
\* functions implement, with set_seed as the one step that may break it.
THEOREM Refinement == Spec => KeepsPromiseUntilReseeded
<1>1. Init => Promise!Init
  BY DEF Init, Promise!Init, Ready, Probing, Positive, Void, Promise!Void
<1>2. IInv /\ IInv' /\ [Next]_vars
        => [Promise!Next \/ \E s \in Seed : set_seed(s)]_(Promise!vars)
  BY NextKeepsPromise DEF Reseeds
<1> QED
  BY <1>1, <1>2, Invariance, PTL DEF Spec, KeepsPromiseUntilReseeded
==============================================================================
