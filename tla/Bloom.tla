-------------------------------- MODULE Bloom --------------------------------
(***************************************************************************)
(* bloom.c: one struct bloom, the heap its bit array lives in, and every   *)
(* function of the C API, called in any order by one caller.               *)
(*                                                                         *)
(* "started" and "inserted" are history variables: whether the struct was  *)
(* ever passed to bloom_init, and the keys added since it was last empty.  *)
(* A call that divides by zero ends the program: it is not a step.         *)
(***************************************************************************)
EXTENDS BloomStruct

CONSTANT Garbage   \* the pointer an uninitialised struct happens to hold

ASSUME GarbageAssumption == Garbage \notin Block

VARIABLES bloom, heap, result, started, inserted

vars == <<bloom, heap, result, started, inserted>>

Ready == started /\ bloom.ready = 1
Probing == Ready /\ bloom.bits # 0
Ones == heap[bloom.bf].ones

\* "struct bloom bloom;" on the stack: any bytes, until bloom_init is called.
Init == /\ bloom \in {[Cleared EXCEPT !.bf = Garbage, !.ready = r] : r \in {0, 1}}
        /\ heap = [p \in Block |-> NoBlock]
        /\ result = Void
        /\ started = FALSE
        /\ inserted = {}

------------------------------------------------------------------------------
(* bloom_init.  Its three exits: invalid arguments, calloc failed, ready.  *)

\* faulty: ready is not cleared before the arguments are checked
RejectArgs_KeepsReady(b) == b

RejectArgs(b) == [b EXCEPT !.ready = 0]

bloom_init(entries, error) ==
  /\ started' = TRUE
  /\ inserted' = {}
  /\ \/ /\ ~ValidArgs(entries, error)
        /\ bloom' = RejectArgs(bloom)
        /\ result' = 1
        /\ UNCHANGED heap
     \/ /\ ValidArgs(entries, error)
        /\ LET b == Configured(bloom, entries, error)
           IN  \/ /\ bloom' = [b EXCEPT !.bf = NULL, !.ready = 0]
                  /\ result' = 1
                  /\ UNCHANGED heap
               \/ \E p \in Block :
                    /\ ~heap[p].live
                    /\ bloom' = [b EXCEPT !.bf = p, !.ready = 1]
                    /\ heap' = [heap EXCEPT ![p] = Zeroed(b.bytes)]
                    /\ result' = 0

bloom_init_size(entries, error) == bloom_init(entries, error)

------------------------------------------------------------------------------
(* The guarded pair: bloom_check and bloom_add share bloom_check_add.      *)

AddedBits(b, k) == Probes(b, k)

\* faulty: at least one probe hit is taken for "already in"
Reported_AnyHit(b, ones, k) == IF Probes(b, k) \cap ones # {} THEN 1 ELSE 0

Reported(b, ones, k) == IF Probes(b, k) \subseteq ones THEN 1 ELSE 0

NotInitialized == /\ bloom.ready = 0
                  /\ result' = -1
                  /\ UNCHANGED <<bloom, heap, started, inserted>>

bloom_check(k) ==
  /\ started
  /\ \/ NotInitialized
     \/ /\ bloom.ready # 0 /\ bloom.bits # 0
        /\ result' = Reported(bloom, Ones, k)
        /\ UNCHANGED <<bloom, heap, started, inserted>>

bloom_add(k) ==
  /\ started
  /\ \/ NotInitialized
     \/ /\ bloom.ready # 0 /\ bloom.bits # 0
        /\ result' = Reported(bloom, Ones, k)
        /\ heap' = [heap EXCEPT ![bloom.bf].ones = @ \union AddedBits(bloom, k)]
        /\ inserted' = inserted \union {k}
        /\ UNCHANGED <<bloom, started>>

------------------------------------------------------------------------------
(* The unguarded pair does not look at ready: calling it on a filter that  *)
(* is not ready is the caller's error (BloomFilter.h never does).          *)

\* faulty: the second hash is seeded with the seed again, not with the first
AddedBitsNs_SeedTwice(b, k) ==
  LET h == Hash[<<k, b.hashSeed>>]
  IN  {((h + i * h) % SizeMod) % b.bits : i \in 0 .. b.hashes - 1}

AddedBitsNs(b, k) == Probes(b, k)

ContainedNs(b, ones, k) == \A i \in 0 .. b.hashes - 1 : Index(b, k, i) \in ones

bloom_check_ns(k) ==
  /\ Probing
  /\ result' = IF ContainedNs(bloom, Ones, k) THEN 1 ELSE 0
  /\ UNCHANGED <<bloom, heap, started, inserted>>

bloom_add_ns(k) ==
  /\ Probing
  /\ heap' = [heap EXCEPT ![bloom.bf].ones = @ \union AddedBitsNs(bloom, k)]
  /\ inserted' = inserted \union {k}
  /\ result' = Void
  /\ UNCHANGED <<bloom, started>>

------------------------------------------------------------------------------
(* bloom_free and bloom_reset.                                             *)

Released_Leaks(h, b) == h   \* faulty: the block is never given back

Released(h, b) == IF b.ready # 0 THEN [h EXCEPT ![b.bf] = NoBlock] ELSE h

bloom_free ==
  /\ started
  /\ heap' = Released(heap, bloom)
  /\ bloom' = [bloom EXCEPT !.bf = NULL, !.ready = 0]
  /\ inserted' = {}
  /\ result' = Void
  /\ UNCHANGED started

\* faulty: the whole bytes below bits are cleared, the tail byte is not
Erased_MissesTail(b, ones) == {x \in ones : x >= 8 * (b.bits \div 8)}

Erased(b, ones) == {x \in ones : x >= 8 * b.bytes}   \* memset(bf, 0, bytes)

bloom_reset ==
  /\ started
  /\ UNCHANGED <<bloom, started>>
  /\ \/ /\ bloom.ready = 0
        /\ result' = 1
        /\ UNCHANGED <<heap, inserted>>
     \/ /\ bloom.ready # 0
        /\ heap' = [heap EXCEPT ![bloom.bf].ones = Erased(bloom, @)]
        /\ inserted' = {}
        /\ result' = 0

Next == \/ \E n \in Entries, e \in Error : bloom_init(n, e)
        \/ \E n \in Entries, e \in Error : bloom_init_size(n, e)
        \/ \E k \in Key : bloom_check(k)
        \/ \E k \in Key : bloom_add(k)
        \/ \E k \in Key : bloom_check_ns(k)
        \/ \E k \in Key : bloom_add_ns(k)
        \/ bloom_free
        \/ bloom_reset

Spec == Init /\ [][Next]_vars

------------------------------------------------------------------------------
(* Properties.                                                             *)

StructType == StructOf(Block \union {NULL, Garbage})

BitsInBlocks == \A p \in Block : heap[p].ones \subseteq 0 .. 8 * heap[p].size - 1

\* Types; the bits set in a block are bits of that block.
TypeOK == /\ bloom \in StructType
          /\ heap \in [Block -> BlockType]
          /\ BitsInBlocks
          /\ result \in {-1, 0, 1, Void}
          /\ started \in BOOLEAN
          /\ inserted \subseteq Key

\* A ready filter holds a live block of exactly the size its fields say, and
\* every bit any key can probe lies inside that block: no call on it reads,
\* writes or frees memory the filter does not own, whatever the order of
\* calls, failed initialisations and frees that led here.
MemorySafe ==
  Ready => /\ bloom.bf \in Block
           /\ heap[bloom.bf].live
           /\ heap[bloom.bf].size = bloom.bytes
           /\ Probing => \A k \in Key : \A x \in Probes(bloom, k) :
                           x \div 8 < bloom.bytes

\* A key that was added, through either API and in whatever order with other
\* calls, is reported by both lookups until the filter is emptied.
NoFalseNegative ==
  Ready => \A k \in inserted : /\ Reported(bloom, Ones, k) = 1
                               /\ ContainedNs(bloom, Ones, k)

\* The bit array holds the probes of the added keys and nothing else, so that
\* a key never added is only ever reported because of collisions, and an empty
\* filter reports none.
OnlyInsertedBits ==
  Ready => Ones = UNION {Probes(bloom, k) : k \in inserted}

\* A block the filter owns is given back when the filter lets go of it; the
\* one exception is bloom_init called again on a filter that is still ready,
\* which bloom.h:156 allows only after bloom_free.
Owns(p) == Ready /\ bloom.bf = p

LeakOnlyByReinit ==
  [][\A p \in Block : Owns(p) /\ heap'[p].live /\ ~Owns(p)'
        => \E n \in Entries, e \in Error : bloom_init(n, e)]_vars

\* Every call of the C API is a step of the promise in ApproxSet: what a lookup
\* answers only grows until the filter is emptied, the value bloom_add returns
\* says whether the key was already reported, and -1 or 1 refuses a filter that
\* is not initialised.
Positive == IF Probing THEN {k \in Key : Reported(bloom, Ones, k) = 1} ELSE {}

Promise == INSTANCE ApproxSet WITH live <- Ready, members <- inserted,
                                   positive <- Positive, answer <- result

ImplementsApproxSet == Promise!Spec

\* bloom_init returns 0 on success and 1 on failure (bloom.h:71-72): a filter
\* that is ready has bits, so that checking or adding a key is defined.
SuccessIsUsable == Ready => bloom.bits # 0
==============================================================================
