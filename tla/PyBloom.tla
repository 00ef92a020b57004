------------------------------- MODULE PyBloom -------------------------------
(***************************************************************************)
(* pybf.py over pybf.cpp: one Python filter object, from __init__ to       *)
(* __del__, as often as the program makes a new one.  A method is the call *)
(* into the extension and what that call does in bloom.c, in one step.     *)
(*                                                                         *)
(* "added" is a history variable: the keys passed to add since __init__ or *)
(* the last set_seed, whatever became of them; "result" is what the C      *)
(* function of the last add, "in" or __init__ returned, which Python sees  *)
(* only in part.                                                           *)
(***************************************************************************)
EXTENDS BloomStruct

CONSTANTS PyKey,     \* the Python objects a program uses as keys
          Encoded,   \* the bytes of a key that is an int, a str or a numpy int
          Unparsed,  \* strs that PyArg_ParseTuple refuses: with a NUL, say
          Seed,      \* seeds given to the constructor or to set_seed
          NoSeed,    \* seed=None
          IntMod,    \* 2^32: the C int of the extension's return values
          None,
          NotImplementedError, SystemError

\* Encoded is not injective: an int and the numpy int of the same value have the
\* same 8 bytes, and a str is hashed up to as many of its UTF-8 bytes as it has
\* characters.
ASSUME PyAssumption == /\ Encoded \in [DOMAIN Encoded -> Key]
                       /\ DOMAIN Encoded \subseteq PyKey
                   /\ Unparsed \subseteq PyKey \ DOMAIN Encoded
                       /\ NoSeed \notin Seed /\ Seed \subseteq HashWord
                       /\ IntMod \in Nat \ {0}

VARIABLES exists,   \* the program has an object: bloom_ptr is allocated
          bloom, heap, added, result, reply

vars == <<exists, bloom, heap, added, result, reply>>

Supported == DOMAIN Encoded

Init == /\ exists = FALSE
        /\ bloom = Cleared
        /\ heap = [p \in Block |-> NoBlock]
        /\ added = {}
        /\ result = Void
        /\ reply = None

Ready == exists /\ bloom.ready = 1
Probing == Ready /\ bloom.bits # 0
Ones == heap[bloom.bf].ones

------------------------------------------------------------------------------
(* Construction and destruction.                                           *)

\* Unlike the C++ class, a seed of 0 is a seed.
Seeded(b, seed) == IF seed = NoSeed THEN b ELSE [b EXCEPT !.hashSeed = seed]

\* items is an int, bloom_init's entries a size_t.
Converted(items) == items % SizeMod

\* wrapper_init drops what bloom_init returns: the object exists either way.
__init__(items, error, seed) ==
  LET entries == Converted(items)
      b == Seeded(Configured(Cleared, entries, error), seed)
  IN  /\ ~exists
      /\ exists' = TRUE
      /\ added' = {}
      /\ reply' = None
      /\ \/ /\ ~ValidArgs(entries, error)
            /\ bloom' = Seeded(Cleared, seed)
            /\ result' = 1
            /\ UNCHANGED heap
         \/ /\ ValidArgs(entries, error)
            /\ bloom' = b
            /\ result' = 1           \* calloc failed
            /\ UNCHANGED heap
         \/ /\ ValidArgs(entries, error)
            /\ \E p \in Block :
                 /\ ~heap[p].live
                 /\ bloom' = [b EXCEPT !.bf = p, !.ready = 1]
                 /\ heap' = [heap EXCEPT ![p] = Zeroed(b.bytes)]
                 /\ result' = 0

\* bloom.set_seed(f.bloom_ptr, seed): the extension exports it for any filter.
set_seed(seed) == /\ exists
                  /\ bloom' = Seeded(bloom, seed)
                  /\ added' = {}
                  /\ reply' = None
                  /\ UNCHANGED <<exists, heap, result>>

\* faulty: free(bf) alone
Freed_StructOnly(h, b) == h

Freed(h, b) == IF b.ready # 0 THEN [h EXCEPT ![b.bf] = NoBlock] ELSE h

__del__ == /\ exists
           /\ heap' = Freed(heap, bloom)
           /\ bloom' = Cleared
           /\ exists' = FALSE
           /\ added' = {}
           /\ result' = Void
           /\ reply' = None

\* PyArg_ParseTuple refuses the arguments of a constructor or of set_seed, and the
\* extension returns None under a pending exception, which Python turns into a
\* SystemError.  An object whose seed is refused has a filter, which __del__ gives
\* back as the exception leaves __init__.
refused == /\ reply' = SystemError
           /\ UNCHANGED <<exists, bloom, heap, added, result>>

------------------------------------------------------------------------------
(* Keys.  In a ready filter of no bits a probe divides by zero.            *)

unsupported(k) == /\ exists
                  /\ k \notin Supported
                  /\ reply' = IF k \in Unparsed THEN SystemError
                                               ELSE NotImplementedError
                  /\ UNCHANGED <<exists, bloom, heap, added, result>>

Check(b, ones, k) == IF b.ready = 0 THEN -1
                     ELSE IF Probes(b, Encoded[k]) \subseteq ones THEN 1 ELSE 0

\* faulty: any non-zero answer of bloom_check counts as True
Member_NonZero(ret) == IF ret # 0 THEN 1 ELSE 0

Member(ret) == IF ret = 1 THEN 1 ELSE 0

OnesIfReady == IF Ready THEN Ones ELSE {}

__contains__(k) == /\ exists
                   /\ Ready => Probing
                   /\ k \in Supported
                   /\ result' = Check(bloom, OnesIfReady, k)
                   /\ reply' = Member(result')
                   /\ UNCHANGED <<exists, bloom, heap, added>>

\* faulty: add stops at the first bit that is already set
Hashed_Stops(b, ones, k) ==
  {Index(b, Encoded[k], i) : i \in {j \in 0 .. b.hashes - 1 :
      \A l \in 0 .. j : Index(b, Encoded[k], l) \notin ones}}

Hashed(b, ones, k) == Probes(b, Encoded[k])

add(k) == /\ exists
          /\ Ready => Probing
          /\ k \in Supported
          /\ result' = Check(bloom, OnesIfReady, k)
          /\ heap' = IF Ready
                     THEN [heap EXCEPT ![bloom.bf].ones =
                             @ \union Hashed(bloom, Ones, k)]
                     ELSE heap
          /\ added' = added \union {k}
          /\ reply' = None
          /\ UNCHANGED <<exists, bloom>>

------------------------------------------------------------------------------
(* Accessors.                                                              *)

\* "int ret = bf->bits;"
ToInt(n) == LET m == n % IntMod IN IF 2 * m >= IntMod THEN m - IntMod ELSE m

Answers(value) == /\ exists
                  /\ reply' = value
                  /\ UNCHANGED <<exists, bloom, heap, added, result>>

__len__ == Answers(ToInt(bloom.bits))

num_hashes == Answers(ToInt(bloom.hashes))

\* wrapper_error cuts the rate to an int and passes it where Py_BuildValue("d")
\* reads a double: the rate that comes back is any.
error == \E rate \in 0 .. One : Answers(rate)

\* fpr is not implemented unless the extension counts set bits.
fpr == Answers(NotImplementedError)

Items == Entries \union {-1}

Next == \/ \E n \in Items, e \in Error, s \in Seed \union {NoSeed} : __init__(n, e, s)
        \/ \E s \in Seed : set_seed(s)
        \/ __del__ \/ refused
        \/ \E k \in PyKey : unsupported(k)
        \/ \E k \in PyKey : __contains__(k)
        \/ \E k \in PyKey : add(k)
        \/ __len__ \/ num_hashes \/ error \/ fpr

Spec == Init /\ [][Next]_vars

------------------------------------------------------------------------------
(* Properties.                                                             *)

\* Types; no call sets a bit outside its block.
TypeOK == /\ exists \in BOOLEAN
          /\ bloom \in StructOf(Block \union {NULL})
          /\ heap \in [Block -> BlockType]
          /\ \A p \in Block : heap[p].ones \subseteq 0 .. 8 * heap[p].size - 1
          /\ added \subseteq Supported
          /\ result \in {-1, 0, 1, Void}
          /\ reply \in Int \union {None, NotImplementedError, SystemError}

\* The extension never leaks a bit array and never keeps a freed one: a block is
\* allocated exactly while a ready object points to it.
BlocksAreOwned ==
  \A p \in Block : heap[p].live <=> Ready /\ bloom.bf = p

\* The methods keep the promise of ApproxSet for every key the class can encode,
\* keys that share their bytes and seeds of 0 included: an added key stays in
\* until __del__ or a later set_seed, and an object without a filter takes and
\* reports nothing.
Positive == IF Probing THEN {k \in Supported : Check(bloom, Ones, k) = 1} ELSE {}

Promise == INSTANCE ApproxSet WITH
  Key <- Supported, live <- Ready, members <- IF Ready THEN added ELSE {},
  positive <- Positive, answer <- result

KeepsPromiseUntilReseeded ==
  /\ Promise!Init
  /\ [][Promise!Next \/ \E s \in Seed : set_seed(s)]_(Promise!vars)

\* "in" is True exactly when there is a filter that reports the key: without one
\* the C call answers -1, and -1 must not come out as True.
InNeedsAFilter ==
  [][\A k \in Supported :
       __contains__(k) => reply' = IF k \in Positive THEN 1 ELSE 0]_vars

\* "no false negative" (test_pybf.py:19): a key passed to add is in the filter.
AddedAreIn == exists => \A k \in added : k \in Positive
==============================================================================
