----------------------------- MODULE BloomStruct -----------------------------
(***************************************************************************)
(* What the filters of bloom.c, BloomFilter.h and pybf.cpp have in common: *)
(* the struct and the heap its bit array lives in, how it is sized from    *)
(* (entries, error), and which bits of its bit array a key probes.         *)
(*                                                                         *)
(* A key stands for the bytes handed to the hash function; the hash        *)
(* function is an arbitrary function of (key, seed), so all that is proved *)
(* holds for MurmurHash2, wyhash and xxHash alike.  Error rates are exact  *)
(* multiples of 1/One, and Bpe[e] is -ln(e/One)/ln(2)^2 in hundredths,     *)
(* rounded up as the decimal constants of bloom.c:120 and bloom.c:132 do.  *)
(***************************************************************************)
EXTENDS Integers

CONSTANTS Key,          \* what callers add and look up
          HashMod,      \* hash values and seeds are 0 .. HashMod-1
          Hash,         \* HASH_FN: <<key, seed>> to a hash value
          DefaultSeed,  \* 0x9747b28c
          SizeMod,      \* 2^64: size_t arithmetic wraps here
          One,          \* the error rate 1.0
          Bpe,          \* bits per element of a valid error rate
          Block,        \* blocks malloc, calloc and realloc can hand out
          NULL,         \* the null pointer
          Entries,      \* capacities callers ask for
          Error         \* error rates callers ask for

HashWord == 0 .. HashMod - 1
ValidError == 1 .. One - 1

ASSUME HashAssumption == /\ HashMod \in Nat \ {0}
                         /\ SizeMod \in Nat \ {0}
                         /\ DefaultSeed \in HashWord
                         /\ Hash \in [Key \X HashWord -> HashWord]

ASSUME ErrorAssumption == /\ One \in Nat
                          /\ Bpe \in [ValidError -> Nat \ {0}]

ASSUME ArgsAssumption == /\ NULL \notin Block
                         /\ Entries \subseteq Nat /\ Error \subseteq 0 .. One

Void == 2   \* result of a call that returns nothing

\* A block of the heap: "ones" are the positions byte*8+bit that are set.
BlockType == [live: BOOLEAN, size: Nat, ones: SUBSET Nat]
NoBlock == [live |-> FALSE, size |-> 0, ones |-> {}]
BlockOf(size, ones) == [live |-> TRUE, size |-> size, ones |-> ones]
Zeroed(bytes) == [live |-> TRUE, size |-> bytes, ones |-> {}]

StructOf(pointers) ==
  [entries: Nat, error: Nat, bits: Nat, bytes: Nat, hashes: Nat,
   hashSeed: HashWord, bf: pointers, ready: {0, 1}]

\* "struct bloom m_bf{}", "new bloom()"
Cleared == [entries |-> 0, error |-> 0, bits |-> 0, bytes |-> 0, hashes |-> 0,
            hashSeed |-> 0, bf |-> NULL, ready |-> 0]

CeilDiv(n, d) == (n + d - 1) \div d

------------------------------------------------------------------------------
(* Sizing: bloom_init_wo_allocation.                                       *)

BytesFor_RoundsDown(bits) == bits \div 8   \* faulty: no byte for the tail

BytesFor(bits) == IF bits % 8 # 0 THEN bits \div 8 + 1 ELSE bits \div 8

\* ceil(entries * bpe) is a double; converted to size_t when 2^64 or more it is
\* 0 (undefined in C; what x86-64 does).
BitsFor(entries, error) ==
  LET bits == CeilDiv(entries * Bpe[error], 100)
  IN  IF bits < SizeMod THEN bits ELSE 0

HashesFor(error) == CeilDiv(693 * Bpe[error], 100000)

ValidArgs(entries, error) == entries > 0 /\ error > 0 /\ error < One

Configured(b, entries, error) ==
  LET bits == BitsFor(entries, error)
  IN  [b EXCEPT !.entries = entries, !.error = error,
                !.bits = bits, !.bytes = BytesFor(bits),
                !.hashes = HashesFor(error), !.hashSeed = DefaultSeed]

------------------------------------------------------------------------------
(* Probing: x = (a + i * b) % bloom->bits, in size_t arithmetic, with      *)
(* a = HASH_FN(key, seed) and b = HASH_FN(key, a).  In a filter of no bits *)
(* this is a division by zero: whoever probes first tests bits # 0.        *)

Index(b, k, i) == LET h1 == Hash[<<k, b.hashSeed>>]
                      h2 == Hash[<<k, h1>>]
                  IN  ((h1 + i * h2) % SizeMod) % b.bits

ProbesUpTo(b, k, n) == {Index(b, k, i) : i \in 0 .. n - 1}

Probes(b, k) == ProbesUpTo(b, k, b.hashes)
==============================================================================
