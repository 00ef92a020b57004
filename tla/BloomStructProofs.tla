-------------------------- MODULE BloomStructProofs --------------------------
(***************************************************************************)
(* What the proofs about Bloom, BloomFilter and PyBloom share: the sizing  *)
(* of a filter and where the probes of a key fall, for every hash          *)
(* function, word size and error rate.                                     *)
(***************************************************************************)
EXTENDS BloomStruct, TLAPS

USE DEF BlockType, StructOf

------------------------------------------------------------------------------
(* Sizing and probing.                                                     *)

\* An error rate strictly between 0 and 1 gives at least one hash function,
\* whatever the number of entries (bloom_init_wo_allocation).
LEMMA SizesAreNat ==
  ASSUME NEW n \in Nat, NEW e \in ValidError
  PROVE  BitsFor(n, e) \in Nat /\ HashesFor(e) \in Nat \ {0}
<1>1. PICK d \in Nat \ {0} : d = Bpe[e]
  BY ErrorAssumption
<1>2. n * d \in Nat
  BY <1>1
<1>3. \A m \in Nat : (m + 100 - 1) \div 100 \in Nat
  OBVIOUS
<1>4. (693 * d + 100000 - 1) \div 100000 \in Nat \ {0}
  BY <1>1
<1> QED
  BY <1>1, <1>2, <1>3, <1>4 DEF BitsFor, HashesFor, CeilDiv

\* With valid entries too there is at least one bit, as long as the number of
\* bits fits a size_t.
LEMMA SizesPositive ==
  ASSUME NEW n \in Nat, NEW e \in 0 .. One, ValidArgs(n, e)
  PROVE  /\ e \in ValidError
         /\ CeilDiv(n * Bpe[e], 100) < SizeMod => BitsFor(n, e) # 0
<1>1. e \in ValidError
  BY ErrorAssumption DEF ValidArgs, ValidError
<1>2. PICK d \in Nat \ {0} : d = Bpe[e]
  BY <1>1, ErrorAssumption
<1>3. n * d \in Nat \ {0}
  BY <1>2 DEF ValidArgs
<1>4. \A m \in Nat \ {0} : (m + 100 - 1) \div 100 # 0
  OBVIOUS
<1> QED
  BY <1>1, <1>2, <1>3, <1>4 DEF BitsFor, CeilDiv

\* The byte array covers the bit array, its last partial byte included.
LEMMA BytesCoverBits ==
  ASSUME NEW bits \in Nat
  PROVE  /\ BytesFor(bits) \in Nat
         /\ \A x \in 0 .. bits - 1 : x \div 8 < BytesFor(bits)
         /\ \A x \in 0 .. bits - 1 : x < 8 * BytesFor(bits)
  BY DEF BytesFor

\* What a struct must satisfy for its probes to make sense.
WellSized(b) == /\ b.bits \in Nat
                /\ b.hashes \in Nat \ {0}
                /\ b.hashSeed \in HashWord
                /\ b.bytes = BytesFor(b.bits)

\* Every probe falls inside the bit array, whatever the hash values.
LEMMA IndexInBits ==
  ASSUME NEW b, WellSized(b), b.bits # 0, NEW k \in Key, NEW j \in Nat
  PROVE  Index(b, k, j) \in 0 .. b.bits - 1
<1>1. PICK h1 \in HashWord : h1 = Hash[<<k, b.hashSeed>>]
  BY HashAssumption DEF WellSized
<1>2. PICK h2 \in HashWord : h2 = Hash[<<k, h1>>]
  BY HashAssumption
<1>3. h1 + j * h2 \in Nat
  BY HashAssumption DEF HashWord
<1>4. (h1 + j * h2) % SizeMod \in Nat
  BY <1>3, HashAssumption
<1>5. PICK m \in Nat : m = (h1 + j * h2) % SizeMod
  BY <1>4
<1>6. m % b.bits \in 0 .. b.bits - 1
  BY DEF WellSized
<1> QED
  BY <1>1, <1>2, <1>5, <1>6 DEF Index

\* The probes of a key fall inside the bit array, and there is one at least.
LEMMA ProbesInBits ==
  ASSUME NEW b, WellSized(b), b.bits # 0, NEW k \in Key
  PROVE  /\ Probes(b, k) \subseteq 0 .. b.bits - 1
         /\ Probes(b, k) # {}
<1>1. \A j \in 0 .. b.hashes - 1 : j \in Nat
  BY DEF WellSized
<1>2. Probes(b, k) \subseteq 0 .. b.bits - 1
  BY <1>1, IndexInBits DEF Probes, ProbesUpTo
<1>3. 0 \in 0 .. b.hashes - 1
  BY DEF WellSized
<1> QED
  BY <1>2, <1>3 DEF Probes, ProbesUpTo

\* Bits of the bit array are bits of the byte array.
LEMMA BitsInBytes ==
  ASSUME NEW b, WellSized(b)
  PROVE  /\ b.bytes \in Nat
         /\ 0 .. b.bits - 1 \subseteq 0 .. 8 * b.bytes - 1
         /\ \A x \in 0 .. b.bits - 1 : x \div 8 < b.bytes
<1>1. b.bits \in Nat /\ b.bytes \in Nat
  BY BytesCoverBits DEF WellSized
<1>2. \A x \in 0 .. b.bits - 1 : x < 8 * b.bytes /\ x \div 8 < b.bytes
  BY <1>1, BytesCoverBits DEF WellSized
<1>3. \A x \in 0 .. b.bits - 1 : x \in 0 .. 8 * b.bytes - 1
  BY <1>1, <1>2
<1> QED
  BY <1>1, <1>2, <1>3

\* The probes depend on the seed, the number of bits and the number of hashes
\* only, not on where the bit array is.
LEMMA SameProbes ==
  ASSUME NEW b, NEW c, b.bits = c.bits, b.hashes = c.hashes,
         b.hashSeed = c.hashSeed
  PROVE  \A k : Probes(b, k) = Probes(c, k)
BY DEF Probes, ProbesUpTo, Index

------------------------------------------------------------------------------
(* bloom_init_wo_allocation gives a struct its sizes.                      *)

SizedByArgs(b) == /\ b.entries \in Nat /\ b.error \in ValidError
                  /\ b.bits = BitsFor(b.entries, b.error)
                  /\ b.bytes = BytesFor(b.bits)
                  /\ b.hashes = HashesFor(b.error)
                  /\ b.hashSeed \in HashWord

\* A struct sized by bloom_init_wo_allocation can be probed.
LEMMA SizedByArgsIsWellSized ==
  ASSUME NEW b, SizedByArgs(b)
  PROVE  WellSized(b)
BY SizesAreNat DEF SizedByArgs, WellSized

\* What bloom_init_wo_allocation leaves in a zeroed struct.
LEMMA ConfiguredIsSized ==
  ASSUME NEW n \in Nat, NEW e \in ValidError
  PROVE  LET c == Configured(Cleared, n, e)
         IN  /\ c \in StructOf(Block \union {NULL}) /\ SizedByArgs(c)
             /\ c.entries = n /\ c.error = e /\ c.hashSeed = DefaultSeed
             /\ c.bf = NULL /\ c.ready = 0
<1>1. /\ BitsFor(n, e) \in Nat /\ HashesFor(e) \in Nat
      /\ BytesFor(BitsFor(n, e)) \in Nat
  BY SizesAreNat, BytesCoverBits
<1>2. DefaultSeed \in HashWord /\ e \in Nat
  BY HashAssumption, ErrorAssumption DEF ValidError
<1> QED
  BY <1>1, <1>2 DEF Configured, SizedByArgs, Cleared
==============================================================================
