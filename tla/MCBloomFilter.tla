---------------------------- MODULE MCBloomFilter ----------------------------
(* Two objects and one byte array in transit; popcount reads words of two   *)
(* bytes.  Capacity 6 at error rates 1/4 and 1/2 makes filters of 18 and 9   *)
(* bits: a word and a left-over byte, and a word.  For byte arrays between   *)
(* configurations, capacity 1 makes 3 and 2 bits, one byte each: the byte    *)
(* lengths agree where the bit counts differ.                                *)
EXTENDS BloomFilter, TLC

MCKey == 1 .. 2
MCHash == [ks \in MCKey \X (0 .. 15) |->
             (14 * ks[1] + 4 * ks[2] + 8 + ks[1] * ks[2]) % 16]
MCWideHash == [ks \in MCKey \X (0 .. 31) |->
                 (14 * ks[1] + 4 * ks[2] + 28 + ks[1] * ks[2]) % 32]
MCBpe == <<289, 145, 60>>

Symmetry == Permutations(Obj) \union Permutations(Block)
==============================================================================
