------------------------------- MODULE MCBloom -------------------------------
(* Three keys and error rates 0, 1/4, 1/2, 1 (the outer two are invalid).    *)
(* Hash words are as wide as size_t, as they are with wyhash, so a + i * b   *)
(* wraps.  In the 9-bit filter key 1 probes the bit of the tail byte, key 2  *)
(* one bit three times, and keys 1 and 2 together make key 3 a false         *)
(* positive.  6 keys at rate 1/4 need 18 bits, which does not fit size_t:    *)
(* that filter has none.                                                     *)
EXTENDS Bloom

MCKey == 1 .. 3
MCHash == [ks \in MCKey \X (0 .. 15) |->
             (14 * ks[1] + 4 * ks[2] + 8 + ks[1] * ks[2]) % 16]
MCBpe == <<289, 145, 60>>
==============================================================================
