----------------------------- MODULE MCBloomLoop -----------------------------
(* The keys, hash and error rates of MCBloom, under the probe loops.         *)
EXTENDS BloomLoop

MCKey == 1 .. 3
MCHash == [ks \in MCKey \X (0 .. 15) |->
             (14 * ks[1] + 4 * ks[2] + 8 + ks[1] * ks[2]) % 16]
MCBpe == <<289, 145, 60>>
==============================================================================
