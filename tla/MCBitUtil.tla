------------------------------ MODULE MCBitUtil -------------------------------
(* Bytes of 3 bits, copies of up to 6 bits at offsets up to 4: one or two  *)
(* bytes, partial or full, at every shift, one byte in the buffer.         *)
(* popcount: every number of ones, and runs of ones that begin and end at  *)
(* the boundaries of its groups, with their complements.                   *)
EXTENDS BitUtil

MCWords == LET edges == {0, 1, 7, 8, 31, 32, 62, 63}
               runs == {lo .. hi : lo, hi \in edges} \union {0 .. n : n \in 0 .. 63}
           IN  runs \union {(0 .. 63) \ run : run \in runs}
==============================================================================
