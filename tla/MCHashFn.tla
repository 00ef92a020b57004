------------------------------- MODULE MCHashFn -------------------------------
(* Bytes of one bit, so words of 4: Mul and R are the code's, scaled       *)
(* (0x5bd1e995 % 16, 24 / 8), and keys of up to two blocks or one and a    *)
(* tail.  wyhash has its real sizes: up to two rounds of 64 and all tails. *)
EXTENDS HashFn
==============================================================================
