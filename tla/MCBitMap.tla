------------------------------ MODULE MCBitMap ------------------------------
(* Two maps in words of three bits: lengths 0 to 3, so an empty map, maps    *)
(* with padding and one that fills its word, and operands of two lengths.    *)
EXTENDS BitMap
==============================================================================
