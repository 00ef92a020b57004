------------------------------ MODULE MCPyBloom ------------------------------
(* Six keys: an int and the numpy int of the same value, two strs, a str     *)
(* with a NUL and an object of a type the class does not take.  ints of four bits hold sizes   *)
(* up to 7; the filter for 3 keys at rate 1/4 has 9 bits.  -1 items are 15   *)
(* entries, which need more bits than size_t counts.                         *)
EXTENDS PyBloom

MCPyKey == {"int", "numpy", "str", "str2", "nul", "list"}
MCUnparsed == {"nul"}
MCEncoded == [k \in {"int", "numpy", "str", "str2"} |->
                CASE k \in {"int", "numpy"} -> 1 [] k = "str" -> 2 [] k = "str2" -> 3]
MCKey == 1 .. 3
MCHash == [ks \in MCKey \X (0 .. 15) |->
             (14 * ks[1] + 4 * ks[2] + 8 + ks[1] * ks[2]) % 16]
MCBpe == <<289, 145, 60>>
==============================================================================
