-------------------------------- MODULE HashFn --------------------------------
(***************************************************************************)
(* The two hash functions in the repository, step by step: murmurhash2     *)
(* (murmur2/MurmurHash2.c) and wyhash (wyhash/wyhash.h, WYHASH_CONDOM 1).  *)
(*                                                                         *)
(* murmurhash2 is computed, with a byte scaled to ByteBits, on two inputs  *)
(* of one length at a time, "sides", to compare their hashes.  Of wyhash   *)
(* the model keeps which bytes of the key each round reads; its products   *)
(* of 64-bit words (_wymix) are left out.                                  *)
(***************************************************************************)
EXTENDS Integers

CONSTANTS ByteBits,         \* 8
          Mul, R, S1, S2,   \* 0x5bd1e995, 24, 13, 15
          Seeds,
          MaxMurmurLen,     \* bound: lengths of murmurhash2's keys
          MaxWyLen          \* bound: lengths of wyhash's keys

\* 2 to the power of n.
Pow2[n \in Nat] == IF n = 0 THEN 1 ELSE 2 * Pow2[n - 1]
WordBits == 4 * ByteBits
Modulus == Pow2[WordBits]

ASSUME HashAssumption == /\ {ByteBits, Mul, R, S1, S2} \subseteq Nat \ {0}
                         /\ Mul % 2 = 1
                         /\ Seeds \subseteq 0 .. Modulus - 1
                         /\ {MaxMurmurLen, MaxWyLen} \subseteq Nat

VARIABLES pc,     \* "idle", "murmurhash2", "wyhash" or "done"
          len,    \* length of the key
          left,   \* murmurhash2's len, wyhash's i
          input,  \* murmurhash2's key and seed on each side
          h,      \* its hash so far on each side
          reads   \* history: positions of the key read so far

vars == <<pc, len, left, input, h, reads>>

Side == {1, 2}
p == len - left      \* the pointer into the key

NoInput == [key |-> <<>>, seed |-> 0]

Init == /\ pc = "idle"
        /\ len = 0 /\ left = 0
        /\ input = [s \in Side |-> NoInput] /\ h = [s \in Side |-> 0]
        /\ reads = {}

------------------------------------------------------------------------------
(* murmurhash2 *)

\* x ^ y in the lowest n bits.
XorBits[n \in Nat] ==
  [x \in Nat |-> [y \in Nat |->
    IF n = 0 THEN 0 ELSE ((x + y) % 2) + 2 * XorBits[n - 1][x \div 2][y \div 2]]]

Xor(x, y) == XorBits[WordBits][x][y]

\* faulty: in a wider integer
Times_Wide(x) == x * Mul

Times(x) == (x * Mul) % Modulus

\* faulty: the bytes of the tail are not shifted to their places
LittleEndian_NoShift(key, n) ==
  LET byte(j) == IF j < n THEN key[p + j] ELSE 0
  IN  byte(0) + byte(1) + byte(2) + byte(3)

\* The next n <= 4 bytes, as a number.
LittleEndian(key, n) ==
  LET byte(j) == IF j < n THEN key[p + j] * Pow2[j * ByteBits] ELSE 0
  IN  byte(0) + byte(1) + byte(2) + byte(3)

MixedWord(key) == LET k == Times(LittleEndian(key, 4))
                  IN  Times(Xor(k, k \div Pow2[R]))

\* faulty: len is not decreased
Rest_Same(n) == left

Rest(n) == left - n

Read(n) == reads \union p .. p + n - 1

murmurhash2(n, in) ==
  /\ pc' = "murmurhash2"
  /\ len' = n /\ left' = n
  /\ input' = in
  /\ h' = [s \in Side |-> Xor(in[s].seed, n % Modulus)]
  /\ reads' = {}

MurmurBlock == /\ pc = "murmurhash2" /\ left >= 4
               /\ h' = [s \in Side |-> Xor(Times(h[s]), MixedWord(input[s].key))]
               /\ left' = Rest(4)
               /\ reads' = Read(4)
               /\ UNCHANGED <<pc, len, input>>

\* The switch falls through to case 1 from all three cases.
MurmurTail == /\ pc = "murmurhash2" /\ left \in 1 .. 3
              /\ h' = [s \in Side |->
                         Times(Xor(h[s], LittleEndian(input[s].key, left)))]
              /\ left' = 0
              /\ reads' = Read(left)
              /\ UNCHANGED <<pc, len, input>>

MurmurFinish == /\ pc = "murmurhash2" /\ left = 0
                /\ h' = [s \in Side |->
                           LET g == Times(Xor(h[s], h[s] \div Pow2[S1]))
                           IN  Xor(g, g \div Pow2[S2])]
                /\ pc' = "done"
                /\ UNCHANGED <<len, left, input, reads>>

------------------------------------------------------------------------------
(* wyhash *)

wyhash(n) == /\ pc' = "wyhash"
             /\ len' = n /\ left' = n
             /\ UNCHANGED <<input, h, reads>>

\* Eight _wyr8 while more than 64 bytes are left, then two at a time.
WyRound == LET n == IF left > 64 THEN 64 ELSE 16
           IN  /\ pc = "wyhash" /\ left > 16
               /\ left' = Rest(n)
               /\ reads' = Read(n)
               /\ UNCHANGED <<pc, len, input, h>>

\* faulty: the first and the last byte only
Wyr3_NoMiddle(k) == {p, p + k - 1}

Wyr3(k) == {p, p + k \div 2, p + k - 1}

\* Two words of n bytes, the first and the last of what is left.
TwoWords(n) == (p .. p + n - 1) \union (p + left - n .. p + left - 1)

WyFinish == /\ pc = "wyhash" /\ left <= 16
            /\ reads' = reads \union CASE left > 8 -> TwoWords(8)
                                       [] left \in 4 .. 8 -> TwoWords(4)
                                       [] left \in 1 .. 3 -> Wyr3(left)
                                       [] left = 0 -> {}
            /\ left' = 0
            /\ pc' = "done"
            /\ UNCHANGED <<len, input, h>>

Return == /\ pc = "done"
          /\ pc' = "idle"
          /\ len' = 0 /\ left' = 0
          /\ input' = [s \in Side |-> NoInput] /\ h' = [s \in Side |-> 0]
          /\ reads' = {}

------------------------------------------------------------------------------

Keys(n) == [0 .. n - 1 -> 0 .. Pow2[ByteBits] - 1]
Block(j) == j \div 4

\* Two keys that differ in one block of four bytes at most.
NearKeys(n) == {k \in Keys(n) \X Keys(n) :
                  \A i, j \in 0 .. n - 1 :
                    k[1][i] # k[2][i] /\ k[1][j] # k[2][j] => Block(i) = Block(j)}

Inputs(n) == {<<[key |-> k[1], seed |-> d], [key |-> k[2], seed |-> d]>> :
                k \in NearKeys(n), d \in Seeds} \union
             {<<[key |-> k, seed |-> d[1]], [key |-> k, seed |-> d[2]]>> :
                k \in Keys(n), d \in Seeds \X Seeds}

Next == \/ /\ pc = "idle"
           /\ \/ \E n \in 0 .. MaxMurmurLen : \E in \in Inputs(n) : murmurhash2(n, in)
              \/ \E n \in 0 .. MaxWyLen : wyhash(n)
        \/ MurmurBlock \/ MurmurTail \/ MurmurFinish
        \/ WyRound \/ WyFinish
        \/ Return

Spec == Init /\ [][Next]_vars
             /\ WF_vars(MurmurBlock \/ MurmurTail \/ MurmurFinish
                          \/ WyRound \/ WyFinish \/ Return)

------------------------------------------------------------------------------

TypeOK == /\ pc \in {"idle", "murmurhash2", "wyhash", "done"}
          /\ len \in Nat /\ left \in 0 .. len
          /\ h \in [Side -> 0 .. Modulus - 1]
          /\ \A s \in Side : input[s] = NoInput \/
               input[s] \in [key : Keys(len), seed : Seeds]
          /\ reads \subseteq Nat

(* Both functions read every byte of the key, and no byte beyond it, at    *)
(* every length: the rounds, the overlapping words of _wyfinish16 and the  *)
(* tail switch meet exactly (MurmurHash2.c:48-54, wyhash.h:80-113).  A key *)
(* byte that is not read makes distinct keys false positives of each       *)
(* other; a byte beyond the key makes one key hash differently.            *)
WholeKeyHashed == /\ reads \subseteq 0 .. len - 1
                  /\ pc = "done" => reads = 0 .. len - 1

(* Keys of one length that differ in one block of four bytes only, or in   *)
(* the seed only, are hashed apart by murmurhash2: each step is one-to-one *)
(* in h and in the word it mixes in (MurmurHash2.c:31-61), so their states *)
(* are equal exactly as long as what was read of them is.  The seed part   *)
(* is what makes the second hash b of a probe sequence differ when a does. *)
NearKeysDiffer ==
  input[1] # NoInput =>
    (h[1] = h[2] <=> /\ input[1].seed = input[2].seed
                     /\ \A j \in reads : input[1].key[j] = input[2].key[j])

(* Both functions return: every round leaves fewer bytes.                  *)
HashReturns == pc \in {"murmurhash2", "wyhash"} ~> pc = "done"
==============================================================================
