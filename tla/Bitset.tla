-------------------------------- MODULE Bitset --------------------------------
(***************************************************************************)
(* What bitmap.h says a BitMap is: "a special case of the std::bitset", a  *)
(* set of positions below its size.  Where std::bitset cannot even be      *)
(* written - two operands of different sizes - nothing is promised.  In     *)
(* three things a BitMap is not a std::bitset, and Bitset allows for it:   *)
(* "==" may miss an equality, the position of the first bit of an empty    *)
(* set is only known not to be one of its positions, and a bit assigned    *)
(* from a bit at another position may take any value.  EqualExactly and    *)
(* FirstExactly are the std::bitset's; BitMap says when it keeps to them.  *)
(***************************************************************************)
EXTENDS Integers

CONSTANTS Obj, Width

VARIABLES size, bits, answer

vars == <<size, bits, answer>>

Void == -1
Range(o) == 0 .. size[o] - 1

Init == /\ size \in [Obj -> 0 .. Width]
        /\ bits = [o \in Obj |-> {}]
        /\ answer = Void

Becomes(o, n, b) == /\ size' = [size EXCEPT ![o] = n]
                    /\ bits' = [bits EXCEPT ![o] = b]
                    /\ answer' = Void

Build(o) == \E n \in 0 .. Width : \E b \in SUBSET (0 .. n - 1) : Becomes(o, n, b)

Fill(o) == Becomes(o, size[o], Range(o))
Clear(o) == Becomes(o, size[o], {})
Invert(o) == Becomes(o, size[o], Range(o) \ bits[o])

Put(o, i, x) == /\ i \in Range(o)
                /\ Becomes(o, size[o], IF x THEN bits[o] \union {i} ELSE bits[o] \ {i})

Toggle(o, i) == Put(o, i, i \notin bits[o])

PutFrom(o, i, p, j) == /\ i \in Range(o) /\ j \in Range(p)
                       /\ IF i = j THEN Put(o, i, j \in bits[p])
                          ELSE Put(o, i, TRUE) \/ Put(o, i, FALSE)

Combined(op, a, b) == CASE op = "^" -> (a \ b) \union (b \ a)
                        [] op = "&" -> a \intersect b
                        [] op = "|" -> a \union b

\* to takes the combination of p and q, and the size of p.
Combine(to, op, p, q) ==
  IF size[p] = size[q]
  THEN Becomes(to, size[p], Combined(op, bits[p], bits[q]))
  ELSE \E b \in SUBSET Range(p) : Becomes(to, size[p], b)

Copy(o, p) == Becomes(o, size[p], bits[p])

Answers(a) == answer' = a /\ UNCHANGED <<size, bits>>

Test(o, i) == i \in Range(o) /\ Answers(IF i \in bits[o] THEN 1 ELSE 0)

First(o) == \/ \E i \in bits[o] : (\A j \in bits[o] : i <= j) /\ Answers(i)
            \/ bits[o] = {} /\ \E n \in size[o] .. Width : Answers(n)

\* As std::bitset has it: its _Find_first answers the size of an empty set.
FirstExactly(o) == /\ First(o)
                   /\ bits[o] = {} => answer' = size[o]

EqualExactly(o, p) ==
  Answers(IF size[o] = size[p] /\ bits[o] = bits[p] THEN 1 ELSE 0)

Equal(o, p) == \/ Answers(0) /\ o # p
               \/ size[o] = size[p] /\ bits[o] = bits[p] /\ Answers(1)

Next == \E o \in Obj :
          \/ Build(o) \/ Fill(o) \/ Clear(o) \/ Invert(o) \/ First(o)
          \/ \E i \in 0 .. Width - 1 : \/ Toggle(o, i) \/ Test(o, i)
                                       \/ \E x \in BOOLEAN : Put(o, i, x)
          \/ \E p \in Obj : \/ Copy(o, p) \/ Equal(o, p)
                            \/ \E q \in Obj, op \in {"^", "&", "|"} : Combine(o, op, p, q)
                            \/ \E i, j \in 0 .. Width - 1 : PutFrom(o, i, p, j)

Spec == Init /\ [][Next]_vars
==============================================================================
