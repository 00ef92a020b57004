----------------------------- MODULE BitMapProofs -----------------------------
(***************************************************************************)
(* The operations of bitmap.h, for every word width and number of maps:    *)
(* they keep their types, and a BitMap, seen below its length, is the set  *)
(* Bitset describes - the bits a map leaves set at and above its length,   *)
(* which flip_all and the constructor do, are never seen.                  *)
(***************************************************************************)
EXTENDS BitMap, FiniteSetTheorems, WellFoundedInduction, TLAPS

------------------------------------------------------------------------------
(* The least element of a set of naturals.                                 *)

\* A non-empty set of naturals has a least element: of its initial parts, one
\* has no smaller one within it.
LEMMA LeastElement ==
  ASSUME NEW S \in SUBSET Nat, S # {}
  PROVE  \E i \in S : \A j \in S : i <= j
<1> DEFINE Upto(n) == S \intersect (0 .. n)
           Parts == {Upto(n) : n \in S}
<1>1. Parts \subseteq FiniteSubsetsOf(Nat) /\ Parts # {}
  <2> SUFFICES ASSUME NEW n \in S PROVE Upto(n) \in FiniteSubsetsOf(Nat)
    OBVIOUS
  <2>1. IsFiniteSet(0 .. n)
    BY FS_Interval
  <2>2. IsFiniteSet(Upto(n))
    BY <2>1, FS_Subset
  <2> QED
    BY <2>2 DEF FiniteSubsetsOf
<1>2. IsWellFoundedOn(StrictSubsetOrdering(Nat), FiniteSubsetsOf(Nat))
  BY FS_StrictSubsetOrderingWellFounded
<1>3. PICK x \in Parts : \A y \in Parts : <<y, x>> \notin StrictSubsetOrdering(Nat)
  <2> HIDE DEF Parts
  <2> QED
    BY <1>1, <1>2, WFMin
<1>4. PICK i \in S : x = Upto(i)
  BY <1>3
<1>5. ASSUME NEW j \in S, ~(i <= j) PROVE FALSE
  <2>1. Upto(j) \subseteq Upto(i) /\ i \in Upto(i) /\ i \notin Upto(j)
    BY <1>5
  <2>2. <<Upto(j), Upto(i)>> \in StrictSubsetOrdering(Nat)
    BY <2>1 DEF StrictSubsetOrdering
  <2> QED
    BY <1>3, <1>4, <2>2
<1> QED
  BY <1>5

\* find_first answers the lowest set bit, or the length when no bit is set.
LEMMA FirstBitIsLeast ==
  ASSUME NEW m \in NewMap
  PROVE  /\ m.data = {} => FirstBit(m) = m.len
         /\ m.data # {} => /\ FirstBit(m) \in m.data
                           /\ \A j \in m.data : FirstBit(m) <= j
<1>1. m.data \in SUBSET Nat
  BY WidthAssumption DEF NewMap, Word
<1>2. m.data # {} => \E i \in m.data : \A j \in m.data : i <= j
  BY <1>1, LeastElement
<1> QED
  BY <1>2 DEF FirstBit

------------------------------------------------------------------------------
(* Types.                                                                  *)

\* A binary operation on words gives a word.
LEMMA WordOpInWord ==
  ASSUME NEW op \in Binary, NEW a \in SUBSET Word, NEW b \in SUBSET Word
  PROVE  WordOp(op, a, b) \in SUBSET Word
BY DEF Binary, WordOp, Xor

\* set() writes a word in which the bits below the length are all 1: the case of
\* its own that a full word has covers the length the shift is undefined for.
LEMMA AllOnesFill ==
  ASSUME NEW len \in Length
  PROVE  AllOnes(len) \in SUBSET Word /\ AllOnes(len) \intersect Below(len) = Below(len)
<1>1. len \in Nat /\ len <= Width /\ Width \in Nat \ {0}
  BY WidthAssumption DEF Length
<1>2. CASE len = Width
  BY <1>2 DEF AllOnes, Below, Word
<1>3. CASE len # Width
  <2>1. len % Width = len
    BY <1>1, <1>3
  <2> QED
    BY <1>1, <1>3, <2>1 DEF AllOnes, LowOnes, Below, Word
<1> QED
  BY <1>2, <1>3

\* A step of one map: it becomes m, or the call only answers.
LEMMA BecomesKeepsType ==
  ASSUME TypeOK, NEW o \in Obj, NEW m \in NewMap,
         map' = [map EXCEPT ![o] = m], answer' = Void
  PROVE  TypeOK'
BY DEF TypeOK

\* An operation that only answers keeps the types.
LEMMA AnswersKeepsType ==
  ASSUME TypeOK, NEW a \in 0 .. Width, Answers(a)
  PROVE  TypeOK'
BY DEF TypeOK, Answers

\* Rewriting the word of a map leaves its length.
LEMMA BecomesWordAsMap ==
  ASSUME TypeOK, NEW o \in Obj, NEW d \in SUBSET Word, BecomesWord(o, d)
  PROVE  /\ [len |-> map[o].len, data |-> d] \in NewMap
         /\ map' = [map EXCEPT ![o] = [len |-> map[o].len, data |-> d]]
         /\ answer' = Void
<1>1. map[o] \in NewMap /\ map[o].len \in Length
  BY DEF TypeOK, NewMap
<1>2. [map[o] EXCEPT !.data = d] = [len |-> map[o].len, data |-> d]
  BY <1>1 DEF NewMap
<1> QED
  BY <1>1, <1>2 DEF TypeOK, NewMap, BecomesWord

\* No operation of the template leaves the types.
LEMMA NextKeepsType == TypeOK /\ [Next]_vars => TypeOK'
<1> SUFFICES ASSUME TypeOK, [Next]_vars PROVE TypeOK'
  OBVIOUS
<1>0. \A u \in Obj : /\ map[u] \in NewMap /\ map[u].len \in Length
                      /\ map[u].len \in Nat /\ map[u].len <= Width
                      /\ map[u].data \in SUBSET Word
  BY WidthAssumption DEF TypeOK, NewMap, Length
<1>1. ASSUME NEW o \in Obj, NEW d \in SUBSET Word, BecomesWord(o, d) PROVE TypeOK'
  BY <1>1, BecomesWordAsMap, BecomesKeepsType
<1>2. ASSUME NEW o \in Obj, NEW len \in Length, NEW value \in SUBSET Word,
             construct(o, len, value)
      PROVE  TypeOK'
  BY <1>2, BecomesKeepsType DEF construct, Becomes, NewMap
<1>3. ASSUME NEW o \in Obj, flip_all(o) \/ set_all(o) \/ reset_all(o) PROVE TypeOK'
  <2>1. AllOnes(map[o].len) \in SUBSET Word
    BY <1>0, AllOnesFill
  <2> QED
    BY <1>1, <1>3, <2>1 DEF flip_all, set_all, reset_all
<1>4. ASSUME NEW o \in Obj, ffs(o) PROVE TypeOK'
  <2>1. FirstBit(map[o]) \in 0 .. Width
    BY <1>0, FirstBitIsLeast, WidthAssumption DEF Word
  <2> QED
    BY <1>4, <2>1, AnswersKeepsType DEF ffs
<1>5. ASSUME NEW o \in Obj, NEW pos \in Word, NEW value \in BOOLEAN, set(o, pos, value)
      PROVE  TypeOK'
  BY <1>0, <1>1, <1>5 DEF set
<1>6. ASSUME NEW o \in Obj, NEW pos \in Word, reset(o, pos) \/ flip(o, pos) PROVE TypeOK'
  BY <1>0, <1>1, <1>5, <1>6 DEF reset, flip, Xor
<1>7. ASSUME NEW o \in Obj, NEW pos \in Word, test(o, pos) PROVE TypeOK'
  BY <1>7, AnswersKeepsType, WidthAssumption DEF test
<1>8. ASSUME NEW o \in Obj, NEW from \in Obj, NEW pos \in Word, NEW at \in Word,
             assign_reference(o, pos, from, at)
      PROVE  TypeOK'
  BY <1>0, <1>1, <1>8 DEF assign_reference
<1>9. ASSUME NEW o \in Obj, NEW p \in Obj, NEW q \in Obj, NEW op \in Binary,
             combine(o, op, p, q)
      PROVE  TypeOK'
  BY <1>0, <1>9, WordOpInWord, BecomesKeepsType DEF combine, Becomes, NewMap
<1>10. ASSUME NEW o \in Obj, NEW other \in Obj, NEW op \in Binary,
              combine_assign(o, op, other)
       PROVE  TypeOK'
  BY <1>0, <1>1, <1>10, WordOpInWord DEF combine_assign
<1>11. ASSUME NEW o \in Obj, NEW p \in Obj, copy(o, p) PROVE TypeOK'
  BY <1>0, <1>11, BecomesKeepsType DEF copy, Becomes
<1>12. ASSUME NEW o \in Obj, NEW p \in Obj, equal(o, p) PROVE TypeOK'
  BY <1>12, AnswersKeepsType, WidthAssumption DEF equal
<1>13. CASE UNCHANGED vars
  BY <1>13 DEF vars, TypeOK
<1> QED
  BY <1>2, <1>3, <1>4, <1>5, <1>6, <1>7, <1>8, <1>9, <1>10, <1>11, <1>12, <1>13 DEF Next

\* No operation sets a bit beyond the word, and what find_first answers is a
\* position of the word or its width.
THEOREM TypeCorrect == Spec => []TypeOK
<1>1. Init => TypeOK
  BY DEF Init, TypeOK, NewMap
<1> QED
  BY <1>1, NextKeepsType, PTL DEF Spec

------------------------------------------------------------------------------
(* Every operation is a step of Bitset.                                    *)

SizeView(u) == map[u].len
BitsView(u) == Bits(map[u])

\* View!Becomes, map by map.
LEMMA BecomesByView ==
  ASSUME TypeOK, NEW o \in Obj, NEW m \in NewMap,
         map' = [map EXCEPT ![o] = m], answer' = Void,
         NEW n, NEW b, n = m.len, b = Bits(m)
  PROVE  View!Becomes(o, n, b)
<1>1. /\ map'[o] = m /\ \A u \in Obj : u # o => map'[u] = map[u]
  BY DEF TypeOK
<1>2. /\ SizeView(o)' = n /\ BitsView(o)' = b
      /\ \A u \in Obj : u # o => SizeView(u)' = SizeView(u) /\ BitsView(u)' = BitsView(u)
  BY <1>1 DEF SizeView, BitsView
<1>3. [u \in Obj |-> SizeView(u)'] = [[u \in Obj |-> SizeView(u)] EXCEPT ![o] = n]
  BY <1>2
<1>4. [u \in Obj |-> BitsView(u)'] = [[u \in Obj |-> BitsView(u)] EXCEPT ![o] = b]
  BY <1>2
<1> QED
  BY <1>3, <1>4 DEF View!Becomes, View!Void, Void, SizeView, BitsView

\* Writing a word to a map is a change of the bits below its length.
LEMMA WordByView ==
  ASSUME TypeOK, NEW o \in Obj, NEW d \in SUBSET Word, BecomesWord(o, d),
         NEW n, NEW b, n = map[o].len, b = d \intersect Below(map[o].len)
  PROVE  View!Becomes(o, n, b)
<1> DEFINE m == [len |-> map[o].len, data |-> d]
<1>1. m \in NewMap /\ map' = [map EXCEPT ![o] = m] /\ answer' = Void
  BY BecomesWordAsMap
<1>2. n = m.len /\ b = Bits(m)
  BY DEF Bits
<1> HIDE DEF m
<1> QED
  BY <1>1, <1>2, BecomesByView

\* An answer is the same in both modules.
LEMMA AnswersByView ==
  ASSUME NEW a, Answers(a), NEW r, r = a
  PROVE  View!Answers(r)
BY DEF Answers, View!Answers

\* What a program knows of its maps.
LEMMA MapFacts ==
  ASSUME TypeOK, NEW u \in Obj
  PROVE  /\ map[u] \in NewMap /\ map[u].len \in 0 .. Width
         /\ map[u].len \in Nat /\ map[u].len <= Width
         /\ map[u].data \in SUBSET Word /\ Below(map[u].len) \subseteq Word
         /\ [v \in Obj |-> map[v].len][u] = map[u].len
         /\ [v \in Obj |-> Bits(map[v])][u] = Bits(map[u])
         /\ View!Range(u) = Below(map[u].len)
BY WidthAssumption DEF TypeOK, NewMap, Length, Below, Word, View!Range

\* The constructor, whatever it leaves above the length.
LEMMA ConstructSteps ==
  ASSUME TypeOK, NEW o \in Obj, NEW len \in Length, NEW value \in SUBSET Word,
         construct(o, len, value)
  PROVE  View!Build(o)
<1> DEFINE m == [len |-> len, data |-> value]
           b == value \intersect Below(len)
<1>1. m \in NewMap /\ map' = [map EXCEPT ![o] = m] /\ answer' = Void
  BY DEF construct, Becomes, NewMap
<1>2. len = m.len /\ b = Bits(m) /\ len \in 0 .. Width /\ b \in SUBSET (0 .. len - 1)
  BY DEF Bits, Length, Below
<1> HIDE DEF m, b
<1>3. View!Becomes(o, len, b)
  BY <1>1, <1>2, BecomesByView
<1> QED
  BY <1>2, <1>3 DEF View!Build

\* Copy construction and assignment.
LEMMA CopySteps ==
  ASSUME TypeOK, NEW o \in Obj, NEW p \in Obj, copy(o, p)
  PROVE  View!Copy(o, p)
<1>1. \A n, b : n = map[p].len /\ b = Bits(map[p]) => View!Becomes(o, n, b)
  BY MapFacts, BecomesByView DEF copy, Becomes
<1> QED
  BY <1>1, MapFacts DEF View!Copy, View!Becomes

\* What flip_all does to the padding is not seen.
LEMMA FlipAllSteps ==
  ASSUME TypeOK, NEW o \in Obj, flip_all(o)
  PROVE  View!Invert(o)
<1>1. (Word \ map[o].data) \intersect Below(map[o].len)
        = Below(map[o].len) \ Bits(map[o])
  BY MapFacts DEF Bits
<1>2. \A n, b : n = map[o].len /\ b = Below(map[o].len) \ Bits(map[o])
                => View!Becomes(o, n, b)
  BY <1>1, WordByView DEF flip_all
<1> QED
  BY <1>2, MapFacts DEF View!Invert, View!Becomes

\* set(), at full width too (bitmap.h:56).
LEMMA SetAllSteps ==
  ASSUME TypeOK, NEW o \in Obj, set_all(o)
  PROVE  View!Fill(o)
<1>1. /\ AllOnes(map[o].len) \intersect Below(map[o].len) = Below(map[o].len)
      /\ AllOnes(map[o].len) \in SUBSET Word
  BY MapFacts, AllOnesFill DEF Length
<1>2. \A n, b : n = map[o].len /\ b = Below(map[o].len) => View!Becomes(o, n, b)
  BY <1>1, WordByView DEF set_all
<1> QED
  BY <1>2, MapFacts DEF View!Fill, View!Becomes

\* reset().
LEMMA ResetAllSteps ==
  ASSUME TypeOK, NEW o \in Obj, reset_all(o)
  PROVE  View!Clear(o)
<1>1. \A n, b : n = map[o].len /\ b = {} => View!Becomes(o, n, b)
  BY WordByView DEF reset_all
<1> QED
  BY <1>1, MapFacts DEF View!Clear, View!Becomes

\* A map with nothing but padding answers a position at or above its length.
LEMMA FindFirstSteps ==
  ASSUME TypeOK, NEW o \in Obj, ffs(o)
  PROVE  View!First(o)
<1> DEFINE i == FirstBit(map[o])
<1>1. View!Answers(i)
  BY AnswersByView DEF ffs
<1>2. /\ map[o].data = {} => i = map[o].len
      /\ map[o].data # {} => i \in map[o].data /\ \A j \in map[o].data : i <= j
      /\ i \in Nat
  BY MapFacts, FirstBitIsLeast, WidthAssumption DEF Word
<1> HIDE DEF i
<1>3. CASE i \in Bits(map[o])
  <2>1. \A j \in Bits(map[o]) : i <= j
    BY <1>2, <1>3 DEF Bits
  <2> QED
    BY <1>1, <1>3, <2>1, MapFacts DEF View!First
<1>4. CASE i \notin Bits(map[o])
  <2>1. Bits(map[o]) = {} /\ i \in map[o].len .. Width
    BY <1>2, <1>4, MapFacts, WidthAssumption DEF Bits, Below, Word
  <2> QED
    BY <1>1, <2>1, MapFacts DEF View!First
<1> QED
  BY <1>3, <1>4

\* A bit set or cleared below the length is the bit that is seen.
LEMMA PutSteps ==
  ASSUME TypeOK, NEW o \in Obj, NEW pos \in Word, NEW value \in BOOLEAN,
         pos < map[o].len,
         BecomesWord(o, IF value THEN map[o].data \union {pos} ELSE map[o].data \ {pos})
  PROVE  View!Put(o, pos, value)
<1> DEFINE d == IF value THEN map[o].data \union {pos} ELSE map[o].data \ {pos}
           c == IF value THEN Bits(map[o]) \union {pos} ELSE Bits(map[o]) \ {pos}
<1>1. pos \in Below(map[o].len)
  BY MapFacts, WidthAssumption DEF Below, Word
<1>2. d \in SUBSET Word /\ d \intersect Below(map[o].len) = c
  BY <1>1, MapFacts DEF Bits
<1>3. BecomesWord(o, d)
  OBVIOUS
<1> HIDE DEF d
<1>4. \A n, b : n = map[o].len /\ b = c => View!Becomes(o, n, b)
  BY <1>2, <1>3, WordByView
<1> QED
  BY <1>1, <1>4, MapFacts DEF View!Put, View!Becomes

\* flip(pos), which complements one bit below the length.
LEMMA FlipSteps ==
  ASSUME TypeOK, NEW o \in Obj, NEW pos \in Word, flip(o, pos)
  PROVE  View!Toggle(o, pos)
<1>1. pos < map[o].len /\ BecomesWord(o, Xor(map[o].data, {pos}))
  BY DEF flip
<1>2. pos \in Below(map[o].len)
  BY <1>1, MapFacts, WidthAssumption DEF Below, Word
<1>3. CASE pos \in map[o].data
  <2>1. Xor(map[o].data, {pos}) = map[o].data \ {pos}
    BY <1>3 DEF Xor
  <2>2. View!Put(o, pos, FALSE)
    BY <1>1, <2>1, PutSteps
  <2> QED
    BY <1>2, <1>3, <2>2, MapFacts DEF View!Toggle, Bits, View!Put, View!Becomes
<1>4. CASE pos \notin map[o].data
  <2>1. Xor(map[o].data, {pos}) = map[o].data \union {pos}
    BY <1>4 DEF Xor
  <2>2. View!Put(o, pos, TRUE)
    BY <1>1, <2>1, PutSteps
  <2> QED
    BY <1>2, <1>4, <2>2, MapFacts DEF View!Toggle, Bits, View!Put, View!Becomes
<1> QED
  BY <1>3, <1>4

\* test(pos).
LEMMA TestSteps ==
  ASSUME TypeOK, NEW o \in Obj, NEW pos \in Word, test(o, pos)
  PROVE  View!Test(o, pos)
<1>1. pos \in Below(map[o].len)
  BY MapFacts, WidthAssumption DEF test, Below, Word
<1>2. pos \in map[o].data <=> pos \in Bits(map[o])
  BY <1>1 DEF Bits
<1> QED
  BY <1>1, <1>2, MapFacts DEF test, Answers, View!Test, View!Answers

\* The bit a reference assigns is the source's only at the same position.
LEMMA AssignReferenceSteps ==
  ASSUME TypeOK, NEW o \in Obj, NEW from \in Obj, NEW pos \in Word, NEW at \in Word,
         assign_reference(o, pos, from, at)
  PROVE  View!PutFrom(o, pos, from, at)
<1>1. pos \in Below(map[o].len) /\ at \in Below(map[from].len)
  BY MapFacts, WidthAssumption DEF assign_reference, Below, Word
<1>2. /\ pos \in map[from].data => View!Put(o, pos, TRUE)
      /\ pos \notin map[from].data => View!Put(o, pos, FALSE)
  BY PutSteps DEF assign_reference
<1>3. pos = at => (pos \in map[from].data <=> at \in Bits(map[from]))
  BY <1>1 DEF Bits
<1> QED
  BY <1>1, <1>2, <1>3, MapFacts DEF View!PutFrom, View!Put, View!Becomes

\* Two maps of one length combine bit by bit; of two lengths, the result has the
\* length of the first.
LEMMA CombinedSteps ==
  ASSUME TypeOK, NEW to \in Obj, NEW op \in Binary, NEW p \in Obj, NEW q \in Obj,
         NEW d, d = WordOp(op, map[p].data, map[q].data),
         map' = [map EXCEPT ![to] = [len |-> map[p].len, data |-> d]], answer' = Void
  PROVE  View!Combine(to, op, p, q)
<1> DEFINE m == [len |-> map[p].len, data |-> d]
<1>1. d \in SUBSET Word
  BY MapFacts, WordOpInWord
<1>2. m \in NewMap /\ map' = [map EXCEPT ![to] = m]
  BY <1>1, MapFacts DEF NewMap, Length
<1>3. map[p].len = m.len /\ Bits(m) = d \intersect Below(map[p].len)
  BY DEF Bits
<1> HIDE DEF m
<1>4. \A n, b : n = map[p].len /\ b = d \intersect Below(map[p].len)
                => View!Becomes(to, n, b)
  BY <1>2, <1>3, BecomesByView
<1> DEFINE c == View!Combined(op, Bits(map[p]), Bits(map[q]))
<1>5. CASE map[p].len = map[q].len
  <2>1. d \intersect Below(map[p].len) = c
    BY <1>5 DEF Binary, WordOp, Xor, Bits, View!Combined
  <2> HIDE DEF c
  <2>2. \A n, b : n = map[p].len /\ b = c => View!Becomes(to, n, b)
    BY <1>4, <2>1
  <2> QED
    BY <1>5, <2>2, MapFacts DEF View!Combine, View!Becomes, c
<1>6. CASE map[p].len # map[q].len
  <2>1. d \intersect Below(map[p].len) \in SUBSET Below(map[p].len)
    OBVIOUS
  <2> QED
    BY <1>4, <1>6, <2>1, MapFacts DEF View!Combine, View!Becomes
<1> QED
  BY <1>5, <1>6

\* &, | and ^ of two maps, into a third.
LEMMA CombineSteps ==
  ASSUME TypeOK, NEW to \in Obj, NEW op \in Binary, NEW p \in Obj, NEW q \in Obj,
         combine(to, op, p, q)
  PROVE  View!Combine(to, op, p, q)
BY CombinedSteps DEF combine, Becomes

\* &=, |= and ^=.
LEMMA CombineAssignSteps ==
  ASSUME TypeOK, NEW o \in Obj, NEW op \in Binary, NEW other \in Obj,
         combine_assign(o, op, other)
  PROVE  View!Combine(o, op, o, other)
<1>1. WordOp(op, map[o].data, map[other].data) \in SUBSET Word
  BY MapFacts, WordOpInWord
<1> QED
  BY <1>1, BecomesWordAsMap, CombinedSteps DEF combine_assign

\* Equal words and lengths are equal sets; padding may hide an equality.
LEMMA EqualSteps ==
  ASSUME TypeOK, NEW o \in Obj, NEW p \in Obj, equal(o, p)
  PROVE  View!Equal(o, p)
<1>1. CASE Same(map[o], map[p])
  BY <1>1, MapFacts DEF equal, Same, Answers, View!Equal, View!Answers, Bits
<1>2. CASE ~Same(map[o], map[p])
  BY <1>2, MapFacts DEF equal, Same, Answers, View!Equal, View!Answers
<1> QED
  BY <1>1, <1>2

\* A map without padding answers its length when no bit is set.
LEMMA FindFirstExactly ==
  ASSUME TypeOK, NEW o \in Obj, ffs(o), Padding(map[o]) = {}
  PROVE  View!FirstExactly(o)
<1>1. Bits(map[o]) = {} => map[o].data = {}
  BY MapFacts DEF Bits, Padding
<1>2. Bits(map[o]) = {} => answer' = map[o].len
  BY <1>1, MapFacts, FirstBitIsLeast DEF ffs, Answers
<1> QED
  BY <1>2, FindFirstSteps, MapFacts DEF View!FirstExactly

\* Maps whose padding is the same are equal when their bits are.
LEMMA EqualExactlySteps ==
  ASSUME TypeOK, NEW o \in Obj, NEW p \in Obj, equal(o, p),
         Padding(map[o]) = Padding(map[p])
  PROVE  View!EqualExactly(o, p)
<1>1. \A u \in Obj : map[u].data = Bits(map[u]) \union Padding(map[u])
  BY DEF Bits, Padding
<1>2. Same(map[o], map[p]) <=> map[o].len = map[p].len /\ Bits(map[o]) = Bits(map[p])
  BY <1>1 DEF Same, Bits
<1> QED
  BY <1>2, MapFacts DEF equal, Answers, View!EqualExactly, View!Answers

\* Every operation of the template is one of Bitset.
LEMMA NextImplementsBitset ==
  ASSUME TypeOK, [Next]_vars
  PROVE  [View!Next]_View!vars
<1>1. ASSUME NEW o \in Obj, NEW len \in Length, NEW value \in SUBSET Word,
             construct(o, len, value)
      PROVE  View!Next
  BY <1>1, ConstructSteps DEF View!Next
<1>2. ASSUME NEW o \in Obj, flip_all(o) \/ set_all(o) \/ reset_all(o) \/ ffs(o)
      PROVE  View!Next
  BY <1>2, FlipAllSteps, SetAllSteps, ResetAllSteps, FindFirstSteps DEF View!Next
<1>3. ASSUME NEW o \in Obj, NEW pos \in Word, NEW value \in BOOLEAN, set(o, pos, value)
      PROVE  View!Next
  BY <1>3, PutSteps DEF set, View!Next, Word
<1>4. ASSUME NEW o \in Obj, NEW pos \in Word, reset(o, pos)
      PROVE  View!Next
  BY <1>3, <1>4 DEF reset
<1>5. ASSUME NEW o \in Obj, NEW pos \in Word, flip(o, pos) \/ test(o, pos)
      PROVE  View!Next
  BY <1>5, FlipSteps, TestSteps DEF View!Next, Word
<1>6. ASSUME NEW o \in Obj, NEW from \in Obj, NEW pos \in Word, NEW at \in Word,
             assign_reference(o, pos, from, at)
      PROVE  View!Next
  BY <1>6, AssignReferenceSteps DEF View!Next, Word
<1>7. ASSUME NEW o \in Obj, NEW p \in Obj, NEW q \in Obj, NEW op \in Binary,
             combine(o, op, p, q)
      PROVE  View!Next
  BY <1>7, CombineSteps DEF View!Next, Binary
<1>8. ASSUME NEW o \in Obj, NEW other \in Obj, NEW op \in Binary,
             combine_assign(o, op, other)
      PROVE  View!Next
  BY <1>8, CombineAssignSteps DEF View!Next, Binary
<1>9. ASSUME NEW o \in Obj, NEW p \in Obj, copy(o, p) \/ equal(o, p)
      PROVE  View!Next
  BY <1>9, CopySteps, EqualSteps DEF View!Next
<1>10. CASE UNCHANGED vars
  BY <1>10 DEF vars, View!vars, Bits
<1> QED
  BY <1>1, <1>2, <1>3, <1>4, <1>5, <1>6, <1>7, <1>8, <1>9, <1>10 DEF Next

\* A BitMap, seen below its length, is a set of positions, and its operations are
\* those of the set, whatever is left in the padding of its word.
THEOREM Refinement == Spec => ImplementsBitset
<1>1. Init => View!Init
  BY MapFacts, WidthAssumption
     DEF Init, View!Init, View!Void, Void, Bits, Length, NewMap, TypeOK
<1>2. TypeOK /\ [Next]_vars => [View!Next]_View!vars
  BY NextImplementsBitset
<1> QED
  BY <1>1, <1>2, TypeCorrect, PTL DEF Spec, ImplementsBitset, View!Spec

\* Each call is the operation of Bitset it is named for, at every length: the bits
\* below the length are what std::bitset makes of them.
THEOREM EachCallCorrect == Spec => EachCallIsItsBitsetCall
<1>1. ASSUME TypeOK, NEW o \in Obj PROVE BitsetCall(o)
  <2>1. /\ set_all(o) => View!Fill(o)
        /\ reset_all(o) => View!Clear(o)
        /\ flip_all(o) => View!Invert(o)
        /\ ffs(o) => IF Padding(map[o]) = {} THEN View!FirstExactly(o)
                     ELSE View!First(o)
    BY <1>1, SetAllSteps, ResetAllSteps, FlipAllSteps, FindFirstSteps, FindFirstExactly
  <2>2. ASSUME NEW pos \in Word
        PROVE  /\ reset(o, pos) => View!Put(o, pos, FALSE)
               /\ flip(o, pos) => View!Toggle(o, pos)
               /\ test(o, pos) => View!Test(o, pos)
               /\ \A x \in BOOLEAN : set(o, pos, x) => View!Put(o, pos, x)
    BY <1>1, PutSteps, FlipSteps, TestSteps DEF set, reset
  <2>3. ASSUME NEW p \in Obj
        PROVE  /\ copy(o, p) => View!Copy(o, p)
               /\ equal(o, p) => IF Padding(map[o]) = Padding(map[p])
                                 THEN View!EqualExactly(o, p) ELSE View!Equal(o, p)
               /\ \A op \in Binary :
                    /\ combine_assign(o, op, p) => View!Combine(o, op, o, p)
                    /\ \A q \in Obj : combine(o, op, p, q) => View!Combine(o, op, p, q)
    BY <1>1, CopySteps, EqualSteps, EqualExactlySteps, CombineAssignSteps, CombineSteps
  <2> QED
    BY <2>1, <2>2, <2>3 DEF BitsetCall
<1>2. TypeOK /\ [Next]_vars => [\A o \in Obj : BitsetCall(o)]_vars
  BY <1>1
<1> QED
  BY <1>2, TypeCorrect, PTL DEF Spec, EachCallIsItsBitsetCall
==============================================================================
