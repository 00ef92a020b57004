----------------------------- MODULE HashFnProofs -----------------------------
(***************************************************************************)
(* murmurhash2 and wyhash read the whole key and nothing beyond it, for    *)
(* keys of every length; murmurhash2 hashes keys that differ in one block, *)
(* or in the seed, apart.                                                  *)
(***************************************************************************)
EXTENDS HashFn, WellFoundedInduction, FiniteSetTheorems, TLAPS


------------------------------------------------------------------------------
(* Naturals, and functions defined by recursion on them *)

\* A non-empty set of naturals has a least element
LEMMA LeastElement ==
  ASSUME NEW S \in SUBSET Nat, S # {}
  PROVE  \E i \in S : \A j \in S : i <= j
<1> DEFINE Upto(n) == S \intersect (0 .. n)
           Parts == {Upto(n) : n \in S}
<1>1. Parts \subseteq FiniteSubsetsOf(Nat) /\ Parts # {}
  <2> SUFFICES ASSUME NEW n \in S PROVE Upto(n) \in FiniteSubsetsOf(Nat)
    OBVIOUS
  <2>1. IsFiniteSet(0 .. n)
    BY FS_Interval
  <2>2. IsFiniteSet(Upto(n))
    BY <2>1, FS_Subset
  <2> QED
    BY <2>2 DEF FiniteSubsetsOf
<1>2. IsWellFoundedOn(StrictSubsetOrdering(Nat), FiniteSubsetsOf(Nat))
  BY FS_StrictSubsetOrderingWellFounded
<1>3. PICK x \in Parts : \A y \in Parts : <<y, x>> \notin StrictSubsetOrdering(Nat)
  <2> HIDE DEF Parts
  <2> QED
    BY <1>1, <1>2, WFMin
<1>4. PICK i \in S : x = Upto(i)
  BY <1>3
<1>5. ASSUME NEW j \in S, ~(i <= j) PROVE FALSE
  <2>1. Upto(j) \subseteq Upto(i) /\ i \in Upto(i) /\ i \notin Upto(j)
    BY <1>5
  <2>2. <<Upto(j), Upto(i)>> \in StrictSubsetOrdering(Nat)
    BY <2>1 DEF StrictSubsetOrdering
  <2> QED
    BY <1>3, <1>4, <2>2
<1> QED
  BY <1>5

\* Induction, for a set in the place of a predicate.
LEMMA Induction ==
  ASSUME NEW S, 0 \in S, \A n \in Nat : n \in S => n + 1 \in S
  PROVE  \A n \in Nat : n \in S
<1> SUFFICES ASSUME Nat \ S # {} PROVE FALSE
  OBVIOUS
<1>1. PICK i \in Nat \ S : \A j \in Nat \ S : i <= j
  BY LeastElement
<1>2. i # 0 /\ i - 1 \in Nat
  BY <1>1
<1>3. i - 1 \in S
  BY <1>1, <1>2
<1> QED
  BY <1>1, <1>2, <1>3

\* A function on the naturals is defined by its first value and a step g.
LEMMA Recursion ==
  ASSUME NEW V, NEW a \in V, NEW g \in [V -> V]
  PROVE  \E f \in [Nat -> V] : /\ f[0] = a
                              /\ \A n \in Nat : f[n + 1] = g[f[n]]
<1> DEFINE Follows(f, n) == /\ f \in [0 .. n -> V]
                            /\ f[0] = a
                            /\ \A j \in 0 .. n - 1 : f[j + 1] = g[f[j]]
           Defined == {n \in Nat : \E f : Follows(f, n)}
           part[n \in Nat] == CHOOSE f : Follows(f, n)
           whole == [n \in Nat |-> part[n][n]]
<1>1. \A n \in Nat : n \in Defined
  <2>1. 0 \in Defined
    <3>1. Follows([j \in 0 .. 0 |-> a], 0)
      OBVIOUS
    <3> QED
      BY <3>1
  <2>2. ASSUME NEW n \in Nat, n \in Defined PROVE n + 1 \in Defined
    <3>1. PICK f : Follows(f, n)
      BY <2>2
    <3> DEFINE longer == [j \in 0 .. n + 1 |-> IF j = n + 1 THEN g[f[n]] ELSE f[j]]
    <3>2. Follows(longer, n + 1)
      <4>1. longer \in [0 .. n + 1 -> V] /\ longer[0] = a
        BY <3>1
      <4>2. ASSUME NEW j \in 0 .. n + 1 - 1 PROVE longer[j + 1] = g[longer[j]]
        BY <3>1
      <4> HIDE DEF longer
      <4> QED
        BY <4>1, <4>2
    <3> HIDE DEF Follows, longer
    <3> QED
      BY <3>2
  <2> HIDE DEF Defined
  <2> QED
    BY <2>1, <2>2, Induction
<1>2. ASSUME NEW n \in Nat PROVE Follows(part[n], n)
  <2>1. \E f : Follows(f, n)
    BY <1>1
  <2> HIDE DEF Follows
  <2> QED
    BY <2>1
<1>3. ASSUME NEW n \in Nat
      PROVE  Follows(part[n], n) /\ Follows(part[n + 1], n + 1)
  <2> HIDE DEF Follows, part
  <2> QED
    BY <1>2, n + 1 \in Nat
<1>4. ASSUME NEW n \in Nat PROVE \A j \in 0 .. n : part[n + 1][j] = part[n][j]
  <2> DEFINE Same == {j \in Nat : j <= n => part[n + 1][j] = part[n][j]}
  <2>1. Follows(part[n], n) /\ Follows(part[n + 1], n + 1)
    BY <1>3
  <2> HIDE DEF part
  <2>2. 0 \in Same
    BY <2>1
  <2>3. ASSUME NEW j \in Nat, j \in Same PROVE j + 1 \in Same
    <3>1. CASE j + 1 <= n
      <4>1. j \in 0 .. n - 1 /\ j \in 0 .. n + 1 - 1 /\ part[n + 1][j] = part[n][j]
        BY <2>3, <3>1
      <4> QED
        BY <2>1, <4>1
    <3> QED
      BY <3>1
  <2>4. \A j \in Nat : j \in Same
    <3> HIDE DEF Same
    <3> QED
      BY <2>2, <2>3, Induction
  <2> QED
    BY <2>4
<1>5. ASSUME NEW n \in Nat
      PROVE  /\ whole[n] \in V
             /\ n = 0 => whole[n] = a
             /\ whole[n + 1] = g[whole[n]]
  <2>1. Follows(part[n], n) /\ Follows(part[n + 1], n + 1)
    BY <1>3
  <2>2. whole[n] = part[n][n] /\ whole[n + 1] = part[n + 1][n + 1]
    OBVIOUS
  <2> HIDE DEF part, whole
  <2>3. part[n + 1][n + 1] = g[part[n + 1][n]] /\ part[n + 1][n] = part[n][n]
    BY <1>4, <2>1
  <2> QED
    BY <2>1, <2>2, <2>3
<1>6. whole \in [Nat -> V]
  BY <1>5
<1> QED
  <2> HIDE DEF whole
  <2> QED
    BY <1>5, <1>6

\* Pow2 is the function its definition describes.
LEMMA Pow2Step ==
  /\ Pow2[0] = 1
  /\ \A n \in Nat : Pow2[n + 1] = 2 * Pow2[n] /\ Pow2[n] \in Nat \ {0}
<1> DEFINE V == Nat
           one == 1
           double == [v \in V |-> 2 * v]
<1>1. PICK f \in [Nat -> Nat] : f[0] = 1 /\ \A n \in Nat : f[n + 1] = double[f[n]]
  <2>1. double \in [V -> V] /\ one \in V
    OBVIOUS
  <2>2. \E f \in [Nat -> V] : f[0] = one /\ \A n \in Nat : f[n + 1] = double[f[n]]
    <3> HIDE DEF double, V, one
    <3> QED
      BY <2>1, Recursion
  <2> QED
    BY <2>2
<1>2. f = [n \in Nat |-> IF n = 0 THEN 1 ELSE 2 * f[n - 1]]
  <2>1. ASSUME NEW n \in Nat PROVE f[n] = IF n = 0 THEN 1 ELSE 2 * f[n - 1]
    <3>1. CASE n # 0
      <4>1. n - 1 \in Nat /\ n - 1 + 1 = n
        BY <3>1
      <4> QED
        BY <1>1, <3>1, <4>1
    <3> QED
      BY <1>1, <3>1
  <2> QED
    BY <1>1, <2>1
<1>3. Pow2 = [n \in Nat |-> IF n = 0 THEN 1 ELSE 2 * Pow2[n - 1]]
  BY <1>2 DEF Pow2
<1>4. Pow2[0] = 1 /\ \A n \in Nat : Pow2[n + 1] = 2 * Pow2[n]
  <2> HIDE DEF Pow2
  <2> QED
    BY <1>3
<1> DEFINE S == {n \in Nat : Pow2[n] \in Nat \ {0}}
<1>5. \A n \in Nat : n \in S
  <2>1. 0 \in S /\ \A n \in Nat : n \in S => n + 1 \in S
    BY <1>4
  <2> HIDE DEF S
  <2> QED
    BY <2>1, Induction
<1> QED
  BY <1>4, <1>5

\* So is XorBits: the lowest bit of x ^ y, and the others.
LEMMA XorStep ==
  /\ \A n \in Nat : XorBits[n] \in [Nat -> [Nat -> Nat]]
  /\ \A x, y \in Nat : XorBits[0][x][y] = 0
  /\ \A n \in Nat, x, y \in Nat :
       XorBits[n + 1][x][y] = ((x + y) % 2) + 2 * XorBits[n][x \div 2][y \div 2]
<1> DEFINE V == [Nat -> [Nat -> Nat]]
           zero == [x \in Nat |-> [y \in Nat |-> 0]]
           more(w, x, y) == ((x + y) % 2) + 2 * w[x \div 2][y \div 2]
           next == [w \in V |-> [x \in Nat |-> [y \in Nat |-> more(w, x, y)]]]
<1>1. ASSUME NEW w \in V, NEW x \in Nat, NEW y \in Nat PROVE more(w, x, y) \in Nat
  <2>1. x \div 2 \in Nat /\ y \div 2 \in Nat /\ (x + y) % 2 \in Nat
    OBVIOUS
  <2>2. w[x \div 2][y \div 2] \in Nat
    BY <2>1
  <2>3. \A u, v \in Nat : u + 2 * v \in Nat
    OBVIOUS
  <2> QED
    BY <2>1, <2>2, <2>3
<1>2. zero \in V /\ next \in [V -> V]
  <2> HIDE DEF more
  <2> QED
    BY <1>1
<1>3. PICK f \in [Nat -> V] : f[0] = zero /\ \A n \in Nat : f[n + 1] = next[f[n]]
  <2> HIDE DEF V, zero, next
  <2> QED
    BY <1>2, Recursion
<1>4. ASSUME NEW n \in Nat
      PROVE  f[n] = [x \in Nat |-> [y \in Nat |-> IF n = 0 THEN 0 ELSE more(f[n - 1], x, y)]]
  <2> HIDE DEF more, V
  <2>1. CASE n = 0
    BY <1>3, <2>1
  <2>2. CASE n # 0
    <3>1. n - 1 \in Nat /\ n - 1 + 1 = n
      BY <2>2
    <3>2. f[n] = next[f[n - 1]] /\ f[n - 1] \in V
      <4> HIDE DEF next
      <4> QED
        BY <1>3, <3>1
    <3> QED
      BY <2>2, <3>2
  <2> QED
    BY <2>1, <2>2
<1>5. f = [n \in Nat |->
             [x \in Nat |-> [y \in Nat |-> IF n = 0 THEN 0 ELSE more(f[n - 1], x, y)]]]
  <2> HIDE DEF more, V
  <2>1. f = [n \in Nat |-> f[n]]
    BY <1>3
  <2> QED
    BY <1>4, <2>1
<1>6. XorBits = [n \in Nat |-> [x \in Nat |-> [y \in Nat |->
                   IF n = 0 THEN 0 ELSE more(XorBits[n - 1], x, y)]]]
  BY <1>5 DEF XorBits
<1> HIDE DEF XorBits
<1>7. ASSUME NEW n \in Nat
      PROVE  XorBits[n] = [x \in Nat |-> [y \in Nat |->
                             IF n = 0 THEN 0 ELSE more(XorBits[n - 1], x, y)]]
  <2> HIDE DEF more
  <2> QED
    BY <1>6, Zenon
<1>8. XorBits[0] = zero
  <2>1. XorBits[0] = [x \in Nat |-> [y \in Nat |->
                        IF 0 = 0 THEN 0 ELSE more(XorBits[0 - 1], x, y)]]
    BY <1>7, 0 \in Nat, Zenon
  <2>2. ASSUME NEW x \in Nat
        PROVE  [y \in Nat |-> IF 0 = 0 THEN 0 ELSE more(XorBits[0 - 1], x, y)]
                 = [y \in Nat |-> 0]
    BY Zenon
  <2> HIDE DEF more
  <2> QED
    BY <2>1, <2>2, Zenon
<1>9. ASSUME NEW n \in Nat
       PROVE XorBits[n + 1] = [x \in Nat |-> [y \in Nat |-> more(XorBits[n], x, y)]]
  <2> DEFINE m == n + 1
  <2>1. m \in Nat /\ m # 0 /\ m - 1 = n
    OBVIOUS
  <2> HIDE DEF m, more
  <2>2. XorBits[m] = [x \in Nat |-> [y \in Nat |-> more(XorBits[n], x, y)]]
    BY <1>7, <2>1
  <2> QED
    BY <2>2 DEF m
<1> DEFINE S == {n \in Nat : XorBits[n] \in V}
<1>10. \A n \in Nat : n \in S
  <2>1. 0 \in S
    BY <1>2, <1>8
  <2>2. ASSUME NEW n \in Nat, XorBits[n] \in V PROVE XorBits[n + 1] \in V
    <3>1. \A x, y \in Nat : more(XorBits[n], x, y) \in Nat
      <4> HIDE DEF more
      <4> QED
        BY <1>1, <2>2
    <3> HIDE DEF more
    <3>2. XorBits[n + 1] = [x \in Nat |-> [y \in Nat |-> more(XorBits[n], x, y)]]
      BY <1>9
    <3>3. [x \in Nat |-> [y \in Nat |-> more(XorBits[n], x, y)]] \in V
      BY <3>1
    <3> QED
      BY <3>2, <3>3, Zenon
  <2> HIDE DEF V
  <2>3. \A n \in Nat : n \in S => n + 1 \in S
    BY <2>2
  <2> HIDE DEF S
  <2> QED
    BY <2>1, <2>3, Induction
<1>11. ASSUME NEW n \in Nat, NEW x \in Nat, NEW y \in Nat
      PROVE  XorBits[n + 1][x][y] = more(XorBits[n], x, y)
  <2> HIDE DEF more
  <2>1. XorBits[n + 1] = [z \in Nat |-> [t \in Nat |-> more(XorBits[n], z, t)]]
    BY <1>9
  <2>2. [z \in Nat |-> [t \in Nat |-> more(XorBits[n], z, t)]][x][y] = more(XorBits[n], x, y)
    OBVIOUS
  <2> QED
    BY <2>1, <2>2, Zenon
<1>12. \A x, y \in Nat : XorBits[0][x][y] = 0
  BY <1>8
<1>13. \A n \in Nat : XorBits[n] \in V
  BY <1>10
<1> QED
  BY <1>11, <1>12, <1>13

\* The same, for one n, x and y.
LEMMA XorNext ==
  ASSUME NEW n \in Nat, NEW x \in Nat, NEW y \in Nat
  PROVE  XorBits[n + 1][x][y] = ((x + y) % 2) + 2 * XorBits[n][x \div 2][y \div 2]
BY XorStep, Zenon

\* The same, for one n.
LEMMA Pow2Next ==
  ASSUME NEW n \in Nat
  PROVE  Pow2[n + 1] = 2 * Pow2[n] /\ Pow2[n] \in Nat /\ Pow2[n] >= 1
BY Pow2Step

\* Quotient and remainder are unique.
LEMMA DivUnique ==
  ASSUME NEW d \in Nat, d >= 1, NEW q \in Nat, NEW r \in 0 .. d - 1,
         NEW n, n = d * q + r
  PROVE  n \div d = q /\ n % d = r
OBVIOUS

\* A number is its half and its lowest bit.
LEMMA Halves ==
  ASSUME NEW x \in Nat
  PROVE  /\ x \div 2 \in Nat /\ x % 2 \in {0, 1} /\ x = 2 * (x \div 2) + (x % 2)
         /\ \A m \in Nat : x \in 0 .. 2 * m - 1 <=> x \div 2 \in 0 .. m - 1
OBVIOUS

\* x ^ y has n bits.
LEMMA XorBelow ==
  ASSUME NEW n \in Nat, NEW x \in Nat, NEW y \in Nat
  PROVE  XorBits[n][x][y] \in 0 .. Pow2[n] - 1
<1> DEFINE S == {m \in Nat : \A u, v \in Nat : XorBits[m][u][v] \in 0 .. Pow2[m] - 1}
<1>1. 0 \in S
  <2>1. \A u, v \in Nat : XorBits[0][u][v] = 0
    BY XorStep, Zenon
  <2> QED
    BY <2>1, Pow2Step
<1>2. ASSUME NEW m \in Nat, m \in S PROVE m + 1 \in S
  <2>1. ASSUME NEW u \in Nat, NEW v \in Nat
        PROVE  XorBits[m + 1][u][v] \in 0 .. Pow2[m + 1] - 1
    <3>1. /\ (u + v) % 2 \in {0, 1}
          /\ XorBits[m][u \div 2][v \div 2] \in 0 .. Pow2[m] - 1
      BY <1>2, Halves
    <3>2. XorBits[m + 1][u][v] = ((u + v) % 2) + 2 * XorBits[m][u \div 2][v \div 2]
      BY XorNext, Zenon
    <3>3. Pow2[m + 1] = 2 * Pow2[m] /\ Pow2[m] \in Nat
      BY Pow2Next
    <3> QED
      BY <3>1, <3>2, <3>3
  <2> QED
    BY <2>1
<1>3. \A m \in Nat : m \in S
  <2> HIDE DEF S
  <2> QED
    BY <1>1, <1>2, Induction
<1> QED
  BY <1>3

\* It is a natural number.
LEMMA XorType ==
  ASSUME NEW n \in Nat, NEW x \in Nat, NEW y \in Nat
  PROVE  XorBits[n][x][y] \in Nat
<1>1. XorBits[n][x][y] \in 0 .. Pow2[n] - 1
  BY XorBelow, Zenon
<1>2. \A p1 \in Nat : \A z \in 0 .. p1 - 1 : z \in Nat
  OBVIOUS
<1> QED
  BY <1>1, <1>2, Pow2Next, Zenon

\* Of the operands of an exclusive-or, each is determined by the other and the result.
LEMMA XorCancels ==
  ASSUME NEW n \in Nat,
         NEW x \in 0 .. Pow2[n] - 1, NEW y \in 0 .. Pow2[n] - 1,
         NEW u \in 0 .. Pow2[n] - 1, NEW v \in 0 .. Pow2[n] - 1,
         XorBits[n][x][y] = XorBits[n][u][v]
  PROVE  x = u <=> y = v
<1> DEFINE Cancels(m, a, b, c, d) ==
             XorBits[m][a][b] = XorBits[m][c][d] => (a = c <=> b = d)
           S == {m \in Nat : \A a, b, c, d \in 0 .. Pow2[m] - 1 : Cancels(m, a, b, c, d)}
<1>1. 0 \in S
  BY Pow2Step
<1>2. ASSUME NEW m \in Nat, m \in S PROVE m + 1 \in S
  <2>1. ASSUME NEW a \in 0 .. Pow2[m + 1] - 1, NEW b \in 0 .. Pow2[m + 1] - 1,
               NEW c \in 0 .. Pow2[m + 1] - 1, NEW d \in 0 .. Pow2[m + 1] - 1,
               XorBits[m + 1][a][b] = XorBits[m + 1][c][d]
        PROVE  a = c <=> b = d
    <3>1. Pow2[m + 1] = 2 * Pow2[m] /\ Pow2[m] \in Nat
      BY Pow2Step
    <3>2. \A z \in 0 .. Pow2[m + 1] - 1 :
            z \in Nat /\ z \div 2 \in 0 .. Pow2[m] - 1 /\ z = 2 * (z \div 2) + (z % 2)
            /\ z % 2 \in {0, 1}
      BY <3>1, Halves
    <3>3. /\ XorBits[m + 1][a][b] = ((a + b) % 2) + 2 * XorBits[m][a \div 2][b \div 2]
          /\ XorBits[m + 1][c][d] = ((c + d) % 2) + 2 * XorBits[m][c \div 2][d \div 2]
      BY <3>2, XorNext
    <3>4. /\ XorBits[m][a \div 2][b \div 2] \in Nat
          /\ XorBits[m][c \div 2][d \div 2] \in Nat
      <4>1. \A w, z \in Nat : XorBits[m][w][z] \in Nat
        <5> SUFFICES ASSUME NEW w \in Nat, NEW z \in Nat PROVE XorBits[m][w][z] \in Nat
          OBVIOUS
        <5>1. XorBits[m][w][z] \in 0 .. Pow2[m] - 1
          BY XorBelow, Zenon
        <5> QED
          BY <3>1, <5>1
      <4>2. \A z \in 0 .. Pow2[m] - 1 : z \in Nat
        OBVIOUS
      <4> QED
        BY <3>2, <4>1, <4>2, Zenon
    <3>5. (a + b) % 2 \in {0, 1} /\ (c + d) % 2 \in {0, 1}
      BY <3>2
    <3>6. /\ XorBits[m][a \div 2][b \div 2] = XorBits[m][c \div 2][d \div 2]
          /\ (a + b) % 2 = (c + d) % 2
      <4> DEFINE i1 == XorBits[m][a \div 2][b \div 2]
                 i2 == XorBits[m][c \div 2][d \div 2]
                 j1 == (a + b) % 2
                 j2 == (c + d) % 2
      <4>1. j1 + 2 * i1 = j2 + 2 * i2
        BY <2>1, <3>3, Zenon
      <4>2. i1 \in Nat /\ i2 \in Nat /\ j1 \in {0, 1} /\ j2 \in {0, 1}
        BY <3>4, <3>5, Zenon
      <4>3. i1 = i2 /\ j1 = j2
        <5> HIDE DEF i1, i2, j1, j2
        <5> QED
          BY <4>1, <4>2
      <4> QED
        BY <4>3, Zenon
    <3>7. a \div 2 = c \div 2 <=> b \div 2 = d \div 2
      BY <1>2, <3>2, <3>6
    <3>8. ASSUME a = c PROVE b % 2 = d % 2
      <4>1. (a + b) % 2 = (a + d) % 2
        BY <3>6, <3>8, Zenon
      <4>2. a \in Nat /\ b \in Nat /\ d \in Nat
        BY <3>2, Zenon
      <4> QED
        BY <4>1, <4>2
    <3>9. ASSUME b = d PROVE a % 2 = c % 2
      <4>1. (a + b) % 2 = (c + b) % 2
        BY <3>6, <3>9, Zenon
      <4>2. a \in Nat /\ b \in Nat /\ c \in Nat
        BY <3>2, Zenon
      <4> QED
        BY <4>1, <4>2
    <3> QED
      BY <3>2, <3>7, <3>8, <3>9
  <2> QED
    BY <2>1
<1>3. \A m \in Nat : m \in S
  <2> HIDE DEF S
  <2> QED
    BY <1>1, <1>2, Induction
<1> QED
  BY <1>3

\* Dividing by d and by 2 in either order gives the same, and one can do both at once.
LEMMA DivTwice ==
  ASSUME NEW x \in Nat, NEW d \in Nat, d >= 1
  PROVE  /\ (x \div d) \div 2 = (x \div 2) \div d
         /\ x \div (2 * d) = (x \div 2) \div d
         /\ x \div d \in Nat /\ x \div d <= x
<1> DEFINE q == (x \div 2) \div d
           r == (x \div 2) % d
           b == x % 2
<1>1. q \in Nat /\ r \in 0 .. d - 1 /\ x \div 2 = d * q + r
  <2>1. x \div 2 \in Nat
    OBVIOUS
  <2> QED
    BY <2>1
<1>2. b \in {0, 1} /\ x = 2 * (x \div 2) + b
  OBVIOUS
<1>3. ASSUME NEW u \in Nat, NEW v \in 0 .. d - 1, NEW c \in {0, 1}, x = 2 * (d * u + v) + c
      PROVE  x \div (2 * d) = u /\ (x \div d) \div 2 = u
  <2>1. d * u \in Nat /\ (2 * d) * u = 2 * (d * u) /\ d * (2 * u) = 2 * (d * u)
        /\ d * (2 * u + 1) = 2 * (d * u) + d
    OBVIOUS
  <2>2. x = (2 * d) * u + (2 * v + c) /\ 2 * v + c \in 0 .. 2 * d - 1
    BY <1>3, <2>1
  <2>3. x \div (2 * d) = u
    BY <2>2, DivUnique
  <2>4. CASE 2 * v + c < d
    <3>1. x = d * (2 * u) + (2 * v + c) /\ 2 * v + c \in 0 .. d - 1
      BY <1>3, <2>1, <2>4
    <3>2. x \div d = 2 * u
      <4> DEFINE w == 2 * u
      <4>1. w \in Nat
        OBVIOUS
      <4>2. x = d * w + (2 * v + c) /\ 2 * v + c \in 0 .. d - 1
        BY <3>1
      <4>3. x \div d = w
        <5> HIDE DEF w
        <5> QED
          BY <4>2, <4>1, DivUnique
      <4> QED
        BY <4>3
    <3> QED
      BY <2>3, <3>2
  <2>5. CASE 2 * v + c >= d
    <3>1. x = d * (2 * u + 1) + (2 * v + c - d) /\ 2 * v + c - d \in 0 .. d - 1
      BY <1>3, <2>1, <2>5
    <3>2. x \div d = 2 * u + 1
      <4> DEFINE w == 2 * u + 1
      <4>1. w \in Nat
        OBVIOUS
      <4>2. x = d * w + (2 * v + c - d) /\ 2 * v + c - d \in 0 .. d - 1
        BY <3>1
      <4>3. x \div d = w
        <5> HIDE DEF w
        <5> QED
          BY <4>2, <4>1, DivUnique
      <4> QED
        BY <4>3
    <3> QED
      BY <2>3, <3>2
  <2> QED
    BY <2>4, <2>5
<1>4. x \div (2 * d) = q /\ (x \div d) \div 2 = q
  <2>1. x = 2 * (d * q + r) + b
    BY <1>1, <1>2, Zenon
  <2> HIDE DEF q, r, b
  <2> QED
    BY <1>1, <1>2, <1>3, <2>1
<1>5. x \div d \in Nat /\ x \div d <= x
  OBVIOUS
<1> QED
  BY <1>4, <1>5

------------------------------------------------------------------------------
(* Shifts and multiplication *)

\* x ^ (x >> r) determines x.
LEMMA XorShiftCancels ==
  ASSUME NEW n \in Nat, NEW r \in Nat \ {0},
         NEW x \in 0 .. Pow2[n] - 1, NEW y \in 0 .. Pow2[n] - 1,
         XorBits[n][x][x \div Pow2[r]] = XorBits[n][y][y \div Pow2[r]]
  PROVE  x = y
<1> DEFINE e == Pow2[r - 1]
           d == Pow2[r]
           S == {m \in Nat : \A a, b \in 0 .. Pow2[m] - 1 :
                   XorBits[m][a][a \div d] = XorBits[m][b][b \div d] => a = b}
<1>1. e \in Nat /\ e >= 1 /\ d = 2 * e /\ d \in Nat /\ d >= 1
  <2>1. r - 1 \in Nat /\ r = r - 1 + 1
    OBVIOUS
  <2>2. Pow2[r - 1 + 1] = 2 * Pow2[r - 1] /\ Pow2[r - 1] \in Nat /\ Pow2[r - 1] >= 1
    BY <2>1, Pow2Next
  <2> QED
    BY <2>1, <2>2
<1>2. 0 \in S
  BY Pow2Step
<1>3. ASSUME NEW m \in Nat, m \in S PROVE m + 1 \in S
  <2>1. ASSUME NEW a \in 0 .. Pow2[m + 1] - 1, NEW b \in 0 .. Pow2[m + 1] - 1,
               XorBits[m + 1][a][a \div d] = XorBits[m + 1][b][b \div d]
        PROVE  a = b
    <3> HIDE DEF d, e
    <3>1. Pow2[m + 1] = 2 * Pow2[m] /\ Pow2[m] \in Nat
      BY Pow2Next
    <3>2. /\ a \in Nat /\ a \div 2 \in 0 .. Pow2[m] - 1 /\ a = 2 * (a \div 2) + (a % 2)
          /\ b \in Nat /\ b \div 2 \in 0 .. Pow2[m] - 1 /\ b = 2 * (b \div 2) + (b % 2)
          /\ a % 2 \in {0, 1} /\ b % 2 \in {0, 1}
      <4>1. \A z \in 0 .. 2 * Pow2[m] - 1 :
              z \in Nat /\ z \div 2 \in 0 .. Pow2[m] - 1 /\ z = 2 * (z \div 2) + (z % 2)
              /\ z % 2 \in {0, 1}
        BY <3>1, Halves
      <4> QED
        BY <3>1, <4>1, Zenon
    <3>3. ASSUME NEW c \in Nat
          PROVE  /\ c \div d \in Nat /\ (c \div d) \div 2 = (c \div 2) \div d
                 /\ c \div d = (c \div 2) \div e
      BY <1>1, DivTwice
    <3>4. /\ a \div d \in Nat /\ (a \div d) \div 2 = (a \div 2) \div d
           /\ a \div d = (a \div 2) \div e
           /\ b \div d \in Nat /\ (b \div d) \div 2 = (b \div 2) \div d
           /\ b \div d = (b \div 2) \div e
      BY <3>2, <3>3
    <3>5. /\ a \div 2 \in Nat /\ b \div 2 \in Nat
           /\ (a \div d) \div 2 \in Nat /\ (b \div d) \div 2 \in Nat
      BY <3>2, <3>4, Halves
    <3> DEFINE i1 == XorBits[m][a \div 2][(a \div d) \div 2]
               i2 == XorBits[m][b \div 2][(b \div d) \div 2]
               j1 == (a + (a \div d)) % 2
               j2 == (b + (b \div d)) % 2
    <3>6. j1 + 2 * i1 = j2 + 2 * i2
      <4>1. XorBits[m + 1][a][a \div d] = j1 + 2 * i1
        BY <3>2, <3>3, XorNext, Zenon
      <4>2. XorBits[m + 1][b][b \div d] = j2 + 2 * i2
        BY <3>2, <3>3, XorNext, Zenon
      <4> QED
        BY <2>1, <4>1, <4>2, Zenon
    <3>7. i1 \in Nat /\ i2 \in Nat
      BY <3>5, XorType, Zenon
    <3>8. j1 \in {0, 1} /\ j2 \in {0, 1}
      <4>1. \A z, w \in Nat : (z + w) % 2 \in {0, 1}
        OBVIOUS
      <4> QED
        BY <3>2, <3>4, <4>1, Zenon
    <3>9. i1 = i2 /\ j1 = j2
      <4> HIDE DEF i1, i2, j1, j2
      <4> QED
        BY <3>6, <3>7, <3>8
    <3>10. a \div 2 = b \div 2
      <4>1. XorBits[m][a \div 2][(a \div 2) \div d] = XorBits[m][b \div 2][(b \div 2) \div d]
        BY <3>9, <3>4, Zenon
      <4> QED
        BY <1>3, <3>2, <4>1, Zenon
    <3>11. a \div d = b \div d
      BY <3>10, <3>4, Zenon
    <3>12. a % 2 = b % 2
      <4> DEFINE c == a \div d
      <4>1. c \in Nat /\ (a + c) % 2 = (b + c) % 2
        BY <3>9, <3>11, <3>4, Zenon
      <4> HIDE DEF c
      <4> QED
        BY <3>2, <4>1
    <3> QED
      BY <3>2, <3>10, <3>12
  <2> QED
    BY <2>1
<1>4. \A m \in Nat : m \in S
  <2> HIDE DEF S
  <2> QED
    BY <1>2, <1>3, Induction
<1> QED
  BY <1>4

\* A factor 2 of a product, for the provers.
LEMMA DoubleProducts ==
  ASSUME NEW u \in Int, NEW v \in Int
  PROVE  (2 * u) * v = 2 * (u * v) /\ u * (2 * v) = 2 * (u * v) /\ u * v \in Int
         /\ u * (2 * v + 1) = 2 * (u * v) + u
OBVIOUS

\* An odd multiplier and a power of two have no factor in common.
LEMMA OddTimesCancels ==
  ASSUME NEW n \in Nat, NEW f \in Nat, f % 2 = 1,
         NEW x \in 0 .. Pow2[n] - 1, NEW y \in 0 .. Pow2[n] - 1,
         (x * f) % Pow2[n] = (y * f) % Pow2[n]
  PROVE  x = y
<1> DEFINE c == f \div 2
           Zero(m, z, q) == -Pow2[m] < z /\ z < Pow2[m] /\ z * f = Pow2[m] * q => z = 0
           S == {m \in Nat : \A z, q \in Int : Zero(m, z, q)}
<1>1. c \in Nat /\ f = 2 * c + 1
  OBVIOUS
<1>2. 0 \in S
  BY Pow2Step
<1>3. ASSUME NEW m \in Nat, m \in S PROVE m + 1 \in S
  <2>1. ASSUME NEW z \in Int, NEW q \in Int,
               -Pow2[m + 1] < z, z < Pow2[m + 1], z * f = Pow2[m + 1] * q
        PROVE  z = 0
    <3>1. Pow2[m + 1] = 2 * Pow2[m] /\ Pow2[m] \in Nat
      BY Pow2Next
    <3>2. z * f = 2 * (z * c) + z /\ z * c \in Int
      BY <1>1, DoubleProducts
    <3>3. Pow2[m + 1] * q = 2 * (Pow2[m] * q) /\ Pow2[m] * q \in Int
      BY <3>1, DoubleProducts
    <3>4. PICK w \in Int : z = 2 * w
      <4>1. z = 2 * (Pow2[m] * q - z * c)
        BY <2>1, <3>2, <3>3
      <4>2. Pow2[m] * q - z * c \in Int
        BY <3>2, <3>3
      <4> QED
        BY <4>1, <4>2
    <3>5. w * f = Pow2[m] * q
      <4>1. (2 * w) * f = 2 * (w * f) /\ w * f \in Int
        BY <3>4, DoubleProducts
      <4> QED
        BY <2>1, <3>3, <3>4, <4>1
    <3>6. -Pow2[m] < w /\ w < Pow2[m]
      BY <2>1, <3>1, <3>4
    <3>7. w = 0
      BY <1>3, <3>5, <3>6
    <3> QED
      BY <3>4, <3>7
  <2> QED
    BY <2>1
<1>4. \A m \in Nat : m \in S
  <2> HIDE DEF S
  <2> QED
    BY <1>2, <1>3, Induction
<1>5. ASSUME NEW d \in Nat, d >= 1, NEW a \in Nat, NEW b \in Nat, a % d = b % d
      PROVE  \E q \in Int : a - b = d * q
  <2>1. a = d * (a \div d) + (a % d) /\ b = d * (b \div d) + (b % d)
        /\ a \div d \in Nat /\ b \div d \in Nat /\ a % d \in Nat
    BY <1>5
  <2>2. a - b = d * ((a \div d) - (b \div d))
    <3> DEFINE i1 == a \div d
               i2 == b \div d
               r1 == a % d
               r2 == b % d
    <3>1. a = d * i1 + r1 /\ b = d * i2 + r2 /\ i1 \in Nat /\ i2 \in Nat /\ r1 = r2 /\ r1 \in Nat
      BY <1>5, <2>1, Zenon
    <3>2. d * (i1 - i2) = d * i1 - d * i2
      <4> HIDE DEF i1, i2, r1, r2
      <4> QED
        BY <3>1
    <3>3. a - b = d * (i1 - i2)
      <4> HIDE DEF i1, i2, r1, r2
      <4> QED
        BY <3>1, <3>2
    <3> QED
      BY <3>3, Zenon
  <2>3. (a \div d) - (b \div d) \in Int
    BY <2>1
  <2> QED
    BY <2>2, <2>3, Zenon
<1>6. Pow2[n] \in Nat /\ Pow2[n] >= 1
  BY Pow2Next
<1>7. x * f \in Nat /\ y * f \in Nat /\ (x - y) * f = x * f - y * f
  BY <1>6
<1>8. PICK q \in Int : x * f - y * f = Pow2[n] * q
  BY <1>5, <1>6, <1>7
<1>9. (x - y) * f = Pow2[n] * q /\ -Pow2[n] < x - y /\ x - y < Pow2[n] /\ x - y \in Int
  BY <1>6, <1>7, <1>8
<1>10. x - y = 0
  BY <1>4, <1>9
<1> QED
  BY <1>6, <1>10

\* Powers of a sum.
LEMMA Pow2Plus ==
  ASSUME NEW a \in Nat, NEW b \in Nat
  PROVE  Pow2[a + b] = Pow2[a] * Pow2[b]
<1> DEFINE S == {m \in Nat : Pow2[a + m] = Pow2[a] * Pow2[m]}
<1>1. 0 \in S
  BY Pow2Step
<1>2. ASSUME NEW m \in Nat, m \in S PROVE m + 1 \in S
  <2>1. a + m \in Nat /\ a + (m + 1) = a + m + 1
    OBVIOUS
  <2>2. Pow2[a + m + 1] = 2 * Pow2[a + m] /\ Pow2[m + 1] = 2 * Pow2[m] /\ Pow2[m] \in Nat
        /\ Pow2[a] \in Nat
    BY <2>1, Pow2Next
  <2>3. Pow2[a] * (2 * Pow2[m]) = 2 * (Pow2[a] * Pow2[m])
    BY <2>2, DoubleProducts
  <2>4. Pow2[a + (m + 1)] = Pow2[a] * Pow2[m + 1]
    BY <1>2, <2>1, <2>2, <2>3
  <2> QED
    BY <2>4
<1>3. \A m \in Nat : m \in S
  <2> HIDE DEF S
  <2> QED
    BY <1>1, <1>2, Induction
<1> QED
  BY <1>3

------------------------------------------------------------------------------
(* Words of four bytes *)

\* A byte is a digit in this base.
Base == Pow2[ByteBits]
ByteValue == 0 .. Base - 1

\* The places of the four digits of a word.
LEMMA Bases ==
  /\ Base \in Nat /\ Base >= 1
  /\ Pow2[0 * ByteBits] = 1 /\ Pow2[1 * ByteBits] = Base
  /\ Pow2[2 * ByteBits] = Base * Base
  /\ Pow2[3 * ByteBits] = Base * (Base * Base)
  /\ Modulus = Base * (Base * (Base * Base))
  /\ WordBits \in Nat
<1>1. ByteBits \in Nat
  BY HashAssumption
<1>2. Base \in Nat /\ Base >= 1
  BY <1>1, Pow2Next DEF Base
<1>3. 0 * ByteBits = 0 /\ 1 * ByteBits = ByteBits
  BY <1>1
<1>4. /\ 2 * ByteBits = ByteBits + ByteBits
      /\ 3 * ByteBits = ByteBits + 2 * ByteBits
      /\ 4 * ByteBits = ByteBits + 3 * ByteBits
      /\ 2 * ByteBits \in Nat /\ 3 * ByteBits \in Nat /\ 4 * ByteBits \in Nat
  BY <1>1
<1>5. Pow2[2 * ByteBits] = Base * Base
  BY <1>1, <1>4, Pow2Plus DEF Base
<1>6. Pow2[3 * ByteBits] = Base * (Base * Base)
  <2>1. Pow2[ByteBits + 2 * ByteBits] = Pow2[ByteBits] * Pow2[2 * ByteBits]
    BY <1>1, <1>4, Pow2Plus
  <2> QED
    BY <1>4, <1>5, <2>1 DEF Base
<1>7. Modulus = Base * (Base * (Base * Base))
  <2>1. Pow2[ByteBits + 3 * ByteBits] = Pow2[ByteBits] * Pow2[3 * ByteBits]
    BY <1>1, <1>4, Pow2Plus
  <2> QED
    BY <1>4, <1>6, <2>1 DEF Base, Modulus, WordBits
<1> QED
  BY <1>2, <1>3, <1>4, <1>5, <1>6, <1>7, Pow2Step DEF Base, WordBits

\* A lowest digit x is put before the number t.
LEMMA DigitBelow ==
  ASSUME NEW b \in Nat, b >= 1, NEW m \in Nat,
         NEW x \in 0 .. b - 1, NEW t \in 0 .. m - 1
  PROVE  x + b * t \in 0 .. b * m - 1
<1>1. b * t \in Nat /\ b * t + b <= b * m /\ b * m \in Nat
  <2>1. b * t + b = b * (t + 1) /\ t + 1 <= m
    OBVIOUS
  <2>2. b * (t + 1) <= b * m
    BY <2>1
  <2> QED
    BY <2>1, <2>2
<1> QED
  BY <1>1

\* Both can be got back.
LEMMA DigitUnique ==
  ASSUME NEW b \in Nat, b >= 1, NEW x \in 0 .. b - 1, NEW t \in Nat
  PROVE  (x + b * t) % b = x /\ (x + b * t) \div b = t
<1>1. x + b * t = b * t + x
  OBVIOUS
<1> QED
  BY <1>1, DivUnique

\* Four bytes as a number, the first one being the lowest.
FourBytes == [0 .. 3 -> ByteValue]
Upper(s) == s[2] + Base * s[3]
Middle(s) == s[1] + Base * Upper(s)
Number(s) == s[0] + Base * Middle(s)

\* It fits a word.
LEMMA NumberBelow ==
  ASSUME NEW s \in FourBytes
  PROVE  Upper(s) \in Nat /\ Middle(s) \in Nat /\ Number(s) \in 0 .. Modulus - 1
<1> DEFINE M2 == Base * Base
           M3 == Base * M2
<1>1. Base \in Nat /\ Base >= 1 /\ M2 \in Nat /\ M3 \in Nat /\ Modulus = Base * M3
  BY Bases
<1>2. /\ s[0] \in 0 .. Base - 1 /\ s[1] \in 0 .. Base - 1
      /\ s[2] \in 0 .. Base - 1 /\ s[3] \in 0 .. Base - 1
  BY DEF FourBytes, ByteValue
<1>3. Upper(s) \in 0 .. M2 - 1
  BY <1>1, <1>2, DigitBelow DEF Upper
<1> HIDE DEF M2
<1>4. Middle(s) \in 0 .. M3 - 1
  BY <1>1, <1>2, <1>3, DigitBelow DEF Middle
<1> HIDE DEF M3
<1>5. Number(s) \in 0 .. Modulus - 1
  BY <1>1, <1>2, <1>4, DigitBelow DEF Number
<1> QED
  BY <1>1, <1>3, <1>4, <1>5

\* Different bytes make different numbers.
LEMMA NumberUnique ==
  ASSUME NEW s \in FourBytes, NEW t \in FourBytes, Number(s) = Number(t)
  PROVE  s = t
<1>1. Base \in Nat /\ Base >= 1
  BY Bases
<1>2. /\ s[0] \in 0 .. Base - 1 /\ t[0] \in 0 .. Base - 1
      /\ s[1] \in 0 .. Base - 1 /\ t[1] \in 0 .. Base - 1
      /\ s[2] \in 0 .. Base - 1 /\ t[2] \in 0 .. Base - 1
      /\ s[3] \in 0 .. Base - 1 /\ t[3] \in 0 .. Base - 1
      /\ s[3] \in Nat /\ t[3] \in Nat
  BY <1>1 DEF FourBytes, ByteValue
<1>3. Upper(s) \in Nat /\ Upper(t) \in Nat /\ Middle(s) \in Nat /\ Middle(t) \in Nat
  BY NumberBelow
<1>4. s[0] = t[0] /\ Middle(s) = Middle(t)
  <2>1. Number(s) % Base = s[0] /\ Number(s) \div Base = Middle(s)
    BY <1>1, <1>2, <1>3, DigitUnique DEF Number
  <2>2. Number(t) % Base = t[0] /\ Number(t) \div Base = Middle(t)
    BY <1>1, <1>2, <1>3, DigitUnique DEF Number
  <2> QED
    BY <2>1, <2>2, Zenon
<1>5. s[1] = t[1] /\ Upper(s) = Upper(t)
  <2>1. Middle(s) % Base = s[1] /\ Middle(s) \div Base = Upper(s)
    BY <1>1, <1>2, <1>3, DigitUnique DEF Middle
  <2>2. Middle(t) % Base = t[1] /\ Middle(t) \div Base = Upper(t)
    BY <1>1, <1>2, <1>3, DigitUnique DEF Middle
  <2> QED
    BY <1>4, <2>1, <2>2, Zenon
<1>6. s[2] = t[2] /\ s[3] = t[3]
  <2>1. Upper(s) % Base = s[2] /\ Upper(s) \div Base = s[3]
    BY <1>1, <1>2, DigitUnique DEF Upper
  <2>2. Upper(t) % Base = t[2] /\ Upper(t) \div Base = t[3]
    BY <1>1, <1>2, DigitUnique DEF Upper
  <2> QED
    BY <1>5, <2>1, <2>2, Zenon
<1>7. \A j \in 0 .. 3 : j = 0 \/ j = 1 \/ j = 2 \/ j = 3
  OBVIOUS
<1>8. \A j \in 0 .. 3 : s[j] = t[j]
  BY <1>4, <1>5, <1>6, <1>7
<1> QED
  BY <1>8 DEF FourBytes

\* uint32_t
Word == 0 .. Modulus - 1

\* Words have WordBits bits.
LEMMA Words ==
  /\ Modulus = Pow2[WordBits] /\ WordBits \in Nat /\ Modulus \in Nat /\ Modulus >= 1
  /\ Word \subseteq Nat /\ 0 \in Word
<1>1. WordBits \in Nat
  BY Bases
<1>2. Modulus \in Nat /\ Modulus >= 1
  BY <1>1, Pow2Next DEF Modulus
<1> QED
  BY <1>1, <1>2 DEF Modulus, Word

\* XorBelow and XorCancels, of words.
LEMMA XorWord ==
  ASSUME NEW x \in Nat, NEW y \in Nat
  PROVE  Xor(x, y) \in Word
BY Words, XorBelow, Zenon DEF Xor, Word

\* Equal results with an equal operand have equal other operands.
LEMMA XorWordCancels ==
  ASSUME NEW x \in Word, NEW y \in Word, NEW u \in Word, NEW v \in Word,
         Xor(x, y) = Xor(u, v)
  PROVE  x = u <=> y = v
<1>1. Word = 0 .. Pow2[WordBits] - 1 /\ WordBits \in Nat
  BY Words DEF Word
<1>2. \A a, b, c, d \in Word : Xor(a, b) = Xor(c, d) => (a = c <=> b = d)
  BY <1>1, XorCancels DEF Xor
<1> QED
  BY <1>2

\* Multiplication by the odd Mul is one-to-one on words.
LEMMA TimesWord ==
  ASSUME NEW x \in Word
  PROVE  Times(x) \in Word /\ \A y \in Word : Times(x) = Times(y) => x = y
<1>1. Mul \in Nat /\ Mul % 2 = 1
  BY HashAssumption
<1>2. x * Mul \in Nat
  BY <1>1, Words
<1>3. Times(x) \in Word
  BY <1>2, Words DEF Times, Word
<1>4. ASSUME NEW y \in Word, Times(x) = Times(y) PROVE x = y
  BY <1>1, <1>4, Words, OddTimesCancels, Zenon DEF Times, Word
<1> QED
  BY <1>3, <1>4

\* So is x ^ (x >> r).
LEMMA XorShiftWord ==
  ASSUME NEW r \in Nat \ {0}, NEW x \in Word
  PROVE  /\ Xor(x, x \div Pow2[r]) \in Word
         /\ \A y \in Word : Xor(x, x \div Pow2[r]) = Xor(y, y \div Pow2[r]) => x = y
<1>1. Pow2[r] \in Nat /\ Pow2[r] >= 1 /\ x \in Nat
  BY Pow2Next, Words
<1>2. x \div Pow2[r] \in Nat
  BY <1>1, DivTwice
<1>3. Xor(x, x \div Pow2[r]) \in Word
  BY <1>1, <1>2, XorWord
<1>4. ASSUME NEW y \in Word, Xor(x, x \div Pow2[r]) = Xor(y, y \div Pow2[r]) PROVE x = y
  BY <1>4, Words, XorShiftCancels, Zenon DEF Xor, Word
<1> QED
  BY <1>3, <1>4

\* The next n bytes, filled up with zeros.
NextBytes(key, n) == [j \in 0 .. 3 |-> IF j < n THEN key[p + j] ELSE 0]

\* The next n elements of the key are bytes.
AreBytes(key, n) == \A j \in 0 .. n - 1 : key[p + j] \in ByteValue

\* They are four bytes.
LEMMA NextBytesType ==
  ASSUME NEW key, NEW n \in 1 .. 4, AreBytes(key, n)
  PROVE  NextBytes(key, n) \in FourBytes
<1>1. 0 \in ByteValue
  BY Bases DEF ByteValue
<1>2. \A j \in 0 .. 3 : j < n => j \in 0 .. n - 1
  OBVIOUS
<1> QED
  BY <1>1, <1>2 DEF AreBytes, NextBytes, FourBytes

\* LittleEndian is their number.
LEMMA LittleEndianIs ==
  ASSUME NEW key, NEW n \in 1 .. 4, AreBytes(key, n)
  PROVE  LittleEndian(key, n) = Number(NextBytes(key, n))
<1> DEFINE a == NextBytes(key, n)[0]
           b == NextBytes(key, n)[1]
           c == NextBytes(key, n)[2]
           d == NextBytes(key, n)[3]
<1>1. Base \in Nat /\ Base >= 1
  BY Bases
<1>2. a \in Nat /\ b \in Nat /\ c \in Nat /\ d \in Nat
  BY <1>1, NextBytesType DEF ByteValue, FourBytes
<1>3. ASSUME NEW j \in 0 .. 3
      PROVE  (IF j < n THEN key[p + j] * Pow2[j * ByteBits] ELSE 0)
               = NextBytes(key, n)[j] * Pow2[j * ByteBits]
  <2>1. Pow2[j * ByteBits] \in Nat
    <3>1. j * ByteBits \in Nat
      BY HashAssumption
    <3> QED
      BY <3>1, Pow2Next
  <2> QED
    BY <2>1 DEF NextBytes
<1>4. LittleEndian(key, n) = a * 1 + b * Base + c * (Base * Base) + d * (Base * (Base * Base))
  <2>1. LittleEndian(key, n) = a * Pow2[0 * ByteBits] + b * Pow2[1 * ByteBits]
                               + c * Pow2[2 * ByteBits] + d * Pow2[3 * ByteBits]
    BY <1>3, 0 \in 0 .. 3, 1 \in 0 .. 3, 2 \in 0 .. 3, 3 \in 0 .. 3, Zenon DEF LittleEndian
  <2> QED
    BY <2>1, Bases, Zenon
<1>5. Number(NextBytes(key, n)) = a + Base * (b + Base * (c + Base * d))
  BY DEF Number, Middle, Upper
<1>6. a + Base * (b + Base * (c + Base * d))
        = a * 1 + b * Base + c * (Base * Base) + d * (Base * (Base * Base))
  <2> HIDE DEF a, b, c, d
  <2>1. Base * (c + Base * d) = c * Base + d * (Base * Base)
    BY <1>1, <1>2
  <2> QED
    BY <1>1, <1>2, <2>1
<1> QED
  BY <1>4, <1>5, <1>6, Zenon

\* It is a word.
LEMMA LittleEndianWord ==
  ASSUME NEW key, NEW n \in 1 .. 4, AreBytes(key, n)
  PROVE  LittleEndian(key, n) \in Word
BY LittleEndianIs, NextBytesType, NumberBelow, Zenon DEF Word

\* A number determines its bytes.
LEMMA LittleEndianUnique ==
  ASSUME NEW key, NEW other, NEW n \in 1 .. 4, p \in Int,
         AreBytes(key, n), AreBytes(other, n)
  PROVE  LittleEndian(key, n) = LittleEndian(other, n)
           <=> \A j \in p .. p + n - 1 : key[j] = other[j]
<1>1. LittleEndian(key, n) = LittleEndian(other, n) <=> NextBytes(key, n) = NextBytes(other, n)
  BY LittleEndianIs, NextBytesType, NumberUnique
<1>2. NextBytes(key, n) = NextBytes(other, n)
        <=> \A j \in 0 .. n - 1 : key[p + j] = other[p + j]
  <2>1. \A j \in 0 .. n - 1 : j \in 0 .. 3 /\ j < n
    OBVIOUS
  <2>2. \A j \in 0 .. 3 : j < n => j \in 0 .. n - 1
    OBVIOUS
  <2> HIDE DEF p
  <2> QED
    BY <2>1, <2>2 DEF NextBytes
<1>3. (\A j \in 0 .. n - 1 : key[p + j] = other[p + j])
        <=> \A j \in p .. p + n - 1 : key[j] = other[j]
  <2>1. ASSUME NEW j \in p .. p + n - 1 PROVE j - p \in 0 .. n - 1 /\ p + (j - p) = j
    OBVIOUS
  <2>2. ASSUME NEW j \in 0 .. n - 1 PROVE p + j \in p .. p + n - 1
    OBVIOUS
  <2> HIDE DEF p
  <2> QED
    BY <2>1, <2>2
<1> QED
  BY <1>1, <1>2, <1>3

\* The mixed word determines the word.
LEMMA MixedWordUnique ==
  ASSUME NEW key, NEW other, AreBytes(key, 4), AreBytes(other, 4)
  PROVE  /\ MixedWord(key) \in Word
         /\ MixedWord(key) = MixedWord(other) <=> LittleEndian(key, 4) = LittleEndian(other, 4)
<1> DEFINE x == LittleEndian(key, 4)
           y == LittleEndian(other, 4)
           Mixed(z) == Times(Xor(Times(z), Times(z) \div Pow2[R]))
<1>1. x \in Word /\ y \in Word
  BY LittleEndianWord
<1>2. ASSUME NEW z \in Word
      PROVE  Mixed(z) \in Word /\ \A w \in Word : Mixed(z) = Mixed(w) => z = w
  <2>1. R \in Nat \ {0}
    BY HashAssumption
  <2>2. \A w \in Word : Times(w) \in Word /\ Xor(Times(w), Times(w) \div Pow2[R]) \in Word
    BY <2>1, TimesWord, XorShiftWord
  <2> QED
    BY <2>1, <2>2, TimesWord, XorShiftWord, Zenon
<1>3. MixedWord(key) = Mixed(x) /\ MixedWord(other) = Mixed(y)
  BY DEF MixedWord
<1> HIDE DEF Mixed, x, y
<1> QED
  BY <1>1, <1>2, <1>3 DEF x, y

------------------------------------------------------------------------------
(* What is read *)

\* In the middle of a call exactly the bytes in front of p have been read.
IInv == /\ pc \in {"idle", "murmurhash2", "wyhash", "done"}
        /\ len \in Nat /\ left \in 0 .. len
        /\ pc = "idle" => reads = {}
        /\ pc \in {"murmurhash2", "wyhash"} => reads = 0 .. p - 1
        /\ pc = "done" => reads = 0 .. len - 1

\* The next n bytes read extend the prefix that was read.
LEMMA ReadExtendsPrefix ==
  ASSUME IInv, pc \in {"murmurhash2", "wyhash"}, NEW n \in 0 .. left
  PROVE  Read(n) = 0 .. len - (left - n) - 1
<1>1. reads = 0 .. p - 1 /\ p \in Nat /\ len \in Nat /\ left \in Nat
  BY DEF IInv, p
<1>2. n \in Nat /\ len - (left - n) - 1 = p + n - 1
  BY <1>1 DEF p
<1>3. (0 .. p - 1) \union (p .. p + n - 1) = 0 .. p + n - 1
  BY <1>1, <1>2
<1> QED BY <1>1, <1>2, <1>3 DEF Read

\* What wyhash's last step reads is all that was left, at each of its cases.
LEMMA FinishReadsTheRest ==
  ASSUME IInv, pc = "wyhash", left <= 16, WyFinish
  PROVE  reads' = 0 .. len - 1
<1>1. reads = 0 .. p - 1 /\ p \in Nat /\ len = p + left /\ left \in Nat
  BY DEF IInv, p
<1>2. CASE left > 8
  <2>1. reads' = reads \union TwoWords(8)
    BY <1>1, <1>2 DEF WyFinish
  <2> QED BY <1>1, <1>2, <2>1 DEF TwoWords
<1>3. CASE left \in 4 .. 8
  <2>1. reads' = reads \union TwoWords(4)
    BY <1>1, <1>3 DEF WyFinish
  <2> QED BY <1>1, <1>3, <2>1 DEF TwoWords
<1>4. CASE left \in 1 .. 3
  <2>1. reads' = reads \union {p, p + left \div 2, p + left - 1}
    BY <1>1, <1>4 DEF WyFinish, Wyr3
  <2>2. CASE left = 1
    BY <1>1, <2>1, <2>2
  <2>3. CASE left = 2
    BY <1>1, <2>1, <2>3
  <2>4. CASE left = 3
    BY <1>1, <2>1, <2>4
  <2> QED BY <1>4, <2>2, <2>3, <2>4
<1>5. CASE left = 0
  <2>1. reads' = reads
    BY <1>5 DEF WyFinish
  <2> QED BY <1>1, <1>5, <2>1
<1> QED BY <1>1, <1>2, <1>3, <1>4, <1>5

\* Nothing is read yet.
LEMMA InitEstablishes == Init => IInv
  BY DEF Init, IInv, p

\* Every round reads on where the last one stopped.
LEMMA NextKeeps == IInv /\ [Next]_vars => IInv'
<1> SUFFICES ASSUME IInv, [Next]_vars PROVE IInv'
  OBVIOUS
<1>1. ASSUME NEW n \in 0 .. MaxMurmurLen, NEW in, pc = "idle", murmurhash2(n, in)
      PROVE  IInv'
  BY <1>1, HashAssumption DEF murmurhash2, IInv, p
<1>2. ASSUME NEW n \in 0 .. MaxWyLen, pc = "idle", wyhash(n)
      PROVE  IInv'
  BY <1>2, HashAssumption DEF wyhash, IInv, p
<1>3. CASE MurmurBlock
  <2>1. 4 \in 0 .. left /\ pc \in {"murmurhash2", "wyhash"}
    BY <1>3 DEF MurmurBlock, IInv
  <2>2. Read(4) = 0 .. len - (left - 4) - 1
    BY <2>1, ReadExtendsPrefix
  <2> QED BY <1>3, <2>1, <2>2 DEF MurmurBlock, IInv, Rest, p
<1>4. CASE MurmurTail
  <2>1. left \in 0 .. left /\ pc \in {"murmurhash2", "wyhash"}
    BY <1>4 DEF MurmurTail, IInv
  <2>2. Read(left) = 0 .. len - (left - left) - 1
    BY <2>1, ReadExtendsPrefix
  <2> QED BY <1>4, <2>1, <2>2 DEF MurmurTail, IInv, p
<1>5. CASE MurmurFinish
  BY <1>5 DEF MurmurFinish, IInv, p
<1>6. CASE WyRound
  <2> DEFINE n == IF left > 64 THEN 64 ELSE 16
  <2>1. n \in 0 .. left /\ pc \in {"murmurhash2", "wyhash"}
    BY <1>6 DEF WyRound, IInv
  <2>2. Read(n) = 0 .. len - (left - n) - 1
    BY <2>1, ReadExtendsPrefix
  <2>3. left' = left - n /\ reads' = Read(n) /\ pc' = pc /\ len' = len
    BY <1>6 DEF WyRound, Rest
  <2> QED BY <2>1, <2>2, <2>3 DEF IInv, p
<1>7. CASE WyFinish
  <2>1. reads' = 0 .. len - 1
    BY <1>7, FinishReadsTheRest DEF WyFinish
  <2> QED BY <1>7, <2>1 DEF WyFinish, IInv
<1>8. CASE Return
  BY <1>8 DEF Return, IInv, p
<1>9. CASE UNCHANGED vars
  BY <1>9 DEF vars, IInv, p
<1> QED BY <1>1, <1>2, <1>3, <1>4, <1>5, <1>6, <1>7, <1>8, <1>9 DEF Next

\* At every length both functions hash every byte of the key and no other
\* (MurmurHash2.c:31-54, wyhash.h:78-113).
THEOREM WholeKey == Spec => []WholeKeyHashed
<1>1. IInv => WholeKeyHashed
  BY DEF IInv, WholeKeyHashed, p
<1> QED BY <1>1, InitEstablishes, NextKeeps, PTL DEF Spec

\* A call of either function is running.
Hashing == pc \in {"murmurhash2", "wyhash"}

\* Every round leaves fewer bytes of the key or is the last: a hash of len bytes
\* takes at most len + 1 steps (MurmurHash2.c:31, wyhash.h:80, 92, 103).
THEOREM RoundsProgress ==
  Spec => [][Hashing => left' \in 0 .. left - 1 \/ pc' = "done"]_vars
<1>1. ASSUME IInv, Hashing, Next
      PROVE  left' \in 0 .. left - 1 \/ pc' = "done"
  <2>1. left \in Nat /\ pc \notin {"idle", "done"}
    BY <1>1 DEF IInv, Hashing
  <2>2. CASE MurmurBlock
    BY <2>1, <2>2 DEF MurmurBlock, Rest
  <2>3. CASE MurmurTail
    BY <2>1, <2>3 DEF MurmurTail
  <2>4. CASE WyRound
    BY <2>1, <2>4 DEF WyRound, Rest
  <2>5. CASE MurmurFinish \/ WyFinish
    BY <2>5 DEF MurmurFinish, WyFinish
  <2> QED
    BY <1>1, <2>1, <2>2, <2>3, <2>4, <2>5 DEF Next, Return
<1> QED
  BY <1>1, InitEstablishes, NextKeeps, PTL DEF Spec

------------------------------------------------------------------------------
(* murmurhash2's states, on the two sides. *)

Nothing == [s \in Side |-> NoInput]

\* The two sides have the same state exactly if what was read of them is the same.
SameBytes(positions) == \A j \in positions : input[1].key[j] = input[2].key[j]
SameSides(positions) == input[1].seed = input[2].seed /\ SameBytes(positions)
Apart == h[1] = h[2] <=> SameSides(reads)

HInv == /\ IInv
        /\ h \in [Side -> Word]
        /\ pc \in {"idle", "wyhash"} => input = Nothing
        /\ pc = "murmurhash2" => /\ input \in Inputs(len) /\ Apart
                                 /\ left > 0 => p % 4 = 0
        /\ pc = "done" => input = Nothing \/ (input \in Inputs(len) /\ Apart)

\* Inputs are keys and seeds; they differ in one block or in the seeds only.
LEMMA InputFacts ==
  ASSUME NEW n \in Nat, NEW in \in Inputs(n)
  PROVE  /\ \A s \in Side : in[s] \in [key : Keys(n), seed : Seeds]
         /\ \A i, j \in 0 .. n - 1 :
              in[1].key[i] # in[2].key[i] /\ in[1].key[j] # in[2].key[j]
                => Block(i) = Block(j) /\ in[1].seed = in[2].seed
<1>1. CASE \E k \in NearKeys(n), d \in Seeds :
             in = <<[key |-> k[1], seed |-> d], [key |-> k[2], seed |-> d]>>
  <2>1. PICK k \in NearKeys(n), d \in Seeds :
          in = <<[key |-> k[1], seed |-> d], [key |-> k[2], seed |-> d]>>
    BY <1>1
  <2>2. k[1] \in Keys(n) /\ k[2] \in Keys(n)
    BY DEF NearKeys
  <2>3. in[1] = [key |-> k[1], seed |-> d] /\ in[2] = [key |-> k[2], seed |-> d]
    BY <2>1
  <2>4. \A i, j \in 0 .. n - 1 : k[1][i] # k[2][i] /\ k[1][j] # k[2][j] => Block(i) = Block(j)
    BY DEF NearKeys
  <2> QED
    BY <2>2, <2>3, <2>4 DEF Side
<1>2. CASE \E k \in Keys(n), d \in Seeds \X Seeds :
             in = <<[key |-> k, seed |-> d[1]], [key |-> k, seed |-> d[2]]>>
  <2>1. PICK k \in Keys(n), d \in Seeds \X Seeds :
          in = <<[key |-> k, seed |-> d[1]], [key |-> k, seed |-> d[2]]>>
    BY <1>2
  <2>2. in[1] = [key |-> k, seed |-> d[1]] /\ in[2] = [key |-> k, seed |-> d[2]]
    BY <2>1
  <2> QED
    BY <2>2 DEF Side
<1> QED
  BY <1>1, <1>2 DEF Inputs

\* The next n bytes of both keys are bytes.
LEMMA KeyBytes ==
  ASSUME HInv, pc = "murmurhash2", NEW n \in 1 .. left, NEW s \in Side
  PROVE  AreBytes(input[s].key, n)
<1>1. input[s].key \in Keys(len)
  BY InputFacts DEF HInv, IInv
<1>2. ASSUME NEW j \in 0 .. n - 1 PROVE p + j \in 0 .. len - 1
  BY DEF HInv, IInv, p
<1> QED
  BY <1>1, <1>2 DEF AreBytes, Keys, ByteValue, Base

\* Before a round that finds a difference the states are the same: sides that
\* differ already, in an earlier block or in the seed, have no other difference.
LEMMA RoundSides ==
  ASSUME HInv, pc = "murmurhash2", NEW n \in 1 .. left
  PROVE  /\ ~SameBytes(p .. p + n - 1) => h[1] = h[2]
         /\ SameSides(Read(n)) <=> h[1] = h[2] /\ SameBytes(p .. p + n - 1)
<1>1. /\ len \in Nat /\ left \in 0 .. len /\ reads = 0 .. p - 1 /\ p % 4 = 0
      /\ p \in Nat /\ p + n <= len /\ Apart /\ input \in Inputs(len)
  BY DEF HInv, IInv, p
<1>2. SameBytes(Read(n)) <=> SameBytes(reads) /\ SameBytes(p .. p + n - 1)
  BY DEF Read, SameBytes
<1>3. ASSUME ~SameBytes(p .. p + n - 1) PROVE h[1] = h[2]
  <2>1. PICK j \in p .. p + n - 1 : input[1].key[j] # input[2].key[j]
    BY <1>3 DEF SameBytes
  <2>2. j \in 0 .. len - 1
    BY <1>1
  <2>3. input[1].seed = input[2].seed
    BY <1>1, <2>1, <2>2, InputFacts
  <2>4. ASSUME NEW i \in reads PROVE input[1].key[i] = input[2].key[i]
    <3>1. i \in 0 .. len - 1 /\ i < p
      BY <1>1
    <3>2. Block(i) # Block(j)
      <4> HIDE DEF p
      <4> QED
        BY <1>1, <3>1, <2>1 DEF Block
    <3> QED
      BY <1>1, <2>1, <2>2, <3>1, <3>2, InputFacts
  <2> QED
    BY <1>1, <2>3, <2>4 DEF Apart, SameSides, SameBytes
<1> QED
  BY <1>1, <1>2, <1>3 DEF Apart, SameSides

\* Seeds are words.
LEMMA SeedWord == Seeds \subseteq Word
BY HashAssumption DEF Word

\* The hash state starts from the seed and the length.
LEMMA CallKeeps ==
  ASSUME HInv, NEW n \in 0 .. MaxMurmurLen, NEW in \in Inputs(n), murmurhash2(n, in), IInv'
  PROVE  HInv'
<1>1. n \in Nat /\ Modulus \in Nat /\ Modulus >= 1
  BY HashAssumption, Words
<1>2. in[1].seed \in Word /\ in[2].seed \in Word
  BY <1>1, InputFacts, SeedWord DEF Side
<1>3. n % Modulus \in Word
  BY <1>1 DEF Word
<1>4. Xor(in[1].seed, n % Modulus) = Xor(in[2].seed, n % Modulus) <=> in[1].seed = in[2].seed
  BY <1>2, <1>3, XorWordCancels
<1>5. Xor(in[1].seed, n % Modulus) \in Word /\ Xor(in[2].seed, n % Modulus) \in Word
  BY <1>2, <1>3, XorWord, Words
<1>6. /\ pc' = "murmurhash2" /\ len' = n /\ left' = n /\ input' = in /\ reads' = {}
      /\ h' = [s \in Side |-> Xor(in[s].seed, n % Modulus)]
  BY DEF murmurhash2
<1>7. h' \in [Side -> Word]
  BY <1>5, <1>6 DEF Side
<1>8. Apart'
  BY <1>4, <1>6 DEF Apart, SameSides, SameBytes, Side
<1>9. p' % 4 = 0
  BY <1>1, <1>6 DEF p
<1> QED
  BY <1>6, <1>7, <1>8, <1>9 DEF HInv

\* A block: h * m ^ k.
LEMMA BlockKeeps ==
  ASSUME HInv, MurmurBlock, IInv'
  PROVE  HInv'
<1> DEFINE k(s) == MixedWord(input[s].key)
           g(s) == Xor(Times(h[s]), k(s))
<1>1. /\ pc = "murmurhash2" /\ left >= 4 /\ len \in Nat /\ left \in 0 .. len
      /\ 1 \in Side /\ 2 \in Side /\ p \in Int /\ p % 4 = 0
  BY DEF MurmurBlock, HInv, IInv, p, Side
<1>2. AreBytes(input[1].key, 4) /\ AreBytes(input[2].key, 4)
  <2>1. 4 \in 1 .. left
    BY <1>1
  <2> QED
    BY <1>1, <2>1, KeyBytes
<1>3. k(1) \in Word /\ k(2) \in Word
  BY <1>1, <1>2, MixedWordUnique
<1>4. k(1) = k(2) <=> SameBytes(p .. p + 4 - 1)
  <2>1. k(1) = k(2) <=> LittleEndian(input[1].key, 4) = LittleEndian(input[2].key, 4)
    BY <1>1, <1>2, MixedWordUnique
  <2>2. LittleEndian(input[1].key, 4) = LittleEndian(input[2].key, 4)
          <=> SameBytes(p .. p + 4 - 1)
    <3>1. 4 \in 1 .. 4
      OBVIOUS
    <3> QED
      BY <1>1, <1>2, <3>1, LittleEndianUnique DEF SameBytes
  <2> QED
    BY <2>1, <2>2
<1>5. h[1] \in Word /\ h[2] \in Word /\ Times(h[1]) \in Word /\ Times(h[2]) \in Word
      /\ (Times(h[1]) = Times(h[2]) => h[1] = h[2])
  BY <1>1, TimesWord DEF HInv
<1> HIDE DEF k
<1>6. g(1) \in Word /\ g(2) \in Word
  BY <1>3, <1>5, XorWord, Words
<1>7. g(1) = g(2) => (h[1] = h[2] <=> k(1) = k(2))
  BY <1>3, <1>5, XorWordCancels
<1>8. /\ h' = [s \in Side |-> g(s)] /\ reads' = Read(4) /\ left' = left - 4
      /\ UNCHANGED <<pc, len, input>>
  BY DEF MurmurBlock, Rest, k
<1>9. g(1) = g(2) <=> SameSides(Read(4))
  <2>1. 4 \in 1 .. left
    BY <1>1
  <2>2. h[1] = h[2] /\ k(1) = k(2) => g(1) = g(2)
    OBVIOUS
  <2> HIDE DEF g
  <2> QED
    BY <1>1, <1>4, <1>7, <2>1, <2>2, RoundSides
<1>10. Apart'
  <2> HIDE DEF g
  <2>1. h'[1] = g(1) /\ h'[2] = g(2)
    BY <1>1, <1>8
  <2> QED
    BY <1>8, <1>9, <2>1 DEF Apart, SameSides, SameBytes
<1>11. h' \in [Side -> Word]
  <2> HIDE DEF g
  <2> QED
    BY <1>6, <1>8 DEF Side
<1>12. p' % 4 = 0
  BY <1>1, <1>8 DEF p
<1> QED
  BY <1>1, <1>8, <1>10, <1>11, <1>12 DEF HInv

\* The tail: (h ^ k) * m.
LEMMA TailKeeps ==
  ASSUME HInv, MurmurTail, IInv'
  PROVE  HInv'
<1> DEFINE k(s) == LittleEndian(input[s].key, left)
           g(s) == Times(Xor(h[s], k(s)))
<1>1. /\ pc = "murmurhash2" /\ left \in 1 .. 3 /\ len \in Nat /\ left \in 0 .. len
      /\ 1 \in Side /\ 2 \in Side /\ p \in Int
  BY DEF MurmurTail, HInv, IInv, p, Side
<1>2. AreBytes(input[1].key, left) /\ AreBytes(input[2].key, left)
  <2>1. left \in 1 .. left
    BY <1>1
  <2> QED
    BY <1>1, <2>1, KeyBytes
<1>3. k(1) \in Word /\ k(2) \in Word
  <2>1. left \in 1 .. 4
    BY <1>1
  <2> QED
    BY <1>1, <1>2, <2>1, LittleEndianWord
<1>4. k(1) = k(2) <=> SameBytes(p .. p + left - 1)
  <2>1. left \in 1 .. 4
    BY <1>1
  <2> QED
    BY <1>1, <1>2, <2>1, LittleEndianUnique DEF SameBytes
<1>5. h[1] \in Word /\ h[2] \in Word
  BY <1>1 DEF HInv
<1> HIDE DEF k
<1>6. Xor(h[1], k(1)) \in Word /\ Xor(h[2], k(2)) \in Word
  BY <1>3, <1>5, XorWord, Words
<1>7. g(1) \in Word /\ g(2) \in Word
  BY <1>6, TimesWord
<1>8. g(1) = g(2) => (h[1] = h[2] <=> k(1) = k(2))
  BY <1>3, <1>5, <1>6, TimesWord, XorWordCancels
<1>9. /\ h' = [s \in Side |-> g(s)] /\ reads' = Read(left) /\ left' = 0
      /\ UNCHANGED <<pc, len, input>>
  BY DEF MurmurTail, k
<1>10. g(1) = g(2) <=> SameSides(Read(left))
  <2>1. left \in 1 .. left
    BY <1>1
  <2>2. h[1] = h[2] /\ k(1) = k(2) => g(1) = g(2)
    OBVIOUS
  <2> HIDE DEF g
  <2> QED
    BY <1>1, <1>4, <1>8, <2>1, <2>2, RoundSides
<1>11. Apart'
  <2> HIDE DEF g
  <2>1. h'[1] = g(1) /\ h'[2] = g(2)
    BY <1>1, <1>9
  <2> QED
    BY <1>9, <1>10, <2>1 DEF Apart, SameSides, SameBytes
<1>12. h' \in [Side -> Word]
  <2> HIDE DEF g
  <2> QED
    BY <1>7, <1>9 DEF Side
<1> QED
  BY <1>1, <1>9, <1>11, <1>12 DEF HInv

\* The last mixing is one-to-one.
LEMMA FinishKeeps ==
  ASSUME HInv, MurmurFinish, IInv'
  PROVE  HInv'
<1> DEFINE Shifted(z, r) == Xor(z, z \div Pow2[r])
           g(z) == Shifted(Times(Shifted(z, S1)), S2)
<1>1. S1 \in Nat \ {0} /\ S2 \in Nat \ {0} /\ 1 \in Side /\ 2 \in Side
  BY HashAssumption DEF Side
<1>2. ASSUME NEW z \in Word
      PROVE  g(z) \in Word /\ \A w \in Word : g(z) = g(w) => z = w
  <2>1. ASSUME NEW r \in Nat \ {0}, NEW w \in Word
        PROVE  Shifted(w, r) \in Word /\ \A v \in Word : Shifted(w, r) = Shifted(v, r) => w = v
    BY <2>1, XorShiftWord
  <2> HIDE DEF Shifted
  <2>2. ASSUME NEW w \in Word
        PROVE  Shifted(w, S1) \in Word /\ Times(Shifted(w, S1)) \in Word
               /\ g(w) \in Word
    BY <1>1, <2>1, TimesWord
  <2>3. ASSUME NEW w \in Word, g(z) = g(w) PROVE z = w
    BY <1>1, <2>1, <2>2, <2>3, TimesWord
  <2> QED
    BY <2>2, <2>3
<1>3. h[1] \in Word /\ h[2] \in Word
  BY <1>1 DEF HInv
<1>4. /\ h' = [s \in Side |-> g(h[s])] /\ pc' = "done"
      /\ UNCHANGED <<len, left, input, reads>> /\ pc = "murmurhash2"
  BY DEF MurmurFinish
<1> HIDE DEF g
<1>5. h'[1] = g(h[1]) /\ h'[2] = g(h[2])
  BY <1>1, <1>4
<1>6. h' \in [Side -> Word]
  BY <1>2, <1>3, <1>4 DEF Side
<1>7. Apart'
  BY <1>2, <1>3, <1>4, <1>5 DEF Apart, SameSides, SameBytes, HInv
<1> QED
  BY <1>4, <1>6, <1>7 DEF HInv

\* Nothing is hashed yet.
LEMMA InitHInv == Init => HInv
<1> SUFFICES ASSUME Init PROVE HInv
  OBVIOUS
<1>1. IInv /\ 0 \in Word
  BY InitEstablishes, Words
<1> QED
  BY <1>1 DEF Init, HInv, Nothing

\* Each step keeps the sides apart exactly while what was read of them differs.
LEMMA NextHInv == HInv /\ [Next]_vars => HInv'
<1> SUFFICES ASSUME HInv, [Next]_vars PROVE HInv'
  OBVIOUS
<1>1. IInv'
  BY NextKeeps DEF HInv
<1>2. ASSUME NEW n \in 0 .. MaxMurmurLen, NEW in \in Inputs(n), murmurhash2(n, in)
      PROVE  HInv'
  BY <1>1, <1>2, CallKeeps
<1>3. ASSUME NEW n \in 0 .. MaxWyLen, pc = "idle", wyhash(n)
      PROVE  HInv'
  BY <1>1, <1>3 DEF wyhash, HInv
<1>4. CASE MurmurBlock
  BY <1>1, <1>4, BlockKeeps
<1>5. CASE MurmurTail
  BY <1>1, <1>5, TailKeeps
<1>6. CASE MurmurFinish
  BY <1>1, <1>6, FinishKeeps
<1>7. CASE WyRound
  BY <1>1, <1>7 DEF WyRound, HInv
<1>8. CASE WyFinish
  BY <1>1, <1>8 DEF WyFinish, HInv
<1>9. CASE Return
  BY <1>1, <1>9, Words DEF Return, HInv, Nothing
<1>10. CASE UNCHANGED vars
  BY <1>1, <1>10 DEF vars, HInv, Apart, SameSides, SameBytes, p
<1> QED
  BY <1>2, <1>3, <1>4, <1>5, <1>6, <1>7, <1>8, <1>9, <1>10 DEF Next

\* So HInv holds throughout.
LEMMA HInvariance == Spec => []HInv
BY InitHInv, NextHInv, PTL DEF Spec

\* Keys are bytes and hashes are words (the type invariant): no product, shift or
\* exclusive-or of murmurhash2 leaves uint32_t (MurmurHash2.c:26-61).
THEOREM TypeCorrect == Spec => []TypeOK
<1>1. HInv => TypeOK
  <2> SUFFICES ASSUME HInv PROVE TypeOK
    OBVIOUS
  <2>1. pc = "murmurhash2" \/ input \in Inputs(len) =>
          \A s \in Side : input[s] \in [key : Keys(len), seed : Seeds]
    BY InputFacts DEF HInv, IInv
  <2>2. \A s \in Side : input[s] = NoInput \/ input[s] \in [key : Keys(len), seed : Seeds]
    BY <2>1 DEF HInv, IInv, Nothing
  <2>3. reads \subseteq Nat
    BY DEF HInv, IInv, p
  <2> QED
    BY <2>2, <2>3 DEF HInv, IInv, TypeOK, Word
<1> QED
  BY <1>1, HInvariance, PTL

\* For every odd multiplier, width of a byte, shifts, seeds and lengths: murmurhash2
\* hashes two keys that differ in one block of four bytes, or one key under two
\* seeds, apart, and keeps them apart to the end (MurmurHash2.c:26-61).
THEOREM NearKeysHashApart == Spec => []NearKeysDiffer
<1>1. HInv => NearKeysDiffer
  BY DEF HInv, IInv, NearKeysDiffer, Apart, SameSides, SameBytes, Nothing, Side
<1> QED
  BY <1>1, HInvariance, PTL
==============================================================================
