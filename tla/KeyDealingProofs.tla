---------------------------- MODULE KeyDealingProofs ----------------------------
(***************************************************************************)
(* Proofs about the dealing of a key, for every number of parties and      *)
(* every threshold: the loop that advances a combination lists every       *)
(* T-set of the parties once and in order, the rank computed with          *)
(* binomial sums is the place in that list, a party's list of shares is    *)
(* sorted, and the distribution matrix combines any T shares of one        *)
(* combination to the secret and every other choice of shares of T         *)
(* parties to something else.                                              *)
(***************************************************************************)
EXTENDS KeyDealing, FiniteSetTheorems, SequenceTheorems, WellFoundedInduction, TLAPS

-----------------------------------------------------------------------------
(* Induction, and functions defined by recursion.                          *)

\* Induction over the natural numbers, for a set of them.
LEMMA SetInduction ==
  ASSUME NEW S, 0 \in S, \A k \in Nat : k \in S => k + 1 \in S
  PROVE  Nat \subseteq S
<1> DEFINE U == Nat \ S
<1>1. SUFFICES ASSUME U # {} PROVE FALSE
  OBVIOUS
<1> DEFINE R == OpToRel(<, Nat)
<1>2. U \subseteq Nat
  OBVIOUS
<1>3. \E x \in U : \A y \in U : ~ (<<y, x>> \in R)
  <2> HIDE DEF U
  <2>1. IsWellFoundedOn(R, Nat)
    BY NatLessThanWellFounded
  <2> HIDE DEF R
  <2>2. QED
    BY <1>1, <1>2, <2>1, WFMin
<1>4. PICK x \in U : \A y \in U : ~ (<<y, x>> \in R)
  BY <1>3
<1>5. \A y \in U : ~(y < x)
  BY <1>4 DEF OpToRel
<1>6. x \in Nat /\ x # 0 /\ x \notin S
  BY <1>4
<1>7. x - 1 \in Nat /\ x = (x - 1) + 1 /\ x - 1 < x
  BY <1>6
<1>8. x - 1 \in U
  BY <1>6, <1>7
<1> QED
  BY <1>5, <1>7, <1>8

\* The least and the greatest of a set of natural numbers.
LEMMA Least ==
  ASSUME NEW S \in SUBSET Nat, S # {}
  PROVE  \E x \in S : \A y \in S : x <= y
<1> DEFINE U == {k \in Nat : \A y \in S : y <= k => \E x \in S : \A z \in S : x <= z}
<1>1. 0 \in U
  OBVIOUS
<1>2. ASSUME NEW k \in Nat, k \in U PROVE k + 1 \in U
  <2> SUFFICES ASSUME NEW y \in S, y <= k + 1
               PROVE  \E x \in S : \A z \in S : x <= z
    OBVIOUS
  <2>1. CASE \E z \in S : z <= k
    BY <1>2, <2>1
  <2>2. CASE \A z \in S : ~ (z <= k)
    <3>1. \A z \in S : y <= z
      BY <2>2
    <3> QED BY <3>1
  <2> QED BY <2>1, <2>2
<1> HIDE DEF U
<1>3. Nat \subseteq U
  BY <1>1, <1>2, SetInduction
<1> USE DEF U
<1>4. PICK y \in S : TRUE
  OBVIOUS
<1>5. y \in U /\ y <= y
  BY <1>3
<1> QED BY <1>5

\* The greatest of the numbers up to m.
LEMMA Greatest ==
  ASSUME NEW m \in Nat, NEW S \in SUBSET (1..m), S # {}
  PROVE  Max(S) \in S /\ \A y \in S : y <= Max(S)
<1> DEFINE W == {m - x : x \in S}
<1>1. W \in SUBSET Nat /\ W # {}
  <2>1. \A x \in S : m - x \in Nat
    OBVIOUS
  <2> QED BY <2>1
<1> HIDE DEF W
<1>2. PICK w \in W : \A v \in W : w <= v
  BY <1>1, Least
<1> USE DEF W
<1>3. PICK x \in S : w = m - x
  BY <1>2
<1>4. \A y \in S : x >= y
  <2> TAKE y \in S
  <2>1. m - y \in W
    OBVIOUS
  <2>2. w <= m - y
    BY <1>2, <2>1
  <2> QED BY <1>3, <2>2
<1>5. \E z \in S : \A y \in S : z >= y
  BY <1>4
<1>6. Max(S) \in S /\ \A y \in S : Max(S) >= y
  BY <1>5 DEF Max
<1> QED BY <1>6

\* A first value and a way from each to the next, and the sequence they make.
IsRecursion(V, b, s) == b \in V /\ s \in [Nat -> [V -> V]]
Follows(g, V, b, s) ==
  g \in [Nat -> V] /\ g[0] = b /\ \A k \in Nat : g[k + 1] = s[k][g[k]]

\* The sequence exists.
LEMMA Recursion ==
  ASSUME NEW V, NEW b, NEW s, IsRecursion(V, b, s)
  PROVE  \E g : Follows(g, V, b, s)
<1>0. b \in V /\ s \in [Nat -> [V -> V]]
  BY DEF IsRecursion
<1> DEFINE Upto(m, f) ==
             /\ f \in [0..m -> V] /\ f[0] = b
             /\ \A k \in 0..(m - 1) : f[k + 1] = s[k][f[k]]
<1> DEFINE U == {m \in Nat : \E f \in [0..m -> V] : Upto(m, f)}
<1>1. 0 \in U
  <2> DEFINE f == [k \in 0..0 |-> b]
  <2>1. Upto(0, f)
    BY <1>0
  <2> QED BY <2>1
<1>2. ASSUME NEW m \in Nat, m \in U PROVE m + 1 \in U
  <2>1. PICK f \in [0..m -> V] : Upto(m, f)
    BY <1>2
  <2> DEFINE h == [k \in 0..(m + 1) |-> IF k = m + 1 THEN s[m][f[m]] ELSE f[k]]
  <2>2. s[m][f[m]] \in V
    BY <1>0
  <2>3. h \in [0..(m + 1) -> V]
    BY <2>2
  <2>4. h[0] = b
    BY <2>1
  <2>5. \A k \in 0..((m + 1) - 1) : h[k + 1] = s[k][h[k]]
    <3> TAKE k \in 0..((m + 1) - 1)
    <3>1. CASE k = m
      BY <3>1
    <3>2. CASE k # m
      <4>1. k \in 0..(m - 1) /\ k + 1 \in 0..(m + 1) /\ k + 1 # m + 1 /\ k # m + 1
        BY <3>2
      <4> QED BY <2>1, <4>1
    <3> QED BY <3>1, <3>2
  <2>6. Upto(m + 1, h)
    BY <2>3, <2>4, <2>5
  <2>7. h \in [0..(m + 1) -> V]
    BY <2>3
  <2> HIDE DEF h, Upto
  <2> QED BY <2>6, <2>7
<1>3. Nat \subseteq U
  <2> HIDE DEF U
  <2> QED BY <1>1, <1>2, SetInduction
<1>4. ASSUME NEW m \in Nat, NEW f, NEW l \in Nat, NEW h, Upto(m, f), Upto(l, h)
      PROVE  \A k \in Nat : k <= m /\ k <= l => f[k] = h[k]
  <2> DEFINE Eq == {k \in Nat : k <= m /\ k <= l => f[k] = h[k]}
  <2>1. 0 \in Eq
    BY <1>4
  <2>2. ASSUME NEW k \in Nat, k \in Eq PROVE k + 1 \in Eq
    <3> SUFFICES ASSUME k + 1 <= m, k + 1 <= l PROVE f[k + 1] = h[k + 1]
      OBVIOUS
    <3>1. k \in 0..(m - 1) /\ k \in 0..(l - 1) /\ f[k] = h[k]
      BY <2>2
    <3> QED BY <1>4, <3>1
  <2> HIDE DEF Eq
  <2>3. Nat \subseteq Eq
    BY <2>1, <2>2, SetInduction
  <2> QED BY <2>3 DEF Eq
<1> DEFINE F(m) == CHOOSE f \in [0..m -> V] : Upto(m, f)
<1>5. \A m \in Nat : F(m) \in [0..m -> V] /\ Upto(m, F(m))
  BY <1>3
<1> DEFINE g == [m \in Nat |-> F(m)[m]]
<1>6. g \in [Nat -> V]
  <2> SUFFICES ASSUME NEW m \in Nat PROVE F(m)[m] \in V
    OBVIOUS
  <2> HIDE DEF F, Upto
  <2>1. F(m) \in [0..m -> V] /\ m \in 0..m
    BY <1>5
  <2> QED BY <2>1
<1>7. g[0] = b
  <2> HIDE DEF F
  <2> QED BY <1>5
<1>8. \A k \in Nat : g[k + 1] = s[k][g[k]]
  <2> TAKE k \in Nat
  <2> HIDE DEF F, Upto
  <2>1. Upto(k + 1, F(k + 1)) /\ Upto(k, F(k))
    BY <1>5
  <2> USE DEF Upto
  <2> HIDE DEF F
  <2>2. F(k + 1)[k] = F(k)[k]
    <3>1. k + 1 \in Nat /\ k <= k + 1 /\ k <= k
      OBVIOUS
    <3> HIDE DEF Upto
    <3> QED BY <1>4, <2>1, <3>1
  <2>3. F(k + 1)[k + 1] = s[k][F(k + 1)[k]]
    BY <2>1
  <2> QED BY <2>2, <2>3
<1> HIDE DEF g
<1> QED BY <1>6, <1>7, <1>8 DEF Follows

-----------------------------------------------------------------------------
(* Pascal's triangle, and the two ways the code computes its numbers.      *)

IsTriangle(P) ==
  /\ P \in [Nat -> [Nat -> Nat]]
  /\ P[0] = [k \in Nat |-> IF k = 0 THEN 1 ELSE 0]
  /\ \A m \in Nat : P[m + 1] = [k \in Nat |-> IF k = 0 THEN 1 ELSE P[m][k] + P[m][k - 1]]

Triangle == CHOOSE P : IsTriangle(P)

\* The number of ways to choose k of m.
Ways(m, k) == Triangle[m][k]

\* There is a triangle.
LEMMA TriangleExists == IsTriangle(Triangle)
<1> DEFINE V == [Nat -> Nat]
           b == [k \in Nat |-> IF k = 0 THEN 1 ELSE 0]
           next(row) == [k \in Nat |-> IF k = 0 THEN 1 ELSE row[k] + row[k - 1]]
           s == [m \in Nat |-> [row \in V |-> next(row)]]
<1>1. b \in V
  OBVIOUS
<1>2. \A row \in V : next(row) \in V
  OBVIOUS
<1>3. s \in [Nat -> [V -> V]]
  BY <1>2
<1>4. \A m \in Nat : \A row \in V : s[m][row] = next(row)
  OBVIOUS
<1> HIDE DEF V, b, s, next
<1>5. PICK g : Follows(g, V, b, s)
  BY <1>1, <1>3, Recursion DEF IsRecursion
<1>6. \A m \in Nat : g[m + 1] = next(g[m])
  BY <1>4, <1>5 DEF Follows
<1>7. IsTriangle(g)
  BY <1>5, <1>6 DEF Follows, IsTriangle, V, b, next
<1> QED BY <1>7 DEF Triangle

\* The rules of the triangle, one number at a time.
LEMMA Choosing ==
  /\ \A m, k \in Nat : Ways(m, k) \in Nat
  /\ \A m \in Nat : Ways(m, 0) = 1
  /\ \A k \in Nat : k > 0 => Ways(0, k) = 0
  /\ \A m, k \in Nat : Ways(m + 1, k + 1) = Ways(m, k + 1) + Ways(m, k)
<1> USE TriangleExists DEF IsTriangle, Ways
<1>1. \A m, k \in Nat : Ways(m, k) \in Nat
  OBVIOUS
<1>2. \A m \in Nat : Ways(m, 0) = 1
  <2> TAKE m \in Nat
  <2>1. CASE m = 0
    BY <2>1
  <2>2. CASE m # 0
    <3>1. m - 1 \in Nat /\ m = (m - 1) + 1
      BY <2>2
    <3>2. Triangle[(m - 1) + 1][0] = 1
      BY <3>1
    <3> QED BY <3>1, <3>2
  <2> QED BY <2>1, <2>2
<1>3. \A k \in Nat : k > 0 => Ways(0, k) = 0
  OBVIOUS
<1>4. \A m, k \in Nat : Ways(m + 1, k + 1) = Ways(m, k + 1) + Ways(m, k)
  <2> TAKE m, k \in Nat
  <2>1. k + 1 \in Nat /\ k + 1 # 0 /\ (k + 1) - 1 = k
    OBVIOUS
  <2>2. Triangle[m + 1][k + 1] = Triangle[m][k + 1] + Triangle[m][(k + 1) - 1]
    BY <2>1
  <2> QED BY <2>1, <2>2
<1> QED BY <1>1, <1>2, <1>3, <1>4

\* None of more than there are, one of all, some of fewer.
LEMMA ChoosingAll ==
  \A m \in Nat : /\ \A k \in Nat : k > m => Ways(m, k) = 0
                 /\ Ways(m, m) = 1
                 /\ \A k \in 0..m : Ways(m, k) > 0
<1> DEFINE U == {m \in Nat : /\ \A k \in Nat : k > m => Ways(m, k) = 0
                             /\ Ways(m, m) = 1
                             /\ \A k \in 0..m : Ways(m, k) > 0}
<1>1. 0 \in U
  BY Choosing
<1>2. ASSUME NEW m \in Nat, m \in U PROVE m + 1 \in U
  <2>1. ASSUME NEW k \in Nat, k > m + 1 PROVE Ways(m + 1, k) = 0
    <3>1. k - 1 \in Nat /\ k = (k - 1) + 1 /\ k - 1 > m /\ k > m
      BY <2>1
    <3>2. Ways(m, k) = 0 /\ Ways(m, k - 1) = 0
      BY <1>2, <3>1
    <3>3. Ways(m + 1, (k - 1) + 1) = Ways(m, (k - 1) + 1) + Ways(m, k - 1)
      BY <3>1, Choosing
    <3> QED BY <3>1, <3>2, <3>3
  <2>2. Ways(m + 1, m + 1) = 1
    <3>1. Ways(m, m + 1) = 0 /\ Ways(m, m) = 1
      BY <1>2
    <3> QED BY <3>1, Choosing
  <2>3. ASSUME NEW k \in 0..(m + 1) PROVE Ways(m + 1, k) > 0
    <3>1. CASE k = 0
      BY <3>1, Choosing
    <3>2. CASE k # 0
      <4>1. k - 1 \in 0..m /\ k = (k - 1) + 1 /\ k \in Nat /\ k - 1 \in Nat
        BY <3>2
      <4>2. Ways(m + 1, (k - 1) + 1) = Ways(m, (k - 1) + 1) + Ways(m, k - 1)
        BY <4>1, Choosing
      <4>3. Ways(m, k - 1) > 0 /\ Ways(m, k - 1) \in Nat /\ Ways(m, k) \in Nat
        BY <1>2, <4>1, Choosing
      <4> QED BY <4>1, <4>2, <4>3
    <3> QED BY <3>1, <3>2
  <2> QED BY <2>1, <2>2, <2>3
<1> HIDE DEF U
<1>3. Nat \subseteq U
  BY <1>1, <1>2, SetInduction
<1> QED BY <1>3 DEF U

\* How the numbers of a row, and of two rows, are related.
LEMMA Absorption ==
  \A m, k \in Nat : /\ (k + 1) * Ways(m, k + 1) = (m - k) * Ways(m, k)
                    /\ (k + 1) * Ways(m + 1, k + 1) = (m + 1) * Ways(m, k)
<1> DEFINE U == {m \in Nat : \A k \in Nat :
                   (k + 1) * Ways(m, k + 1) = (m - k) * Ways(m, k)}
<1>1. 0 \in U
  <2> SUFFICES ASSUME NEW k \in Nat
               PROVE  (k + 1) * Ways(0, k + 1) = (0 - k) * Ways(0, k)
    OBVIOUS
  <2>1. Ways(0, k + 1) = 0
    BY Choosing
  <2>2. CASE k = 0
    BY <2>1, <2>2, Choosing
  <2>3. CASE k # 0
    <3>1. Ways(0, k) = 0
      BY <2>3, Choosing
    <3> QED BY <2>1, <3>1
  <2> QED BY <2>2, <2>3
<1>2. ASSUME NEW m \in Nat, NEW k \in Nat,
             (k + 1) * Ways(m, k + 1) = (m - k) * Ways(m, k)
      PROVE  (k + 1) * Ways(m + 1, k + 1) = (m + 1) * Ways(m, k)
  <2> DEFINE x == Ways(m, k) y == Ways(m, k + 1)
  <2>1. x \in Nat /\ y \in Nat /\ Ways(m + 1, k + 1) = y + x
    BY Choosing
  <2>2. (k + 1) * y = (m - k) * x
    BY <1>2
  <2> HIDE DEF x, y
  <2>3. (k + 1) * (y + x) = (m + 1) * x
    BY <2>1, <2>2
  <2> QED BY <2>1, <2>3 DEF x
<1>3. ASSUME NEW m \in Nat, m \in U PROVE m + 1 \in U
  <2> SUFFICES ASSUME NEW k \in Nat
      PROVE  (k + 1) * Ways(m + 1, k + 1) = ((m + 1) - k) * Ways(m + 1, k)
    OBVIOUS
  <2>1. (k + 1) * Ways(m + 1, k + 1) = (m + 1) * Ways(m, k)
    BY <1>2, <1>3
  <2>2. CASE k = 0
    <3>1. Ways(m, k) = 1 /\ Ways(m + 1, k) = 1
      BY <2>2, Choosing
    <3> QED BY <2>1, <2>2, <3>1
  <2>3. CASE k # 0
    <3> DEFINE l == k - 1
               x == Ways(m, k) z == Ways(m, l)
    <3>1. l \in Nat /\ k = l + 1
      BY <2>3
    <3>2. (l + 1) * Ways(m, l + 1) = (m - l) * z
      BY <1>3, <3>1
    <3>3. Ways(m + 1, l + 1) = Ways(m, l + 1) + z
      BY <3>1, Choosing
    <3>4. k * x = (m - l) * z /\ Ways(m + 1, k) = x + z
      BY <3>1, <3>2, <3>3
    <3>5. x \in Nat /\ z \in Nat
      BY <3>1, Choosing
    <3> HIDE DEF x, z
    <3>6. ((m + 1) - k) * (x + z) = (m + 1) * x
      <4>1. (m + 1) - k = m - l
        BY <3>1
      <4>2. ((m + 1) - k) * (x + z) = ((m + 1) - k) * x + (m - l) * z
        BY <3>1, <3>5, <4>1
      <4>3. ((m + 1) - k) * x + k * x = (m + 1) * x
        BY <3>5
      <4> HIDE DEF l
      <4> QED BY <3>1, <3>4, <3>5, <4>2, <4>3
    <3> QED BY <2>1, <3>4, <3>6 DEF x
  <2> QED BY <2>2, <2>3
<1> HIDE DEF U
<1>4. Nat \subseteq U
  BY <1>1, <1>3, SetInduction
<1>5. \A m, k \in Nat : (k + 1) * Ways(m, k + 1) = (m - k) * Ways(m, k)
  BY <1>4 DEF U
<1> QED BY <1>2, <1>5

\* The divisions of the binomial loops leave no remainder.
LEMMA ExactDivision ==
  ASSUME NEW a \in Nat \ {0}, NEW x \in Nat
  PROVE  (a * x) \div a = x
  OBVIOUS

\* What both loops over a row of the triangle compute, and that they do.
LEMMA NumberOfCombinations ==
  ASSUME NEW N \in Nat, NEW R \in 0..N
  PROVE  nCr(N, R) = Ways(N, R)
<1> DEFINE loop(f) == [j \in 0..R |->
                        IF j = 0 THEN 1 ELSE (f[j - 1] * (N - R + j)) \div j]
           ways == [j \in 0..R |-> Ways(N - R + j, j)]
           res == CHOOSE f : f = loop(f)
<1>1. nCr(N, R) = res[R]
  BY DEF nCr
<1>2. ASSUME NEW j \in 1..R
      PROVE  (Ways(N - R + (j - 1), j - 1) * (N - R + j)) \div j = Ways(N - R + j, j)
  <2> DEFINE m == N - R + (j - 1) l == j - 1
  <2>1. m \in Nat /\ l \in Nat /\ l + 1 = j /\ m + 1 = N - R + j
    OBVIOUS
  <2> HIDE DEF m, l
  <2>2. (l + 1) * Ways(m + 1, l + 1) = (m + 1) * Ways(m, l)
    BY <2>1, Absorption
  <2>3. Ways(m + 1, l + 1) \in Nat /\ Ways(m, l) \in Nat
    BY <2>1, Choosing
  <2>4. (Ways(m, l) * (m + 1)) \div (l + 1) = Ways(m + 1, l + 1)
    <3>1. Ways(m, l) * (m + 1) = (l + 1) * Ways(m + 1, l + 1)
      BY <2>1, <2>2, <2>3
    <3>2. l + 1 \in Nat \ {0}
      BY <2>1
    <3> HIDE <2>2
    <3> QED BY <2>3, <3>1, <3>2, ExactDivision
  <2>5. Ways(m, l) = Ways(N - R + (j - 1), j - 1)
    BY DEF m, l
  <2> QED BY <2>1, <2>4, <2>5
<1>3. ways = loop(ways)
  <2>1. ASSUME NEW j \in 0..R
        PROVE  ways[j] = loop(ways)[j]
    <3>1. CASE j = 0
      <4>1. N - R \in Nat /\ (N - R) + j = N - R
        BY <3>1
      <4> QED BY <3>1, <4>1, Choosing
    <3>2. CASE j # 0
      <4>1. j \in 1..R /\ j - 1 \in 0..R
        BY <3>2
      <4>2. loop(ways)[j] = (Ways(N - R + (j - 1), j - 1) * (N - R + j)) \div j
        BY <3>2, <4>1
      <4> QED BY <1>2, <4>1, <4>2
    <3> QED BY <3>1, <3>2
  <2> QED BY <2>1
<1>4. res = loop(res)
  <2> HIDE DEF loop, ways
  <2> QED BY <1>3
<1> DEFINE U == {j \in Nat : j <= R => res[j] = ways[j]}
<1>5. 0 \in U
  <2>1. ways[0] = Ways(N - R + 0, 0) /\ N - R + 0 \in Nat
    OBVIOUS
  <2>2. ways[0] = 1
    BY <2>1, Choosing
  <2> HIDE DEF res
  <2>3. res[0] = 1
    BY <1>4
  <2> QED BY <2>2, <2>3
<1>6. ASSUME NEW j \in Nat, j \in U PROVE j + 1 \in U
  <2> HIDE DEF res, ways
  <2>1. SUFFICES ASSUME j + 1 <= R PROVE res[j + 1] = ways[j + 1]
    OBVIOUS
  <2>2. res[j] = ways[j]
    BY <1>6, <2>1
  <2>3. j + 1 \in 0..R /\ j + 1 # 0 /\ (j + 1) - 1 = j
    BY <2>1
  <2>4. res[j + 1] = (res[j] * (N - R + (j + 1))) \div (j + 1)
    BY <1>4, <2>3
  <2>5. ways[j + 1] = (ways[j] * (N - R + (j + 1))) \div (j + 1)
    BY <1>3, <2>3
  <2> QED BY <2>2, <2>4, <2>5
<1>7. Nat \subseteq U
  <2> HIDE DEF U
  <2> QED BY <1>5, <1>6, SetInduction
<1>8. ways[R] = Ways(N, R)
  <2>1. R \in 0..R /\ N - R + R = N
    OBVIOUS
  <2> QED BY <2>1
<1> HIDE DEF res, ways
<1> QED BY <1>1, <1>7, <1>8

\* The binomial coefficient of the rank is the number of ways too.
LEMMA BinomialCoefficient ==
  ASSUME NEW N \in Nat, NEW R \in Nat
  PROVE  Binomial(N, R) = Ways(N, R)
<1> DEFINE loop(f) == [j \in 0..R |->
                        IF j = 0 THEN 1 ELSE (f[j - 1] * (N - j + 1)) \div j]
           ways == [j \in 0..R |-> Ways(N, j)]
           res == CHOOSE f : f = loop(f)
<1>1. Binomial(N, R) = IF R > N THEN 0 ELSE IF R = 0 \/ R = N THEN 1 ELSE res[R]
  BY DEF Binomial
<1>0. CASE R > N
  BY <1>0, <1>1, ChoosingAll
<1>9. CASE R = 0 \/ R = N
  BY <1>1, <1>9, ChoosingAll, Choosing
<1>10. CASE R < N /\ R # 0
  <2>2. ASSUME NEW j \in 1..R
        PROVE  (Ways(N, j - 1) * (N - j + 1)) \div j = Ways(N, j)
    <3> DEFINE l == j - 1
    <3>1. l \in Nat /\ l + 1 = j /\ N - j + 1 = N - l /\ N - l \in Nat
      BY <1>10
    <3> HIDE DEF l
    <3>2. (l + 1) * Ways(N, l + 1) = (N - l) * Ways(N, l)
      BY <3>1, Absorption
    <3>3. Ways(N, l + 1) \in Nat /\ Ways(N, l) \in Nat
      BY <3>1, Choosing
    <3>4. (Ways(N, l) * (N - l)) \div (l + 1) = Ways(N, l + 1)
      <4>1. Ways(N, l) * (N - l) = (l + 1) * Ways(N, l + 1)
        BY <3>1, <3>2, <3>3
      <4>2. l + 1 \in Nat \ {0}
        BY <3>1
      <4> HIDE <3>2
      <4> QED BY <3>3, <4>1, <4>2, ExactDivision
    <3>5. Ways(N, l) = Ways(N, j - 1)
      BY DEF l
    <3> QED BY <3>1, <3>4, <3>5
  <2>3. ways = loop(ways)
    <3>1. ASSUME NEW j \in 0..R
          PROVE  ways[j] = loop(ways)[j]
      <4>1. CASE j = 0
        BY <4>1, Choosing
      <4>2. CASE j # 0
        <5>1. j \in 1..R /\ j - 1 \in 0..R
          BY <4>2
        <5>2. loop(ways)[j] = (Ways(N, j - 1) * (N - j + 1)) \div j
          BY <4>2, <5>1
        <5> QED BY <2>2, <5>1, <5>2
      <4> QED BY <4>1, <4>2
    <3> QED BY <3>1
  <2>4. res = loop(res)
    <3> HIDE DEF loop, ways
    <3> QED BY <2>3
  <2> DEFINE U == {j \in Nat : j <= R => res[j] = ways[j]}
  <2>5. 0 \in U
    <3>1. ways[0] = 1
      BY Choosing
    <3> HIDE DEF res
    <3>2. res[0] = 1
      BY <2>4
    <3> QED BY <3>1, <3>2
  <2>6. ASSUME NEW j \in Nat, j \in U PROVE j + 1 \in U
    <3> HIDE DEF res, ways
    <3>1. SUFFICES ASSUME j + 1 <= R PROVE res[j + 1] = ways[j + 1]
      OBVIOUS
    <3>2. res[j] = ways[j]
      BY <2>6, <3>1
    <3>3. j + 1 \in 0..R /\ j + 1 # 0 /\ (j + 1) - 1 = j
      BY <3>1
    <3>4. res[j + 1] = (res[j] * (N - (j + 1) + 1)) \div (j + 1)
      BY <2>4, <3>3
    <3>5. ways[j + 1] = (ways[j] * (N - (j + 1) + 1)) \div (j + 1)
      BY <2>3, <3>3
    <3> QED BY <3>2, <3>4, <3>5
  <2>7. Nat \subseteq U
    <3> HIDE DEF U
    <3> QED BY <2>5, <2>6, SetInduction
  <2>8. ways[R] = Ways(N, R)
    OBVIOUS
  <2> HIDE DEF res, ways
  <2> QED BY <1>1, <1>10, <2>7, <2>8
<1> QED BY <1>0, <1>9, <1>10

\* Two sequences that go on alike are alike.
LEMMA Alike ==
  ASSUME NEW m \in Nat, NEW f, NEW h, f[0] = h[0],
         \A k \in 1..m : f[k - 1] = h[k - 1] => f[k] = h[k]
  PROVE  \A k \in 0..m : f[k] = h[k]
<1> DEFINE U == {k \in Nat : k <= m => f[k] = h[k]}
<1>1. 0 \in U
  OBVIOUS
<1>2. ASSUME NEW k \in Nat, k \in U PROVE k + 1 \in U
  <2> SUFFICES ASSUME k + 1 <= m PROVE f[k + 1] = h[k + 1]
    OBVIOUS
  <2>1. k + 1 \in 1..m /\ (k + 1) - 1 = k /\ f[k] = h[k]
    BY <1>2
  <2>2. f[(k + 1) - 1] = h[(k + 1) - 1] => f[k + 1] = h[k + 1]
    BY <2>1
  <2> QED BY <2>1, <2>2
<1> HIDE DEF U
<1>3. Nat \subseteq U
  BY <1>1, <1>2, SetInduction
<1> QED BY <1>3 DEF U

-----------------------------------------------------------------------------
(* Combinations.                                                           *)

\* The increasing sequences of T parties of N.
IsCombination(c, N, T) ==
  /\ c \in [1..T -> 0..(N - 1)]
  /\ \A j \in 1..(T - 1) : c[j] < c[j + 1]

\* A key for T of N parties.
IsKey(N, T) == N \in Nat \ {0} /\ T \in 1..N

\* The parties of a combination are far enough apart, and leave room for the
\* places on either side.
LEMMA Spread ==
  ASSUME NEW N, NEW T, IsKey(N, T), NEW c, IsCombination(c, N, T)
  PROVE  /\ \A j, k \in 1..T : j <= k => c[j] + (k - j) <= c[k]
         /\ \A j \in 1..T : c[j] \in Nat /\ j - 1 <= c[j] /\ c[j] <= N - T + j - 1
<1>0. N \in Nat /\ T \in Nat /\ T > 0 /\ \A j \in 1..T : c[j] \in Nat /\ c[j] <= N - 1
  BY DEF IsKey, IsCombination
<1>1. ASSUME NEW j \in 1..T
      PROVE  \A k \in 1..T : j <= k => c[j] + (k - j) <= c[k]
  <2> DEFINE U == {d \in Nat : j + d <= T => c[j] + d <= c[j + d]}
  <2>1. 0 \in U
    BY <1>0
  <2>2. ASSUME NEW d \in Nat, d \in U PROVE d + 1 \in U
    <3> SUFFICES ASSUME j + (d + 1) <= T PROVE c[j] + (d + 1) <= c[j + (d + 1)]
      OBVIOUS
    <3>1. j + d \in 1..(T - 1) /\ j + d \in 1..T /\ (j + d) + 1 \in 1..T
      BY <1>0
    <3>2. c[j + d] < c[(j + d) + 1]
      BY <3>1 DEF IsCombination
    <3>3. c[j] + d <= c[j + d] /\ (j + d) + 1 = j + (d + 1)
      BY <2>2, <3>1
    <3> QED BY <1>0, <3>1, <3>2, <3>3
  <2> HIDE DEF U
  <2>3. Nat \subseteq U
    BY <2>1, <2>2, SetInduction
  <2> TAKE k \in 1..T
  <2>4. j <= k => k - j \in U /\ j + (k - j) = k
    BY <1>0, <2>3
  <2> QED BY <2>4 DEF U
<1>2. ASSUME NEW j \in 1..T
      PROVE  c[j] \in Nat /\ j - 1 <= c[j] /\ c[j] <= N - T + j - 1
  <2>1. 1 \in 1..T /\ T \in 1..T
    BY <1>0
  <2>2. c[1] + (j - 1) <= c[j] /\ c[j] + (T - j) <= c[T]
    BY <1>1, <2>1
  <2> QED BY <1>0, <2>1, <2>2
<1> QED BY <1>1, <1>2

\* The dealing starts at a combination.
LEMMA FirstIsCombination ==
  ASSUME NEW N, NEW T, IsKey(N, T)
  PROVE  IsCombination(FirstCombination(T), N, T)
  BY DEF IsKey, IsCombination, FirstCombination

\* The places whose party is not the last it could be.
Movable(c, N, T) == {j \in 1..T : c[j] # N - T + j - 1}

\* The step to the next combination moves the last place that can move, puts
\* the places after it right behind it, and makes a combination.
LEMMA NextIs ==
  ASSUME NEW N, NEW T, IsKey(N, T), NEW c, IsCombination(c, N, T), Movable(c, N, T) # {}
  PROVE  LET l == Max(Movable(c, N, T))
             d == NextCombination(c, N, T)
         IN  /\ l \in 1..T /\ c[l] < N - T + l - 1
             /\ \A j \in 1..T : j > l => c[j] = N - T + j - 1
             /\ d = [j \in 1..T |-> IF j < l THEN c[j] ELSE c[l] + 1 + j - l]
             /\ IsCombination(d, N, T)
<1> DEFINE l == Max(Movable(c, N, T))
           d == NextCombination(c, N, T)
<1>0. N \in Nat /\ T \in Nat /\ T > 0 /\ T <= N
  BY DEF IsKey
<1>1. l \in Movable(c, N, T) /\ \A j \in Movable(c, N, T) : j <= l
  BY <1>0, Greatest DEF Movable
<1>2. d = [j \in 1..T |-> IF j < l THEN c[j] ELSE c[l] + 1 + j - l]
  <2>1. d = IF Movable(c, N, T) = {} THEN c
            ELSE [j \in 1..T |-> IF j < l THEN c[j] ELSE c[l] + 1 + j - l]
    BY DEF NextCombination, Movable
  <2> QED BY <2>1
<1> HIDE DEF l, d
<1>3. l \in 1..T /\ c[l] # N - T + l - 1
  BY <1>1 DEF Movable
<1>4. c[l] \in Nat /\ c[l] < N - T + l - 1
  <2>1. c[l] \in Nat /\ c[l] <= N - T + l - 1
    BY <1>3, Spread
  <2> QED BY <1>0, <1>3, <2>1
<1>5. \A j \in 1..T : j > l => c[j] = N - T + j - 1
  BY <1>1, <1>3 DEF Movable
<1>6. IsCombination(d, N, T)
  <2>1. ASSUME NEW j \in 1..T PROVE d[j] \in 0..(N - 1)
    <3>1. CASE j < l
      BY <1>2, <3>1 DEF IsCombination
    <3>2. CASE ~ (j < l)
      BY <1>0, <1>2, <1>3, <1>4, <3>2
    <3> QED BY <3>1, <3>2
  <2>2. ASSUME NEW j \in 1..(T - 1) PROVE d[j] < d[j + 1]
    <3>0. j \in 1..T /\ j + 1 \in 1..T
      BY <1>0
    <3>1. CASE j + 1 < l
      <4>1. c[j] < c[j + 1]
        BY DEF IsCombination
      <4>2. d[j] = c[j] /\ d[j + 1] = c[j + 1]
        BY <1>2, <1>3, <3>0, <3>1
      <4> QED BY <4>1, <4>2
    <3>2. CASE j + 1 = l
      <4>1. c[j] < c[j + 1]
        BY DEF IsCombination
      <4>2. d[j] = c[j] /\ d[j + 1] = c[l] + 1
        BY <1>2, <1>3, <1>4, <3>0, <3>2
      <4>3. c[j] \in Nat
        BY <3>0 DEF IsCombination
      <4> QED BY <1>4, <3>2, <4>1, <4>2, <4>3
    <3>3. CASE j >= l
      BY <1>2, <1>3, <1>4, <3>0, <3>3
    <3> QED BY <1>0, <1>3, <3>1, <3>2, <3>3
  <2>3. d \in [1..T -> 0..(N - 1)]
    BY <1>2, <2>1
  <2> QED BY <2>2, <2>3 DEF IsCombination
<1> QED BY <1>2, <1>3, <1>4, <1>5, <1>6 DEF l, d

\* Where no party can move, the combination is the last one.
LEMMA LastIs ==
  ASSUME NEW N, NEW T, NEW c, Movable(c, N, T) = {}
  PROVE  \A j \in 1..T : c[j] = N - T + j - 1
  BY DEF Movable

-----------------------------------------------------------------------------
(* The rank of a combination.                                              *)

\* What one turn of the rank's inner loop adds up.
LEMMA SkippedIs ==
  ASSUME NEW N \in Nat, NEW K \in Nat, NEW m \in 1..K, NEW e, NEW from \in Nat,
         e[m] \in Nat, from < e[m], e[m] <= N
  PROVE  Skipped(N, K, e, m, from) = Ways(N - from, K - m + 1) - Ways(N - e[m] + 1, K - m + 1)
<1> DEFINE top == e[m] - 1
           loop(f) == [j \in 0..top |->
                        IF j <= from THEN 0 ELSE f[j - 1] + Binomial(N - j, K - m)]
           ways == [j \in 0..top |->
                      IF j <= from THEN 0
                      ELSE Ways(N - from, K - m + 1) - Ways(N - j, K - m + 1)]
           res == CHOOSE f : f = loop(f)
<1>0. top \in Nat /\ from <= top /\ top <= N - 1 /\ K - m \in Nat
  OBVIOUS
<1>1. Skipped(N, K, e, m, from) = res[top]
  BY DEF Skipped
<1> HIDE DEF top
<1>2. ASSUME NEW j \in 0..top, j > from
      PROVE  /\ Binomial(N - j, K - m) = Ways(N - j, K - m)
             /\ Ways(N - j + 1, K - m + 1) = Ways(N - j, K - m + 1) + Ways(N - j, K - m)
             /\ Ways(N - j, K - m) \in Nat /\ Ways(N - j, K - m + 1) \in Nat
  <2>1. N - j \in Nat /\ K - m \in Nat /\ K - m + 1 \in Nat
    BY <1>0
  <2>2. Binomial(N - j, K - m) = Ways(N - j, K - m)
    BY <2>1, BinomialCoefficient
  <2>3. Ways(N - j + 1, K - m + 1) = Ways(N - j, K - m + 1) + Ways(N - j, K - m)
    BY <2>1, Choosing
  <2> QED BY <2>1, <2>2, <2>3, Choosing
<1>3. ways = loop(ways)
  <2>1. ASSUME NEW j \in 0..top PROVE ways[j] = loop(ways)[j]
    <3>1. CASE j <= from
      BY <3>1
    <3>2. CASE j = from + 1
      <4>1. j - 1 \in 0..top /\ j - 1 <= from /\ ~ (j <= from) /\ N - j + 1 = N - from
        BY <1>0, <3>2
      <4>2. loop(ways)[j] = 0 + Binomial(N - j, K - m)
        BY <4>1
      <4>3. ways[j] = Ways(N - from, K - m + 1) - Ways(N - j, K - m + 1)
        BY <4>1
      <4> HIDE DEF ways, loop
      <4> QED BY <1>2, <3>2, <4>1, <4>2, <4>3
    <3>3. CASE j > from + 1
      <4>1. j - 1 \in 0..top /\ ~ (j - 1 <= from) /\ ~ (j <= from) /\ N - j + 1 = N - (j - 1)
            /\ N - from \in Nat /\ K - m + 1 \in Nat
        BY <1>0, <3>3
      <4>2. loop(ways)[j] = (Ways(N - from, K - m + 1) - Ways(N - (j - 1), K - m + 1))
                              + Binomial(N - j, K - m)
        BY <4>1
      <4>3. ways[j] = Ways(N - from, K - m + 1) - Ways(N - j, K - m + 1)
        BY <4>1
      <4>4. Ways(N - from, K - m + 1) \in Nat
        BY <4>1, Choosing
      <4> HIDE DEF ways, loop
      <4> QED BY <1>2, <3>3, <4>1, <4>2, <4>3, <4>4
    <3> QED BY <3>1, <3>2, <3>3
  <2> QED BY <2>1
<1>4. res = loop(res)
  <2> HIDE DEF loop, ways
  <2> QED BY <1>3
<1>5. \A j \in 0..top : res[j] = ways[j]
  <2> HIDE DEF res, ways
  <2>1. res[0] = ways[0]
    <3>1. 0 \in 0..top /\ 0 <= from
      BY <1>0
    <3> QED BY <1>3, <1>4, <3>1
  <2>2. \A j \in 1..top : res[j - 1] = ways[j - 1] => res[j] = ways[j]
    <3> TAKE j \in 1..top
    <3>1. j \in 0..top
      OBVIOUS
    <3> QED BY <1>3, <1>4, <3>1
  <2> HIDE DEF loop
  <2> QED BY <1>0, <2>1, <2>2, Alike
<1>6. ways[top] = Ways(N - from, K - m + 1) - Ways(N - top, K - m + 1)
  <2>1. top \in 0..top
    BY <1>0
  <2>2. CASE top <= from
    <3>1. top = from /\ Ways(N - top, K - m + 1) \in Nat
      <4>1. N - top \in Nat /\ K - m + 1 \in Nat
        BY <1>0
      <4>2. Ways(N - top, K - m + 1) \in Nat
        BY <4>1, Choosing
      <4> QED BY <1>0, <2>2, <4>2
    <3> QED BY <2>1, <2>2, <3>1
  <2> QED BY <2>1, <2>2
<1>7. N - top = N - e[m] + 1
  BY DEF top
<1> HIDE DEF res, ways
<1> QED BY <1>0, <1>1, <1>5, <1>6, <1>7

\* SMPCClient's rank of a combination, its parties counted from 0.
Rank(c, N, T) == CombinationSequenceNumber(N, T, [j \in 1..T |-> c[j] + 1])

\* The combinations after c, by the first place they differ from it in.
After(c, N, T, j) == Ways(N - 1 - c[j], T - j + 1)

IsSumAfter(s, c, N, T) ==
  /\ s \in [0..T -> Nat]
  /\ s[0] = 0
  /\ \A j \in 1..T : s[j] = s[j - 1] + After(c, N, T, j)

\* The combinations after c are counted by natural numbers.
LEMMA AfterIsNat ==
  ASSUME NEW N, NEW T, IsKey(N, T), NEW c, IsCombination(c, N, T)
  PROVE  \A j \in 1..T : After(c, N, T, j) \in Nat
<1> TAKE j \in 1..T
<1>1. N - 1 - c[j] \in Nat /\ T - j + 1 \in Nat
  BY DEF IsKey, IsCombination
<1> QED BY <1>1, Choosing DEF After

\* They can be summed place by place.
LEMMA SumAfterExists ==
  ASSUME NEW N, NEW T, IsKey(N, T), NEW c, IsCombination(c, N, T)
  PROVE  \E s : IsSumAfter(s, c, N, T)
<1> DEFINE next(k) == [x \in Nat |-> IF k < T THEN x + After(c, N, T, k + 1) ELSE x]
           step == [k \in Nat |-> next(k)]
<1>0. T \in Nat
  BY DEF IsKey
<1>1. \A k \in Nat : next(k) \in [Nat -> Nat]
  <2> TAKE k \in Nat
  <2>1. k < T => k + 1 \in 1..T
    BY <1>0
  <2> QED BY <2>1, AfterIsNat
<1>2. IsRecursion(Nat, 0, step)
  BY <1>1 DEF IsRecursion
<1>3. \A k \in Nat : step[k] = next(k)
  OBVIOUS
<1> HIDE DEF step
<1>4. PICK g : Follows(g, Nat, 0, step)
  BY <1>2, Recursion
<1> DEFINE s == [j \in 0..T |-> g[j]]
<1>5. s \in [0..T -> Nat] /\ s[0] = 0
  BY <1>0, <1>4 DEF Follows
<1>6. ASSUME NEW j \in 1..T PROVE s[j] = s[j - 1] + After(c, N, T, j)
  <2>1. j - 1 \in Nat /\ (j - 1) + 1 = j /\ j - 1 < T /\ j - 1 \in 0..T /\ j \in 0..T
    BY <1>0
  <2>2. g[(j - 1) + 1] = step[j - 1][g[j - 1]] /\ g[j - 1] \in Nat
    BY <1>4, <2>1 DEF Follows
  <2>3. step[j - 1] = next(j - 1)
    BY <1>3, <2>1
  <2>4. next(j - 1)[g[j - 1]] = g[j - 1] + After(c, N, T, (j - 1) + 1)
    BY <2>1, <2>2
  <2> HIDE DEF next
  <2> QED BY <2>1, <2>2, <2>3, <2>4
<1> QED BY <1>5, <1>6 DEF IsSumAfter

\* The rank is what is left of all combinations without those after c.
LEMMA RankIs ==
  ASSUME NEW N, NEW T, IsKey(N, T), NEW c, IsCombination(c, N, T),
         NEW s, IsSumAfter(s, c, N, T)
  PROVE  Rank(c, N, T) = Ways(N, T) - s[T]
<1> DEFINE e == [j \in 1..T |-> c[j] + 1]
           from(j) == IF j = 1 THEN 0 ELSE e[j - 1]
           loop(f) == [j \in 0..T |->
                        IF j = 0 THEN 1 ELSE f[j - 1] + Skipped(N, T, e, j, from(j))]
           left(j) == N - (IF j = 0 THEN 0 ELSE e[j])
           sums == [j \in 0..T |->
                      1 + Ways(N, T) - Ways(left(j), T - j) - s[j]]
           res == CHOOSE f : f = loop(f)
<1>0. N \in Nat /\ T \in Nat /\ T > 0 /\ T <= N
  BY DEF IsKey
<1>1. Rank(c, N, T) = res[T]
  BY DEF Rank, CombinationSequenceNumber
<1>2. \A j \in 1..T : c[j] \in Nat /\ c[j] <= N - 1 /\ e[j] = c[j] + 1
  BY <1>0 DEF IsCombination
<1>3. \A j \in 0..T : left(j) \in Nat
  BY <1>0, <1>2
<1>4. ASSUME NEW j \in 1..T
      PROVE  Skipped(N, T, e, j, from(j)) = Ways(left(j - 1), T - j + 1) - Ways(left(j) + 1, T - j + 1)
  <2>1. from(j) \in Nat /\ from(j) < e[j] /\ left(j - 1) = N - from(j)
    <3>1. CASE j = 1
      BY <1>0, <1>2, <3>1
    <3>2. CASE j # 1
      <4>1. j - 1 \in 1..(T - 1) /\ (j - 1) + 1 = j /\ j - 1 \in 1..T
        BY <1>0, <3>2
      <4>2. c[j - 1] < c[(j - 1) + 1]
        BY <4>1 DEF IsCombination
      <4>3. e[j - 1] = c[j - 1] + 1 /\ e[j] = c[j] + 1
        BY <4>1
      <4>4. c[j - 1] \in Nat /\ c[j] \in Nat
        BY <1>2, <4>1
      <4>5. from(j) = e[j - 1] /\ left(j - 1) = N - e[j - 1]
        BY <3>2, <4>1
      <4> HIDE DEF from, left, e
      <4> QED BY <4>1, <4>2, <4>3, <4>4, <4>5
    <3> QED BY <3>1, <3>2
  <2>2. e[j] \in Nat /\ e[j] <= N /\ left(j) + 1 = N - e[j] + 1
    BY <1>0, <1>2
  <2> HIDE DEF e, from, left
  <2>3. Skipped(N, T, e, j, from(j)) = Ways(N - from(j), T - j + 1) - Ways(N - e[j] + 1, T - j + 1)
    BY <1>0, <2>1, <2>2, SkippedIs
  <2> QED BY <2>1, <2>2, <2>3
<1>5. ASSUME NEW j \in 1..T
      PROVE  Ways(left(j) + 1, T - j + 1) = After(c, N, T, j) + Ways(left(j), T - j)
  <2>1. left(j) \in Nat /\ T - j \in Nat /\ left(j) = N - 1 - c[j]
    BY <1>0, <1>2, <1>3
  <2> HIDE DEF left
  <2> QED BY <2>1, Choosing DEF After
<1>6. \A j \in 0..T : s[j] \in Nat /\ Ways(left(j), T - j) \in Nat /\ Ways(N, T) \in Nat
  <2> TAKE j \in 0..T
  <2>1. left(j) \in Nat /\ T - j \in Nat
    BY <1>0, <1>3
  <2> HIDE DEF left
  <2> QED BY <1>0, <2>1, Choosing DEF IsSumAfter
<1>7. sums = loop(sums)
  <2>1. ASSUME NEW j \in 0..T PROVE sums[j] = loop(sums)[j]
    <3>1. CASE j = 0
      <4>1. left(0) = N /\ T - 0 = T /\ s[0] = 0
        BY <1>0 DEF IsSumAfter
      <4>2. sums[0] = 1 + Ways(N, T) - Ways(left(0), T - 0) - s[0]
        BY <1>0
      <4>3. loop(sums)[0] = 1
        BY <1>0
      <4>4. Ways(N, T) \in Nat
        BY <1>0, Choosing
      <4> HIDE DEF sums, loop, left
      <4> QED BY <3>1, <4>1, <4>2, <4>3, <4>4
    <3>2. CASE j # 0
      <4>1. j \in 1..T /\ j - 1 \in 0..T /\ T - (j - 1) = T - j + 1
        BY <1>0, <3>2
      <4>2. loop(sums)[j] = sums[j - 1] + Skipped(N, T, e, j, from(j))
        BY <3>2
      <4>3. sums[j - 1] = 1 + Ways(N, T) - Ways(left(j - 1), T - (j - 1)) - s[j - 1]
        BY <4>1
      <4>4. sums[j] = 1 + Ways(N, T) - Ways(left(j), T - j) - s[j]
        OBVIOUS
      <4>5. s[j] = s[j - 1] + After(c, N, T, j) /\ After(c, N, T, j) \in Nat
        BY <4>1, AfterIsNat DEF IsSumAfter
      <4>6. Skipped(N, T, e, j, from(j)) = Ways(left(j - 1), T - j + 1) - Ways(left(j) + 1, T - j + 1)
        BY <1>4, <4>1
      <4>7. Ways(left(j) + 1, T - j + 1) = After(c, N, T, j) + Ways(left(j), T - j)
        BY <1>5, <4>1
      <4>8. /\ s[j] \in Nat /\ Ways(left(j), T - j) \in Nat /\ Ways(N, T) \in Nat
            /\ s[j - 1] \in Nat /\ Ways(left(j - 1), T - (j - 1)) \in Nat
        BY <1>6, <4>1
      <4> HIDE DEF sums, loop, left, from, e
      <4>9. Ways(left(j - 1), T - j + 1) \in Nat
        BY <4>1, <4>8
      <4>10. sums[j - 1] = 1 + Ways(N, T) - Ways(left(j - 1), T - j + 1) - s[j - 1]
        BY <4>1, <4>3
      <4> QED BY <4>2, <4>4, <4>5, <4>6, <4>7, <4>8, <4>9, <4>10
    <3> QED BY <3>1, <3>2
  <2> QED BY <2>1
<1>8. res = loop(res)
  <2> HIDE DEF loop, sums
  <2> QED BY <1>7
<1>9. \A j \in 0..T : res[j] = sums[j]
  <2> HIDE DEF res, sums, from, e
  <2>1. res[0] = sums[0]
    BY <1>0, <1>7, <1>8
  <2>2. \A j \in 1..T : res[j - 1] = sums[j - 1] => res[j] = sums[j]
    <3> TAKE j \in 1..T
    <3>1. j \in 0..T
      OBVIOUS
    <3> QED BY <1>7, <1>8, <3>1
  <2> HIDE DEF loop
  <2> QED BY <1>0, <2>1, <2>2, Alike
<1>10. sums[T] = Ways(N, T) - s[T]
  <2>1. T \in 0..T /\ T - T = 0
    BY <1>0
  <2>2. sums[T] = 1 + Ways(N, T) - Ways(left(T), T - T) - s[T]
    BY <2>1
  <2>3. left(T) \in Nat /\ s[T] \in Nat /\ Ways(N, T) \in Nat
    BY <1>3, <1>6, <2>1
  <2> HIDE DEF sums, left
  <2>4. Ways(left(T), 0) = 1
    BY <2>3, Choosing
  <2> QED BY <2>1, <2>2, <2>3, <2>4
<1>11. T \in 0..T
  BY <1>0
<1> HIDE DEF res, sums
<1> QED BY <1>1, <1>9, <1>10, <1>11

\* The first combination has rank 1.
LEMMA RankOfFirst ==
  ASSUME NEW N, NEW T, IsKey(N, T)
  PROVE  Rank(FirstCombination(T), N, T) = 1
<1> DEFINE c == FirstCombination(T)
<1>0. N \in Nat /\ T \in Nat /\ T > 0 /\ T <= N /\ IsCombination(c, N, T)
  BY FirstIsCombination DEF IsKey
<1>1. \A j \in 1..T : c[j] = j - 1
  BY DEF FirstCombination
<1> HIDE DEF c
<1>2. PICK s : IsSumAfter(s, c, N, T)
  BY <1>0, SumAfterExists
<1>3. s \in [0..T -> Nat]
  BY <1>2 DEF IsSumAfter
<1> DEFINE h == [j \in 0..T |-> Ways(N, T) - Ways(N - j, T - j)]
<1>4. \A j \in 0..T : s[j] = h[j]
  <2>1. s[0] = h[0]
    <3>1. h[0] = Ways(N, T) - Ways(N - 0, T - 0) /\ Ways(N, T) \in Nat /\ N - 0 = N /\ T - 0 = T
      BY <1>0, Choosing
    <3> HIDE DEF h
    <3> QED BY <1>2, <3>1 DEF IsSumAfter
  <2>2. \A j \in 1..T : s[j - 1] = h[j - 1] => s[j] = h[j]
    <3> TAKE j \in 1..T
    <3>1. j - 1 \in 0..T /\ N - (j - 1) = N - j + 1 /\ T - (j - 1) = T - j + 1
          /\ N - j \in Nat /\ T - j \in Nat /\ N - 1 - c[j] = N - j
      BY <1>0, <1>1
    <3>2. s[j] = s[j - 1] + Ways(N - j, T - j + 1)
      BY <1>2, <3>1 DEF IsSumAfter, After
    <3>3. Ways(N - j + 1, T - j + 1) = Ways(N - j, T - j + 1) + Ways(N - j, T - j)
      BY <3>1, Choosing
    <3>4. /\ Ways(N - j, T - j + 1) \in Nat /\ Ways(N - j, T - j) \in Nat /\ Ways(N, T) \in Nat
      <4>1. T - j + 1 \in Nat
        BY <3>1
      <4> QED BY <1>0, <3>1, <4>1, Choosing
    <3>5. h[j - 1] = Ways(N, T) - Ways(N - j + 1, T - j + 1) /\ h[j] = Ways(N, T) - Ways(N - j, T - j)
      BY <3>1
    <3> HIDE DEF h
    <3> QED BY <3>2, <3>3, <3>4, <3>5
  <2> HIDE DEF h
  <2> QED BY <1>0, <2>1, <2>2, Alike
<1>5. h[T] = Ways(N, T) - 1 /\ Ways(N, T) \in Nat
  <2>1. T \in 0..T /\ T - T = 0 /\ N - T \in Nat
    BY <1>0
  <2>2. Ways(N - T, T - T) = 1
    BY <2>1, Choosing
  <2> QED BY <1>0, <2>1, <2>2, Choosing
<1>6. Rank(c, N, T) = Ways(N, T) - s[T]
  BY <1>0, <1>2, RankIs
<1>7. s[T] = h[T]
  BY <1>0, <1>4
<1> HIDE DEF h
<1>8. Rank(c, N, T) = 1
  BY <1>5, <1>6, <1>7
<1> QED BY <1>8 DEF c

\* No rank is above the number of combinations; the last one has that rank.
\* No rank exceeds the number of combinations, and where no place can move the
\* rank is that number.
LEMMA RankAtMost ==
  ASSUME NEW N, NEW T, IsKey(N, T), NEW c, IsCombination(c, N, T)
  PROVE  /\ Rank(c, N, T) \in Int
         /\ Rank(c, N, T) <= Ways(N, T)
         /\ Movable(c, N, T) = {} => Rank(c, N, T) = Ways(N, T)
<1>0. N \in Nat /\ T \in Nat /\ T > 0 /\ T <= N /\ Ways(N, T) \in Nat
  BY Choosing DEF IsKey
<1>1. PICK s : IsSumAfter(s, c, N, T)
  BY SumAfterExists
<1>2. s \in [0..T -> Nat] /\ s[T] \in Nat
  BY <1>0, <1>1 DEF IsSumAfter
<1>3. Rank(c, N, T) = Ways(N, T) - s[T]
  BY <1>1, RankIs
<1>4. ASSUME Movable(c, N, T) = {} PROVE s[T] = 0
  <2> DEFINE h == [j \in 0..T |-> 0]
  <2>1. s[0] = h[0]
    BY <1>0, <1>1 DEF IsSumAfter
  <2>2. \A j \in 1..T : s[j - 1] = h[j - 1] => s[j] = h[j]
    <3> TAKE j \in 1..T
    <3>1. c[j] = N - T + j - 1
      BY <1>4, LastIs
    <3>2. N - 1 - c[j] = T - j /\ T - j \in Nat /\ T - j + 1 \in Nat /\ T - j + 1 > T - j
      BY <1>0, <3>1
    <3>3. Ways(T - j, T - j + 1) = 0
      BY <3>2, ChoosingAll
    <3>4. s[j] = s[j - 1] + Ways(T - j, T - j + 1)
      BY <1>1, <3>2 DEF IsSumAfter, After
    <3>5. h[j - 1] = 0 /\ h[j] = 0
      BY <1>0
    <3> HIDE DEF h
    <3> QED BY <3>3, <3>4, <3>5
  <2> HIDE DEF h
  <2>3. \A j \in 0..T : s[j] = h[j]
    BY <1>0, <2>1, <2>2, Alike
  <2> QED BY <1>0, <2>3 DEF h
<1> QED BY <1>0, <1>2, <1>3, <1>4

\* The combination after c has the rank after its rank.
\* The next combination has the next rank.
LEMMA RankOfNext ==
  ASSUME NEW N, NEW T, IsKey(N, T), NEW c, IsCombination(c, N, T), Movable(c, N, T) # {}
  PROVE  Rank(NextCombination(c, N, T), N, T) = Rank(c, N, T) + 1
<1> DEFINE l == Max(Movable(c, N, T))
           d == NextCombination(c, N, T)
<1>0. N \in Nat /\ T \in Nat /\ T > 0 /\ T <= N /\ Ways(N, T) \in Nat
  BY Choosing DEF IsKey
<1>1. /\ l \in 1..T /\ c[l] < N - T + l - 1
      /\ \A j \in 1..T : j > l => c[j] = N - T + j - 1
      /\ \A j \in 1..T : j < l => d[j] = c[j]
      /\ \A j \in 1..T : j >= l => d[j] = c[l] + 1 + j - l
      /\ IsCombination(d, N, T)
  <2>1. /\ l \in 1..T /\ c[l] < N - T + l - 1
        /\ \A j \in 1..T : j > l => c[j] = N - T + j - 1
        /\ d = [j \in 1..T |-> IF j < l THEN c[j] ELSE c[l] + 1 + j - l]
        /\ IsCombination(d, N, T)
    BY NextIs
  <2> HIDE DEF d, l
  <2>2. \A j \in 1..T : j < l => d[j] = c[j]
    BY <2>1
  <2>3. \A j \in 1..T : j >= l => d[j] = c[l] + 1 + j - l
    BY <1>0, <2>1
  <2> QED BY <2>1, <2>2, <2>3
<1> HIDE DEF l, d
<1>2. PICK s : IsSumAfter(s, c, N, T)
  BY SumAfterExists
<1>3. PICK r : IsSumAfter(r, d, N, T)
  BY <1>1, SumAfterExists
<1>4. /\ s \in [0..T -> Nat] /\ s[0] = 0 /\ r \in [0..T -> Nat] /\ r[0] = 0
      /\ \A j \in 1..T : s[j] = s[j - 1] + After(c, N, T, j)
      /\ \A j \in 1..T : r[j] = r[j - 1] + After(d, N, T, j)
  BY <1>2, <1>3 DEF IsSumAfter
\* The places before the one that moves say the same.
<1>5. \A j \in 0..(l - 1) : r[j] = s[j]
  <2> DEFINE p == l - 1
  <2>1. \A j \in 1..p : r[j - 1] = s[j - 1] => r[j] = s[j]
    <3> TAKE j \in 1..p
    <3>1. j \in 1..T /\ j < l
      BY <1>0, <1>1
    <3>2. After(c, N, T, j) = After(d, N, T, j)
      BY <1>1, <3>1 DEF After
    <3> QED BY <1>4, <3>1, <3>2
  <2>2. p \in Nat
    BY <1>1
  <2>3. r[0] = s[0]
    BY <1>4
  <2> HIDE DEF p
  <2>4. \A j \in 0..p : r[j] = s[j]
    BY <2>1, <2>2, <2>3, Alike
  <2> QED BY <2>4 DEF p
<1> DEFINE m == N - 1 - c[l]
           q == T - l
<1>6. m \in Nat /\ q \in Nat /\ m - 1 - q \in Nat /\ c[l] \in Nat
  <2>1. c[l] \in Nat
    BY <1>1 DEF IsCombination
  <2> QED BY <1>0, <1>1, <2>1
\* After it, c has no more to count.
<1>7. s[T] = s[l - 1] + Ways(m, q + 1)
  <2> DEFINE f == [x \in 0..q |-> s[l + x]]
             h == [x \in 0..q |-> s[l - 1] + Ways(m, q + 1)]
  <2>1. f[0] = h[0]
    <3>1. f[0] = s[l] /\ h[0] = s[l - 1] + Ways(m, q + 1)
      BY <1>1, <1>6
    <3>2. s[l] = s[l - 1] + Ways(m, q + 1)
      <4>1. T - l + 1 = q + 1
        OBVIOUS
      <4> QED BY <1>1, <1>4, <4>1 DEF After
    <3> QED BY <3>1, <3>2
  <2>2. \A x \in 1..q : f[x - 1] = h[x - 1] => f[x] = h[x]
    <3> TAKE x \in 1..q
    <3> DEFINE j == l + x
    <3>1. j \in 1..T /\ j > l /\ x - 1 \in 0..q /\ l + (x - 1) = j - 1 /\ x \in 0..q
      BY <1>0, <1>1
    <3>2. c[j] = N - T + j - 1
      BY <1>1, <3>1
    <3>3. N - 1 - c[j] = T - j /\ T - j \in Nat /\ T - j + 1 \in Nat /\ T - j + 1 > T - j
      BY <1>0, <3>1, <3>2
    <3>4. Ways(T - j, T - j + 1) = 0
      BY <3>3, ChoosingAll
    <3>5. s[j] = s[j - 1] + Ways(T - j, T - j + 1)
      BY <1>4, <3>1, <3>3 DEF After
    <3>6. f[x] = s[j] /\ f[x - 1] = s[j - 1] /\ h[x] = h[x - 1]
      BY <3>1
    <3>7. s[j - 1] \in Nat
      <4>1. j - 1 \in 0..T
        BY <1>0, <1>1, <3>1
      <4> QED BY <1>4, <4>1
    <3> HIDE DEF f, h, j
    <3> QED BY <3>4, <3>5, <3>6, <3>7
  <2> HIDE DEF f, h
  <2>3. \A x \in 0..q : f[x] = h[x]
    <3>1. q \in Nat
      BY <1>6
    <3> HIDE DEF q, m
    <3> QED BY <2>1, <2>2, <3>1, Alike
  <2> USE DEF f, h
  <2>4. q \in 0..q /\ l + q = T
    BY <1>0, <1>1, <1>6
  <2>5. f[q] = h[q]
    BY <2>3, <2>4
  <2> QED BY <2>4, <2>5
\* d counts one fewer.
<1>8. r[T] = s[l - 1] + Ways(m, q + 1) - 1
  <2> DEFINE f == [x \in 0..(q + 1) |-> r[(l - 1) + x]]
             h == [x \in 0..(q + 1) |->
                     IF x = 0 THEN s[l - 1]
                     ELSE s[l - 1] + Ways(m, q + 1) - Ways(m - x, q + 1 - x)]
  <2>1. f[0] = h[0]
    <3>1. f[0] = r[l - 1] /\ h[0] = s[l - 1] /\ l - 1 \in 0..(l - 1)
      BY <1>1, <1>6
    <3> QED BY <1>5, <3>1
  <2>2. \A x \in 1..(q + 1) : f[x - 1] = h[x - 1] => f[x] = h[x]
    <3> TAKE x \in 1..(q + 1)
    <3> DEFINE j == (l - 1) + x
    <3>1. j \in 1..T /\ j >= l /\ x - 1 \in 0..(q + 1) /\ (l - 1) + (x - 1) = j - 1
          /\ x \in 0..(q + 1) /\ x # 0 /\ l - 1 \in 0..T /\ j - 1 \in 0..T
      BY <1>0, <1>1
    <3>2. d[j] = c[l] + x
      BY <1>1, <1>6, <3>1
    <3>3. /\ N - 1 - d[j] = m - x /\ m - x \in Nat
          /\ T - j + 1 = q + 1 - x + 1 /\ q + 1 - x \in Nat
      BY <1>0, <1>1, <1>6, <3>1, <3>2
    <3>4. r[j] = r[j - 1] + Ways(m - x, q + 1 - x + 1)
      BY <1>4, <3>1, <3>3 DEF After
    <3>5. /\ Ways(m - x + 1, q + 1 - x + 1) = Ways(m - x, q + 1 - x + 1) + Ways(m - x, q + 1 - x)
          /\ Ways(m - x, q + 1 - x + 1) \in Nat /\ Ways(m - x, q + 1 - x) \in Nat
      <4>1. q + 1 - x + 1 \in Nat
        BY <3>3
      <4> HIDE DEF m, q
      <4> QED BY <3>3, <4>1, Choosing
    <3>6. Ways(m, q + 1) \in Nat /\ s[l - 1] \in Nat
      <4>1. q + 1 \in Nat
        BY <1>6
      <4> HIDE DEF m, q
      <4> QED BY <1>4, <1>6, <3>1, <4>1, Choosing
    <3>7. /\ f[x] = r[j] /\ f[x - 1] = r[j - 1]
          /\ h[x] = s[l - 1] + Ways(m, q + 1) - Ways(m - x, q + 1 - x)
      BY <3>1
    <3>8. f[x - 1] = h[x - 1] => r[j - 1] = s[l - 1] + Ways(m, q + 1) - Ways(m - x + 1, q + 1 - x + 1)
      <4>1. CASE x = 1
        <5>1. h[x - 1] = s[l - 1] /\ m - x + 1 = m /\ q + 1 - x + 1 = q + 1
          BY <1>6, <3>1, <4>1
        <5> HIDE DEF f, h, m, q
        <5> QED BY <3>6, <3>7, <5>1
      <4>2. CASE x # 1
        <5>1. m - (x - 1) = m - x + 1 /\ q + 1 - (x - 1) = q + 1 - x + 1 /\ x - 1 # 0
          BY <1>6, <3>1, <4>2
        <5>2. h[x - 1] = s[l - 1] + Ways(m, q + 1) - Ways(m - (x - 1), q + 1 - (x - 1))
          BY <3>1, <5>1
        <5> HIDE DEF f, h, m, q
        <5> QED BY <3>7, <5>1, <5>2
      <4> QED BY <4>1, <4>2
    <3> HIDE DEF f, h, j, m, q
    <3> QED BY <3>4, <3>5, <3>6, <3>7, <3>8
  <2> HIDE DEF f, h
  <2>3. \A x \in 0..(q + 1) : f[x] = h[x]
    <3>1. q + 1 \in Nat
      BY <1>6
    <3> HIDE DEF q
    <3> QED BY <2>1, <2>2, <3>1, Alike
  <2>4. q + 1 \in 0..(q + 1) /\ (l - 1) + (q + 1) = T /\ q + 1 # 0 /\ q + 1 - (q + 1) = 0
        /\ m - (q + 1) \in Nat
    BY <1>0, <1>1, <1>6
  <2>5. f[q + 1] = r[T]
    BY <2>4 DEF f
  <2>6. h[q + 1] = s[l - 1] + Ways(m, q + 1) - Ways(m - (q + 1), q + 1 - (q + 1))
    BY <2>4 DEF h
  <2>7. Ways(m - (q + 1), q + 1 - (q + 1)) = 1
    <3> HIDE DEF m, q
    <3> QED BY <2>4, Choosing
  <2> QED BY <2>3, <2>4, <2>5, <2>6, <2>7
<1>9. s[l - 1] \in Nat /\ Ways(m, q + 1) \in Nat
  <2>1. q + 1 \in Nat /\ l - 1 \in 0..T
    BY <1>0, <1>1, <1>6
  <2> HIDE DEF m, q
  <2> QED BY <1>4, <1>6, <2>1, Choosing
<1>10. Rank(c, N, T) = Ways(N, T) - s[T] /\ Rank(d, N, T) = Ways(N, T) - r[T]
  BY <1>1, <1>2, <1>3, RankIs
<1> HIDE DEF m, q
<1>11. Rank(d, N, T) = Rank(c, N, T) + 1
  BY <1>0, <1>7, <1>8, <1>9, <1>10
<1> QED BY <1>11 DEF d

-----------------------------------------------------------------------------
(* The order of the combinations and their enumeration.                    *)

\* c comes before d in lexicographic order.
Earlier(c, d, T) ==
  \E j \in 1..T : c[j] < d[j] /\ \A k \in 1..(j - 1) : c[k] = d[k]

\* Of two combinations one is earlier.
LEMMA OneIsEarlier ==
  ASSUME NEW N, NEW T, IsKey(N, T), NEW c, IsCombination(c, N, T),
         NEW d, IsCombination(d, N, T), c # d
  PROVE  Earlier(c, d, T) \/ Earlier(d, c, T)
<1> DEFINE S == {j \in 1..T : c[j] # d[j]}
<1>1. S # {}
  <2> SUFFICES ASSUME S = {} PROVE FALSE
    OBVIOUS
  <2>1. \A j \in 1..T : c[j] = d[j]
    OBVIOUS
  <2>2. c \in [1..T -> 0..(N - 1)] /\ d \in [1..T -> 0..(N - 1)]
    BY DEF IsCombination
  <2>3. c = d
    <3> DEFINE A == 1..T
    <3>1. \A j \in A : c[j] = d[j]
      BY <2>1
    <3>2. c = [j \in A |-> c[j]] /\ d = [j \in A |-> d[j]]
      BY <2>2
    <3> HIDE DEF A
    <3>3. [j \in A |-> c[j]] = [j \in A |-> d[j]]
      BY <3>1, Zenon
    <3> QED BY <3>2, <3>3
  <2> QED BY <2>3
<1>2. S \in SUBSET Nat
  OBVIOUS
<1> HIDE DEF S
<1>3. PICK j \in S : \A k \in S : j <= k
  BY <1>1, <1>2, Least
<1>4. j \in 1..T /\ c[j] # d[j] /\ c[j] \in Int /\ d[j] \in Int
  BY <1>3 DEF S, IsCombination
<1>5. \A k \in 1..(j - 1) : c[k] = d[k]
  <2> TAKE k \in 1..(j - 1)
  <2>1. k \in 1..T /\ ~ (j <= k)
    BY <1>4 DEF IsKey
  <2>2. k \notin S
    BY <1>3, <2>1
  <2> QED BY <2>1, <2>2 DEF S
<1>6. c[j] < d[j] \/ d[j] < c[j]
  BY <1>4
<1>7. CASE c[j] < d[j]
  BY <1>4, <1>5, <1>7 DEF Earlier
<1>8. CASE d[j] < c[j]
  BY <1>4, <1>5, <1>8 DEF Earlier
<1> QED BY <1>6, <1>7, <1>8

\* No fewer ways to choose from more.
\* There are more ways to choose from more.
LEMMA WaysGrow ==
  ASSUME NEW m \in Nat, NEW l \in Nat, m <= l, NEW k \in Nat
  PROVE  Ways(m, k) <= Ways(l, k)
<1> DEFINE U == {x \in Nat : Ways(m, k) <= Ways(m + x, k)}
<1>1. 0 \in U
  BY Choosing
<1>2. ASSUME NEW x \in Nat, x \in U PROVE x + 1 \in U
  <2> DEFINE y == m + x
  <2>1. y \in Nat /\ m + (x + 1) = y + 1 /\ Ways(m, k) <= Ways(y, k)
    BY <1>2
  <2> HIDE DEF y
  <2>2. Ways(y, k) <= Ways(y + 1, k)
    <3>1. CASE k = 0
      BY <2>1, <3>1, Choosing
    <3>2. CASE k # 0
      <4>1. k - 1 \in Nat /\ k = (k - 1) + 1
        BY <3>2
      <4>2. Ways(y + 1, (k - 1) + 1) = Ways(y, (k - 1) + 1) + Ways(y, k - 1)
        BY <2>1, <4>1, Choosing
      <4>3. Ways(y, k) \in Nat /\ Ways(y, k - 1) \in Nat
        BY <2>1, <4>1, Choosing
      <4> QED BY <4>1, <4>2, <4>3
    <3> QED BY <3>1, <3>2
  <2>3. Ways(m, k) \in Nat /\ Ways(y, k) \in Nat /\ Ways(y + 1, k) \in Nat
    BY <2>1, Choosing
  <2> QED BY <2>1, <2>2, <2>3
<1> HIDE DEF U
<1>3. Nat \subseteq U
  BY <1>1, <1>2, SetInduction
<1>4. l - m \in U /\ m + (l - m) = l
  BY <1>3
<1> QED BY <1>4 DEF U

\* The rank grows with the order.
\* The later of two combinations has the higher rank.
LEMMA RankGrows ==
  ASSUME NEW N, NEW T, IsKey(N, T), NEW c, IsCombination(c, N, T),
         NEW d, IsCombination(d, N, T), Earlier(c, d, T)
  PROVE  Rank(c, N, T) < Rank(d, N, T)
<1>0. N \in Nat /\ T \in Nat /\ T > 0 /\ T <= N /\ Ways(N, T) \in Nat
  BY Choosing DEF IsKey
<1>1. PICK l \in 1..T : c[l] < d[l] /\ \A k \in 1..(l - 1) : c[k] = d[k]
  BY DEF Earlier
<1>2. PICK s : IsSumAfter(s, c, N, T)
  BY SumAfterExists
<1>3. PICK r : IsSumAfter(r, d, N, T)
  BY SumAfterExists
<1>4. /\ s \in [0..T -> Nat] /\ s[0] = 0 /\ r \in [0..T -> Nat] /\ r[0] = 0
      /\ \A j \in 1..T : s[j] = s[j - 1] + After(c, N, T, j)
      /\ \A j \in 1..T : r[j] = r[j - 1] + After(d, N, T, j)
  BY <1>2, <1>3 DEF IsSumAfter
<1>5. r[l - 1] = s[l - 1] /\ s[l - 1] \in Nat
  <2> DEFINE p == l - 1
  <2>1. \A j \in 1..p : r[j - 1] = s[j - 1] => r[j] = s[j]
    <3> TAKE j \in 1..p
    <3>1. j \in 1..T /\ j < l
      BY <1>0, <1>1
    <3>2. After(c, N, T, j) = After(d, N, T, j)
      BY <1>1, <3>1 DEF After
    <3> QED BY <1>4, <3>1, <3>2
  <2>2. p \in Nat /\ p \in 0..T
    BY <1>0, <1>1
  <2>3. r[0] = s[0]
    BY <1>4
  <2> HIDE DEF p
  <2>4. \A j \in 0..p : r[j] = s[j]
    BY <2>1, <2>2, <2>3, Alike
  <2>5. r[p] = s[p] /\ s[p] \in Nat
    BY <1>4, <2>2, <2>4
  <2> QED BY <2>5 DEF p
\* What comes after c at this place and later is at least this much ...
<1>6. s[T] >= s[l]
  <2> DEFINE U == {x \in Nat : l + x <= T => s[l + x] >= s[l]}
  <2>0. s[l] \in Nat
    BY <1>0, <1>4
  <2>1. 0 \in U
    BY <2>0
  <2>2. ASSUME NEW x \in Nat, x \in U PROVE x + 1 \in U
    <3> SUFFICES ASSUME l + (x + 1) <= T PROVE s[l + (x + 1)] >= s[l]
      OBVIOUS
    <3> DEFINE j == l + (x + 1)
    <3>1. j \in 1..T /\ j - 1 = l + x /\ l + x <= T /\ l + x \in 0..T
      BY <1>0
    <3>2. s[j] = s[j - 1] + After(c, N, T, j) /\ After(c, N, T, j) \in Nat
      BY <1>4, <3>1, AfterIsNat
    <3>3. s[l + x] >= s[l] /\ s[l + x] \in Nat
      BY <1>4, <2>2, <3>1
    <3> HIDE DEF j
    <3>4. s[j] >= s[l]
      BY <2>0, <3>1, <3>2, <3>3
    <3> QED BY <3>4 DEF j
  <2> HIDE DEF U
  <2>3. Nat \subseteq U
    BY <2>1, <2>2, SetInduction
  <2>4. T - l \in U /\ l + (T - l) = T
    BY <1>0, <2>3
  <2> QED BY <2>4 DEF U
\* ... and what comes after d is less.
<1>7. \A j \in 1..T : r[j] \in Nat /\ Ways(N - 1 - d[j], T - j) \in Nat
  <2> TAKE j \in 1..T
  <2>1. N - 1 - d[j] \in Nat /\ T - j \in Nat /\ j \in 0..T
    BY <1>0 DEF IsCombination
  <2> QED BY <1>4, <2>1, Choosing
<1>8. r[T] + 1 <= r[l] + Ways(N - 1 - d[l], T - l)
  <2> DEFINE g(j) == r[j] + Ways(N - 1 - d[j], T - j)
             U == {x \in Nat : l + x <= T => g(l + x) <= g(l)}
  <2>0. \A j \in 1..T : g(j) \in Nat
    BY <1>7
  <2>1. 0 \in U
    <3>1. g(l) \in Nat
      BY <2>0
    <3> HIDE DEF g
    <3> QED BY <3>1
  <2>2. ASSUME NEW x \in Nat, x \in U PROVE x + 1 \in U
    <3> SUFFICES ASSUME l + (x + 1) <= T PROVE g(l + (x + 1)) <= g(l)
      OBVIOUS
    <3> DEFINE j == l + x
               a == N - 1 - d[j + 1]
               b == N - 1 - d[j]
               q == T - (j + 1)
    <3>1. j \in 1..(T - 1) /\ j \in 1..T /\ j + 1 \in 1..T /\ l + (x + 1) = j + 1
          /\ (j + 1) - 1 = j /\ j <= T
      BY <1>0
    <3>2. d[j] < d[j + 1] /\ d[j] \in Nat /\ d[j + 1] \in Nat
      BY <3>1 DEF IsCombination
    <3>3. a \in Nat /\ b \in Nat /\ a + 1 <= b /\ q \in Nat /\ T - (j + 1) + 1 = q + 1 /\ T - j = q + 1
      <4>1. d[j] <= N - 1 /\ d[j + 1] <= N - 1
        BY <3>1 DEF IsCombination
      <4> QED BY <1>0, <3>1, <3>2, <4>1
    <3>4. r[j + 1] = r[j] + Ways(a, q + 1)
      BY <1>4, <3>1, <3>3 DEF After
    <3>5. g(j + 1) = r[j + 1] + Ways(a, q) /\ g(j) = r[j] + Ways(b, q + 1)
      BY <3>3
    <3>6. r[j] \in Nat
      BY <1>7, <3>1
    <3>7. g(j) <= g(l) /\ g(j) \in Nat /\ g(l) \in Nat
      BY <2>0, <2>2, <3>1
    <3> HIDE DEF a, b, q, g
    <3>8. Ways(a + 1, q + 1) = Ways(a, q + 1) + Ways(a, q)
      BY <3>3, Choosing
    <3>9. Ways(a + 1, q + 1) <= Ways(b, q + 1)
      <4>1. a + 1 \in Nat /\ q + 1 \in Nat
        BY <3>3
      <4> QED BY <3>3, <4>1, WaysGrow
    <3>10. Ways(a, q + 1) \in Nat /\ Ways(a, q) \in Nat /\ Ways(b, q + 1) \in Nat
      <4>1. q + 1 \in Nat
        BY <3>3
      <4> QED BY <3>3, <4>1, Choosing
    <3> HIDE DEF j
    <3>11. g(j + 1) <= g(l)
      BY <3>4, <3>5, <3>6, <3>7, <3>8, <3>9, <3>10
    <3> QED BY <3>1, <3>11
  <2> HIDE DEF U
  <2>3. Nat \subseteq U
    BY <2>1, <2>2, SetInduction
  <2>4. T - l \in U /\ l + (T - l) = T
    BY <1>0, <2>3
  <2> USE DEF U
  <2>5. g(T) <= g(l)
    <3> HIDE DEF g
    <3> QED BY <2>4
  <2>6. g(T) = r[T] + 1
    <3>1. T \in 1..T /\ T - T = 0 /\ N - 1 - d[T] \in Nat
      BY <1>0 DEF IsCombination
    <3>2. Ways(N - 1 - d[T], 0) = 1
      BY <3>1, Choosing
    <3> QED BY <3>1, <3>2
  <2> QED BY <2>5, <2>6
<1>9. r[l] + Ways(N - 1 - d[l], T - l) <= s[l]
  <2> DEFINE a == N - 1 - d[l]
             b == N - 1 - c[l]
             q == T - l
  <2>1. c[l] \in Nat /\ d[l] \in Nat /\ c[l] <= N - 1 /\ d[l] <= N - 1
    BY <1>0 DEF IsCombination
  <2>2. a \in Nat /\ b \in Nat /\ a + 1 <= b /\ q \in Nat /\ T - l + 1 = q + 1
    BY <1>0, <1>1, <2>1
  <2>3. r[l] = r[l - 1] + Ways(a, q + 1) /\ s[l] = s[l - 1] + Ways(b, q + 1)
    BY <1>4, <2>2 DEF After
  <2>4. Ways(N - 1 - d[l], T - l) = Ways(a, q)
    OBVIOUS
  <2> HIDE DEF a, b, q
  <2>5. Ways(a + 1, q + 1) = Ways(a, q + 1) + Ways(a, q)
    BY <2>2, Choosing
  <2>6. a + 1 \in Nat /\ q + 1 \in Nat
    BY <2>2
  <2>7. Ways(a + 1, q + 1) <= Ways(b, q + 1)
    BY <2>2, <2>6, WaysGrow
  <2>8. Ways(a, q + 1) \in Nat /\ Ways(a, q) \in Nat /\ Ways(b, q + 1) \in Nat
    BY <2>2, <2>6, Choosing
  <2> QED BY <1>5, <2>3, <2>4, <2>5, <2>7, <2>8
<1>10. Rank(c, N, T) = Ways(N, T) - s[T] /\ Rank(d, N, T) = Ways(N, T) - r[T]
  BY <1>2, <1>3, RankIs
<1>11. s[T] \in Nat /\ r[T] \in Nat /\ s[l] \in Nat /\ r[l] \in Nat
       /\ Ways(N - 1 - d[l], T - l) \in Nat
  BY <1>0, <1>4, <1>7
<1> QED BY <1>0, <1>6, <1>8, <1>9, <1>10, <1>11

\* A rank belongs to one combination.
LEMMA RankIsUnique ==
  ASSUME NEW N, NEW T, IsKey(N, T), NEW c, IsCombination(c, N, T),
         NEW d, IsCombination(d, N, T), Rank(c, N, T) = Rank(d, N, T)
  PROVE  c = d
<1>1. Rank(c, N, T) \in Int /\ Rank(d, N, T) \in Int
  BY RankAtMost
<1>2. ~ Earlier(c, d, T) /\ ~ Earlier(d, c, T)
  <2>1. ASSUME Earlier(c, d, T) PROVE FALSE
    <3>1. Rank(c, N, T) < Rank(d, N, T)
      BY <2>1, RankGrows
    <3> QED BY <1>1, <3>1
  <2>2. ASSUME Earlier(d, c, T) PROVE FALSE
    <3>1. Rank(d, N, T) < Rank(c, N, T)
      BY <2>2, RankGrows
    <3> QED BY <1>1, <3>1
  <2> QED BY <2>1, <2>2
<1> QED BY <1>2, OneIsEarlier

\* Ranks start at 1.
LEMMA RankAtLeast ==
  ASSUME NEW N, NEW T, IsKey(N, T), NEW c, IsCombination(c, N, T)
  PROVE  Rank(c, N, T) >= 1
<1> DEFINE f == FirstCombination(T)
<1>0. IsCombination(f, N, T) /\ Rank(f, N, T) = 1 /\ Rank(c, N, T) \in Int
  BY FirstIsCombination, RankOfFirst, RankAtMost
<1>1. \A j \in 1..T : f[j] = j - 1
  BY DEF FirstCombination
<1>2. ~ Earlier(c, f, T)
  <2>1. ASSUME NEW j \in 1..T, c[j] < f[j] PROVE FALSE
    <3>1. c[j] < j - 1 /\ j - 1 <= c[j] /\ c[j] \in Nat
      BY <1>1, <2>1, Spread
    <3> QED BY <3>1
  <2> QED BY <2>1 DEF Earlier
<1> HIDE DEF f
<1>3. CASE c = f
  BY <1>0, <1>3
<1>4. CASE c # f
  <2>1. Earlier(f, c, T)
    BY <1>0, <1>2, <1>4, OneIsEarlier
  <2>2. Rank(f, N, T) < Rank(c, N, T)
    BY <1>0, <2>1, RankGrows
  <2> QED BY <1>0, <2>2
<1> QED BY <1>3, <1>4

Combs(N, T) == {c \in [1..T -> 0..(N - 1)] : IsCombination(c, N, T)}

\* L lists the combinations: each once, in their order, with its rank.
IsEnumeration(L, N, T) ==
  /\ L \in [1..Ways(N, T) -> Combs(N, T)]
  /\ L[1] = FirstCombination(T)
  /\ \A k \in 1..(Ways(N, T) - 1) :
       L[k + 1] = NextCombination(L[k], N, T) /\ Earlier(L[k], L[k + 1], T)
  /\ \A k \in 1..Ways(N, T) : Rank(L[k], N, T) = k
  /\ \A c \in Combs(N, T) : \E k \in 1..Ways(N, T) : L[k] = c

\* The dealing stays among the combinations.
LEMMA Steps ==
  ASSUME NEW N, NEW T, IsKey(N, T)
  PROVE  /\ FirstCombination(T) \in Combs(N, T)
         /\ \A c \in Combs(N, T) : NextCombination(c, N, T) \in Combs(N, T)
<1>1. FirstCombination(T) \in Combs(N, T)
  BY FirstIsCombination DEF Combs, IsCombination
<1>2. ASSUME NEW c \in Combs(N, T) PROVE NextCombination(c, N, T) \in Combs(N, T)
  <2> DEFINE d == NextCombination(c, N, T)
  <2>0. IsCombination(c, N, T)
    BY DEF Combs
  <2>1. CASE Movable(c, N, T) = {}
    <3>1. d = c
      BY <2>1 DEF NextCombination, Movable
    <3> QED BY <3>1
  <2>2. CASE Movable(c, N, T) # {}
    <3>1. IsCombination(d, N, T)
      BY <2>0, <2>2, NextIs
    <3> QED BY <3>1 DEF Combs, IsCombination
  <2> QED BY <2>1, <2>2
<1> QED BY <1>1, <1>2

\* The next combination is a later one.
LEMMA NextIsLater ==
  ASSUME NEW N, NEW T, IsKey(N, T), NEW c, IsCombination(c, N, T), Movable(c, N, T) # {}
  PROVE  Earlier(c, NextCombination(c, N, T), T)
<1> DEFINE l == Max(Movable(c, N, T))
           d == NextCombination(c, N, T)
<1>1. /\ l \in 1..T /\ c[l] < N - T + l - 1
      /\ d = [j \in 1..T |-> IF j < l THEN c[j] ELSE c[l] + 1 + j - l]
  BY NextIs
<1> HIDE DEF l, d
<1>2. T \in Nat /\ c[l] \in Int
  BY <1>1 DEF IsKey, IsCombination
<1>3. d[l] = c[l] + 1
  BY <1>1, <1>2
<1>4. \A k \in 1..(l - 1) : c[k] = d[k]
  <2> TAKE k \in 1..(l - 1)
  <2>1. k \in 1..T /\ k < l
    BY <1>1, <1>2
  <2> QED BY <1>1, <2>1
<1>5. Earlier(c, d, T)
  <2>1. c[l] < d[l]
    BY <1>2, <1>3
  <2> QED BY <1>1, <1>4, <2>1 DEF Earlier
<1> QED BY <1>5 DEF d

\* The loop's list is an enumeration of the combinations, as long as the
\* number nCr computes.
LEMMA Enumeration ==
  ASSUME NEW N, NEW T, IsKey(N, T)
  PROVE  /\ nCr(N, T) = Ways(N, T) /\ Ways(N, T) \in Nat /\ Ways(N, T) >= 1
         /\ IsEnumeration(Combinations(N, T), N, T)
<1> DEFINE W == Ways(N, T)
           V == Combs(N, T)
           first == FirstCombination(T)
           loop(f) == [k \in 1..W |->
                        IF k = 1 THEN first ELSE NextCombination(f[k - 1], N, T)]
           res == CHOOSE f : f = loop(f)
           L == Combinations(N, T)
           next(k) == [c \in V |-> NextCombination(c, N, T)]
           step == [k \in Nat |-> next(k)]
<1>1. nCr(N, T) = W /\ W \in Nat /\ W >= 1
  <2>1. N \in Nat /\ T \in 0..N /\ T \in Nat
    BY DEF IsKey
  <2>2. W > 0 /\ W \in Nat
    BY <2>1, Choosing, ChoosingAll
  <2> QED BY <2>1, <2>2, NumberOfCombinations
<1>2. L = res
  BY <1>1 DEF Combinations
<1>3. first \in V /\ \A c \in V : NextCombination(c, N, T) \in V
  BY Steps
<1>4. IsRecursion(V, first, step)
  <2> HIDE DEF V, first
  <2> QED BY <1>3 DEF IsRecursion
<1>5. \A k \in Nat : \A c \in V : step[k][c] = NextCombination(c, N, T)
  OBVIOUS
<1> HIDE DEF W, V, first, step, L
<1>6. PICK g : Follows(g, V, first, step)
  BY <1>4, Recursion
<1> DEFINE h == [k \in 1..W |-> g[k - 1]]
<1>7. h \in [1..W -> V]
  BY <1>1, <1>6 DEF Follows
<1>8. h = loop(h)
  <2>1. ASSUME NEW k \in 1..W PROVE h[k] = loop(h)[k]
    <3>1. CASE k = 1
      <4>1. h[k] = g[0]
        BY <3>1
      <4> QED BY <1>6, <3>1, <4>1 DEF Follows
    <3>2. CASE k # 1
      <4>1. k - 1 \in 1..W /\ k - 2 \in Nat /\ (k - 1) - 1 = k - 2 /\ (k - 2) + 1 = k - 1
        BY <1>1, <3>2
      <4>2. g[(k - 2) + 1] = step[k - 2][g[k - 2]] /\ g[k - 2] \in V
        BY <1>6, <4>1 DEF Follows
      <4>3. h[k] = g[k - 1] /\ h[k - 1] = g[k - 2]
        BY <4>1
      <4>4. loop(h)[k] = NextCombination(h[k - 1], N, T)
        BY <3>2
      <4>5. step[k - 2][g[k - 2]] = NextCombination(g[k - 2], N, T)
        BY <1>5, <4>1, <4>2
      <4> HIDE DEF h, loop
      <4>6. loop(h)[k] = g[k - 1]
        BY <4>1, <4>2, <4>3, <4>4, <4>5
      <4> QED BY <4>3, <4>6
    <3> QED BY <3>1, <3>2
  <2> QED BY <2>1
<1>9. res = loop(res)
  <2> HIDE DEF loop, h
  <2> QED BY <1>8
<1> HIDE DEF res
<1>10. \A k \in 1..W : L[k] = h[k]
  <2> DEFINE a == [k \in 0..(W - 1) |-> L[k + 1]]
             b == [k \in 0..(W - 1) |-> h[k + 1]]
  <2>1. L = loop(L)
    BY <1>2, <1>9
  <2> HIDE DEF h
  <2>2. \A k \in 1..W : /\ k = 1 => L[k] = h[k]
                        /\ k # 1 => L[k] = NextCombination(L[k - 1], N, T)
                                    /\ h[k] = NextCombination(h[k - 1], N, T)
    BY <1>8, <2>1
  <2>3. a[0] = b[0]
    BY <1>1, <2>2
  <2>4. \A k \in 1..(W - 1) : a[k - 1] = b[k - 1] => a[k] = b[k]
    <3> TAKE k \in 1..(W - 1)
    <3>1. k + 1 \in 1..W /\ k + 1 # 1 /\ (k + 1) - 1 = k /\ k - 1 \in 0..(W - 1) /\ k \in 0..(W - 1)
          /\ (k - 1) + 1 = k
      BY <1>1
    <3>2. a[k - 1] = L[k] /\ b[k - 1] = h[k] /\ a[k] = L[k + 1] /\ b[k] = h[k + 1]
      BY <3>1
    <3>3. L[k + 1] = NextCombination(L[k], N, T) /\ h[k + 1] = NextCombination(h[k], N, T)
      BY <2>2, <3>1
    <3> HIDE DEF a, b
    <3> QED BY <3>2, <3>3
  <2>5. \A k \in 0..(W - 1) : a[k] = b[k]
    <3> DEFINE w == W - 1
    <3>1. w \in Nat
      BY <1>1
    <3> HIDE DEF w, a, b
    <3>2. (\A k \in 1..w : a[k - 1] = b[k - 1] => a[k] = b[k]) => \A k \in 0..w : a[k] = b[k]
      BY <2>3, <3>1, Alike
    <3> QED BY <2>4, <3>2 DEF w
  <2> TAKE k \in 1..W
  <2>6. k - 1 \in 0..(W - 1) /\ (k - 1) + 1 = k
    BY <1>1
  <2>7. a[k - 1] = L[k] /\ b[k - 1] = h[k]
    BY <2>6
  <2> HIDE DEF a, b
  <2> QED BY <2>5, <2>6, <2>7
<1>11. L \in [1..W -> V]
  <2>1. L = [k \in 1..W |-> L[k]]
    <3>1. L = loop(L)
      BY <1>2, <1>9
    <3> QED BY <3>1
  <2>2. \A k \in 1..W : L[k] \in V
    <3> HIDE DEF h
    <3> QED BY <1>7, <1>10
  <2> QED BY <2>1, <2>2
<1>12. L[1] = first /\ \A k \in 1..(W - 1) : L[k + 1] = NextCombination(L[k], N, T)
  <2>1. L = loop(L)
    BY <1>2, <1>9
  <2>2. L[1] = first
    BY <1>1, <2>1
  <2>3. ASSUME NEW k \in 1..(W - 1) PROVE L[k + 1] = NextCombination(L[k], N, T)
    <3>1. k + 1 \in 1..W /\ k + 1 # 1 /\ (k + 1) - 1 = k
      BY <1>1
    <3>2. L[k + 1] = NextCombination(L[(k + 1) - 1], N, T)
      BY <2>1, <3>1
    <3> QED BY <3>1, <3>2
  <2> QED BY <2>2, <2>3
\* The rank is the place.
<1>13. ASSUME NEW k \in 1..W PROVE IsCombination(L[k], N, T)
  BY <1>11 DEF V, Combs
<1>14. ASSUME NEW k \in 1..(W - 1), Rank(L[k], N, T) = k
       PROVE  Movable(L[k], N, T) # {}
  <2>1. k \in 1..W /\ k # W
    BY <1>1
  <2>2. IsCombination(L[k], N, T)
    BY <1>13, <2>1
  <2>3. Movable(L[k], N, T) = {} => Rank(L[k], N, T) = W
    BY <2>2, RankAtMost DEF W
  <2> QED BY <1>14, <2>1, <2>3
<1>15. \A k \in 1..W : Rank(L[k], N, T) = k
  <2> DEFINE U == {k \in Nat : k + 1 <= W => Rank(L[k + 1], N, T) = k + 1}
  <2>1. 0 \in U
    <3>1. Rank(L[1], N, T) = 1
      BY <1>12, RankOfFirst DEF first
    <3> QED BY <3>1
  <2>2. ASSUME NEW k \in Nat, k \in U PROVE k + 1 \in U
    <3> SUFFICES ASSUME (k + 1) + 1 <= W PROVE Rank(L[(k + 1) + 1], N, T) = (k + 1) + 1
      OBVIOUS
    <3> DEFINE m == k + 1
    <3>1. m \in 1..(W - 1) /\ m \in 1..W /\ Rank(L[m], N, T) = m
      BY <1>1, <2>2
    <3> HIDE DEF m
    <3>2. Movable(L[m], N, T) # {} /\ IsCombination(L[m], N, T)
      BY <1>13, <1>14, <3>1
    <3>3. Rank(NextCombination(L[m], N, T), N, T) = m + 1
      BY <3>1, <3>2, RankOfNext
    <3>4. Rank(L[m + 1], N, T) = m + 1
      BY <1>12, <3>1, <3>3
    <3> QED BY <3>4 DEF m
  <2> HIDE DEF U
  <2>3. Nat \subseteq U
    BY <2>1, <2>2, SetInduction
  <2> TAKE k \in 1..W
  <2>4. k - 1 \in U /\ (k - 1) + 1 = k /\ k <= W
    BY <1>1, <2>3
  <2> QED BY <2>4 DEF U
<1>16. ASSUME NEW k \in 1..(W - 1) PROVE Earlier(L[k], L[k + 1], T)
  <2>1. k \in 1..W
    BY <1>1
  <2>2. Movable(L[k], N, T) # {} /\ IsCombination(L[k], N, T)
    BY <1>13, <1>14, <1>15, <2>1
  <2> QED BY <1>12, <2>2, NextIsLater
<1>17. ASSUME NEW c \in V PROVE \E k \in 1..W : L[k] = c
  <2>1. IsCombination(c, N, T)
    BY DEF V, Combs
  <2> DEFINE k == Rank(c, N, T)
  <2>2. k \in Int /\ k <= W /\ k >= 1
    BY <2>1, RankAtMost, RankAtLeast DEF W
  <2>3. k \in 1..W
    BY <1>1, <2>2
  <2>4. Rank(L[k], N, T) = Rank(c, N, T) /\ IsCombination(L[k], N, T)
    BY <1>13, <1>15, <2>3
  <2>5. L[k] = c
    <3> HIDE DEF k
    <3> QED BY <2>1, <2>4, RankIsUnique
  <2> QED BY <2>3, <2>5
<1>18. IsEnumeration(L, N, T)
  <2> HIDE DEF h
  <2> QED BY <1>11, <1>12, <1>15, <1>16, <1>17 DEF IsEnumeration, W, V, first
<1> QED BY <1>1, <1>18 DEF W, L

-----------------------------------------------------------------------------
(* Combinations and sets of parties.                                       *)

\* The parties of a combination are a T-set.
LEMMA PartiesOfCombination ==
  ASSUME NEW N, NEW T, IsKey(N, T), NEW c \in Combs(N, T)
  PROVE  Range(c) \in kSubset(T, 0..(N - 1))
<1>0. N \in Nat /\ T \in Nat /\ T > 0 /\ IsCombination(c, N, T) /\ c \in [1..T -> 0..(N - 1)]
  BY DEF IsKey, Combs
<1>1. \A j, k \in 1..T : c[j] = c[k] => j = k
  <2> TAKE j, k \in 1..T
  <2>1. /\ j <= k => c[j] + (k - j) <= c[k]
        /\ k <= j => c[k] + (j - k) <= c[j]
        /\ c[j] \in Nat /\ c[k] \in Nat
    BY <1>0, Spread
  <2> QED BY <1>0, <2>1
<1>2. Range(c) = {c[j] : j \in 1..T}
  BY <1>0 DEF Range
<1>3. c \in Surjection(1..T, Range(c)) /\ c \in Injection(1..T, Range(c))
  BY <1>0, <1>1, <1>2 DEF Surjection, Injection, IsInjective
<1>4. IsFiniteSet(1..T) /\ Cardinality(1..T) = T
  <2>1. Cardinality(1..T) = IF 1 > T THEN 0 ELSE T - 1 + 1
    BY <1>0, FS_Interval
  <2> QED BY <1>0, <2>1, FS_Interval
<1>5. Cardinality(Range(c)) = T
  BY <1>3, <1>4, FS_Surjection
<1>6. Range(c) \in SUBSET (0..(N - 1))
  BY <1>0, <1>2
<1> QED BY <1>5, <1>6 DEF kSubset

\* Every T-set of parties is the parties of a combination.
LEMMA CombinationOfParties ==
  ASSUME NEW N \in Nat
  PROVE  \A T \in Nat : \A A \in kSubset(T, 0..(N - 1)) :
           \E c \in Combs(N, T) : Range(c) = A
<1> DEFINE P(T) == \A A \in kSubset(T, 0..(N - 1)) : \E c \in Combs(N, T) : Range(c) = A
           U == {T \in Nat : P(T)}
<1>0. \A A \in SUBSET (0..(N - 1)) : IsFiniteSet(A)
  <2>1. IsFiniteSet(0..(N - 1))
    BY FS_Interval
  <2> QED BY <2>1, FS_Subset
<1>1. 0 \in U
  <2> SUFFICES ASSUME NEW A \in kSubset(0, 0..(N - 1)) PROVE \E c \in Combs(N, 0) : Range(c) = A
    OBVIOUS
  <2> DEFINE c == [j \in 1..0 |-> 0]
  <2>1. A = {}
    BY <1>0, FS_EmptySet DEF kSubset
  <2>2. 1..0 = {} /\ 1..(0 - 1) = {}
    OBVIOUS
  <2>3. c \in [1..0 -> 0..(N - 1)] /\ Range(c) = {}
    BY <2>2 DEF Range
  <2> HIDE DEF c
  <2>4. c \in Combs(N, 0)
    BY <2>2, <2>3 DEF Combs, IsCombination
  <2> QED BY <2>1, <2>3, <2>4
<1>2. ASSUME NEW T \in Nat, T \in U PROVE T + 1 \in U
  <2> SUFFICES ASSUME NEW A \in kSubset(T + 1, 0..(N - 1))
               PROVE  \E c \in Combs(N, T + 1) : Range(c) = A
    OBVIOUS
  <2>1. A \in SUBSET (0..(N - 1)) /\ Cardinality(A) = T + 1 /\ IsFiniteSet(A)
    BY <1>0 DEF kSubset
  <2>2. A # {}
    BY <2>1, FS_EmptySet
  <2>3. PICK x \in A : \A y \in A : y <= x
    <3> DEFINE S == {N - y : y \in A}
    <3>1. S \in SUBSET Nat /\ S # {}
      <4>1. \A y \in A : N - y \in Nat
        BY <2>1
      <4> QED BY <2>2, <4>1
    <3> HIDE DEF S
    <3>2. PICK z \in S : \A w \in S : z <= w
      BY <3>1, Least
    <3> USE DEF S
    <3>3. PICK x \in A : z = N - x
      BY <3>2
    <3>4. \A y \in A : y <= x
      <4> TAKE y \in A
      <4>1. N - y \in S
        OBVIOUS
      <4>2. z <= N - y /\ y \in Int /\ x \in Int
        BY <2>1, <3>2, <4>1
      <4> QED BY <3>3, <4>2
    <3> QED BY <3>4
  <2> DEFINE B == A \ {x}
  <2>4. B \in kSubset(T, 0..(N - 1))
    <3>1. Cardinality(B) = (T + 1) - 1
      BY <2>1, FS_RemoveElement
    <3>2. Cardinality(B) = T
      BY <3>1
    <3> QED BY <2>1, <3>2 DEF kSubset
  <2>5. PICK b \in Combs(N, T) : Range(b) = B
    BY <1>2, <2>4
  <2> DEFINE c == [j \in 1..(T + 1) |-> IF j = T + 1 THEN x ELSE b[j]]
  <2>6. b \in [1..T -> 0..(N - 1)] /\ \A j \in 1..(T - 1) : b[j] < b[j + 1]
    BY DEF Combs, IsCombination
  <2>7. B = {b[j] : j \in 1..T}
    BY <2>5, <2>6 DEF Range
  <2>8. \A j \in 1..T : b[j] < x
    <3> TAKE j \in 1..T
    <3>1. b[j] \in A /\ b[j] # x
      BY <2>7
    <3>2. b[j] <= x
      BY <2>3, <3>1
    <3>3. b[j] \in Int /\ x \in Int
      <4>1. \A y \in A : y \in Int
        BY <2>1
      <4> QED BY <3>1, <4>1
    <3> QED BY <3>1, <3>2, <3>3
  <2>9. c \in [1..(T + 1) -> 0..(N - 1)]
    <3>1. \A j \in 1..(T + 1) : j = T + 1 \/ j \in 1..T
      OBVIOUS
    <3>2. x \in 0..(N - 1)
      BY <2>1
    <3> QED BY <2>6, <3>1, <3>2
  <2>10. \A j \in 1..((T + 1) - 1) : c[j] < c[j + 1]
    <3> TAKE j \in 1..((T + 1) - 1)
    <3>1. j \in 1..T /\ j \in 1..(T + 1) /\ j # T + 1 /\ j + 1 \in 1..(T + 1)
      OBVIOUS
    <3>2. c[j] = b[j] /\ c[j + 1] = (IF j + 1 = T + 1 THEN x ELSE b[j + 1])
      BY <3>1
    <3> HIDE DEF c
    <3>3. CASE j = T
      BY <2>8, <3>1, <3>2, <3>3
    <3>4. CASE j # T
      <4>1. j \in 1..(T - 1) /\ j + 1 # T + 1
        BY <3>1, <3>4
      <4> QED BY <2>6, <3>2, <4>1
    <3> QED BY <3>3, <3>4
  <2>11. Range(c) = A
    <3>1. Range(c) = {c[j] : j \in 1..(T + 1)}
      BY DEF Range
    <3>2. \A y \in A : \E j \in 1..(T + 1) : c[j] = y
      <4> TAKE y \in A
      <4>1. CASE y = x
        BY <4>1
      <4>2. CASE y # x
        <5>1. PICK j \in 1..T : b[j] = y
          BY <2>7, <4>2
        <5>2. j \in 1..(T + 1) /\ j # T + 1
          OBVIOUS
        <5> QED BY <5>1, <5>2
      <4> QED BY <4>1, <4>2
    <3>3. \A j \in 1..(T + 1) : c[j] \in A
      <4> TAKE j \in 1..(T + 1)
      <4>1. j = T + 1 \/ j \in 1..T
        OBVIOUS
      <4>2. j \in 1..T => b[j] \in A
        BY <2>7
      <4> QED BY <4>1, <4>2
    <3> HIDE DEF c
    <3> QED BY <3>1, <3>2, <3>3
  <2> HIDE DEF c
  <2>12. c \in Combs(N, T + 1)
    BY <2>9, <2>10 DEF Combs, IsCombination
  <2> QED BY <2>11, <2>12
<1> HIDE DEF U
<1>3. Nat \subseteq U
  BY <1>1, <1>2, SetInduction
<1> QED BY <1>3 DEF U

\* Listing the combinations is listing the sets of T parties.
LEMMA EverySetOnce ==
  ASSUME NEW N, NEW T, IsKey(N, T), NEW L, IsEnumeration(L, N, T)
  PROVE  {Range(L[k]) : k \in 1..Ways(N, T)} = kSubset(T, 0..(N - 1))
<1>1. \A k \in 1..Ways(N, T) : Range(L[k]) \in kSubset(T, 0..(N - 1))
  <2> TAKE k \in 1..Ways(N, T)
  <2>1. L[k] \in Combs(N, T)
    BY DEF IsEnumeration
  <2> QED BY <2>1, PartiesOfCombination
<1>2. \A A \in kSubset(T, 0..(N - 1)) : \E k \in 1..Ways(N, T) : Range(L[k]) = A
  <2> TAKE A \in kSubset(T, 0..(N - 1))
  <2>1. N \in Nat /\ T \in Nat
    BY DEF IsKey
  <2>2. PICK c \in Combs(N, T) : Range(c) = A
    BY <2>1, CombinationOfParties
  <2>3. PICK k \in 1..Ways(N, T) : L[k] = c
    BY DEF IsEnumeration
  <2> QED BY <2>2, <2>3
<1> QED BY <1>1, <1>2

-----------------------------------------------------------------------------
(* The distribution matrix.                                                *)

\* The length of a function on 1..m.
LEMMA Length ==
  ASSUME NEW m \in Nat, NEW f, f = [x \in 1..m |-> f[x]]
  PROVE  Len(f) = m
  OBVIOUS

\* A number is in one place of one block.
LEMMA OneBlock ==
  ASSUME NEW m \in Nat \ {0}, NEW a \in Nat, NEW b \in Nat, NEW p \in 1..m, NEW q \in 1..m,
         a * m + p = b * m + q
  PROVE  a = b /\ p = q
<1>1. ASSUME NEW x \in Nat, NEW y \in Nat, NEW u \in 1..m, NEW v \in 1..m,
             x * m + u = y * m + v, x < y
      PROVE  FALSE
  <2> DEFINE e == y - x - 1
  <2>1. e \in Nat /\ y = x + 1 + e
    BY <1>1
  <2> HIDE DEF e
  <2>2. y * m = x * m + m + e * m
    BY <2>1
  <2>3. e * m \in Nat /\ x * m \in Nat
    BY <2>1
  <2> DEFINE em == e * m
             xm == x * m
             ym == y * m
  <2>4. ym = xm + m + em /\ em \in Nat /\ xm \in Nat /\ xm + u = ym + v
    BY <1>1, <2>2, <2>3
  <2> HIDE DEF em, xm, ym
  <2> QED BY <2>4
<1>2. a = b
  <2>1. ~ (a < b)
    BY <1>1
  <2>2. ~ (b < a)
    <3>1. b * m + q = a * m + p
      OBVIOUS
    <3> QED BY <1>1, <3>1
  <2> QED BY <2>1, <2>2
<1>3. a * m \in Nat
  OBVIOUS
<1> QED BY <1>2, <1>3

\* Every row is in some place of some block.
LEMMA SomeBlock ==
  ASSUME NEW m \in Nat \ {0}
  PROVE  \A k \in Nat : \A r \in 1..(k * m) :
           \E b \in 0..(k - 1) : \E p \in 1..m : r = b * m + p
<1> DEFINE P(k) == \A r \in 1..(k * m) : \E b \in 0..(k - 1) : \E p \in 1..m : r = b * m + p
           U == {k \in Nat : P(k)}
<1>1. 0 \in U
  <2>1. 1..(0 * m) = {}
    OBVIOUS
  <2> QED BY <2>1
<1>2. ASSUME NEW k \in Nat, k \in U PROVE k + 1 \in U
  <2> SUFFICES ASSUME NEW r \in 1..((k + 1) * m)
               PROVE  \E b \in 0..((k + 1) - 1) : \E p \in 1..m : r = b * m + p
    OBVIOUS
  <2>0. k * m \in Nat /\ (k + 1) * m = k * m + m
    OBVIOUS
  <2>1. CASE r <= k * m
    <3>1. r \in 1..(k * m)
      BY <2>0, <2>1
    <3>2. PICK b \in 0..(k - 1) : \E p \in 1..m : r = b * m + p
      BY <1>2, <3>1
    <3>3. b \in 0..((k + 1) - 1)
      OBVIOUS
    <3> QED BY <3>2, <3>3
  <2>2. CASE r > k * m
    <3> DEFINE p == r - k * m
    <3>1. p \in 1..m /\ r = k * m + p /\ k \in 0..((k + 1) - 1)
      BY <2>0, <2>2
    <3> QED BY <3>1
  <2> QED BY <2>0, <2>1, <2>2
<1> HIDE DEF U
<1>3. Nat \subseteq U
  BY <1>1, <1>2, SetInduction
<1> QED BY <1>3 DEF U

\* The matrix of one combination: the secret and every random element in the
\* first party's row, one random element in each other row.
Entry(p, q, m) == IF p = 1 \/ q = m - p + 2 THEN 1 ELSE 0
Block(m) == [p \in 1..m |-> [q \in 1..m |-> Entry(p, q, m)]]

\* A block is square.
LEMMA BlockShape ==
  ASSUME NEW m \in Nat \ {0}
  PROVE  Len(Block(m)) = m /\ Columns(Block(m)) = m
<1>1. Len(Block(m)) = m
  <2>1. Block(m) = [p \in 1..m |-> Block(m)[p]]
    BY DEF Block
  <2> HIDE DEF Block
  <2> QED BY <2>1, Length
<1>2. Len(Block(m)[1]) = m
  <2> DEFINE f == Block(m)[1]
  <2>1. f = [q \in 1..m |-> f[q]]
    <3>1. f = [q \in 1..m |-> Entry(1, q, m)]
      BY DEF Block
    <3> QED BY <3>1
  <2> HIDE DEF f
  <2>2. Len(f) = m
    BY <2>1, Length
  <2> QED BY <2>2 DEF f
<1> QED BY <1>1, <1>2 DEF Columns

\* The smallest block.
LEMMA BlockOfOne == Block(1) = <<<<1>>>>
<1>1. Block(1) = [p \in 1..1 |-> [q \in 1..1 |-> 1]]
  BY DEF Block, Entry
<1>2. 1..1 = {1}
  OBVIOUS
<1>3. [q \in 1..1 |-> 1] = <<1>>
  OBVIOUS
<1> QED BY <1>1, <1>3

\* The and-composition with one more party makes the next larger block.
LEMMA BlockStep ==
  ASSUME NEW m \in Nat \ {0}
  PROVE  MAnd(Block(m), Block(1)) = Block(m + 1)
<1> DEFINE A == Block(m)
           B == Block(1)
           x(p, q) == IF p <= m
                        THEN IF q = 1 THEN A[p][1] ELSE IF q <= m + 1 THEN A[p][q - 1] ELSE 0
                        ELSE IF q = 2 THEN B[p - m][1]
                             ELSE IF q > m + 1 THEN B[p - m][q - m] ELSE 0
<1>1. Len(A) = m /\ Columns(A) = m /\ Len(B) = 1 /\ Columns(B) = 1
  <2>1. 1 \in Nat \ {0}
    OBVIOUS
  <2>2. Len(Block(1)) = 1 /\ Columns(Block(1)) = 1
    BY <2>1, BlockShape
  <2>3. Len(Block(m)) = m /\ Columns(Block(m)) = m
    BY BlockShape
  <2> QED BY <2>2, <2>3
<1>2. \A p, q \in 1..m : A[p][q] = Entry(p, q, m)
  BY DEF Block
<1>3. B[1][1] = 1
  BY DEF Block, Entry
<1> HIDE DEF A, B
<1>4. MAnd(A, B) = [p \in 1..(m + 1) |-> [q \in 1..(m + 1) |-> x(p, q)]]
  BY <1>1 DEF MAnd
<1>5. ASSUME NEW p \in 1..(m + 1), NEW q \in 1..(m + 1)
      PROVE  x(p, q) = Entry(p, q, m + 1)
  <2>1. CASE p <= m /\ q = 1
    <3>1. p \in 1..m /\ 1 \in 1..m /\ x(p, q) = A[p][1]
      BY <2>1
    <3>2. x(p, q) = Entry(p, 1, m)
      BY <1>2, <3>1
    <3> HIDE DEF x
    <3> QED BY <2>1, <3>2 DEF Entry
  <2>2. CASE p <= m /\ q # 1
    <3>1. p \in 1..m /\ q - 1 \in 1..m /\ x(p, q) = A[p][q - 1]
      BY <2>2
    <3>2. x(p, q) = Entry(p, q - 1, m)
      BY <1>2, <3>1
    <3>3. (q - 1 = m - p + 2) <=> (q = (m + 1) - p + 2)
      OBVIOUS
    <3> HIDE DEF x
    <3> QED BY <3>2, <3>3 DEF Entry
  <2>3. CASE ~ (p <= m)
    <3>1. p = m + 1 /\ p - m = 1
      BY <2>3
    <3>2. x(p, q) = IF q = 2 THEN 1 ELSE 0
      BY <1>3, <2>3, <3>1
    <3> HIDE DEF x
    <3> QED BY <3>1, <3>2 DEF Entry
  <2> QED BY <2>1, <2>2, <2>3
<1> HIDE DEF x
<1>6. MAnd(A, B) = [p \in 1..(m + 1) |-> [q \in 1..(m + 1) |-> Entry(p, q, m + 1)]]
  BY <1>4, <1>5
<1>7. MAnd(A, B) = Block(m + 1)
  BY <1>6 DEF Block
<1> QED BY <1>7 DEF A, B

\* Where the row of place p in block b (from 0) holds a one.
One(b, p, j, m) ==
  \/ j = 1 /\ p = 1
  \/ j - b * (m - 1) \in 2..m /\ (p = 1 \/ j - b * (m - 1) = m - p + 2)

Full(r, j, m) ==
  IF \E b \in Nat : \E p \in 1..m : r = b * m + p /\ One(b, p, j, m) THEN 1 ELSE 0

Rows(k, m) == [r \in 1..(k * m) |-> [j \in 1..(1 + k * (m - 1)) |-> Full(r, j, m)]]

\* The full matrix, by block and place.
LEMMA FullIs ==
  ASSUME NEW m \in Nat \ {0}, NEW b \in Nat, NEW p \in 1..m, NEW j
  PROVE  Full(b * m + p, j, m) = IF One(b, p, j, m) THEN 1 ELSE 0
<1>1. ASSUME NEW a \in Nat, NEW q \in 1..m, b * m + p = a * m + q
      PROVE  a = b /\ q = p
  <2>1. b = a /\ p = q
    BY <1>1, OneBlock
  <2> QED BY <2>1
<1>2. (\E a \in Nat : \E q \in 1..m : b * m + p = a * m + q /\ One(a, q, j, m)) <=> One(b, p, j, m)
  BY <1>1
<1> QED BY <1>2 DEF Full

\* The shape of k blocks below each other.
LEMMA RowsShape ==
  ASSUME NEW m \in Nat \ {0}, NEW k \in Nat \ {0}
  PROVE  /\ k * m \in Nat /\ k * m >= m /\ k * (m - 1) \in Nat
         /\ Len(Rows(k, m)) = k * m /\ Columns(Rows(k, m)) = 1 + k * (m - 1)
<1>1. k * m \in Nat /\ k * m >= m /\ k * (m - 1) \in Nat
  <2> DEFINE e == k - 1
  <2>1. e \in Nat /\ k = e + 1
    OBVIOUS
  <2> HIDE DEF e
  <2>2. k * m = e * m + m /\ e * m \in Nat
    BY <2>1
  <2> QED BY <2>2
<1> DEFINE h == k * m
           w == 1 + k * (m - 1)
<1>2. Rows(k, m) = [r \in 1..h |-> [j \in 1..w |-> Full(r, j, m)]]
  BY DEF Rows
<1>3. h \in Nat /\ 1 \in 1..h /\ w \in Nat
  BY <1>1
<1> HIDE DEF h, w
<1> DEFINE f == Rows(k, m)
           g == f[1]
<1>4. f = [r \in 1..h |-> f[r]]
  BY <1>2
<1>5. g = [j \in 1..w |-> Full(1, j, m)]
  BY <1>2, <1>3
<1>6. g = [j \in 1..w |-> g[j]]
  BY <1>5
<1>7. Len(g) = w
  <2> HIDE DEF f, g
  <2> QED BY <1>3, <1>6, Length
<1>8. Len(f) = h
  <2> HIDE DEF f, g
  <2> QED BY <1>3, <1>4, Length
<1> QED BY <1>1, <1>7, <1>8 DEF Columns, h, w

\* One block is the matrix of one combination.
LEMMA FirstRows ==
  ASSUME NEW m \in Nat \ {0}
  PROVE  Rows(1, m) = Block(m)
<1>1. ASSUME NEW r \in 1..m, NEW j \in 1..m
      PROVE  Full(r, j, m) = Entry(r, j, m)
  <2>1. Full(0 * m + r, j, m) = IF One(0, r, j, m) THEN 1 ELSE 0
    BY FullIs
  <2>2. 0 * m + r = r /\ j - 0 * (m - 1) = j
    OBVIOUS
  <2>3. One(0, r, j, m) <=> (r = 1 \/ j = m - r + 2)
    <3>1. One(0, r, j, m) <=> (\/ j = 1 /\ r = 1
                               \/ j \in 2..m /\ (r = 1 \/ j = m - r + 2))
      BY <2>2 DEF One
    <3>2. CASE r = 1
      BY <3>1, <3>2
    <3>3. CASE r # 1
      BY <3>1, <3>3
    <3> QED BY <3>2, <3>3
  <2> QED BY <2>1, <2>2, <2>3 DEF Entry
<1>2. 1 * m = m /\ 1 + 1 * (m - 1) = m
  OBVIOUS
<1>3. Rows(1, m) = [r \in 1..m |-> [j \in 1..m |-> Full(r, j, m)]]
  BY <1>2 DEF Rows
<1>4. Rows(1, m) = [r \in 1..m |-> [j \in 1..m |-> Entry(r, j, m)]]
  BY <1>1, <1>3
<1> QED BY <1>4 DEF Block

\* The or-composition with one more block adds it below and to the right.
LEMMA RowsStep ==
  ASSUME NEW m \in Nat \ {0}, NEW k \in Nat \ {0}
  PROVE  MOr(Rows(k, m), Block(m)) = Rows(k + 1, m)
<1> DEFINE A == Rows(k, m)
           B == Block(m)
           h == k * m
           w == k * (m - 1)
           x(r, j) == IF r <= h
                        THEN IF j <= 1 + w THEN A[r][j] ELSE 0
                        ELSE IF j = 1 THEN B[r - h][1]
                             ELSE IF j > 1 + w THEN B[r - h][j - (1 + w) + 1] ELSE 0
<1>1. /\ Len(A) = h /\ Columns(A) = 1 + w /\ Len(B) = m /\ Columns(B) = m
      /\ h \in Nat /\ w \in Nat
  BY BlockShape, RowsShape
<1>2. \A r \in 1..h : \A j \in 1..(1 + w) : A[r][j] = Full(r, j, m)
  BY DEF Rows
<1>3. \A p, q \in 1..m : B[p][q] = Entry(p, q, m)
  BY DEF Block
<1>4. (k + 1) * m = h + m /\ 1 + (k + 1) * (m - 1) = (1 + w) + m - 1 /\ k + 1 - 1 = k
  OBVIOUS
<1>5. Rows(k + 1, m) = [r \in 1..(h + m) |-> [j \in 1..((1 + w) + m - 1) |-> Full(r, j, m)]]
  BY <1>4 DEF Rows
<1>6. \A r \in 1..h : \E b \in 0..(k - 1) : \E p \in 1..m : r = b * m + p
  BY SomeBlock
<1>7. ASSUME NEW p \in 1..m, NEW j
      PROVE  Full(h + p, j, m) = IF One(k, p, j, m) THEN 1 ELSE 0
  BY FullIs
<1>8. ASSUME NEW p \in 1..m, NEW j \in Int
      PROVE  One(k, p, j, m) <=> (\/ j = 1 /\ p = 1
                                  \/ j - w \in 2..m /\ (p = 1 \/ j - w = m - p + 2))
  BY DEF One
<1>9. ASSUME NEW r \in 1..h, NEW j \in Int, j > 1 + w
      PROVE  Full(r, j, m) = 0
  <2>1. PICK b \in 0..(k - 1) : \E p \in 1..m : r = b * m + p
    BY <1>6
  <2>2. PICK p \in 1..m : r = b * m + p
    BY <2>1
  <2>3. Full(r, j, m) = IF One(b, p, j, m) THEN 1 ELSE 0
    BY <2>2, FullIs
  <2>4. ~ One(b, p, j, m)
    <3> DEFINE e == k - 1 - b
               v == m - 1
    <3>1. e \in Nat /\ k = b + 1 + e /\ v \in Nat /\ b \in Nat
      OBVIOUS
    <3> HIDE DEF e
    <3>2. w = b * v + v + e * v
      BY <3>1
    <3>3. e * v \in Nat /\ b * v \in Nat
      <4> HIDE DEF v
      <4> QED BY <3>1
    <3> DEFINE ev == e * v
               bv == b * v
    <3>4. w = bv + v + ev /\ ev \in Nat /\ bv \in Nat
      BY <3>2, <3>3
    <3>5. One(b, p, j, m) => j = 1 \/ j - bv <= m
      BY DEF One
    <3> HIDE DEF ev, bv, w
    <3> QED BY <1>1, <1>9, <3>4, <3>5
  <2> QED BY <2>3, <2>4
<1> HIDE DEF A, B, h, w
<1>10. MOr(A, B) = [r \in 1..(h + m) |-> [j \in 1..((1 + w) + m - 1) |-> x(r, j)]]
  BY <1>1 DEF MOr
<1>11. ASSUME NEW r \in 1..(h + m), NEW j \in 1..((1 + w) + m - 1)
       PROVE  x(r, j) = Full(r, j, m)
  <2>1. CASE r <= h /\ j <= 1 + w
    <3>1. r \in 1..h /\ j \in 1..(1 + w)
      BY <1>1, <2>1
    <3> QED BY <1>2, <2>1, <3>1
  <2>2. CASE r <= h /\ ~ (j <= 1 + w)
    <3>1. r \in 1..h /\ j \in Int /\ j > 1 + w
      BY <1>1, <2>2
    <3> QED BY <1>9, <2>2, <3>1
  <2>3. CASE ~ (r <= h)
    <3> DEFINE p == r - h
    <3>1. p \in 1..m /\ h + p = r /\ j \in Int /\ 1 \in 1..m
      BY <1>1, <2>3
    <3>2. Full(r, j, m) = IF One(k, p, j, m) THEN 1 ELSE 0
      <4>1. Full(h + p, j, m) = IF One(k, p, j, m) THEN 1 ELSE 0
        <5> HIDE DEF p
        <5> QED BY <1>7, <3>1
      <4> QED BY <3>1, <4>1
    <3>3. One(k, p, j, m) <=> (\/ j = 1 /\ p = 1
                               \/ j - w \in 2..m /\ (p = 1 \/ j - w = m - p + 2))
      <4> HIDE DEF p
      <4> QED BY <1>8, <3>1
    <3>4. CASE j = 1
      <4>1. x(r, j) = Entry(p, 1, m)
        BY <1>3, <2>3, <3>1, <3>4
      <4>2. One(k, p, j, m) <=> p = 1
        BY <1>1, <3>3, <3>4
      <4>3. Entry(p, 1, m) = IF p = 1 THEN 1 ELSE 0
        BY <3>1 DEF Entry
      <4> HIDE DEF x, p
      <4> QED BY <3>2, <4>1, <4>2, <4>3
    <3>5. CASE j # 1 /\ j > 1 + w
      <4>1. j - (1 + w) + 1 = j - w /\ j - w \in 2..m
        BY <1>1, <3>5
      <4>2. x(r, j) = Entry(p, j - w, m)
        <5>1. x(r, j) = B[p][j - (1 + w) + 1]
          BY <2>3, <3>5
        <5>2. j - w \in 1..m
          BY <1>1, <4>1
        <5> HIDE DEF x, p
        <5> QED BY <1>3, <3>1, <4>1, <5>1, <5>2
      <4>3. One(k, p, j, m) <=> (p = 1 \/ j - w = m - p + 2)
        <5> HIDE DEF p
        <5> QED BY <3>3, <3>5, <4>1
      <4> HIDE DEF x, p
      <4> QED BY <3>2, <4>2, <4>3 DEF Entry
    <3>6. CASE j # 1 /\ ~ (j > 1 + w)
      <4>1. x(r, j) = 0
        BY <2>3, <3>6
      <4>2. ~ One(k, p, j, m)
        BY <1>1, <3>3, <3>6
      <4> HIDE DEF x, p
      <4> QED BY <3>2, <4>1, <4>2
    <3> QED BY <3>4, <3>5, <3>6
  <2> QED BY <2>1, <2>2, <2>3
<1> HIDE DEF x
<1>12. MOr(A, B) = Rows(k + 1, m)
  BY <1>5, <1>10, <1>11
<1> QED BY <1>12 DEF A, B

\* The distribution matrix is one block for each combination.
LEMMA MatrixIs ==
  ASSUME NEW N, NEW T, IsKey(N, T)
  PROVE  DistributionMatrix(N, T) = Rows(Ways(N, T), T)
<1> DEFINE W == Ways(N, T)
           Mu == Block(1)
           loopAnd(f) == [x \in 1..T |-> IF x = 1 THEN Mu ELSE MAnd(f[x - 1], Mu)]
           and == CHOOSE f : f = loopAnd(f)
           loopOr(f) == [x \in 1..W |-> IF x = 1 THEN and[T] ELSE MOr(f[x - 1], and[T])]
           or == CHOOSE f : f = loopOr(f)
<1>0. /\ N \in Nat /\ T \in Nat \ {0} /\ T \in 1..T
      /\ nCr(N, T) = W /\ W \in Nat \ {0} /\ W \in 1..W
  <2>1. N \in Nat /\ T \in Nat \ {0} /\ T \in 1..T
    BY DEF IsKey
  <2>2. nCr(N, T) = W /\ W \in Nat /\ W >= 1
    BY Enumeration
  <2> QED BY <2>1, <2>2
<1>1. DistributionMatrix(N, T) = or[W]
  <2>1. Mu = <<<<1>>>>
    BY BlockOfOne
  <2> HIDE DEF Mu
  <2>2. DistributionMatrix(N, T) =
          LET a[x \in 1..T] == IF x = 1 THEN Mu ELSE MAnd(a[x - 1], Mu)
              o[x \in 1..W] == IF x = 1 THEN a[T] ELSE MOr(o[x - 1], a[T])
          IN  o[W]
    BY <1>0, <2>1 DEF DistributionMatrix
  <2> QED BY <2>2
<1> HIDE DEF Mu, W
<1> DEFINE blocks == [x \in 1..T |-> Block(x)]
<1>2. blocks = loopAnd(blocks)
  <2>1. ASSUME NEW x \in 1..T PROVE blocks[x] = loopAnd(blocks)[x]
    <3>1. CASE x = 1
      BY <3>1 DEF Mu
    <3>2. CASE x # 1
      <4>1. x - 1 \in 1..T /\ x - 1 \in Nat \ {0} /\ (x - 1) + 1 = x
        BY <1>0, <3>2
      <4>2. MAnd(Block(x - 1), Mu) = Block((x - 1) + 1)
        BY <4>1, BlockStep DEF Mu
      <4>3. blocks[x - 1] = Block(x - 1) /\ blocks[x] = Block(x)
        BY <4>1
      <4>4. loopAnd(blocks)[x] = MAnd(blocks[x - 1], Mu)
        BY <3>2
      <4> HIDE DEF blocks, loopAnd
      <4> QED BY <4>1, <4>2, <4>3, <4>4
    <3> QED BY <3>1, <3>2
  <2> QED BY <2>1
<1>3. and = loopAnd(and)
  <2> HIDE DEF loopAnd, blocks
  <2> QED BY <1>2
<1> HIDE DEF and
<1>4. and[T] = Block(T)
  <2> DEFINE U == {x \in Nat : x + 1 <= T => and[x + 1] = Block(x + 1)}
  <2>1. 0 \in U
    <3>1. and[1] = Mu
      BY <1>0, <1>3
    <3> QED BY <3>1 DEF Mu
  <2>2. ASSUME NEW x \in Nat, x \in U PROVE x + 1 \in U
    <3> SUFFICES ASSUME (x + 1) + 1 <= T PROVE and[(x + 1) + 1] = Block((x + 1) + 1)
      OBVIOUS
    <3> DEFINE y == x + 1
    <3>1. y + 1 \in 1..T /\ y + 1 # 1 /\ (y + 1) - 1 = y /\ y \in Nat \ {0} /\ and[y] = Block(y)
      BY <1>0, <2>2
    <3> HIDE DEF y
    <3>2. and[y + 1] = MAnd(and[(y + 1) - 1], Mu)
      BY <1>3, <3>1
    <3>3. and[y + 1] = Block(y + 1)
      BY <3>1, <3>2, BlockStep DEF Mu
    <3> QED BY <3>3 DEF y
  <2> HIDE DEF U
  <2>3. Nat \subseteq U
    BY <2>1, <2>2, SetInduction
  <2>4. T - 1 \in U /\ (T - 1) + 1 = T
    BY <1>0, <2>3
  <2> QED BY <1>0, <2>4 DEF U
<1> DEFINE rows == [x \in 1..W |-> Rows(x, T)]
<1>5. rows = loopOr(rows)
  <2>1. ASSUME NEW x \in 1..W PROVE rows[x] = loopOr(rows)[x]
    <3>1. CASE x = 1
      <4>1. rows[1] = Rows(1, T) /\ loopOr(rows)[1] = and[T]
        BY <3>1
      <4> HIDE DEF rows, loopOr
      <4> QED BY <1>0, <1>4, <3>1, <4>1, FirstRows
    <3>2. CASE x # 1
      <4>1. x - 1 \in 1..W /\ x - 1 \in Nat \ {0} /\ (x - 1) + 1 = x
        BY <1>0, <3>2
      <4>2. MOr(Rows(x - 1, T), Block(T)) = Rows((x - 1) + 1, T)
        BY <1>0, <4>1, RowsStep
      <4>3. rows[x - 1] = Rows(x - 1, T) /\ rows[x] = Rows(x, T)
        BY <4>1
      <4>4. loopOr(rows)[x] = MOr(rows[x - 1], and[T])
        BY <3>2
      <4> HIDE DEF rows, loopOr
      <4> QED BY <1>4, <4>1, <4>2, <4>3, <4>4
    <3> QED BY <3>1, <3>2
  <2> QED BY <2>1
<1>6. or = loopOr(or)
  <2> HIDE DEF loopOr, rows
  <2> QED BY <1>5
<1> HIDE DEF or
<1>7. or[W] = Rows(W, T)
  <2> DEFINE U == {x \in Nat : x + 1 <= W => or[x + 1] = Rows(x + 1, T)}
  <2>1. 0 \in U
    <3>1. or[1] = and[T]
      BY <1>0, <1>6
    <3> QED BY <1>0, <1>4, <3>1, FirstRows
  <2>2. ASSUME NEW x \in Nat, x \in U PROVE x + 1 \in U
    <3> SUFFICES ASSUME (x + 1) + 1 <= W PROVE or[(x + 1) + 1] = Rows((x + 1) + 1, T)
      OBVIOUS
    <3> DEFINE y == x + 1
    <3>1. y + 1 \in 1..W /\ y + 1 # 1 /\ (y + 1) - 1 = y /\ y \in Nat \ {0} /\ or[y] = Rows(y, T)
      BY <1>0, <2>2
    <3> HIDE DEF y
    <3>2. or[y + 1] = MOr(or[(y + 1) - 1], and[T])
      BY <1>6, <3>1
    <3>3. or[y + 1] = Rows(y + 1, T)
      BY <1>0, <1>4, <3>1, <3>2, RowsStep
    <3> QED BY <3>3 DEF y
  <2> HIDE DEF U
  <2>3. Nat \subseteq U
    BY <2>1, <2>2, SetInduction
  <2>4. W - 1 \in U /\ (W - 1) + 1 = W
    BY <1>0, <2>3
  <2> QED BY <1>0, <2>4 DEF U
<1> QED BY <1>1, <1>7 DEF W

-----------------------------------------------------------------------------
(* The reconstruction.                                                     *)

\* Running sums of zeros and ones, the first added, the others taken away.
IsSigned(d, v, m) ==
  /\ d \in [0..m -> Int]
  /\ d[0] = 0
  /\ \A x \in 1..m : d[x] = d[x - 1] + (IF x = 1 THEN v[x] ELSE - v[x])

\* The signed sum exists.
LEMMA SignedExists ==
  ASSUME NEW m \in Nat, NEW v \in [1..m -> {0, 1}]
  PROVE  \E d : IsSigned(d, v, m)
<1> DEFINE next(k) == [x \in Int |-> IF k < m THEN x + (IF k = 0 THEN v[k + 1] ELSE - v[k + 1]) ELSE x]
           step == [k \in Nat |-> next(k)]
<1>1. \A k \in Nat : next(k) \in [Int -> Int]
  <2> TAKE k \in Nat
  <2>1. k < m => v[k + 1] \in {0, 1}
    OBVIOUS
  <2>2. k < m => v[k + 1] \in Int
    BY <2>1
  <2> QED BY <2>2
<1>2. IsRecursion(Int, 0, step)
  <2>1. 0 \in Int
    OBVIOUS
  <2> HIDE DEF next
  <2> QED BY <1>1, <2>1 DEF IsRecursion
<1>3. \A k \in Nat : step[k] = next(k)
  OBVIOUS
<1> HIDE DEF step
<1>4. PICK g : Follows(g, Int, 0, step)
  BY <1>2, Recursion
<1> DEFINE d == [x \in 0..m |-> g[x]]
<1>5. d \in [0..m -> Int] /\ d[0] = 0
  BY <1>4 DEF Follows
<1>6. ASSUME NEW x \in 1..m
      PROVE  d[x] = d[x - 1] + (IF x = 1 THEN v[x] ELSE - v[x])
  <2>1. x - 1 \in Nat /\ (x - 1) + 1 = x /\ x - 1 < m /\ x - 1 \in 0..m /\ x \in 0..m
    OBVIOUS
  <2>2. g[(x - 1) + 1] = step[x - 1][g[x - 1]] /\ g[x - 1] \in Int
    BY <1>4, <2>1 DEF Follows
  <2>3. step[x - 1] = next(x - 1)
    BY <1>3, <2>1
  <2>4. next(x - 1)[g[x - 1]] =
          g[x - 1] + (IF x - 1 = 0 THEN v[(x - 1) + 1] ELSE - v[(x - 1) + 1])
    BY <2>1, <2>2
  <2>5. (x - 1 = 0) <=> (x = 1)
    OBVIOUS
  <2> HIDE DEF next
  <2> QED BY <2>1, <2>2, <2>3, <2>4, <2>5
<1> HIDE DEF d
<1> QED BY <1>5, <1>6 DEF IsSigned

\* v is what column j of M holds in the rows of m shares.
IsColumn(v, M, ss, m, j) ==
  /\ Len(ss) = m
  /\ j \in 1..Columns(M)
  /\ v \in [1..m -> {0, 1}]
  /\ \A x \in 1..m : M[RowOf(ss[x], m)][j] = v[x]

\* What the columns of the combined row are.
\* What the combination of T shares computes in column j is the signed sum of
\* that column's entries.
LEMMA CombinedIs ==
  ASSUME NEW m \in Nat \ {0}, NEW M, NEW ss, NEW j, NEW v, IsColumn(v, M, ss, m, j),
         NEW d, IsSigned(d, v, m)
  PROVE  Combined(M, ss)[j] = d[m]
<1>0. /\ Len(ss) = m /\ j \in 1..Columns(M) /\ v \in [1..m -> {0, 1}]
      /\ \A x \in 1..m : M[RowOf(ss[x], m)][j] = v[x]
  BY DEF IsColumn
<1> DEFINE loop(f) == [x \in 0..m |->
                        IF x = 0 THEN 0
                        ELSE f[x - 1] + Lambda(m)[x] * M[RowOf(ss[x], m)][j]]
           res == CHOOSE f : f = loop(f)
<1>1. Combined(M, ss)[j] = res[m]
  BY <1>0 DEF Combined
<1>2. ASSUME NEW x \in 1..m
      PROVE  Lambda(m)[x] * M[RowOf(ss[x], m)][j] = IF x = 1 THEN v[x] ELSE - v[x]
  <2>1. Lambda(m)[x] = IF x = 1 THEN 1 ELSE -1
    BY DEF Lambda
  <2>2. v[x] = 0 \/ v[x] = 1
    BY <1>0
  <2>3. M[RowOf(ss[x], m)][j] = v[x]
    BY <1>0
  <2> QED BY <2>1, <2>2, <2>3
<1>3. d = loop(d)
  <2>1. d = [x \in 0..m |-> d[x]]
    BY DEF IsSigned
  <2>2. \A x \in 0..m : d[x] = loop(d)[x]
    <3> TAKE x \in 0..m
    <3>1. CASE x = 0
      BY <3>1 DEF IsSigned
    <3>2. CASE x # 0
      <4>1. x \in 1..m
        BY <3>2
      <4>2. loop(d)[x] = d[x - 1] + Lambda(m)[x] * M[RowOf(ss[x], m)][j]
        BY <3>2
      <4>3. d[x] = d[x - 1] + (IF x = 1 THEN v[x] ELSE - v[x])
        BY <4>1 DEF IsSigned
      <4> HIDE DEF loop
      <4> QED BY <1>2, <4>1, <4>2, <4>3
    <3> QED BY <3>1, <3>2
  <2>3. loop(d) = [x \in 0..m |-> loop(d)[x]]
    OBVIOUS
  <2> HIDE DEF loop
  <2> QED BY <2>1, <2>2, <2>3
<1>4. res = loop(res)
  <2> HIDE DEF loop
  <2> QED BY <1>3
<1> HIDE DEF res
<1>5. \A x \in 0..m : res[x] = d[x]
  <2>1. res[0] = d[0]
    BY <1>3, <1>4
  <2>2. \A x \in 1..m : res[x - 1] = d[x - 1] => res[x] = d[x]
    BY <1>3, <1>4
  <2>3. m \in Nat
    OBVIOUS
  <2> HIDE DEF loop
  <2>4. (\A x \in 1..m : res[x - 1] = d[x - 1] => res[x] = d[x]) => \A x \in 0..m : res[x] = d[x]
    BY <2>1, <2>3, Alike
  <2> QED BY <2>2, <2>4
<1>6. m \in 0..m
  OBVIOUS
<1> QED BY <1>1, <1>5, <1>6

\* What the sums say of the ones after the first.
\* What a signed sum says of its terms.
LEMMA SignedSum ==
  ASSUME NEW m \in Nat \ {0}, NEW v \in [1..m -> {0, 1}], NEW d, IsSigned(d, v, m)
  PROVE  /\ d[m] \in Int /\ d[m] <= v[1]
         /\ \A x \in 2..m : v[x] = 1 => d[m] <= v[1] - 1
         /\ (\A x \in 2..m : v[x] = 0) => d[m] = v[1]
         /\ \A x \in 2..m : v[x] = 1 /\ (\A y \in 2..m : y # x => v[y] = 0) => d[m] = v[1] - 1
<1>0. /\ d \in [0..m -> Int] /\ d[0] = 0 /\ 1 \in 1..m /\ d[1] = v[1]
      /\ \A x \in 2..m : d[x] = d[x - 1] - v[x]
      /\ \A x \in 1..m : v[x] \in {0, 1} /\ v[x] \in Int
  <2>1. 1 \in 1..m /\ d \in [0..m -> Int] /\ d[0] = 0
    BY DEF IsSigned
  <2>2. \A x \in 1..m : v[x] \in {0, 1} /\ v[x] \in Int
    <3>1. \A x \in 1..m : v[x] \in {0, 1}
      OBVIOUS
    <3> QED BY <3>1
  <2>3. d[1] = v[1]
    <3>1. d[1] = d[1 - 1] + (IF 1 = 1 THEN v[1] ELSE - v[1])
      BY <2>1 DEF IsSigned
    <3>2. v[1] \in Int
      BY <2>1, <2>2
    <3> QED BY <2>1, <3>1, <3>2
  <2>4. \A x \in 2..m : d[x] = d[x - 1] - v[x]
    <3> TAKE x \in 2..m
    <3>1. x \in 1..m /\ x # 1 /\ x - 1 \in 0..m
      OBVIOUS
    <3>2. d[x] = d[x - 1] + (- v[x])
      BY <3>1 DEF IsSigned
    <3>3. v[x] \in Int /\ d[x - 1] \in Int
      BY <2>1, <2>2, <3>1
    <3> QED BY <3>2, <3>3
  <2> QED BY <2>1, <2>2, <2>3, <2>4
<1> DEFINE Holds(x) == /\ d[x] <= v[1]
                       /\ \A y \in 2..x : v[y] = 1 => d[x] <= v[1] - 1
                       /\ (\A y \in 2..x : v[y] = 0) => d[x] = v[1]
                       /\ \A y \in 2..x : v[y] = 1 /\ (\A z \in 2..x : z # y => v[z] = 0)
                                            => d[x] = v[1] - 1
           U == {x \in Nat : x + 1 <= m => Holds(x + 1)}
<1>1. 0 \in U
  <2>1. 2..(0 + 1) = {} /\ 0 + 1 = 1
    OBVIOUS
  <2>2. d[1] <= v[1] /\ d[1] = v[1]
    BY <1>0
  <2>3. 2..1 = {}
    OBVIOUS
  <2>4. Holds(1)
    BY <2>2, <2>3
  <2> HIDE DEF Holds
  <2> QED BY <2>1, <2>4
<1>2. ASSUME NEW x \in Nat, x \in U PROVE x + 1 \in U
  <2> SUFFICES ASSUME (x + 1) + 1 <= m PROVE Holds((x + 1) + 1)
    OBVIOUS
  <2> DEFINE u == x + 1
  <2>1. /\ u \in 1..m /\ u + 1 \in 2..m /\ u + 1 \in 1..m /\ (u + 1) - 1 = u /\ u \in 0..m
        /\ \A y \in 2..(u + 1) : y \in 2..u \/ y = u + 1
        /\ \A y \in 2..u : y \in 2..(u + 1) /\ y # u + 1 /\ y \in 1..m
    OBVIOUS
  <2>2. Holds(u)
    <3> HIDE DEF Holds
    <3> QED BY <1>2, <2>1
  <2> HIDE DEF u
  <2>3. d[u + 1] = d[u] - v[u + 1] /\ v[u + 1] \in {0, 1}
    BY <1>0, <2>1
  <2>4. d[u] \in Int /\ v[1] \in Int /\ d[u + 1] \in Int
    BY <1>0, <2>1
  <2>5. d[u + 1] <= v[1]
    BY <2>2, <2>3, <2>4
  <2>6. \A y \in 2..(u + 1) : v[y] = 1 => d[u + 1] <= v[1] - 1
    <3> TAKE y \in 2..(u + 1)
    <3> HAVE v[y] = 1
    <3>1. CASE y = u + 1
      BY <2>2, <2>3, <2>4, <3>1
    <3>2. CASE y \in 2..u
      <4>1. d[u] <= v[1] - 1
        BY <2>2, <3>2
      <4> QED BY <2>3, <2>4, <4>1
    <3> QED BY <2>1, <3>1, <3>2
  <2>7. (\A y \in 2..(u + 1) : v[y] = 0) => d[u + 1] = v[1]
    <3> HAVE \A y \in 2..(u + 1) : v[y] = 0
    <3>1. v[u + 1] = 0 /\ \A y \in 2..u : v[y] = 0
      <4>1. u + 1 \in 2..(u + 1)
        BY <2>1
      <4> QED BY <2>1, <4>1
    <3>2. d[u] = v[1]
      BY <2>2, <3>1
    <3> QED BY <2>3, <2>4, <3>1, <3>2
  <2>8. \A y \in 2..(u + 1) : v[y] = 1 /\ (\A z \in 2..(u + 1) : z # y => v[z] = 0)
                                => d[u + 1] = v[1] - 1
    <3> TAKE y \in 2..(u + 1)
    <3> HAVE v[y] = 1 /\ (\A z \in 2..(u + 1) : z # y => v[z] = 0)
    <3>1. CASE y = u + 1
      <4>1. \A z \in 2..u : v[z] = 0
        BY <2>1, <3>1
      <4>2. d[u] = v[1]
        BY <2>2, <4>1
      <4> QED BY <2>3, <2>4, <3>1, <4>2
    <3>2. CASE y \in 2..u
      <4>1. \A z \in 2..u : z # y => v[z] = 0
        BY <2>1
      <4>2. d[u] = v[1] - 1
        BY <2>2, <3>2, <4>1
      <4>3. v[u + 1] = 0
        <5>1. u + 1 \in 2..(u + 1) /\ u + 1 # y
          BY <2>1, <3>2
        <5> QED BY <5>1
      <4> QED BY <2>3, <2>4, <4>2, <4>3
    <3> QED BY <2>1, <3>1, <3>2
  <2>9. Holds(u + 1)
    BY <2>5, <2>6, <2>7, <2>8
  <2> HIDE DEF Holds
  <2> QED BY <2>9 DEF u
<1> HIDE DEF U, Holds
<1>3. Nat \subseteq U
  BY <1>1, <1>2, SetInduction
<1>4. m - 1 \in U /\ (m - 1) + 1 = m /\ m <= m
  BY <1>3
<1>5. Holds(m)
  BY <1>4 DEF U
<1>6. d[m] \in Int
  BY <1>0
<1> QED BY <1>5, <1>6 DEF Holds

\* The shares of a key.
Shares(N, T) == [comb : 1..Ways(N, T), pos : 1..T]

\* A column of a random element: the one of place q of block b (from 0).
Col(b, q, T) == b * (T - 1) + q

\* The columns are the secret's and one for every block and place after the
\* first, and where they hold a 1.
LEMMA ColumnsAre ==
  ASSUME NEW W \in Nat \ {0}, NEW T \in Nat \ {0}
  PROVE  /\ 1 \in 1..(1 + W * (T - 1))
         /\ \A b \in 0..(W - 1), q \in 2..T : Col(b, q, T) \in 2..(1 + W * (T - 1))
         /\ \A j \in 2..(1 + W * (T - 1)) : \E b \in 0..(W - 1), q \in 2..T : j = Col(b, q, T)
         /\ \A p \in 1..T, b \in Nat : One(b, p, 1, T) <=> p = 1
         /\ \A a, b \in Nat, p \in 1..T, q \in 2..T :
              One(a, p, Col(b, q, T), T) <=> a = b /\ (p = 1 \/ q = T - p + 2)
<1> DEFINE v == T - 1
<1>0. v \in Nat
  OBVIOUS
<1>1. 1 \in 1..(1 + W * (T - 1))
  <2>1. W * v \in Nat
    BY <1>0
  <2> HIDE DEF v
  <2>2. 1 \in 1..(1 + W * v)
    BY <2>1
  <2> QED BY <2>2 DEF v
<1>2. ASSUME NEW b \in 0..(W - 1), NEW q \in 2..T
      PROVE  Col(b, q, T) \in 2..(1 + W * (T - 1))
  <2> DEFINE e == W - 1 - b
  <2>1. e \in Nat /\ W = b + 1 + e /\ b \in Nat
    OBVIOUS
  <2> HIDE DEF e
  <2>2. W * v = b * v + v + e * v /\ b * v \in Nat /\ e * v \in Nat
    <3> HIDE DEF v
    <3> QED BY <1>0, <2>1
  <2> DEFINE bv == b * v
             ev == e * v
             wv == W * v
  <2>3. wv = bv + v + ev /\ bv \in Nat /\ ev \in Nat /\ Col(b, q, T) = bv + q
    BY <2>2 DEF Col
  <2>4. bv + q \in 2..(1 + wv)
    <3> HIDE DEF bv, ev, wv
    <3> QED BY <2>3
  <2> QED BY <2>3, <2>4
<1>3. ASSUME NEW j \in 2..(1 + W * (T - 1))
      PROVE  \E b \in 0..(W - 1), q \in 2..T : j = Col(b, q, T)
  <2> DEFINE wv == W * v
  <2>1. wv \in Nat
    BY <1>0
  <2>2. wv >= 1
    <3>1. j \in 2..(1 + wv)
      OBVIOUS
    <3> HIDE DEF wv
    <3> QED BY <2>1, <3>1
  <2>3. v # 0
    <3> SUFFICES ASSUME v = 0 PROVE FALSE
      OBVIOUS
    <3>1. wv = 0
      <4> HIDE DEF v
      <4> QED OBVIOUS
    <3> HIDE DEF wv
    <3> QED BY <2>2, <3>1
  <2>4. j - 1 \in 1..wv
    <3>1. j \in 2..(1 + wv)
      OBVIOUS
    <3> HIDE DEF wv
    <3> QED BY <2>1, <3>1
  <2>5. \A r \in 1..(W * v) : \E b \in 0..(W - 1) : \E p \in 1..v : r = b * v + p
    <3>1. v \in Nat \ {0} /\ W \in Nat
      BY <1>0, <2>3
    <3> HIDE DEF v
    <3> QED BY <3>1, SomeBlock
  <2>6. PICK b \in 0..(W - 1) : \E p \in 1..v : j - 1 = b * v + p
    BY <2>4, <2>5
  <2>7. PICK p \in 1..v : j - 1 = b * v + p
    BY <2>6
  <2>8. p + 1 \in 2..T /\ j = Col(b, p + 1, T)
    <3> DEFINE bv == b * v
    <3>1. bv \in Nat
      BY <1>0
    <3>2. j - 1 = bv + p /\ j \in Int /\ Col(b, p + 1, T) = bv + (p + 1)
      BY <2>7 DEF Col
    <3>3. p + 1 \in 2..T
      OBVIOUS
    <3> HIDE DEF bv
    <3> QED BY <3>1, <3>2, <3>3
  <2> QED BY <2>8
<1>4. ASSUME NEW p \in 1..T, NEW b \in Nat
      PROVE  One(b, p, 1, T) <=> p = 1
  <2> DEFINE bv == b * (T - 1)
  <2>1. bv \in Nat
    <3>1. b * v \in Nat
      <4> HIDE DEF v
      <4> QED BY <1>0
    <3> QED BY <3>1
  <2>2. One(b, p, 1, T) <=> \/ p = 1
                            \/ 1 - bv \in 2..T /\ (p = 1 \/ 1 - bv = T - p + 2)
    BY DEF One
  <2> HIDE DEF bv
  <2> QED BY <2>1, <2>2
<1>5. ASSUME NEW a \in Nat, NEW b \in Nat, NEW p \in 1..T, NEW q \in 2..T
      PROVE  One(a, p, Col(b, q, T), T) <=> a = b /\ (p = 1 \/ q = T - p + 2)
  <2> DEFINE av == a * v
             bv == b * v
  <2>1. av \in Nat /\ bv \in Nat /\ v \in Nat \ {0}
    <3>1. v \in Nat \ {0}
      OBVIOUS
    <3> HIDE DEF v
    <3> QED BY <3>1
  <2>2. One(a, p, bv + q, T) <=>
          \/ bv + q = 1 /\ p = 1
          \/ (bv + q) - av \in 2..T /\ (p = 1 \/ (bv + q) - av = T - p + 2)
    BY DEF One
  <2>3. bv + q # 1
    <3> HIDE DEF bv
    <3> QED BY <2>1
  <2>4. ASSUME (bv + q) - av \in 2..T PROVE a = b /\ (bv + q) - av = q
    <3> DEFINE r == (bv + q) - av
    <3>1. r - 1 \in 1..v /\ q - 1 \in 1..v /\ av + (r - 1) = bv + (q - 1)
      <4>1. r \in 2..T /\ r = (bv + q) - av
        BY <2>4
      <4> HIDE DEF r, av, bv
      <4> QED BY <2>1, <4>1
    <3>2. a = b /\ r - 1 = q - 1
      <4> DEFINE r1 == r - 1
                 q1 == q - 1
      <4>1. r1 \in 1..v /\ q1 \in 1..v /\ a * v + r1 = b * v + q1
        BY <3>1
      <4> HIDE DEF r, av, bv, v, r1, q1
      <4>2. a = b /\ r1 = q1
        BY <2>1, <4>1, OneBlock
      <4> QED BY <4>2 DEF r1, q1
    <3>3. r \in Int
      BY <2>4
    <3> HIDE DEF r
    <3>4. r = q
      BY <3>2, <3>3
    <3> QED BY <3>2, <3>4 DEF r
  <2>5. a = b => (bv + q) - av = q
    <3>1. a = b => av = bv
      OBVIOUS
    <3> HIDE DEF av, bv
    <3> QED BY <2>1, <3>1
  <2>6. Col(b, q, T) = bv + q
    BY DEF Col
  <2>7. q \in 2..T
    OBVIOUS
  <2> HIDE DEF av, bv
  <2> QED BY <2>2, <2>3, <2>4, <2>5, <2>6, <2>7
<1> HIDE DEF v
<1> QED BY <1>1, <1>2, <1>3, <1>4, <1>5

\* What each share adds to a column, and the combined row.
Terms(ss, j, T) ==
  [x \in 1..T |-> IF One(ss[x].comb - 1, ss[x].pos, j, T) THEN 1 ELSE 0]

\* The combination of shares, column by column.
LEMMA ColumnIs ==
  ASSUME NEW N, NEW T, IsKey(N, T), NEW ss \in [1..T -> Shares(N, T)],
         NEW j \in 1..(1 + Ways(N, T) * (T - 1))
  PROVE  /\ Columns(DistributionMatrix(N, T)) = 1 + Ways(N, T) * (T - 1)
         /\ \E d : /\ IsSigned(d, Terms(ss, j, T), T)
                   /\ Combined(DistributionMatrix(N, T), ss)[j] = d[T]
<1> DEFINE W == Ways(N, T)
           M == DistributionMatrix(N, T)
           w == 1 + W * (T - 1)
           v == Terms(ss, j, T)
<1>0. T \in Nat \ {0} /\ W \in Nat \ {0} /\ T \in Nat
  <2>1. T \in Nat \ {0}
    BY DEF IsKey
  <2>2. W \in Nat /\ W >= 1
    BY Enumeration
  <2> QED BY <2>1, <2>2
<1>1. M = Rows(W, T) /\ j \in 1..w
  BY MatrixIs
<1> HIDE DEF M
<1>2. Columns(M) = w
  <2> HIDE DEF W
  <2> QED BY <1>0, <1>1, RowsShape
<1>3. Len(ss) = T
  <2>1. ss = [x \in 1..T |-> ss[x]]
    OBVIOUS
  <2> QED BY <1>0, <2>1, Length
<1>4. v \in [1..T -> {0, 1}]
  BY DEF Terms
<1>5. ASSUME NEW x \in 1..T
      PROVE  M[RowOf(ss[x], T)][j] = v[x]
  <2> DEFINE b == ss[x].comb - 1
             p == ss[x].pos
             r == b * T + p
  <2>1. ss[x] \in Shares(N, T)
    OBVIOUS
  <2>2. b \in 0..(W - 1) /\ b \in Nat /\ p \in 1..T /\ RowOf(ss[x], T) = r
    <3>1. ss[x].comb \in 1..W /\ p \in 1..T
      BY <2>1 DEF Shares
    <3>2. b \in 0..(W - 1) /\ b \in Nat
      <4> HIDE DEF W
      <4> QED BY <1>0, <3>1
    <3>3. RowOf(ss[x], T) = r
      BY DEF RowOf
    <3> QED BY <3>1, <3>2, <3>3
  <2> HIDE DEF b, p
  <2>3. r \in 1..(W * T)
    <3> DEFINE e == W - 1 - b
    <3>1. e \in Nat /\ W = b + 1 + e
      BY <1>0, <2>2
    <3> HIDE DEF e, W
    <3>2. W * T = b * T + T + e * T /\ b * T \in Nat /\ e * T \in Nat
      BY <1>0, <2>2, <3>1
    <3> DEFINE bt == b * T
               et == e * T
               wt == W * T
    <3>3. wt = bt + T + et /\ bt \in Nat /\ et \in Nat /\ r = bt + p
      BY <3>2
    <3>4. bt + p \in 1..wt
      <4> HIDE DEF bt, et, wt
      <4> QED BY <1>0, <2>2, <3>3
    <3> QED BY <3>3, <3>4
  <2> HIDE DEF r
  <2>4. M[r][j] = Full(r, j, T)
    <3> DEFINE h == W * T
    <3>1. M = [y \in 1..h |-> [k \in 1..w |-> Full(y, k, T)]]
      BY <1>1 DEF Rows
    <3>2. r \in 1..h /\ j \in 1..w
      BY <1>1, <2>3
    <3> HIDE DEF h, w
    <3> QED BY <3>1, <3>2
  <2>5. Full(r, j, T) = IF One(b, p, j, T) THEN 1 ELSE 0
    BY <1>0, <2>2, FullIs DEF r
  <2>6. v[x] = IF One(b, p, j, T) THEN 1 ELSE 0
    BY DEF Terms, b, p
  <2> QED BY <2>2, <2>4, <2>5, <2>6
<1> HIDE DEF v, w
<1>6. PICK d : IsSigned(d, v, T)
  BY <1>0, <1>4, SignedExists
<1>7. Combined(M, ss)[j] = d[T]
  <2>1. IsColumn(v, M, ss, T, j)
    BY <1>1, <1>2, <1>3, <1>4, <1>5 DEF IsColumn
  <2> QED BY <1>0, <1>6, <2>1, CombinedIs
<1> QED BY <1>2, <1>6, <1>7 DEF M, v, w, W

\* The combined row, column by column.
\* A combination is the secret when it is 1 in the secret's column and 0 in
\* all others.
LEMMA SecretColumns ==
  ASSUME NEW N, NEW T, IsKey(N, T), NEW ss \in [1..T -> Shares(N, T)]
  PROVE  IsSecret(DistributionMatrix(N, T), ss) <=>
           LET R == Combined(DistributionMatrix(N, T), ss)
           IN  /\ R[1] = 1
               /\ \A b \in 0..(Ways(N, T) - 1), q \in 2..T : R[Col(b, q, T)] = 0
<1> DEFINE W == Ways(N, T)
           M == DistributionMatrix(N, T)
           R == Combined(M, ss)
           w == 1 + W * (T - 1)
<1>0. T \in Nat \ {0} /\ W \in Nat \ {0}
  <2>1. T \in Nat \ {0}
    BY DEF IsKey
  <2>2. W \in Nat /\ W >= 1
    BY Enumeration
  <2> QED BY <2>1, <2>2
<1>1. /\ 1 \in 1..w
      /\ \A b \in 0..(W - 1), q \in 2..T : Col(b, q, T) \in 2..w
      /\ \A j \in 2..w : \E b \in 0..(W - 1), q \in 2..T : j = Col(b, q, T)
  <2> HIDE DEF W
  <2> QED BY <1>0, ColumnsAre
<1>2. Columns(M) = w
  BY <1>1, ColumnIs
<1>3. R = [j \in 1..w |-> R[j]]
  <2>1. R = [j \in 1..Columns(M) |-> R[j]]
    BY DEF Combined
  <2> HIDE DEF M, R, w
  <2> QED BY <1>2, <2>1
<1>4. IsSecret(M, ss) <=> R = [j \in 1..w |-> IF j = 1 THEN 1 ELSE 0]
  <2> HIDE DEF M, w
  <2> QED BY <1>2 DEF IsSecret
<1> HIDE DEF M, R, w, W
<1>5. IsSecret(M, ss) <=> \A j \in 1..w : R[j] = IF j = 1 THEN 1 ELSE 0
  <2> DEFINE unit == [j \in 1..w |-> IF j = 1 THEN 1 ELSE 0]
  <2>1. ASSUME \A j \in 1..w : R[j] = IF j = 1 THEN 1 ELSE 0
        PROVE  R = unit
    BY <1>3, <2>1
  <2>2. ASSUME R = unit
        PROVE  \A j \in 1..w : R[j] = IF j = 1 THEN 1 ELSE 0
    BY <2>2
  <2> HIDE DEF unit
  <2>3. IsSecret(M, ss) <=> R = unit
    BY <1>4 DEF unit
  <2> QED BY <2>1, <2>2, <2>3
<1>6. (\A j \in 1..w : R[j] = IF j = 1 THEN 1 ELSE 0) <=>
        R[1] = 1 /\ \A b \in 0..(W - 1), q \in 2..T : R[Col(b, q, T)] = 0
  <2>1. \A j \in 2..w : j \in 1..w /\ j # 1
    OBVIOUS
  <2>2. \A j \in 1..w : j = 1 \/ j \in 2..w
    OBVIOUS
  <2>3. ASSUME \A j \in 1..w : R[j] = IF j = 1 THEN 1 ELSE 0
        PROVE  R[1] = 1 /\ \A b \in 0..(W - 1), q \in 2..T : R[Col(b, q, T)] = 0
    <3>1. R[1] = 1
      BY <1>1, <2>3
    <3>2. ASSUME NEW b \in 0..(W - 1), NEW q \in 2..T PROVE R[Col(b, q, T)] = 0
      <4>1. Col(b, q, T) \in 1..w /\ Col(b, q, T) # 1
        BY <1>1, <2>1
      <4> QED BY <2>3, <4>1
    <3> QED BY <3>1, <3>2
  <2>4. ASSUME R[1] = 1, \A b \in 0..(W - 1), q \in 2..T : R[Col(b, q, T)] = 0
        PROVE  \A j \in 1..w : R[j] = IF j = 1 THEN 1 ELSE 0
    <3> TAKE j \in 1..w
    <3>1. CASE j = 1
      BY <2>4, <3>1
    <3>2. CASE j \in 2..w
      <4>1. PICK b \in 0..(W - 1), q \in 2..T : j = Col(b, q, T)
        BY <1>1, <3>2
      <4>2. R[j] = 0
        BY <2>4, <4>1
      <4> QED BY <2>1, <3>2, <4>2
    <3> QED BY <2>2, <3>1, <3>2
  <2> QED BY <2>3, <2>4
<1> QED BY <1>5, <1>6 DEF M, R, W

\* What the value of a column says of the shares it combines.
LEMMA ColumnSays ==
  ASSUME NEW N, NEW T, IsKey(N, T), NEW ss \in [1..T -> Shares(N, T)],
         NEW j \in 1..(1 + Ways(N, T) * (T - 1))
  PROVE  LET y == Combined(DistributionMatrix(N, T), ss)[j]
             v == Terms(ss, j, T)
         IN  /\ y \in Int /\ y <= v[1]
             /\ \A x \in 2..T : v[x] = 1 => y <= v[1] - 1
             /\ (\A x \in 2..T : v[x] = 0) => y = v[1]
             /\ \A x \in 2..T : v[x] = 1 /\ (\A z \in 2..T : z # x => v[z] = 0) => y = v[1] - 1
<1> DEFINE y == Combined(DistributionMatrix(N, T), ss)[j]
           v == Terms(ss, j, T)
<1>0. T \in Nat \ {0} /\ v \in [1..T -> {0, 1}]
  BY DEF IsKey, Terms
<1>1. PICK d : IsSigned(d, v, T) /\ y = d[T]
  BY ColumnIs
<1> HIDE DEF y, v
<1>2. /\ d[T] \in Int /\ d[T] <= v[1]
      /\ \A x \in 2..T : v[x] = 1 => d[T] <= v[1] - 1
      /\ (\A x \in 2..T : v[x] = 0) => d[T] = v[1]
      /\ \A x \in 2..T : v[x] = 1 /\ (\A z \in 2..T : z # x => v[z] = 0) => d[T] = v[1] - 1
  BY <1>0, <1>1, SignedSum
<1>3. /\ y \in Int /\ y <= v[1]
      /\ \A x \in 2..T : v[x] = 1 => y <= v[1] - 1
      /\ (\A x \in 2..T : v[x] = 0) => y = v[1]
      /\ \A x \in 2..T : v[x] = 1 /\ (\A z \in 2..T : z # x => v[z] = 0) => y = v[1] - 1
  BY <1>1, <1>2
<1> QED BY <1>3 DEF y, v

\* Places given to places, none twice: every place is given.
LEMMA Everywhere ==
  ASSUME NEW T \in Nat, NEW f \in [2..T -> 2..T],
         \A x, y \in 2..T : f[x] = f[y] => x = y
  PROVE  \A y \in 2..T : \E x \in 2..T : f[x] = y
<1> DEFINE S == 2..T
<1>1. IsFiniteSet(S)
  BY FS_Interval
<1>2. f \in [S -> S] /\ \A x, y \in S : f[x] = f[y] => x = y
  OBVIOUS
<1> HIDE DEF S
<1>3. f \in Injection(S, S)
  BY <1>2 DEF Injection, IsInjective
<1>4. f \in Surjection(S, S)
  BY <1>1, <1>3, FS_Injection
<1>5. \A y \in S : \E x \in S : f[x] = y
  BY <1>4 DEF Surjection
<1> QED BY <1>5 DEF S

\* T shares make the secret exactly when they are the T shares of one
\* combination, the first of them in the first place.
LEMMA SecretIs ==
  ASSUME NEW N, NEW T, IsKey(N, T), NEW ss \in [1..T -> Shares(N, T)]
  PROVE  IsSecret(DistributionMatrix(N, T), ss) <=> OneCombination(ss)
<1> DEFINE W == Ways(N, T)
           R == Combined(DistributionMatrix(N, T), ss)
           Pos(x) == ss[x].pos
           At(x) == ss[x].comb - 1
<1>0. T \in Nat \ {0} /\ W \in Nat \ {0} /\ T \in Nat
  <2>1. T \in Nat \ {0}
    BY DEF IsKey
  <2>2. W \in Nat /\ W >= 1
    BY Enumeration
  <2> QED BY <2>1, <2>2
<1>1. \A x \in 1..T : Pos(x) \in 1..T /\ At(x) \in 0..(W - 1) /\ At(x) \in Nat
                      /\ ss[x].comb \in Int
  <2> TAKE x \in 1..T
  <2>1. ss[x].comb \in 1..W /\ ss[x].pos \in 1..T
    BY DEF Shares
  <2> HIDE DEF W
  <2> QED BY <1>0, <2>1
<1>2. Len(ss) = T
  <2>1. ss = [x \in 1..T |-> ss[x]]
    OBVIOUS
  <2> QED BY <1>0, <2>1, Length
<1>3. OneCombination(ss) <=>
        /\ Pos(1) = 1
        /\ \A x, y \in 1..T : At(x) = At(y) /\ (Pos(x) = Pos(y) => x = y)
  <2>1. \A x, y \in 1..T : At(x) = At(y) <=> ss[x].comb = ss[y].comb
    BY <1>1
  <2> QED BY <1>2, <2>1 DEF OneCombination
<1>4. IsSecret(DistributionMatrix(N, T), ss) <=>
        R[1] = 1 /\ \A b \in 0..(W - 1), q \in 2..T : R[Col(b, q, T)] = 0
  BY SecretColumns
\* What the first column and the others say.
<1>5. /\ \A x \in 1..T : Terms(ss, 1, T)[x] = IF Pos(x) = 1 THEN 1 ELSE 0
      /\ R[1] \in Int /\ R[1] <= Terms(ss, 1, T)[1]
      /\ \A x \in 2..T : Terms(ss, 1, T)[x] = 1 => R[1] <= Terms(ss, 1, T)[1] - 1
      /\ (\A x \in 2..T : Terms(ss, 1, T)[x] = 0) => R[1] = Terms(ss, 1, T)[1]
  <2>1. 1 \in 1..(1 + W * (T - 1))
    <3> HIDE DEF W
    <3> QED BY <1>0, ColumnsAre
  <2>2. \A x \in 1..T : One(At(x), Pos(x), 1, T) <=> Pos(x) = 1
    <3> HIDE DEF At, Pos, W
    <3> QED BY <1>0, <1>1, ColumnsAre
  <2>3. \A x \in 1..T : Terms(ss, 1, T)[x] = IF One(At(x), Pos(x), 1, T) THEN 1 ELSE 0
    BY DEF Terms
  <2>4. /\ R[1] \in Int /\ R[1] <= Terms(ss, 1, T)[1]
        /\ \A x \in 2..T : Terms(ss, 1, T)[x] = 1 => R[1] <= Terms(ss, 1, T)[1] - 1
        /\ (\A x \in 2..T : Terms(ss, 1, T)[x] = 0) => R[1] = Terms(ss, 1, T)[1]
    BY <2>1, ColumnSays
  <2> HIDE DEF At, Pos, R
  <2> QED BY <2>2, <2>3, <2>4
<1>6. \A b \in 0..(W - 1), q \in 2..T :
        LET v == Terms(ss, Col(b, q, T), T)
            y == R[Col(b, q, T)]
        IN  /\ \A x \in 1..T : v[x] = IF At(x) = b /\ (Pos(x) = 1 \/ q = T - Pos(x) + 2)
                                        THEN 1 ELSE 0
            /\ (\A x \in 2..T : v[x] = 0) => y = v[1]
            /\ \A x \in 2..T : v[x] = 1 /\ (\A z \in 2..T : z # x => v[z] = 0) => y = v[1] - 1
  <2> TAKE b \in 0..(W - 1), q \in 2..T
  <2> DEFINE j == Col(b, q, T)
             v == Terms(ss, j, T)
             y == R[j]
  <2>0. b \in Nat
    BY <1>0
  <2>1. j \in 1..(1 + W * (T - 1))
    <3>1. j \in 2..(1 + W * (T - 1))
      <4> HIDE DEF W
      <4> QED BY <1>0, ColumnsAre
    <3> QED BY <3>1
  <2>2. \A x \in 1..T : One(At(x), Pos(x), j, T) <=> At(x) = b /\ (Pos(x) = 1 \/ q = T - Pos(x) + 2)
    <3>1. \A a \in Nat, p \in 1..T : One(a, p, j, T) <=> a = b /\ (p = 1 \/ q = T - p + 2)
      <4>1. \A a, e \in Nat, p \in 1..T, r \in 2..T :
              One(a, p, Col(e, r, T), T) <=> a = e /\ (p = 1 \/ r = T - p + 2)
        <5> HIDE DEF W
        <5> QED BY <1>0, ColumnsAre
      <4> QED BY <2>0, <4>1
    <3> HIDE DEF At, Pos, W, j
    <3> QED BY <1>1, <3>1
  <2>3. \A x \in 1..T : v[x] = IF One(At(x), Pos(x), j, T) THEN 1 ELSE 0
    BY DEF Terms
  <2>4. /\ (\A x \in 2..T : v[x] = 0) => y = v[1]
        /\ \A x \in 2..T : v[x] = 1 /\ (\A z \in 2..T : z # x => v[z] = 0) => y = v[1] - 1
    <3> HIDE DEF j
    <3> QED BY <2>1, ColumnSays
  <2>5. \A x \in 1..T : v[x] = IF At(x) = b /\ (Pos(x) = 1 \/ q = T - Pos(x) + 2) THEN 1 ELSE 0
    <3> HIDE DEF At, Pos, v, j
    <3> QED BY <2>2, <2>3
  <2> QED BY <2>4, <2>5
<1>7. 1 \in 1..T /\ \A x \in 2..T : x \in 1..T /\ x # 1
  BY <1>0
<1>8. \A x \in 1..T : x = 1 \/ x \in 2..T
  BY <1>0
<1> HIDE DEF W, R, Pos, At
<1>9. ASSUME R[1] = 1, \A b \in 0..(W - 1), q \in 2..T : R[Col(b, q, T)] = 0
      PROVE  Pos(1) = 1 /\ \A x, y \in 1..T : At(x) = At(y) /\ (Pos(x) = Pos(y) => x = y)
  <2>1. Pos(1) = 1
    BY <1>5, <1>7, <1>9
  <2>2. \A x \in 2..T : Pos(x) # 1
    <3> SUFFICES ASSUME NEW x \in 2..T, Pos(x) = 1 PROVE FALSE
      OBVIOUS
    <3>1. Terms(ss, 1, T)[x] = 1 /\ Terms(ss, 1, T)[1] = 1
      BY <1>5, <1>7, <2>1
    <3>2. R[1] <= 1 - 1
      BY <1>5, <3>1
    <3> QED BY <1>9, <3>2
  <2>3. \A p \in 2..T : \E x \in 2..T : At(x) = At(1) /\ Pos(x) = p
    <3> TAKE p \in 2..T
    <3> DEFINE b == At(1)
               q == T - p + 2
               v == Terms(ss, Col(b, q, T), T)
    <3>1. b \in 0..(W - 1) /\ q \in 2..T
      BY <1>0, <1>1, <1>7
    <3> HIDE DEF b, q
    <3>2. /\ \A x \in 1..T : v[x] = IF At(x) = b /\ (Pos(x) = 1 \/ q = T - Pos(x) + 2)
                                      THEN 1 ELSE 0
          /\ (\A x \in 2..T : v[x] = 0) => R[Col(b, q, T)] = v[1]
      BY <1>6, <3>1
    <3> HIDE DEF v
    <3>3. v[1] = 1
      BY <1>7, <2>1, <3>2 DEF b
    <3>4. R[Col(b, q, T)] = 0
      BY <1>9, <3>1
    <3>5. PICK x \in 2..T : v[x] # 0
      BY <3>2, <3>3, <3>4
    <3>6. At(x) = b /\ q = T - Pos(x) + 2
      BY <1>7, <2>2, <3>2, <3>5
    <3>7. Pos(x) = p
      <4>1. Pos(x) \in 1..T
        BY <1>1, <1>7
      <4> QED BY <1>0, <3>6, <4>1 DEF q
    <3> QED BY <3>6, <3>7 DEF b
  <2> DEFINE h == [p \in 2..T |-> CHOOSE x \in 2..T : At(x) = At(1) /\ Pos(x) = p]
  <2>4. \A p \in 2..T : h[p] \in 2..T /\ At(h[p]) = At(1) /\ Pos(h[p]) = p
    BY <2>3
  <2>5. h \in [2..T -> 2..T]
    <3>1. \A p \in 2..T : h[p] \in 2..T
      BY <2>4
    <3>2. h = [p \in 2..T |-> h[p]]
      OBVIOUS
    <3> HIDE DEF h
    <3> QED BY <3>1, <3>2
  <2> HIDE DEF h
  <2>6. \A p, q \in 2..T : h[p] = h[q] => p = q
    BY <2>4
  <2>7. \A x \in 2..T : \E p \in 2..T : h[p] = x
    BY <1>0, <2>5, <2>6, Everywhere
  <2>8. \A x \in 2..T : At(x) = At(1) /\ h[Pos(x)] = x
    <3> TAKE x \in 2..T
    <3>1. PICK p \in 2..T : h[p] = x
      BY <2>7
    <3> QED BY <2>4, <3>1
  <2>9. \A x \in 1..T : At(x) = At(1)
    BY <1>8, <2>8
  <2>10. \A x, y \in 1..T : Pos(x) = Pos(y) => x = y
    <3> TAKE x, y \in 1..T
    <3>1. CASE x = 1
      BY <1>8, <2>1, <2>2, <3>1
    <3>2. CASE y = 1
      BY <1>8, <2>1, <2>2, <3>2
    <3>3. CASE x \in 2..T /\ y \in 2..T
      BY <2>8, <3>3
    <3> QED BY <1>8, <3>1, <3>2, <3>3
  <2> QED BY <2>1, <2>9, <2>10
<1>10. ASSUME Pos(1) = 1, \A x, y \in 1..T : At(x) = At(y) /\ (Pos(x) = Pos(y) => x = y)
       PROVE  R[1] = 1 /\ \A b \in 0..(W - 1), q \in 2..T : R[Col(b, q, T)] = 0
  <2>1. \A x \in 2..T : Pos(x) # 1 /\ Pos(x) \in 2..T
    <3> TAKE x \in 2..T
    <3>1. Pos(x) # Pos(1)
      BY <1>7, <1>10
    <3>2. Pos(x) \in 1..T
      BY <1>1, <1>7
    <3> QED BY <1>0, <1>10, <3>1, <3>2
  <2>2. R[1] = 1
    BY <1>5, <1>7, <1>10, <2>1
  <2> DEFINE f == [x \in 2..T |-> Pos(x)]
  <2>3. \A p \in 2..T : \E x \in 2..T : Pos(x) = p
    <3>1. f \in [2..T -> 2..T] /\ \A x, y \in 2..T : f[x] = f[y] => x = y
      BY <1>7, <1>10, <2>1
    <3>2. \A x \in 2..T : f[x] = Pos(x)
      OBVIOUS
    <3> HIDE DEF f
    <3>3. \A p \in 2..T : \E x \in 2..T : f[x] = p
      BY <1>0, <3>1, Everywhere
    <3> QED BY <3>2, <3>3
  <2>4. ASSUME NEW b \in 0..(W - 1), NEW q \in 2..T
        PROVE  R[Col(b, q, T)] = 0
    <3> DEFINE v == Terms(ss, Col(b, q, T), T)
               y == R[Col(b, q, T)]
    <3>1. /\ \A x \in 1..T : v[x] = IF At(x) = b /\ (Pos(x) = 1 \/ q = T - Pos(x) + 2)
                                      THEN 1 ELSE 0
          /\ (\A x \in 2..T : v[x] = 0) => y = v[1]
          /\ \A x \in 2..T : v[x] = 1 /\ (\A z \in 2..T : z # x => v[z] = 0) => y = v[1] - 1
      BY <1>6
    <3> HIDE DEF v, y
    <3>2. CASE At(1) # b
      <4>1. \A x \in 1..T : v[x] = 0
        BY <1>7, <1>10, <3>1, <3>2
      <4>2. y = 0
        BY <1>7, <3>1, <4>1
      <4> QED BY <4>2 DEF y
    <3>3. CASE At(1) = b
      <4>1. T - q + 2 \in 2..T
        BY <1>0
      <4>2. PICK x \in 2..T : Pos(x) = T - q + 2
        BY <2>3, <4>1
      <4>3. v[1] = 1
        BY <1>7, <1>10, <3>1, <3>3
      <4>4. v[x] = 1
        <5>1. q = T - Pos(x) + 2
          BY <1>0, <4>2
        <5>2. At(x) = b
          BY <1>7, <1>10, <3>3
        <5> QED BY <1>7, <3>1, <5>1, <5>2
      <4>5. \A z \in 2..T : z # x => v[z] = 0
        <5> TAKE z \in 2..T
        <5> HAVE z # x
        <5>1. Pos(z) # Pos(x) /\ Pos(z) # 1 /\ Pos(z) \in 2..T
          BY <1>7, <1>10, <2>1
        <5>2. q # T - Pos(z) + 2
          BY <1>0, <4>2, <5>1
        <5> QED BY <1>7, <3>1, <5>1, <5>2
      <4>6. y = 1 - 1
        BY <3>1, <4>3, <4>4, <4>5
      <4> QED BY <4>6 DEF y
    <3> QED BY <3>2, <3>3
  <2> QED BY <2>2, <2>4
<1> QED BY <1>3, <1>4, <1>9, <1>10

-----------------------------------------------------------------------------
(* The lists of shares.                                                    *)

\* The share combination k, c, makes for party p is added to p's list.
GiveTo(s, c, k, p, T) ==
  IF \E j \in 1..T : c[j] = p
    THEN Append(s, [comb |-> k, pos |-> CHOOSE j \in 1..T : c[j] = p])
    ELSE s

IsListOf(list, p, N, T) ==
  /\ list \in [0..Ways(N, T) -> Seq(Shares(N, T))]
  /\ list[0] = <<>>
  /\ \A k \in 1..Ways(N, T) : list[k] = GiveTo(list[k - 1], Combinations(N, T)[k], k, p, T)

\* p's list after each of the combinations.
ListOf(p, N, T) == CHOOSE list : IsListOf(list, p, N, T)

\* The lists exist.
LEMMA ListsExist ==
  ASSUME NEW N, NEW T, IsKey(N, T), NEW p
  PROVE  IsListOf(ListOf(p, N, T), p, N, T)
<1> DEFINE W == Ways(N, T)
           L == Combinations(N, T)
           V == Seq(Shares(N, T))
           next(k) == [s \in V |-> IF k < W THEN GiveTo(s, L[k + 1], k + 1, p, T) ELSE s]
           step == [k \in Nat |-> next(k)]
<1>0. W \in Nat
  BY Enumeration
<1>1. ASSUME NEW k \in 1..W, NEW s \in V
      PROVE  GiveTo(s, L[k], k, p, T) \in V
  <2>1. CASE \E j \in 1..T : L[k][j] = p
    <3> DEFINE q == CHOOSE j \in 1..T : L[k][j] = p
    <3>1. q \in 1..T
      BY <2>1
    <3>2. GiveTo(s, L[k], k, p, T) = Append(s, [comb |-> k, pos |-> q])
      BY <2>1 DEF GiveTo
    <3> HIDE DEF q
    <3>3. [comb |-> k, pos |-> q] \in Shares(N, T)
      BY <3>1 DEF Shares
    <3> QED BY <3>2, <3>3
  <2>2. CASE ~ \E j \in 1..T : L[k][j] = p
    BY <2>2 DEF GiveTo
  <2> QED BY <2>1, <2>2
<1> HIDE DEF W, L
<1>2. \A k \in Nat : next(k) \in [V -> V]
  <2> TAKE k \in Nat
  <2>1. k < W => k + 1 \in 1..W
    BY <1>0
  <2>2. \A s \in V : k < W => GiveTo(s, L[k + 1], k + 1, p, T) \in V
    <3> HIDE DEF V
    <3> QED BY <1>1, <2>1
  <2> HIDE DEF V
  <2> QED BY <2>2
<1>3. IsRecursion(V, <<>>, step)
  <2>1. <<>> \in V
    OBVIOUS
  <2> HIDE DEF V, next
  <2> QED BY <1>2, <2>1 DEF IsRecursion
<1>4. \A k \in Nat : step[k] = next(k)
  OBVIOUS
<1> HIDE DEF step, V
<1>5. PICK g : Follows(g, V, <<>>, step)
  BY <1>3, Recursion
<1> DEFINE list == [k \in 0..W |-> g[k]]
<1>6. list \in [0..W -> V] /\ list[0] = <<>>
  BY <1>0, <1>5 DEF Follows
<1>7. ASSUME NEW k \in 1..W
      PROVE  list[k] = GiveTo(list[k - 1], L[k], k, p, T)
  <2>1. k - 1 \in Nat /\ (k - 1) + 1 = k /\ k - 1 < W /\ k - 1 \in 0..W /\ k \in 0..W
    BY <1>0
  <2>2. g[(k - 1) + 1] = step[k - 1][g[k - 1]] /\ g[k - 1] \in V
    BY <1>5, <2>1 DEF Follows
  <2>3. step[k - 1] = next(k - 1)
    BY <1>4, <2>1
  <2>4. next(k - 1)[g[k - 1]] = GiveTo(g[k - 1], L[(k - 1) + 1], (k - 1) + 1, p, T)
    BY <2>1, <2>2
  <2> HIDE DEF next
  <2> QED BY <2>1, <2>2, <2>3, <2>4
<1> HIDE DEF list
<1>8. IsListOf(list, p, N, T)
  BY <1>6, <1>7 DEF IsListOf, W, L, V
<1> QED BY <1>8 DEF ListOf

\* SharesOf is the list after the last combination.
LEMMA SharesOfIs ==
  ASSUME NEW N, NEW T, IsKey(N, T), NEW p
  PROVE  SharesOf(p, N, T) = ListOf(p, N, T)[Ways(N, T)]
<1> DEFINE W == Ways(N, T)
           c == Combinations(N, T)
           loop(f) == [k \in 0..W |->
                        IF k = 0 THEN <<>>
                        ELSE IF \E j \in 1..T : c[k][j] = p
                               THEN Append(f[k - 1],
                                           [comb |-> k, pos |-> CHOOSE j \in 1..T : c[k][j] = p])
                               ELSE f[k - 1]]
           res == CHOOSE f : f = loop(f)
           h == ListOf(p, N, T)
<1>0. nCr(N, T) = W /\ W \in Nat
  BY Enumeration
<1>1. SharesOf(p, N, T) = res[W]
  BY <1>0 DEF SharesOf
<1>2. /\ h \in [0..W -> Seq(Shares(N, T))] /\ h[0] = <<>>
      /\ \A k \in 1..W : h[k] = GiveTo(h[k - 1], c[k], k, p, T)
  BY ListsExist DEF IsListOf
<1> HIDE DEF h, W, c
<1>3. h = loop(h)
  <2>1. h = [k \in 0..W |-> h[k]] /\ loop(h) = [k \in 0..W |-> loop(h)[k]]
    BY <1>2
  <2>2. \A k \in 0..W : h[k] = loop(h)[k]
    <3> TAKE k \in 0..W
    <3>1. CASE k = 0
      BY <1>2, <3>1
    <3>2. CASE k # 0
      <4>1. k \in 1..W
        BY <1>0, <3>2
      <4>2. loop(h)[k] = GiveTo(h[k - 1], c[k], k, p, T)
        BY <3>2 DEF GiveTo
      <4> HIDE DEF loop
      <4> QED BY <1>2, <4>1, <4>2
    <3> QED BY <3>1, <3>2
  <2> HIDE DEF loop
  <2> QED BY <2>1, <2>2
<1>4. res = loop(res)
  <2> HIDE DEF loop
  <2> QED BY <1>3
<1> HIDE DEF res
<1>5. res[0] = h[0] /\ \A k \in 1..W : res[k - 1] = h[k - 1] => res[k] = h[k]
  <2>1. res[0] = h[0]
    BY <1>0, <1>2, <1>4
  <2>2. ASSUME NEW k \in 1..W, res[k - 1] = h[k - 1] PROVE res[k] = h[k]
    <3>1. k \in 0..W /\ k # 0
      BY <1>0
    <3>2. res[k] = GiveTo(res[k - 1], c[k], k, p, T)
      BY <1>4, <3>1 DEF GiveTo
    <3> HIDE DEF loop
    <3> QED BY <1>2, <2>2, <3>2
  <2> QED BY <2>1, <2>2
<1>6. \A k \in 0..W : res[k] = h[k]
  <2> HIDE DEF loop
  <2>1. (\A k \in 1..W : res[k - 1] = h[k - 1] => res[k] = h[k]) => \A k \in 0..W : res[k] = h[k]
    BY <1>0, <1>5, Alike
  <2> QED BY <1>5, <2>1
<1>7. W \in 0..W
  BY <1>0
<1> QED BY <1>1, <1>6, <1>7 DEF h, W

\* The first k combinations' shares for p: those of the combinations that
\* contain p, at p's place, in their order.
IsList(s, k, p, N, T) ==
  /\ s \in Seq(Shares(N, T))
  /\ \A x \in 1..Len(s) : /\ s[x].comb \in 1..k
                          /\ Combinations(N, T)[s[x].comb][s[x].pos] = p
  /\ \A x \in 1..(Len(s) - 1) : s[x].comb < s[x + 1].comb
  /\ Len(s) = Cardinality({y \in 1..k : p \in Range(Combinations(N, T)[y])})

\* One turn of the dealing keeps a list a list.
LEMMA GiveOne ==
  ASSUME NEW N, NEW T, IsKey(N, T), NEW p, NEW k \in 1..Ways(N, T),
         NEW s, IsList(s, k - 1, p, N, T)
  PROVE  IsList(GiveTo(s, Combinations(N, T)[k], k, p, T), k, p, N, T)
<1> DEFINE W == Ways(N, T)
           L == Combinations(N, T)
           c == L[k]
           Of(m) == {y \in 1..m : p \in Range(L[y])}
<1>0. W \in Nat /\ k \in Nat /\ k \in 1..W
  BY Enumeration
<1>1. \A y \in 1..W : Range(L[y]) = {L[y][j] : j \in 1..T}
  <2> TAKE y \in 1..W
  <2>1. L[y] \in [1..T -> 0..(N - 1)]
    BY Enumeration DEF IsEnumeration, Combs
  <2> QED BY <2>1 DEF Range
<1>2. p \in Range(c) <=> \E j \in 1..T : c[j] = p
  BY <1>1
<1>3. IsFiniteSet(Of(k - 1)) /\ k \notin Of(k - 1)
  <2>1. IsFiniteSet(1..(k - 1))
    BY <1>0, FS_Interval
  <2>2. Of(k - 1) \in SUBSET (1..(k - 1))
    OBVIOUS
  <2>3. IsFiniteSet(Of(k - 1))
    BY <2>1, <2>2, FS_Subset
  <2> QED BY <1>0, <2>3
<1>4. /\ s \in Seq(Shares(N, T)) /\ Len(s) = Cardinality(Of(k - 1)) /\ Len(s) \in Nat
      /\ \A x \in 1..Len(s) : s[x].comb \in 1..(k - 1) /\ L[s[x].comb][s[x].pos] = p
      /\ \A x \in 1..(Len(s) - 1) : s[x].comb < s[x + 1].comb
  BY DEF IsList
<1>5. CASE ~ \E j \in 1..T : c[j] = p
  <2>1. GiveTo(s, c, k, p, T) = s
    BY <1>5 DEF GiveTo
  <2>2. Of(k) = Of(k - 1)
    BY <1>0, <1>2, <1>5
  <2>3. \A x \in 1..Len(s) : s[x].comb \in 1..k /\ L[s[x].comb][s[x].pos] = p
    BY <1>0, <1>4
  <2>4. IsList(s, k, p, N, T)
    <3>1. Len(s) = Cardinality(Of(k))
      BY <1>4, <2>2
    <3> QED BY <1>4, <2>3, <3>1 DEF IsList
  <2> QED BY <2>1, <2>4
<1>6. CASE \E j \in 1..T : c[j] = p
  <2> DEFINE q == CHOOSE j \in 1..T : c[j] = p
             e == [comb |-> k, pos |-> q]
             r == Append(s, e)
  <2>1. q \in 1..T /\ c[q] = p
    BY <1>6
  <2>2. GiveTo(s, c, k, p, T) = r
    BY <1>6 DEF GiveTo
  <2> HIDE DEF q
  <2>3. e \in Shares(N, T) /\ e.comb = k /\ e.pos = q
    BY <1>0, <2>1 DEF Shares
  <2> HIDE DEF e
  <2>4. /\ r \in Seq(Shares(N, T)) /\ Len(r) = Len(s) + 1 /\ r[Len(s) + 1] = e
        /\ \A x \in 1..Len(s) : r[x] = s[x]
    <3> DEFINE S == Shares(N, T)
    <3>1. s \in Seq(S) /\ e \in S
      BY <1>4, <2>3
    <3> HIDE DEF S
    <3>2. /\ r \in Seq(S) /\ Len(r) = Len(s) + 1 /\ r[Len(s) + 1] = e
          /\ \A x \in 1..Len(s) : r[x] = s[x]
      BY <3>1, AppendProperties
    <3> QED BY <3>2 DEF S
  <2> HIDE DEF r
  <2>5. Cardinality(Of(k)) = Cardinality(Of(k - 1)) + 1
    <3>1. Of(k) = Of(k - 1) \cup {k}
      BY <1>0, <1>2, <1>6
    <3> HIDE DEF Of
    <3> QED BY <1>3, <3>1, FS_AddElement
  <2>6. \A x \in 1..Len(r) : r[x].comb \in 1..k /\ L[r[x].comb][r[x].pos] = p
    <3> TAKE x \in 1..Len(r)
    <3>1. CASE x = Len(s) + 1
      BY <1>0, <2>1, <2>3, <2>4, <3>1
    <3>2. CASE x # Len(s) + 1
      <4>1. x \in 1..Len(s)
        BY <1>4, <2>4, <3>2
      <4> QED BY <1>0, <1>4, <2>4, <4>1
    <3> QED BY <3>1, <3>2
  <2>7. \A x \in 1..(Len(r) - 1) : r[x].comb < r[x + 1].comb
    <3> TAKE x \in 1..(Len(r) - 1)
    <3>1. x \in 1..Len(s) /\ r[x] = s[x]
      BY <1>4, <2>4
    <3>2. CASE x = Len(s)
      <4>1. r[x + 1].comb = k
        BY <2>3, <2>4, <3>2
      <4>2. s[x].comb \in 1..(k - 1)
        BY <1>4, <3>1
      <4> QED BY <1>0, <3>1, <4>1, <4>2
    <3>3. CASE x # Len(s)
      <4>1. x \in 1..(Len(s) - 1) /\ x + 1 \in 1..Len(s)
        BY <1>4, <3>1, <3>3
      <4> QED BY <1>4, <2>4, <3>1, <4>1
    <3> QED BY <3>2, <3>3
  <2>8. Len(r) = Cardinality(Of(k))
    BY <1>4, <2>4, <2>5
  <2>9. IsList(r, k, p, N, T)
    BY <2>4, <2>6, <2>7, <2>8 DEF IsList
  <2> QED BY <2>2, <2>9
<1> QED BY <1>5, <1>6

\* The lists are sorted, and hold the shares of the combinations so far.
LEMMA ListsAre ==
  ASSUME NEW N, NEW T, IsKey(N, T), NEW p
  PROVE  \A k \in 0..Ways(N, T) : IsList(ListOf(p, N, T)[k], k, p, N, T)
<1> DEFINE W == Ways(N, T)
           h == ListOf(p, N, T)
           U == {k \in Nat : k <= W => IsList(h[k], k, p, N, T)}
<1>0. /\ W \in Nat /\ h[0] = <<>>
      /\ \A k \in 1..W : h[k] = GiveTo(h[k - 1], Combinations(N, T)[k], k, p, T)
  BY Enumeration, ListsExist DEF IsListOf
<1>1. 0 \in U
  <2>1. {y \in 1..0 : p \in Range(Combinations(N, T)[y])} = {}
    OBVIOUS
  <2>2. IsList(<<>>, 0, p, N, T)
    BY <2>1, FS_EmptySet DEF IsList
  <2> HIDE DEF h
  <2> QED BY <1>0, <2>2
<1>2. ASSUME NEW k \in Nat, k \in U PROVE k + 1 \in U
  <2> SUFFICES ASSUME k + 1 <= W PROVE IsList(h[k + 1], k + 1, p, N, T)
    OBVIOUS
  <2> HIDE DEF h
  <2> DEFINE m == k + 1
  <2>1. m \in 1..W /\ m - 1 = k /\ IsList(h[k], k, p, N, T)
    BY <1>0, <1>2
  <2> HIDE DEF m
  <2>2. IsList(h[m - 1], m - 1, p, N, T)
    BY <2>1
  <2>3. IsList(GiveTo(h[m - 1], Combinations(N, T)[m], m, p, T), m, p, N, T)
    BY <2>1, <2>2, GiveOne
  <2>4. IsList(h[m], m, p, N, T)
    BY <1>0, <2>1, <2>3
  <2> QED BY <2>4 DEF m
<1> HIDE DEF U, h
<1>3. Nat \subseteq U
  BY <1>1, <1>2, SetInduction
<1> USE DEF U
<1>4. \A k \in 0..W : IsList(h[k], k, p, N, T)
  <2> TAKE k \in 0..W
  <2>1. k \in U /\ k <= W
    BY <1>0, <1>3
  <2> QED BY <2>1
<1> QED BY <1>4 DEF h

-----------------------------------------------------------------------------
(* The first shares.                                                       *)

\* Every party holds a share.
LEMMA EveryPartyHasOne ==
  ASSUME NEW N, NEW T, IsKey(N, T), NEW p \in 0..(N - 1)
  PROVE  SharesOf(p, N, T) \in Seq(Shares(N, T)) /\ Len(SharesOf(p, N, T)) \in Nat \ {0}
<1> DEFINE W == Ways(N, T)
           L == Combinations(N, T)
           Of == {y \in 1..W : p \in Range(L[y])}
           c == [j \in 1..T |-> IF j = T /\ p >= T THEN p ELSE j - 1]
           s == SharesOf(p, N, T)
<1>0. N \in Nat /\ T \in Nat /\ T > 0 /\ T <= N /\ W \in Nat
  BY Enumeration DEF IsKey
<1>1. c \in Combs(N, T)
  BY <1>0 DEF Combs, IsCombination
<1>2. p \in Range(c)
  <2>1. Range(c) = {c[j] : j \in 1..T}
    BY DEF Range
  <2>2. CASE p >= T
    <3>1. T \in 1..T /\ c[T] = p
      BY <1>0, <2>2
    <3> QED BY <2>1, <3>1
  <2>3. CASE ~ (p >= T)
    <3>1. p + 1 \in 1..T /\ c[p + 1] = p
      BY <1>0, <2>3
    <3> HIDE DEF c
    <3> QED BY <2>1, <3>1
  <2> QED BY <2>2, <2>3
<1> HIDE DEF c
<1>3. PICK y \in 1..W : L[y] = c
  BY <1>1, Enumeration DEF IsEnumeration
<1>4. Of # {}
  BY <1>2, <1>3
<1>5. IsFiniteSet(Of)
  <2>1. IsFiniteSet(1..W)
    BY <1>0, FS_Interval
  <2>2. Of \in SUBSET (1..W)
    OBVIOUS
  <2> QED BY <2>1, <2>2, FS_Subset
<1>6. Cardinality(Of) # 0
  <2> HIDE DEF Of
  <2> QED BY <1>4, <1>5, FS_EmptySet
<1>7. IsList(s, W, p, N, T)
  <2>1. W \in 0..W
    BY <1>0
  <2> QED BY <2>1, ListsAre, SharesOfIs
<1>8. s \in Seq(Shares(N, T)) /\ Len(s) = Cardinality(Of)
  BY <1>7 DEF IsList
<1> HIDE DEF s, Of
<1>9. Len(s) \in Nat
  BY <1>8
<1> QED BY <1>6, <1>8, <1>9 DEF s

\* The first share of each of the first parties is one of the first combination.
LEMMA FirstShareIs ==
  ASSUME NEW N, NEW T, IsKey(N, T), NEW p \in 0..(T - 1)
  PROVE  SharesOf(p, N, T)[1] = [comb |-> 1, pos |-> p + 1]
<1> DEFINE W == Ways(N, T)
           L == Combinations(N, T)
           h == ListOf(p, N, T)
           e == [comb |-> 1, pos |-> p + 1]
<1>0. /\ T \in Nat /\ T > 0 /\ W \in Nat /\ W >= 1
      /\ h \in [0..W -> Seq(Shares(N, T))] /\ h[0] = <<>>
      /\ \A k \in 1..W : h[k] = GiveTo(h[k - 1], L[k], k, p, T)
  BY Enumeration, ListsExist DEF IsListOf, IsKey
<1>1. h[1] = <<e>>
  <2>1. L[1] = FirstCombination(T)
    BY Enumeration DEF IsEnumeration
  <2>2. \A j \in 1..T : L[1][j] = j - 1
    BY <2>1 DEF FirstCombination
  <2>3. p + 1 \in 1..T /\ L[1][p + 1] = p
    BY <1>0, <2>2
  <2>4. \A j \in 1..T : L[1][j] = p => j = p + 1
    BY <1>0, <2>2
  <2>5. (CHOOSE j \in 1..T : L[1][j] = p) = p + 1
    BY <2>3, <2>4
  <2>6. GiveTo(<<>>, L[1], 1, p, T) = Append(<<>>, e)
    BY <2>3, <2>5 DEF GiveTo
  <2>7. h[1] = GiveTo(h[1 - 1], L[1], 1, p, T)
    BY <1>0
  <2> HIDE DEF h, L, e
  <2>8. h[1] = Append(<<>>, e)
    BY <1>0, <2>6, <2>7
  <2> QED BY <2>8
<1> DEFINE U == {x \in Nat : x + 1 <= W => Len(h[x + 1]) >= 1 /\ h[x + 1][1] = e}
<1> HIDE DEF h, e
<1>2. 0 \in U
  BY <1>1
<1>3. ASSUME NEW x \in Nat, x \in U PROVE x + 1 \in U
  <2> DEFINE y == x + 1
  <2> SUFFICES ASSUME y + 1 <= W PROVE Len(h[y + 1]) >= 1 /\ h[y + 1][1] = e
    OBVIOUS
  <2>1. y \in 0..W /\ y + 1 \in 1..W /\ (y + 1) - 1 = y /\ Len(h[y]) >= 1 /\ h[y][1] = e
    BY <1>0, <1>3
  <2> HIDE DEF y
  <2>2. h[y] \in Seq(Shares(N, T)) /\ h[y + 1] \in Seq(Shares(N, T))
    <3>1. y + 1 \in 0..W
      BY <2>1
    <3> QED BY <1>0, <2>1, <3>1
  <2>3. h[y + 1] = GiveTo(h[y], L[y + 1], y + 1, p, T)
    BY <1>0, <2>1
  <2> DEFINE a == [comb |-> y + 1, pos |-> CHOOSE j \in 1..T : L[y + 1][j] = p]
  <2>4. h[y + 1] = h[y] \/ h[y + 1] = Append(h[y], a)
    BY <2>3 DEF GiveTo
  <2> HIDE DEF a
  <2>5. CASE h[y + 1] = h[y]
    BY <2>1, <2>5
  <2>6. CASE h[y + 1] = Append(h[y], a)
    <3> DEFINE S == Shares(N, T) \cup {a}
    <3>1. h[y] \in Seq(S) /\ a \in S
      BY <2>2
    <3> HIDE DEF S
    <3>2. Len(Append(h[y], a)) = Len(h[y]) + 1 /\ \A x1 \in 1..Len(h[y]) : Append(h[y], a)[x1] = h[y][x1]
      BY <3>1, AppendProperties
    <3>3. Len(h[y]) \in Nat
      BY <2>2
    <3> QED BY <2>1, <2>6, <3>2, <3>3
  <2> QED BY <2>4, <2>5, <2>6
<1> HIDE DEF U
<1>4. Nat \subseteq U
  BY <1>2, <1>3, SetInduction
<1> USE DEF U
<1>5. W - 1 \in U /\ (W - 1) + 1 = W
  BY <1>0, <1>4
<1>6. h[W][1] = e
  BY <1>0, <1>5
<1> QED BY <1>6, SharesOfIs DEF h, e, W

\* What the first T parties have first in their lists.
FirstOfEach(N, T) == [k \in 1..T |-> SharesOf(k - 1, N, T)[1]]

\* Whatever the number of parties and the threshold, every party is dealt a
\* share, and the first shares of the first parties, as many as the threshold,
\* give the secret back: what a network rests on that asks only those
\* (ThresholdNetwork).
THEOREM FirstSharesCombine ==
  ASSUME NEW N \in Nat, NEW T \in 1..N
  PROVE  /\ \A p \in 0..(N - 1) : Len(SharesOf(p, N, T)) \in Nat \ {0}
         /\ IsSecret(DistributionMatrix(N, T), FirstOfEach(N, T))
<1>0. IsKey(N, T) /\ T \in Nat /\ T > 0 /\ T <= N
  BY DEF IsKey
<1>1. \A p \in 0..(N - 1) : Len(SharesOf(p, N, T)) \in Nat \ {0}
  BY <1>0, EveryPartyHasOne
<1> DEFINE ss == FirstOfEach(N, T)
<1>2. \A k \in 1..T : ss[k] = [comb |-> 1, pos |-> k]
  <2> TAKE k \in 1..T
  <2>1. k - 1 \in 0..(T - 1) /\ (k - 1) + 1 = k
    BY <1>0
  <2>2. SharesOf(k - 1, N, T)[1] = [comb |-> 1, pos |-> (k - 1) + 1]
    BY <1>0, <2>1, FirstShareIs
  <2> QED BY <2>1, <2>2 DEF FirstOfEach
<1>3. ss \in [1..T -> Shares(N, T)]
  <2>1. 1 \in 1..Ways(N, T)
    BY <1>0, Enumeration
  <2>2. \A k \in 1..T : [comb |-> 1, pos |-> k] \in Shares(N, T)
    BY <2>1 DEF Shares
  <2>3. ss = [k \in 1..T |-> ss[k]]
    BY DEF FirstOfEach
  <2> HIDE DEF ss
  <2> QED BY <1>2, <2>2, <2>3
<1> HIDE DEF ss
<1>4. OneCombination(ss)
  <2>1. Len(ss) = T
    <3>1. ss = [k \in 1..T |-> ss[k]]
      BY <1>3
    <3> QED BY <1>0, <3>1, Length
  <2>2. \A k \in 1..T : ss[k].comb = 1 /\ ss[k].pos = k
    <3> TAKE k \in 1..T
    <3>1. ss[k] = [comb |-> 1, pos |-> k]
      BY <1>2
    <3> QED BY <3>1
  <2>3. 1 \in 1..T
    BY <1>0
  <2> QED BY <2>1, <2>2, <2>3 DEF OneCombination
<1>5. IsSecret(DistributionMatrix(N, T), ss)
  BY <1>0, <1>3, <1>4, SecretIs
<1> QED BY <1>1, <1>5 DEF ss

-----------------------------------------------------------------------------
(* The dealing.                                                            *)

\* What has been dealt at every turn of the loop.
DealtSoFar ==
  LET L == Combinations(n, t)
  IN  /\ IsKey(n, t)
      /\ i \in 1..(Ways(n, t) + 1)
      /\ i <= Ways(n, t) => combo = L[i]
      /\ Len(dealt) = i - 1 /\ dealt \in Seq(Combs(n, t))
      /\ \A k \in 1..(i - 1) : dealt[k] = L[k]
      /\ held = [p \in Parties |-> ListOf(p, n, t)[i - 1]]
      /\ picked = <<>> \/ picked \in [1..t -> Shares(n, t)]

\* The invariant holds at the start.
LEMMA InitDeals == Init => DealtSoFar
<1> SUFFICES ASSUME Init PROVE DealtSoFar
  OBVIOUS
<1> DEFINE W == Ways(n, t)
<1>1. IsKey(n, t)
  BY DealingAssumption DEF Init, IsKey
<1>2. W \in Nat /\ W >= 1 /\ Combinations(n, t)[1] = FirstCombination(t)
  BY <1>1, Enumeration DEF IsEnumeration
<1>3. i = 1 /\ combo = FirstCombination(t) /\ dealt = <<>> /\ picked = <<>>
      /\ held = [p \in Parties |-> <<>>]
  BY DEF Init
<1>4. held = [p \in Parties |-> ListOf(p, n, t)[i - 1]]
  <2>1. \A p \in Parties : ListOf(p, n, t)[i - 1] = <<>>
    BY <1>1, <1>3, ListsExist DEF IsListOf
  <2> QED BY <1>3, <2>1
<1>5. i \in 1..(W + 1) /\ Len(dealt) = i - 1 /\ dealt \in Seq(Combs(n, t))
      /\ 1..(i - 1) = {}
  <2> HIDE DEF W
  <2> QED BY <1>2, <1>3
<1> QED BY <1>1, <1>2, <1>3, <1>4, <1>5 DEF DealtSoFar

\* The shares that were dealt are shares of the key.
LEMMA HeldAreShares ==
  ASSUME DealtSoFar
  PROVE  Held \subseteq Shares(n, t)
<1> SUFFICES ASSUME NEW p \in Parties, NEW k \in 1..Len(held[p])
             PROVE  held[p][k] \in Shares(n, t)
  BY DEF Held
<1>1. i - 1 \in 0..Ways(n, t) /\ IsKey(n, t)
  <2>1. Ways(n, t) \in Nat
    BY Enumeration DEF DealtSoFar
  <2> QED BY <2>1 DEF DealtSoFar
<1>2. held[p] = ListOf(p, n, t)[i - 1]
  BY DEF DealtSoFar
<1>3. held[p] \in Seq(Shares(n, t))
  <2>1. ListOf(p, n, t) \in [0..Ways(n, t) -> Seq(Shares(n, t))]
    BY <1>1, ListsExist DEF IsListOf
  <2> QED BY <1>1, <1>2, <2>1
<1> QED BY <1>3

\* Every step keeps the invariant.
LEMMA StepDeals == DealtSoFar /\ [Next]_vars => DealtSoFar'
<1> SUFFICES ASSUME DealtSoFar, [Next]_vars PROVE DealtSoFar'
  OBVIOUS
<1> DEFINE W == Ways(n, t)
           L == Combinations(n, t)
<1>0. /\ IsKey(n, t) /\ i \in 1..(W + 1) /\ (i <= W => combo = L[i])
      /\ Len(dealt) = i - 1 /\ dealt \in Seq(Combs(n, t))
      /\ \A k \in 1..(i - 1) : dealt[k] = L[k]
      /\ held = [p \in Parties |-> ListOf(p, n, t)[i - 1]]
      /\ (picked = <<>> \/ picked \in [1..t -> Shares(n, t)])
  BY DEF DealtSoFar
<1>a. nCr(n, t) = W /\ W \in Nat /\ W >= 1 /\ IsEnumeration(L, n, t)
  BY <1>0, Enumeration
<1>1. CASE DealCombination
  <2>1. /\ i <= W /\ i \in 1..W /\ held' = Give /\ dealt' = Append(dealt, combo)
        /\ combo' = NextCombination(combo, n, t) /\ i' = i + 1
        /\ n' = n /\ t' = t /\ picked' = picked
    BY <1>0, <1>1, <1>a DEF DealCombination, Done
  <2>2. combo = L[i] /\ L[i] \in Combs(n, t)
    BY <1>0, <1>a, <2>1 DEF IsEnumeration
  <2> HIDE DEF W, L
  <2>3. i' \in 1..(W + 1)
    BY <1>a, <2>1
  <2>4. i' <= W => combo' = L[i']
    <3> HAVE i' <= W
    <3>1. i \in 1..(W - 1)
      BY <1>a, <2>1
    <3>2. L[i + 1] = NextCombination(L[i], n, t)
      BY <1>a, <3>1 DEF IsEnumeration, W
    <3> QED BY <2>1, <2>2, <3>2
  <2>5. Len(dealt') = i' - 1 /\ dealt' \in Seq(Combs(n, t)) /\ \A k \in 1..(i' - 1) : dealt'[k] = L[k]
    <3> DEFINE S == Combs(n, t)
    <3>1. dealt \in Seq(S) /\ combo \in S
      BY <1>0, <2>2
    <3> HIDE DEF S
    <3>2. /\ dealt' \in Seq(S) /\ Len(dealt') = Len(dealt) + 1
          /\ dealt'[Len(dealt) + 1] = combo
          /\ \A k \in 1..Len(dealt) : dealt'[k] = dealt[k]
      BY <2>1, <3>1, AppendProperties
    <3>3. Len(dealt') = i' - 1
      BY <1>0, <2>1, <3>2
    <3>4. \A k \in 1..(i' - 1) : dealt'[k] = L[k]
      <4> TAKE k \in 1..(i' - 1)
      <4>1. CASE k = i
        BY <1>0, <2>1, <2>2, <3>2, <4>1
      <4>2. CASE k # i
        <5>1. k \in 1..(i - 1) /\ k \in 1..Len(dealt)
          BY <1>0, <2>1, <4>2
        <5> QED BY <1>0, <3>2, <5>1
      <4> QED BY <4>1, <4>2
    <3> QED BY <3>2, <3>3, <3>4 DEF S
  <2>6. held' = [p \in Parties |-> ListOf(p, n, t)[i' - 1]]
    <3>1. \A p \in Parties : Give[p] = GiveTo(held[p], L[i], i, p, t)
      BY <2>2 DEF Give, GiveTo
    <3>2. \A p \in Parties : ListOf(p, n, t)[i] = GiveTo(ListOf(p, n, t)[i - 1], L[i], i, p, t)
      BY <1>0, <2>1, ListsExist DEF IsListOf, W, L
    <3>3. \A p \in Parties : Give[p] = ListOf(p, n, t)[i]
      BY <1>0, <3>1, <3>2
    <3>4. Give = [p \in Parties |-> Give[p]]
      BY DEF Give
    <3>5. i' - 1 = i
      BY <2>1
    <3> QED BY <2>1, <3>3, <3>4, <3>5
  <2>7. Parties' = Parties
    BY <2>1 DEF Parties
  <2> QED BY <1>0, <2>1, <2>3, <2>4, <2>5, <2>6, <2>7 DEF DealtSoFar, W, L
<1>2. CASE Combine
  <2>1. picked' \in [1..t -> Held] /\ UNCHANGED <<n, t, i, combo, held, dealt>>
    BY <1>2 DEF Combine
  <2>2. picked' \in [1..t -> Shares(n, t)]
    BY <2>1, HeldAreShares
  <2> QED BY <1>0, <2>1, <2>2 DEF DealtSoFar, Parties
<1>3. CASE OnlyDealt \/ UNCHANGED vars
  BY <1>0, <1>3 DEF OnlyDealt, vars, DealtSoFar, Parties
<1> QED BY <1>1, <1>2, <1>3 DEF Next

THEOREM Dealing == Spec => []DealtSoFar
<1> QED BY InitDeals, StepDeals, PTL DEF Spec

\* What the invariant says of the counter and of the enumeration.
LEMMA DealtFacts ==
  ASSUME DealtSoFar
  PROVE  /\ IsKey(n, t) /\ t \in Nat /\ n \in Nat /\ i \in Nat /\ i >= 1 /\ i - 1 <= Ways(n, t)
         /\ Ways(n, t) \in Nat /\ (Done <=> i - 1 = Ways(n, t))
         /\ IsEnumeration(Combinations(n, t), n, t)
         /\ Len(dealt) = i - 1
         /\ \A k \in 1..(i - 1) : dealt[k] = Combinations(n, t)[k]
<1>1. IsKey(n, t) /\ i \in 1..(Ways(n, t) + 1) /\ Len(dealt) = i - 1
      /\ \A k \in 1..(i - 1) : dealt[k] = Combinations(n, t)[k]
  BY DEF DealtSoFar
<1>2. nCr(n, t) = Ways(n, t) /\ Ways(n, t) \in Nat /\ IsEnumeration(Combinations(n, t), n, t)
  BY <1>1, Enumeration
<1>3. t \in Nat /\ n \in Nat
  BY <1>1 DEF IsKey
<1> QED BY <1>1, <1>2, <1>3 DEF Done

\* keygen's loop visits every combination, each once and in lexicographic
\* order, and ends having visited all of them, whatever the number of parties
\* and the threshold.
THEOREM EveryCombinationOnce == Spec => []EnumeratesAll
<1>1. DealtSoFar => EnumeratesAll
  <2> SUFFICES ASSUME DealtSoFar PROVE EnumeratesAll
    OBVIOUS
  <2> DEFINE W == Ways(n, t)
             L == Combinations(n, t)
  <2>0. /\ IsKey(n, t) /\ t \in Nat /\ n \in Nat /\ i \in Nat /\ i >= 1 /\ i - 1 <= W /\ W \in Nat
        /\ (Done <=> i - 1 = W) /\ IsEnumeration(L, n, t) /\ Len(dealt) = i - 1
        /\ \A k \in 1..(i - 1) : dealt[k] = L[k]
    BY DealtFacts
  <2>1. \A k \in 1..(W - 1) : Earlier(L[k], L[k + 1], t)
    BY <2>0 DEF IsEnumeration
  <2>2. {Range(L[k]) : k \in 1..W} = kSubset(t, Parties)
    BY <2>0, EverySetOnce DEF Parties
  <2> HIDE DEF W, L
  <2>3. ASSUME NEW k \in 1..(Len(dealt) - 1) PROVE Before(dealt[k], dealt[k + 1])
    <3>1. k \in 1..(W - 1) /\ k \in 1..(i - 1) /\ k + 1 \in 1..(i - 1)
      BY <2>0
    <3>2. Earlier(dealt[k], dealt[k + 1], t)
      BY <2>0, <2>1, <3>1
    <3> QED BY <3>2 DEF Earlier, Before
  <2>4. ASSUME Done PROVE {Range(dealt[k]) : k \in 1..Len(dealt)} = kSubset(t, Parties)
    <3>1. Len(dealt) = W /\ \A k \in 1..W : dealt[k] = L[k]
      BY <2>0, <2>4
    <3>2. {Range(dealt[k]) : k \in 1..W} = {Range(L[k]) : k \in 1..W}
      BY <3>1
    <3> QED BY <2>2, <3>1, <3>2
  <2> QED BY <2>3, <2>4 DEF EnumeratesAll
<1> QED BY <1>1, Dealing, PTL

\* The client's rank of a combination is the dealer's number of it: the two
\* programs that count combinations, one in keygen's loop and the other by
\* binomial coefficients, agree for every key.
THEOREM RanksAgree == Spec => []RankIsPlace
<1>1. DealtSoFar => RankIsPlace
  <2> SUFFICES ASSUME DealtSoFar, NEW k \in 1..Len(dealt)
               PROVE  CombinationSequenceNumber(n, t, [j \in 1..t |-> dealt[k][j] + 1]) = k
    BY DEF RankIsPlace
  <2> DEFINE L == Combinations(n, t)
  <2>0. /\ i - 1 <= Ways(n, t) /\ Ways(n, t) \in Nat /\ i \in Nat /\ IsEnumeration(L, n, t)
        /\ Len(dealt) = i - 1 /\ \A m \in 1..(i - 1) : dealt[m] = L[m]
    BY DealtFacts
  <2>1. k \in 1..Ways(n, t) /\ dealt[k] = L[k]
    BY <2>0
  <2>2. Rank(L[k], n, t) = k
    BY <2>0, <2>1 DEF IsEnumeration
  <2> QED BY <2>1, <2>2 DEF Rank
<1> QED BY <1>1, Dealing, PTL

\* A party's list holds the shares of the combinations that contain it, and
\* only those, in their order, at every turn of the loop; and at its end it is
\* the list the network's model is built on.
THEOREM ListsStaySorted == Spec => []ListsSorted
<1>1. DealtSoFar => ListsSorted
  <2> SUFFICES ASSUME DealtSoFar PROVE ListsSorted
    OBVIOUS
  <2> DEFINE W == Ways(n, t)
             L == Combinations(n, t)
  <2>0. /\ IsKey(n, t) /\ t \in Nat /\ n \in Nat /\ i \in Nat /\ i >= 1 /\ i - 1 <= W /\ W \in Nat
        /\ (Done <=> i - 1 = W) /\ Len(dealt) = i - 1
        /\ \A k \in 1..(i - 1) : dealt[k] = L[k]
    BY DealtFacts
  <2>1. held = [p \in Parties |-> ListOf(p, n, t)[i - 1]]
    BY DEF DealtSoFar
  <2>2. ASSUME Done PROVE held = [p \in Parties |-> SharesOf(p, n, t)]
    <3>1. \A p \in Parties : SharesOf(p, n, t) = ListOf(p, n, t)[i - 1]
      BY <2>0, <2>2, SharesOfIs
    <3> QED BY <2>1, <3>1
  <2>3. ASSUME NEW p \in Parties
        PROVE  /\ \A k \in 1..(Len(held[p]) - 1) : held[p][k].comb < held[p][k + 1].comb
               /\ \A k \in 1..Len(held[p]) : dealt[held[p][k].comb][held[p][k].pos] = p
               /\ Len(held[p]) = Cardinality({k \in 1..Len(dealt) : p \in Range(dealt[k])})
    <3> DEFINE s == held[p]
    <3>1. IsList(s, i - 1, p, n, t)
      <4>1. i - 1 \in 0..W
        BY <2>0
      <4>2. s = ListOf(p, n, t)[i - 1]
        BY <2>1
      <4> QED BY <2>0, <4>1, <4>2, ListsAre
    <3> HIDE DEF s
    <3>2. \A k \in 1..(Len(s) - 1) : s[k].comb < s[k + 1].comb
      BY <3>1 DEF IsList
    <3>3. \A k \in 1..Len(s) : dealt[s[k].comb][s[k].pos] = p
      BY <2>0, <3>1 DEF IsList
    <3>4. {k \in 1..(i - 1) : p \in Range(dealt[k])} = {k \in 1..(i - 1) : p \in Range(L[k])}
      BY <2>0
    <3>5. Len(s) = Cardinality({k \in 1..Len(dealt) : p \in Range(dealt[k])})
      BY <2>0, <3>1, <3>4 DEF IsList
    <3> QED BY <3>2, <3>3, <3>5 DEF s
  <2> QED BY <2>2, <2>3 DEF ListsSorted
<1> QED BY <1>1, Dealing, PTL

\* Partial decryptions give the secret back exactly when they are made with
\* the shares of one combination and its first party's is the one in front,
\* for every key and every choice of shares.
THEOREM SecretExactly == Spec => []CombinesExactly
<1>1. DealtSoFar => CombinesExactly
  <2> SUFFICES ASSUME DealtSoFar, picked # <<>>
               PROVE  IsSecret(DistributionMatrix(n, t), picked) <=> OneCombination(picked)
    BY DEF CombinesExactly
  <2>1. IsKey(n, t) /\ picked \in [1..t -> Shares(n, t)]
    BY DEF DealtSoFar
  <2> QED BY <2>1, SecretIs
<1> QED BY <1>1, Dealing, PTL
=============================================================================
