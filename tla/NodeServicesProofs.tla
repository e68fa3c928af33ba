--------------------------- MODULE NodeServicesProofs ---------------------------
(***************************************************************************)
(* Proofs about requests and responses: what the layers write they read    *)
(* back, whatever the data is; a tensor of any shape and of numbers of any *)
(* size comes back as it was encoded; and so the invariants of             *)
(* NodeServices hold for every set of callers and calls.                   *)
(***************************************************************************)
EXTENDS NodeServices, FiniteSetTheorems, SequenceTheorems, WellFoundedInduction, TLAPS

-----------------------------------------------------------------------------
(* Induction, and functions defined by recursion.                          *)

\* Induction over the natural numbers, for a set of them.
LEMMA SetInduction ==
  ASSUME NEW S, 0 \in S, \A k \in Nat : k \in S => k + 1 \in S
  PROVE  Nat \subseteq S
<1> DEFINE U == Nat \ S
<1>1. SUFFICES ASSUME U # {} PROVE FALSE
  OBVIOUS
<1> DEFINE R == OpToRel(<, Nat)
<1>2. U \subseteq Nat
  OBVIOUS
<1>3. \E x \in U : \A y \in U : ~ (<<y, x>> \in R)
  <2> HIDE DEF U
  <2>1. IsWellFoundedOn(R, Nat)
    BY NatLessThanWellFounded
  <2> HIDE DEF R
  <2>2. QED
    BY <1>1, <1>2, <2>1, WFMin
<1>4. PICK x \in U : \A y \in U : ~ (<<y, x>> \in R)
  BY <1>3
<1>5. \A y \in U : ~(y < x)
  BY <1>4 DEF OpToRel
<1>6. x \in Nat /\ x # 0 /\ x \notin S
  BY <1>4
<1>7. x - 1 \in Nat /\ x = (x - 1) + 1 /\ x - 1 < x
  BY <1>6
<1>8. x - 1 \in U
  BY <1>6, <1>7
<1> QED
  BY <1>5, <1>7, <1>8

\* A first value and a way from each to the next, and the sequence they make.
IsRecursion(V, b, s) == b \in V /\ s \in [Nat -> [V -> V]]
Follows(g, V, b, s) ==
  g \in [Nat -> V] /\ g[0] = b /\ \A k \in Nat : g[k + 1] = s[k][g[k]]

\* The sequence exists.
LEMMA Recursion ==
  ASSUME NEW V, NEW b, NEW s, IsRecursion(V, b, s)
  PROVE  \E g : Follows(g, V, b, s)
<1>0. b \in V /\ s \in [Nat -> [V -> V]]
  BY DEF IsRecursion
<1> DEFINE Upto(m, f) ==
             /\ f \in [0..m -> V] /\ f[0] = b
             /\ \A k \in 0..(m - 1) : f[k + 1] = s[k][f[k]]
<1> DEFINE U == {m \in Nat : \E f \in [0..m -> V] : Upto(m, f)}
<1>1. 0 \in U
  <2> DEFINE f == [k \in 0..0 |-> b]
  <2>1. Upto(0, f)
    BY <1>0
  <2> QED BY <2>1
<1>2. ASSUME NEW m \in Nat, m \in U PROVE m + 1 \in U
  <2>1. PICK f \in [0..m -> V] : Upto(m, f)
    BY <1>2
  <2> DEFINE h == [k \in 0..(m + 1) |-> IF k = m + 1 THEN s[m][f[m]] ELSE f[k]]
  <2>2. s[m][f[m]] \in V
    BY <1>0
  <2>3. h \in [0..(m + 1) -> V]
    BY <2>2
  <2>4. h[0] = b
    BY <2>1
  <2>5. \A k \in 0..((m + 1) - 1) : h[k + 1] = s[k][h[k]]
    <3> TAKE k \in 0..((m + 1) - 1)
    <3>1. CASE k = m
      BY <3>1
    <3>2. CASE k # m
      <4>1. k \in 0..(m - 1) /\ k + 1 \in 0..(m + 1) /\ k + 1 # m + 1 /\ k # m + 1
        BY <3>2
      <4> QED BY <2>1, <4>1
    <3> QED BY <3>1, <3>2
  <2>6. Upto(m + 1, h)
    BY <2>3, <2>4, <2>5
  <2>7. h \in [0..(m + 1) -> V]
    BY <2>3
  <2> HIDE DEF h, Upto
  <2> QED BY <2>6, <2>7
<1>3. Nat \subseteq U
  <2> HIDE DEF U
  <2> QED BY <1>1, <1>2, SetInduction
<1>4. ASSUME NEW m \in Nat, NEW f, NEW l \in Nat, NEW h, Upto(m, f), Upto(l, h)
      PROVE  \A k \in Nat : k <= m /\ k <= l => f[k] = h[k]
  <2> DEFINE Eq == {k \in Nat : k <= m /\ k <= l => f[k] = h[k]}
  <2>1. 0 \in Eq
    BY <1>4
  <2>2. ASSUME NEW k \in Nat, k \in Eq PROVE k + 1 \in Eq
    <3> SUFFICES ASSUME k + 1 <= m, k + 1 <= l PROVE f[k + 1] = h[k + 1]
      OBVIOUS
    <3>1. k \in 0..(m - 1) /\ k \in 0..(l - 1) /\ f[k] = h[k]
      BY <2>2
    <3> QED BY <1>4, <3>1
  <2> HIDE DEF Eq
  <2>3. Nat \subseteq Eq
    BY <2>1, <2>2, SetInduction
  <2> QED BY <2>3 DEF Eq
<1> DEFINE F(m) == CHOOSE f \in [0..m -> V] : Upto(m, f)
<1>5. \A m \in Nat : F(m) \in [0..m -> V] /\ Upto(m, F(m))
  BY <1>3
<1> DEFINE g == [m \in Nat |-> F(m)[m]]
<1>6. g \in [Nat -> V]
  <2> SUFFICES ASSUME NEW m \in Nat PROVE F(m)[m] \in V
    OBVIOUS
  <2> HIDE DEF F, Upto
  <2>1. F(m) \in [0..m -> V] /\ m \in 0..m
    BY <1>5
  <2> QED BY <2>1
<1>7. g[0] = b
  <2> HIDE DEF F
  <2> QED BY <1>5
<1>8. \A k \in Nat : g[k + 1] = s[k][g[k]]
  <2> TAKE k \in Nat
  <2> HIDE DEF F, Upto
  <2>1. Upto(k + 1, F(k + 1)) /\ Upto(k, F(k))
    BY <1>5
  <2> USE DEF Upto
  <2> HIDE DEF F
  <2>2. F(k + 1)[k] = F(k)[k]
    <3>1. k + 1 \in Nat /\ k <= k + 1 /\ k <= k
      OBVIOUS
    <3> HIDE DEF Upto
    <3> QED BY <1>4, <2>1, <3>1
  <2>3. F(k + 1)[k + 1] = s[k][F(k + 1)[k]]
    BY <2>1
  <2> QED BY <2>2, <2>3
<1> HIDE DEF g
<1> QED BY <1>6, <1>7, <1>8 DEF Follows

\* Two sequences that go on alike are alike.
GoAlike(f, h, m) ==
  f[0] = h[0] /\ \A k \in 1..m : f[k - 1] = h[k - 1] => f[k] = h[k]

LEMMA Alike ==
  ASSUME NEW m \in Nat, NEW f, NEW h, GoAlike(f, h, m)
  PROVE  \A k \in 0..m : f[k] = h[k]
<1> USE DEF GoAlike
<1> DEFINE U == {k \in Nat : k <= m => f[k] = h[k]}
<1>1. 0 \in U
  OBVIOUS
<1>2. ASSUME NEW k \in Nat, k \in U PROVE k + 1 \in U
  <2> SUFFICES ASSUME k + 1 <= m PROVE f[k + 1] = h[k + 1]
    OBVIOUS
  <2>1. k + 1 \in 1..m /\ (k + 1) - 1 = k /\ f[k] = h[k]
    BY <1>2
  <2>2. f[(k + 1) - 1] = h[(k + 1) - 1] => f[k + 1] = h[k + 1]
    BY <2>1
  <2> QED BY <2>1, <2>2
<1> HIDE DEF U
<1>3. Nat \subseteq U
  BY <1>1, <1>2, SetInduction
<1> QED BY <1>3 DEF U

-----------------------------------------------------------------------------
(* Sequences.                                                              *)

\* Where each of n parts that follow each other begins.
Places(p, len, n) ==
  /\ p \in [0..n -> Nat] /\ p[0] = 0
  /\ \A i \in 1..n : p[i] = p[i - 1] + len[i]

\* There are such places.
LEMMA PlacesExist ==
  ASSUME NEW n \in Nat, NEW len \in [1..n -> Nat]
  PROVE  \E p : Places(p, len, n)
<1> DEFINE next(k) == [x \in Nat |-> IF k < n THEN x + len[k + 1] ELSE x]
           step == [k \in Nat |-> next(k)]
<1>1. \A k \in Nat : next(k) \in [Nat -> Nat]
  <2> TAKE k \in Nat
  <2>1. k < n => k + 1 \in 1..n
    OBVIOUS
  <2> QED BY <2>1
<1>2. IsRecursion(Nat, 0, step)
  BY <1>1 DEF IsRecursion
<1>3. \A k \in Nat : step[k] = next(k)
  OBVIOUS
<1> HIDE DEF step
<1>4. PICK g : Follows(g, Nat, 0, step)
  BY <1>2, Recursion
<1> DEFINE p == [j \in 0..n |-> g[j]]
<1>5. p \in [0..n -> Nat] /\ p[0] = 0
  <2> HIDE DEF next
  <2>1. g \in [Nat -> Nat] /\ g[0] = 0
    BY <1>4 DEF Follows
  <2> QED BY <2>1
<1>6. ASSUME NEW j \in 1..n PROVE p[j] = p[j - 1] + len[j]
  <2>1. j - 1 \in Nat /\ (j - 1) + 1 = j /\ j - 1 < n /\ j - 1 \in 0..n /\ j \in 0..n
    OBVIOUS
  <2>2. g[(j - 1) + 1] = step[j - 1][g[j - 1]] /\ g[j - 1] \in Nat
    BY <1>4, <2>1 DEF Follows
  <2>3. step[j - 1] = next(j - 1)
    BY <1>3, <2>1
  <2>4. next(j - 1)[g[j - 1]] = g[j - 1] + len[(j - 1) + 1]
    BY <2>1, <2>2
  <2> HIDE DEF next
  <2> QED BY <2>1, <2>2, <2>3, <2>4
<1> QED BY <1>5, <1>6 DEF Places

\* A part begins behind the parts before it.
LEMMA PlacesGrow ==
  ASSUME NEW n \in Nat, NEW len, NEW p, Places(p, len, n),
         \A i \in 1..n : len[i] \in Nat
  PROVE  \A j \in 0..n : \A i \in 0..j : p[i] <= p[j]
<1>1. p \in [0..n -> Nat] /\ \A i \in 1..n : p[i] = p[i - 1] + len[i]
  BY DEF Places
<1> DEFINE U == {m \in Nat : m <= n => \A i \in 0..m : p[i] <= p[m]}
<1>2. 0 \in U
  BY <1>1
<1>3. ASSUME NEW m \in Nat, m \in U PROVE m + 1 \in U
  <2> SUFFICES ASSUME m + 1 <= n, NEW i \in 0..(m + 1) PROVE p[i] <= p[m + 1]
    OBVIOUS
  <2>1. m + 1 \in 1..n /\ (m + 1) - 1 = m /\ m \in 0..n /\ i \in 0..n /\ m + 1 \in 0..n
    OBVIOUS
  <2>2. p[m + 1] = p[m] + len[m + 1] /\ len[m + 1] \in Nat /\ p[m] \in Nat /\ p[i] \in Nat
    BY <1>1, <2>1
  <2>3. i \in 0..m => p[i] <= p[m]
    BY <1>3, <2>1
  <2>4. i \in 0..m \/ i = m + 1
    OBVIOUS
  <2> QED BY <2>2, <2>3, <2>4
<1> HIDE DEF U
<1>4. Nat \subseteq U
  BY <1>2, <1>3, SetInduction
<1> QED BY <1>4 DEF U

\* Parts one behind the other: part i begins behind place p[i - 1].
IsFlat(flat, s, p, n, C) ==
  /\ flat \in Seq(C) /\ Len(flat) = p[n]
  /\ \A i \in 1..n : \A k \in 1..Len(s[i]) : flat[p[i - 1] + k] = s[i][k]

LEMMA OnePartMore ==
  ASSUME NEW C, NEW n \in Nat, NEW s \in [1..(n + 1) -> Seq(C)], NEW p,
         Places(p, [i \in 1..(n + 1) |-> Len(s[i])], n + 1),
         NEW flat, IsFlat(flat, s, p, n, C)
  PROVE  IsFlat(flat \o s[n + 1], s, p, n + 1, C)
<1> DEFINE part == s[n + 1]
           flat2 == flat \o part
<1>1. part \in Seq(C) /\ flat \in Seq(C) /\ Len(flat) = p[n]
  BY DEF IsFlat
<1>2. /\ p \in [0..(n + 1) -> Nat]
      /\ \A i \in 1..(n + 1) : p[i] = p[i - 1] + Len(s[i])
  BY DEF Places
<1> HIDE DEF part
<1>3. /\ flat2 \in Seq(C) /\ Len(flat2) = p[n] + Len(part)
      /\ \A j \in 1..(p[n] + Len(part)) :
            flat2[j] = IF j <= p[n] THEN flat[j] ELSE part[j - p[n]]
  <2>1. /\ flat2 \in Seq(C) /\ Len(flat2) = Len(flat) + Len(part)
        /\ \A j \in 1..(Len(flat) + Len(part)) :
              flat2[j] = IF j <= Len(flat) THEN flat[j] ELSE part[j - Len(flat)]
    BY <1>1, ConcatProperties
  <2> HIDE DEF flat2
  <2> QED BY <1>1, <2>1
<1> HIDE DEF flat2
<1>4. p[n + 1] = p[n] + Len(part) /\ p[n] \in Nat
  BY <1>2 DEF part
<1>5. \A i \in 0..n : p[i] <= p[n]
  <2>1. n + 1 \in Nat /\ n \in 0..(n + 1)
    OBVIOUS
  <2>2. \A i \in 1..(n + 1) : [j \in 1..(n + 1) |-> Len(s[j])][i] \in Nat
    OBVIOUS
  <2>3. \A j \in 0..(n + 1) : \A i \in 0..j : p[i] <= p[j]
    BY <2>1, <2>2, PlacesGrow
  <2> QED BY <2>1, <2>3
<1>6. ASSUME NEW i \in 1..(n + 1), NEW k \in 1..Len(s[i])
      PROVE  flat2[p[i - 1] + k] = s[i][k]
  <2>1. CASE i = n + 1
    <3>1. s[i] = part /\ p[i - 1] = p[n]
      BY <2>1 DEF part
    <3>2. p[n] + k \in 1..(p[n] + Len(part)) /\ ~ (p[n] + k <= p[n]) /\ (p[n] + k) - p[n] = k
      BY SMTT(30), <1>1, <1>4, <3>1
    <3> QED BY <1>3, <3>1, <3>2
  <2>2. CASE i # n + 1
    <3>1. i \in 1..n /\ p[i] = p[i - 1] + Len(s[i]) /\ p[i - 1] \in Nat /\ Len(s[i]) \in Nat
      BY <1>2, <2>2
    <3>2. flat[p[i - 1] + k] = s[i][k]
      BY <3>1 DEF IsFlat
    <3>3. i \in 0..n /\ p[i] <= p[n] /\ Len(part) \in Nat /\ p[i] \in Nat
      BY <1>1, <1>2, <1>5, <3>1
    <3>4. p[i - 1] + k \in 1..(p[n] + Len(part)) /\ p[i - 1] + k <= p[n]
      <4>1. k \in 1..Len(s[i]) /\ k \in Nat /\ k <= Len(s[i]) /\ k >= 1
        BY <3>1
      <4>2. p[i - 1] + k <= p[i]
        BY <3>1, <4>1
      <4>3. p[i - 1] + k <= p[n] /\ p[i - 1] + k \in Nat /\ p[i - 1] + k >= 1
        <5>1. \A a, b, c \in Nat : a <= b /\ b <= c => a <= c
          OBVIOUS
        <5>2. p[i - 1] + k \in Nat /\ p[i - 1] + k >= 1
          BY SMTT(30), <3>1, <4>1
        <5> QED BY <1>4, <3>3, <4>2, <5>1, <5>2
      <4>4. \A x, y, z \in Nat : x >= 1 /\ x <= y => x \in 1..(y + z)
        OBVIOUS
      <4> QED BY <1>4, <3>3, <4>3, <4>4
    <3> QED BY <1>3, <3>2, <3>4
  <2> QED BY <2>1, <2>2
<1>7. IsFlat(flat2, s, p, n + 1, C)
  BY <1>3, <1>4, <1>6 DEF IsFlat
<1> QED BY <1>7 DEF flat2, part

\* Two sequences, one behind the other.
LEMMA Joined ==
  ASSUME NEW C, NEW a \in Seq(C), NEW b \in Seq(C)
  PROVE  /\ Len(a) \in Nat /\ Len(b) \in Nat
         /\ a \o b \in Seq(C) /\ Len(a \o b) = Len(a) + Len(b)
         /\ \A i \in 1..Len(a) : (a \o b)[i] = a[i]
         /\ \A i \in 1..Len(b) : (a \o b)[Len(a) + i] = b[i]
<1> DEFINE ab == a \o b
<1>1. /\ ab \in Seq(C) /\ Len(ab) = Len(a) + Len(b)
      /\ \A i \in 1..(Len(a) + Len(b)) :
            ab[i] = IF i <= Len(a) THEN a[i] ELSE b[i - Len(a)]
  BY ConcatProperties
<1>2. Len(a) \in Nat /\ Len(b) \in Nat
  OBVIOUS
<1> HIDE DEF ab
<1>3. ASSUME NEW i \in 1..Len(a) PROVE ab[i] = a[i]
  BY <1>1, <1>2
<1>4. ASSUME NEW i \in 1..Len(b) PROVE ab[Len(a) + i] = b[i]
  <2>1. Len(a) + i \in 1..(Len(a) + Len(b)) /\ ~ (Len(a) + i <= Len(a)) /\ (Len(a) + i) - Len(a) = i
    BY <1>2
  <2> QED BY <1>1, <2>1
<1> QED BY <1>1, <1>2, <1>3, <1>4 DEF ab


\* What the records of values and messages are told by.
Fields ==
  {"at", "fields", "told", "by", "type", "arity", "shape", "roster"}

\* The outcomes that are no value differ from each other, and are none of the
\* records and sequences that stand for values and messages: in the program an
\* exception, a crash or a connection that ends is none of these either.
Apart ==
  /\ Throws \notin {Misread, Dies, Nothing, Lost}
  /\ Misread \notin {Dies, Nothing, Lost}
  /\ Dies \notin {Nothing, Lost} /\ Nothing # Lost
  /\ \A mark \in {Throws, Misread, Dies, Nothing, Lost} :
       DOMAIN mark \cap (Fields \cup {1}) = {}

LEMMA MarksAreNoData ==
  ASSUME Apart, NEW m \in {Throws, Misread, Dies, Nothing, Lost}
  PROVE  /\ \A x : "at" \in DOMAIN x => x # m
         /\ \A x : "fields" \in DOMAIN x => x # m
         /\ \A x : "told" \in DOMAIN x => x # m
         /\ \A x : "by" \in DOMAIN x => x # m
         /\ \A x : "type" \in DOMAIN x => x # m
         /\ \A x : "arity" \in DOMAIN x => x # m
         /\ \A x : "shape" \in DOMAIN x => x # m
         /\ \A x : "roster" \in DOMAIN x => x # m
         /\ \A x : 1 \in DOMAIN x => x # m
<1>1. DOMAIN m \cap (Fields \cup {1}) = {}
  BY DEF Apart
<1>2. ASSUME NEW x, NEW k \in Fields \cup {1}, k \in DOMAIN x PROVE x # m
  BY <1>1, <1>2
<1>3. /\ "at" \in Fields /\ "fields" \in Fields /\ "told" \in Fields /\ "by" \in Fields
      /\ "type" \in Fields /\ "arity" \in Fields /\ "shape" \in Fields /\ "roster" \in Fields
  BY DEF Fields
<1> QED BY <1>2, <1>3

\* FlattenSeq puts the parts one behind the other.
LEMMA Flattened ==
  ASSUME NEW C, NEW n \in Nat, NEW s \in [1..n -> Seq(C)], NEW p,
         Places(p, [i \in 1..n |-> Len(s[i])], n)
  PROVE  IsFlat(FlattenSeq(s), s, p, n, C)
<1>0. s \in Seq(Seq(C)) /\ Len(s) = n
  OBVIOUS
<1>1. p \in [0..n -> Nat] /\ p[0] = 0 /\ \A i \in 1..n : p[i] = p[i - 1] + Len(s[i])
  BY DEF Places
<1>2. CASE n = 0
  <2>1. s = <<>> /\ FlattenSeq(s) = s
    BY <1>0, <1>2 DEF FlattenSeq
  <2>2. <<>> \in Seq(C) /\ Len(<<>>) = 0
    OBVIOUS
  <2> QED BY <1>1, <1>2, <2>1, <2>2 DEF IsFlat
<1>3. CASE n # 0
  <2> DEFINE V == Seq(C)
             loop(f) == [i \in 1..n |-> IF i = 1 THEN s[i] ELSE f[i - 1] \o s[i]]
             next(k) == [x \in V |-> IF k + 2 <= n THEN x \o s[k + 2] ELSE x]
             step == [k \in Nat |-> next(k)]
             res == CHOOSE f : f = loop(f)
  <2>1. \A k \in Nat : next(k) \in [V -> V]
    <3> TAKE k \in Nat
    <3>1. k + 2 <= n => s[k + 2] \in V
      OBVIOUS
    <3>2. ASSUME NEW x \in V, NEW y \in V PROVE x \o y \in V
      OBVIOUS
    <3> HIDE DEF V
    <3> QED BY <3>1, <3>2
  <2>2. IsRecursion(V, s[1], step)
    <3>1. s[1] \in V
      BY <1>3
    <3> HIDE DEF V, next
    <3> QED BY <2>1, <3>1 DEF IsRecursion
  <2>3. \A k \in Nat : step[k] = next(k)
    OBVIOUS
  <2> HIDE DEF step
  <2>4. PICK g : Follows(g, V, s[1], step)
    BY <2>2, Recursion
  <2> DEFINE h == [i \in 1..n |-> g[i - 1]]
  <2>5. h = loop(h)
    <3>1. ASSUME NEW i \in 1..n PROVE h[i] = IF i = 1 THEN s[i] ELSE h[i - 1] \o s[i]
      <4>1. CASE i = 1
        BY <2>4, <4>1 DEF Follows
      <4>2. CASE i # 1
        <5>1. i - 2 \in Nat /\ (i - 2) + 1 = i - 1 /\ (i - 2) + 2 = i /\ i - 1 \in 1..n
              /\ (i - 1) - 1 = i - 2
          BY <4>2
        <5>2. g[(i - 2) + 1] = step[i - 2][g[i - 2]] /\ g[i - 2] \in V
          <6> HIDE DEF V
          <6> QED BY <2>4, <5>1 DEF Follows
        <5>3. step[i - 2] = next(i - 2)
          BY <2>3, <5>1
        <5> HIDE DEF V
        <5>4. next(i - 2)[g[i - 2]] = g[i - 2] \o s[i]
          <6>1. i - 2 \in Nat /\ (i - 2) + 2 = i /\ i <= n
            BY <5>1
          <6>2. g[i - 2] \in V
            BY <5>2
          <6>3. next(i - 2)[g[i - 2]] = IF (i - 2) + 2 <= n
                                          THEN g[i - 2] \o s[(i - 2) + 2] ELSE g[i - 2]
            BY <6>2
          <6> HIDE DEF next
          <6> QED BY <6>1, <6>3
        <5> HIDE DEF next
        <5>5. h[i] = g[i - 1] /\ h[i - 1] = g[i - 2]
          BY <5>1
        <5> QED BY <4>2, <5>1, <5>2, <5>3, <5>4, <5>5
      <4> QED BY <4>1, <4>2
    <3>2. h = [i \in 1..n |-> h[i]]
      OBVIOUS
    <3> HIDE DEF h
    <3> QED BY <3>1, <3>2
  <2>6. res = loop(res)
    <3> HIDE DEF loop, h
    <3> QED BY <2>5
  <2>7. FlattenSeq(s) = res[n]
    BY <1>0, <1>3 DEF FlattenSeq
  <2> HIDE DEF res
  <2>8. /\ res[1] = s[1]
        /\ \A i \in 1..n : i # 1 => res[i] = res[i - 1] \o s[i]
    <3>1. \A i \in 1..n : loop(res)[i] = IF i = 1 THEN s[i] ELSE res[i - 1] \o s[i]
      OBVIOUS
    <3> HIDE DEF loop
    <3>2. \A i \in 1..n : res[i] = IF i = 1 THEN s[i] ELSE res[i - 1] \o s[i]
      BY <2>6, <3>1
    <3>3. 1 \in 1..n
      BY <1>3
    <3> QED BY <3>2, <3>3
  <2> HIDE DEF loop
  <2> DEFINE U == {k \in Nat : k + 1 <= n => IsFlat(res[k + 1], s, p, k + 1, C)}
  <2>9. 0 \in U
    <3>1. s[1] \in Seq(C) /\ p[1] = p[0] + Len(s[1]) /\ p[0] = 0
      BY <1>1, <1>3
    <3>2. Len(s[1]) \in Nat /\ \A i \in 1..1 : i = 1
      BY <3>1
    <3>3. \A k \in 1..Len(s[1]) : 0 + k = k
      OBVIOUS
    <3>4. IsFlat(s[1], s, p, 1, C)
      <4>1. Len(s[1]) = p[1]
        BY <3>1, <3>2
      <4>2. ASSUME NEW i \in 1..1, NEW k \in 1..Len(s[i]) PROVE s[1][p[i - 1] + k] = s[i][k]
        BY <3>1, <3>2, <3>3
      <4> QED BY <3>1, <4>1, <4>2 DEF IsFlat
    <3> QED BY <2>8, <3>4
  <2>10. ASSUME NEW k \in Nat, k \in U PROVE k + 1 \in U
    <3> SUFFICES ASSUME (k + 1) + 1 <= n PROVE IsFlat(res[(k + 1) + 1], s, p, (k + 1) + 1, C)
      OBVIOUS
    <3> DEFINE m == k + 1
               t == [i \in 1..(m + 1) |-> s[i]]
    <3>1. m \in Nat /\ m + 1 \in 1..n /\ m + 1 # 1 /\ (m + 1) - 1 = m /\ m <= n
      OBVIOUS
    <3>2. IsFlat(res[m], s, p, m, C)
      BY <2>10, <3>1
    <3>3. res[m + 1] = res[m] \o s[m + 1]
      BY <2>8, <3>1
    <3> HIDE DEF m
    <3>4. t \in [1..(m + 1) -> Seq(C)] /\ \A i \in 1..(m + 1) : t[i] = s[i]
      BY <3>1
    <3> HIDE DEF t
    <3> DEFINE q == [i \in 0..(m + 1) |-> p[i]]
               lens == [i \in 1..(m + 1) |-> Len(t[i])]
    <3>5. Places(q, lens, m + 1)
      <4>1. q \in [0..(m + 1) -> Nat] /\ q[0] = 0
        <5>1. 0 \in 0..(m + 1) /\ \A i \in 0..(m + 1) : i \in 0..n
          BY <3>1
        <5>2. \A i \in 0..(m + 1) : p[i] \in Nat
          BY <1>1, <5>1
        <5> QED BY <1>1, <5>1, <5>2
      <4>2. ASSUME NEW i \in 1..(m + 1) PROVE q[i] = q[i - 1] + lens[i]
        <5>1. i \in 1..n /\ i - 1 \in 0..(m + 1) /\ i \in 0..(m + 1)
          BY <3>1
        <5> QED BY <1>1, <3>4, <5>1
      <4> QED BY <4>1, <4>2 DEF Places
    <3>6. \A i \in 0..(m + 1) : q[i] = p[i]
      OBVIOUS
    <3> HIDE DEF q
    <3>7. IsFlat(res[m], t, q, m, C)
      <4>1. res[m] \in Seq(C) /\ Len(res[m]) = p[m] /\ q[m] = p[m]
        BY <3>1, <3>2, <3>6 DEF IsFlat
      <4>2. ASSUME NEW i \in 1..m, NEW j \in 1..Len(t[i]) PROVE res[m][q[i - 1] + j] = t[i][j]
        <5>1. i \in 1..(m + 1) /\ i - 1 \in 0..(m + 1)
          BY <3>1
        <5> QED BY <3>2, <3>4, <3>6, <5>1 DEF IsFlat
      <4> QED BY <4>1, <4>2 DEF IsFlat
    <3>8. IsFlat(res[m] \o t[m + 1], t, q, m + 1, C)
      BY <3>1, <3>4, <3>5, <3>7, OnePartMore
    <3>9. m + 1 \in 1..(m + 1) /\ m + 1 \in 0..(m + 1)
      BY <3>1
    <3>10. IsFlat(res[m + 1], s, p, m + 1, C)
      <4>1. IsFlat(res[m + 1], t, q, m + 1, C)
        BY <3>3, <3>4, <3>8, <3>9
      <4>2. res[m + 1] \in Seq(C) /\ Len(res[m + 1]) = p[m + 1]
        BY <3>6, <3>9, <4>1 DEF IsFlat
      <4>3. ASSUME NEW i \in 1..(m + 1), NEW j \in 1..Len(s[i])
            PROVE  res[m + 1][p[i - 1] + j] = s[i][j]
        <5>1. i - 1 \in 0..(m + 1)
          BY <3>1
        <5>2. q[i - 1] = p[i - 1]
          BY <3>6, <5>1
        <5>3. t[i] = s[i]
          BY <3>4
        <5>4. \A k2 \in 1..Len(t[i]) : res[m + 1][q[i - 1] + k2] = t[i][k2]
          BY <4>1 DEF IsFlat
        <5> HIDE DEF q
        <5> QED BY <5>2, <5>3, <5>4
      <4> QED BY <4>2, <4>3 DEF IsFlat
    <3> QED BY <3>10 DEF m
  <2> HIDE DEF U
  <2>11. Nat \subseteq U
    BY <2>9, <2>10, SetInduction
  <2>12. n - 1 \in U /\ (n - 1) + 1 = n
    BY <1>3, <2>11
  <2>13. IsFlat(res[n], s, p, n, C)
    BY <2>12 DEF U
  <2> QED BY <2>7, <2>13
<1> QED BY <1>2, <1>3

-----------------------------------------------------------------------------
(* Numbers.                                                                *)

LEMMA AbsIsNat ==
  ASSUME NEW x \in Int
  PROVE  Abs(x) \in Nat /\ (x > 0 => Abs(x) = x) /\ (~ x > 0 => x = - Abs(x))
BY DEF Abs

\* The bits of the numbers up to M.
IsBits(f, M) ==
  /\ f \in [0..M -> Nat] /\ f[0] = 0
  /\ \A m \in 1..M : f[m] = f[m \div 2] + 1

LEMMA BitsExist ==
  ASSUME NEW M \in Nat
  PROVE  \E f : IsBits(f, M)
<1> DEFINE U == {m \in Nat : \E f \in [0..m -> Nat] : IsBits(f, m)}
<1>1. 0 \in U
  <2> DEFINE f == [m \in 0..0 |-> 0]
  <2>1. f \in [0..0 -> Nat] /\ IsBits(f, 0)
    BY DEF IsBits
  <2> QED BY <2>1
<1>2. ASSUME NEW m \in Nat, m \in U PROVE m + 1 \in U
  <2>1. PICK f \in [0..m -> Nat] : IsBits(f, m)
    BY <1>2
  <2> DEFINE h == [k \in 0..(m + 1) |-> IF k = m + 1 THEN f[(m + 1) \div 2] + 1 ELSE f[k]]
  <2>2. (m + 1) \div 2 \in 0..m
    OBVIOUS
  <2>3. h \in [0..(m + 1) -> Nat]
    <3>1. \A k \in 0..(m + 1) : k # m + 1 => k \in 0..m
      OBVIOUS
    <3> QED BY <2>2, <3>1
  <2>4. h[0] = 0
    BY <2>1 DEF IsBits
  <2>5. ASSUME NEW k \in 1..(m + 1) PROVE h[k] = h[k \div 2] + 1
    <3>1. k \div 2 \in 0..m /\ k \div 2 # m + 1 /\ k \in 0..(m + 1) /\ k \div 2 \in 0..(m + 1)
      OBVIOUS
    <3>2. h[k \div 2] = f[k \div 2]
      BY <3>1
    <3>3. CASE k = m + 1
      BY <3>2, <3>3
    <3>4. CASE k # m + 1
      <4>1. k \in 1..m
        BY <3>4
      <4> QED BY <2>1, <3>1, <3>2, <3>4, <4>1 DEF IsBits
    <3> QED BY <3>3, <3>4
  <2>6. IsBits(h, m + 1)
    BY <2>3, <2>4, <2>5 DEF IsBits
  <2> HIDE DEF h
  <2> QED BY <2>3, <2>6
<1> HIDE DEF U
<1>3. Nat \subseteq U
  BY <1>1, <1>2, SetInduction
<1> QED BY <1>3 DEF U

\* Seven or fewer bits take a byte, and every further byte takes eight.
LEMMA EightBits ==
  ASSUME NEW M \in Nat, NEW f, IsBits(f, M), NEW m \in 0..M
  PROVE  /\ f[m] \in Nat /\ m \div 256 \in 0..M
         /\ m < 128 => m \div 256 = 0
         /\ m >= 128 => f[m] = f[m \div 256] + 8
<1>1. f[m] \in Nat /\ m \div 256 \in 0..M
  BY DEF IsBits
<1>2. ASSUME m >= 128 PROVE f[m] = f[m \div 256] + 8
  <2>1. /\ m \div 2 \in 1..M /\ (m \div 2) \div 2 = m \div 4
        /\ m \div 4 \in 1..M /\ (m \div 4) \div 2 = m \div 8
        /\ m \div 8 \in 1..M /\ (m \div 8) \div 2 = m \div 16
        /\ m \div 16 \in 1..M /\ (m \div 16) \div 2 = m \div 32
    BY <1>2
  <2>2. /\ m \div 32 \in 1..M /\ (m \div 32) \div 2 = m \div 64
        /\ m \div 64 \in 1..M /\ (m \div 64) \div 2 = m \div 128
        /\ m \div 128 \in 1..M /\ (m \div 128) \div 2 = m \div 256
        /\ m \in 1..M
    BY <1>2
  <2>3. ASSUME NEW k \in 1..M, NEW d, k \div 2 = d PROVE f[k] = f[d] + 1
    BY <2>3 DEF IsBits
  <2>4. /\ f[m] = f[m \div 2] + 1
        /\ f[m \div 2] = f[m \div 4] + 1
        /\ f[m \div 4] = f[m \div 8] + 1
        /\ f[m \div 8] = f[m \div 16] + 1
    <3>1. f[m] = f[m \div 2] + 1
      BY <2>2, <2>3
    <3>2. f[m \div 2] = f[m \div 4] + 1
      BY <2>1, <2>3
    <3>3. f[m \div 4] = f[m \div 8] + 1
      BY <2>1, <2>3
    <3>4. f[m \div 8] = f[m \div 16] + 1
      BY <2>1, <2>3
    <3> QED BY <3>1, <3>2, <3>3, <3>4
  <2>5. /\ f[m \div 16] = f[m \div 32] + 1
        /\ f[m \div 32] = f[m \div 64] + 1
        /\ f[m \div 64] = f[m \div 128] + 1
        /\ f[m \div 128] = f[m \div 256] + 1
    <3>1. f[m \div 16] = f[m \div 32] + 1
      BY <2>1, <2>3
    <3>2. f[m \div 32] = f[m \div 64] + 1
      BY <2>2, <2>3
    <3>3. f[m \div 64] = f[m \div 128] + 1
      BY <2>2, <2>3
    <3>4. f[m \div 128] = f[m \div 256] + 1
      BY <2>2, <2>3
    <3> QED BY <3>1, <3>2, <3>3, <3>4
  <2>6. f[m \div 256] \in Nat
    BY <1>1 DEF IsBits
  <2> QED BY <2>4, <2>5, <2>6
<1> QED BY <1>1, <1>2

\* ByteSize counts the bits as IsBits does.
LEMMA ByteSizeIs ==
  ASSUME NEW x \in Int
  PROVE  \E f : IsBits(f, Abs(x)) /\ ByteSize(x) = f[Abs(x)] \div 8 + 1
<1> DEFINE M == Abs(x)
           loop(f) == [m \in 0..M |-> IF m = 0 THEN 0 ELSE f[m \div 2] + 1]
           res == CHOOSE f : f = loop(f)
<1>1. M \in Nat
  BY AbsIsNat
<1>2. Bits(x) = IF x = 0 THEN 1 ELSE res[M]
  BY DEF Bits
<1>3. x = 0 => M = 0
  BY DEF Abs
<1> HIDE DEF M
<1>4. PICK h : IsBits(h, M)
  BY <1>1, BitsExist
<1>5. h = loop(h)
  <2>1. ASSUME NEW m \in 0..M PROVE h[m] = IF m = 0 THEN 0 ELSE h[m \div 2] + 1
    BY <1>4 DEF IsBits
  <2>2. h = [m \in 0..M |-> h[m]]
    BY <1>4 DEF IsBits
  <2> QED BY <2>1, <2>2
<1>6. res = loop(res)
  <2> HIDE DEF loop
  <2> QED BY <1>5
<1> HIDE DEF res
<1>7. res = [m \in 0..M |-> res[m]] /\ \A m \in 0..M : res[m] = IF m = 0 THEN 0 ELSE res[m \div 2] + 1
  BY <1>6
<1> HIDE DEF loop
<1> DEFINE U == {m \in Nat : \A k \in 0..m : k <= M => res[k] = h[k]}
<1>8. 0 \in U
  <2>1. 0 \in 0..M /\ h[0] = 0
    BY <1>1, <1>4 DEF IsBits
  <2> QED BY <1>7, <2>1
<1>9. ASSUME NEW m \in Nat, m \in U PROVE m + 1 \in U
  <2> SUFFICES ASSUME NEW k \in 0..(m + 1), k <= M PROVE res[k] = h[k]
    OBVIOUS
  <2>1. CASE k <= m
    BY <1>9, <2>1
  <2>2. CASE k = m + 1
    <3>1. k \in 1..M /\ k \in 0..M /\ k # 0 /\ k \div 2 \in 0..m /\ k \div 2 <= M
      BY <1>1, <2>2
    <3>2. res[k \div 2] = h[k \div 2]
      BY <1>9, <3>1
    <3>3. h[k] = h[k \div 2] + 1
      BY <1>4, <3>1 DEF IsBits
    <3> QED BY <1>7, <3>1, <3>2, <3>3
  <2> QED BY <2>1, <2>2
<1> HIDE DEF U
<1>10. Nat \subseteq U
  BY <1>8, <1>9, SetInduction
<1>11. M \in U
  BY <1>1, <1>10
<1>12. res[M] = h[M]
  <2>1. \A k \in 0..M : k <= M => res[k] = h[k]
    BY <1>11 DEF U
  <2> QED BY <1>1, <2>1
<1>13. h[0] = 0 /\ h[M] \in Nat
  BY <1>1, <1>4 DEF IsBits
<1>14. Bits(x) \div 8 + 1 = h[M] \div 8 + 1
  <2>1. CASE x = 0
    <3>1. Bits(x) = 1 /\ h[M] = 0
      BY <1>2, <1>3, <1>13, <2>1
    <3> QED BY <3>1
  <2>2. CASE x # 0
    BY <1>2, <1>12, <2>2
  <2> QED BY <2>1, <2>2
<1> QED BY <1>4, <1>14 DEF ByteSize, M

\* A number shifted by so many bytes.
IsShifted(q, x) ==
  q \in [Nat -> Nat] /\ q[0] = Abs(x) /\ \A k \in Nat : q[k + 1] = q[k] \div 256

LEMMA ShiftedIs ==
  ASSUME NEW x \in Int
  PROVE  \E q : IsShifted(q, x) /\ \A i \in Nat : Shifted(x, i) = q[i]
<1> DEFINE next(k) == [y \in Nat |-> y \div 256]
           step == [k \in Nat |-> next(k)]
           M == Abs(x)
<1>1. M \in Nat
  BY AbsIsNat
<1> HIDE DEF M
<1>2. \A k \in Nat : next(k) \in [Nat -> Nat]
  <2>1. \A y \in Nat : y \div 256 \in Nat
    OBVIOUS
  <2> QED BY <2>1
<1>3. IsRecursion(Nat, M, step)
  BY <1>1, <1>2 DEF IsRecursion
<1>4. \A k \in Nat : step[k] = next(k)
  OBVIOUS
<1> HIDE DEF step
<1>5. PICK q : Follows(q, Nat, M, step)
  BY <1>3, Recursion
<1>6. q \in [Nat -> Nat] /\ q[0] = M /\ \A k \in Nat : q[k + 1] = q[k] \div 256
  <2>1. q \in [Nat -> Nat] /\ q[0] = M /\ \A k \in Nat : q[k + 1] = step[k][q[k]]
    BY <1>5 DEF Follows
  <2>2. \A k \in Nat : next(k)[q[k]] = q[k] \div 256
    BY <2>1
  <2> HIDE DEF next
  <2>3. ASSUME NEW k \in Nat PROVE q[k + 1] = q[k] \div 256
    <3>1. step[k] = next(k) /\ q[k + 1] = step[k][q[k]] /\ next(k)[q[k]] = q[k] \div 256
      BY <1>4, <2>1, <2>2
    <3> QED BY <3>1
  <2> QED BY <2>1, <2>3
<1>7. ASSUME NEW i \in Nat PROVE Shifted(x, i) = q[i]
  <2> DEFINE loop(f) == [k \in 0..i |-> IF k = 0 THEN M ELSE f[k - 1] \div 256]
             res == CHOOSE f : f = loop(f)
             h == [k \in 0..i |-> q[k]]
  <2>1. Shifted(x, i) = res[i]
    BY DEF Shifted, M
  <2>2. h = loop(h)
    <3>1. ASSUME NEW k \in 0..i PROVE h[k] = IF k = 0 THEN M ELSE h[k - 1] \div 256
      <4>1. CASE k = 0
        BY <1>6, <4>1
      <4>2. CASE k # 0
        <5>1. k - 1 \in Nat /\ (k - 1) + 1 = k /\ k - 1 \in 0..i
          BY <4>2
        <5>2. q[(k - 1) + 1] = q[k - 1] \div 256
          BY <1>6, <5>1
        <5> QED BY <4>2, <5>1, <5>2
      <4> QED BY <4>1, <4>2
    <3> QED BY <3>1
  <2>3. res = loop(res)
    <3> HIDE DEF loop, h
    <3> QED BY <2>2
  <2> HIDE DEF res
  <2>4. res[0] = q[0]
    BY <1>6, <2>3
  <2>5. ASSUME NEW k \in 1..i, res[k - 1] = q[k - 1] PROVE res[k] = q[k]
    <3>1. k - 1 \in Nat /\ (k - 1) + 1 = k /\ k \in 0..i /\ k # 0
      OBVIOUS
    <3>2. q[(k - 1) + 1] = q[k - 1] \div 256
      BY <1>6, <3>1
    <3>3. res[k] = res[k - 1] \div 256
      BY <2>3, <3>1
    <3> QED BY <2>5, <3>1, <3>2, <3>3
  <2> HIDE DEF loop
  <2>6. \A k \in 0..i : res[k] = q[k]
    BY <2>4, <2>5, Alike DEF GoAlike
  <2> QED BY <2>1, <2>6
<1>8. IsShifted(q, x)
  BY <1>6 DEF IsShifted, M
<1> QED BY <1>7, <1>8

\* Nothing is left of a number behind the bytes it is given.
LEMMA NothingLeft ==
  ASSUME NEW x \in Int, NEW q, IsShifted(q, x)
  PROVE  ByteSize(x) \in Nat \ {0} /\ q[ByteSize(x)] = 0
<1> DEFINE M == Abs(x)
           n == ByteSize(x)
<1>1. PICK f : IsBits(f, M) /\ n = f[M] \div 8 + 1
  BY ByteSizeIs
<1>2. M \in Nat
  BY AbsIsNat
<1>3. f[M] \in Nat
  BY <1>1, <1>2 DEF IsBits
<1>4. n \in Nat \ {0}
  BY <1>1, <1>3
<1>5. q \in [Nat -> Nat] /\ q[0] = M /\ \A k \in Nat : q[k + 1] = q[k] \div 256
  BY DEF IsShifted
<1> HIDE DEF M, n
<1> DEFINE U == {k \in Nat : /\ q[k] \in 0..M
                             /\ (q[k] = 0 /\ k > 0) \/ f[q[k]] \div 8 + 1 = n - k}
<1>6. 0 \in U
  BY <1>1, <1>2, <1>3, <1>4, <1>5
<1>7. ASSUME NEW k \in Nat, k \in U PROVE k + 1 \in U
  <2>1. q[k] \in 0..M /\ q[k + 1] = q[k] \div 256
    BY <1>5, <1>7
  <2>2. /\ f[q[k]] \in Nat /\ q[k] \div 256 \in 0..M
        /\ q[k] < 128 => q[k] \div 256 = 0
        /\ q[k] >= 128 => f[q[k]] = f[q[k] \div 256] + 8
    BY <1>1, <1>2, <2>1, EightBits
  <2>3. CASE q[k] < 128
    BY <2>1, <2>2, <2>3
  <2>4. CASE q[k] >= 128
    <3>1. f[q[k]] \div 8 + 1 = n - k
      BY <1>7, <2>4
    <3>2. f[q[k + 1]] \in Nat
      BY <1>1, <2>1, <2>2 DEF IsBits
    <3>3. f[q[k]] = f[q[k + 1]] + 8
      BY <2>1, <2>2, <2>4
    <3>4. \A a \in Nat : (a + 8) \div 8 = a \div 8 + 1
      OBVIOUS
    <3>5. f[q[k + 1]] \div 8 + 1 = n - (k + 1)
      <4>1. f[q[k]] \div 8 = f[q[k + 1]] \div 8 + 1
        BY <3>2, <3>3, <3>4
      <4>2. f[q[k + 1]] \div 8 \in Nat
        BY <3>2
      <4> QED BY <1>4, <3>1, <4>1, <4>2
    <3> QED BY <2>1, <2>2, <3>5
  <2>5. q[k] < 128 \/ q[k] >= 128
    BY <2>1
  <2> QED BY <2>3, <2>4, <2>5
<1> HIDE DEF U
<1>8. Nat \subseteq U
  BY <1>6, <1>7, SetInduction
<1>9. q[n] \in 0..M /\ ((q[n] = 0 /\ n > 0) \/ f[q[n]] \div 8 + 1 = n - n)
  BY <1>4, <1>8 DEF U
<1>10. f[q[n]] \div 8 + 1 # n - n
  <2>1. f[q[n]] \in Nat
    BY <1>1, <1>9 DEF IsBits
  <2>2. f[q[n]] \div 8 \in Nat
    BY <2>1
  <2> QED BY <1>4, <2>2
<1>11. n \in Nat \ {0} /\ q[n] = 0
  BY <1>4, <1>9, <1>10
<1> QED BY <1>11 DEF n

\* mpz_import reads what mpz_export wrote.
LEMMA ImportOfExport ==
  ASSUME NEW x \in Int, NEW text, NEW from \in Nat,
         \A i \in 1..ByteSize(x) : text[from + i - 1] = Export(x)[i]
  PROVE  Import(text, from, ByteSize(x)) = Abs(x)
<1> DEFINE n == ByteSize(x)
<1>1. PICK q : IsShifted(q, x) /\ \A i \in Nat : Shifted(x, i) = q[i]
  BY ShiftedIs
<1>2. n \in Nat \ {0} /\ q[n] = 0
  BY <1>1, NothingLeft
<1>3. q \in [Nat -> Nat] /\ q[0] = Abs(x) /\ \A k \in Nat : q[k + 1] = q[k] \div 256
  BY <1>1 DEF IsShifted
<1>4. ASSUME NEW i \in 1..n PROVE text[from + n - i][2] = q[n - i] % 256
  <2>1. n - i + 1 \in 1..n /\ from + (n - i + 1) - 1 = from + n - i
        /\ (n - i + 1) - 1 = n - i /\ n - i \in Nat
    BY <1>2
  <2>2. text[from + n - i] = Export(x)[n - i + 1]
    BY <2>1
  <2>3. Export(x)[n - i + 1] = Byte(Shifted(x, n - i) % 256)
    BY <2>1 DEF Export
  <2>4. Shifted(x, n - i) = q[n - i]
    BY <1>1, <2>1
  <2> QED BY <2>2, <2>3, <2>4 DEF Byte
<1>5. ASSUME NEW i \in 1..n PROVE 256 * q[n - (i - 1)] + (q[n - i] % 256) = q[n - i]
  <2>1. n - i \in Nat /\ n - (i - 1) = (n - i) + 1
    BY <1>2
  <2>2. q[(n - i) + 1] = q[n - i] \div 256 /\ q[n - i] \in Nat
    BY <1>3, <2>1
  <2>3. \A a \in Nat : 256 * (a \div 256) + (a % 256) = a
    OBVIOUS
  <2> QED BY <2>1, <2>2, <2>3
<1> HIDE DEF n
<1> DEFINE loop(f) == [i \in 0..n |->
                        IF i = 0 THEN 0 ELSE 256 * f[i - 1] + text[from + n - i][2]]
           res == CHOOSE f : f = loop(f)
           h == [i \in 0..n |-> q[n - i]]
<1>6. Import(text, from, n) = res[n]
  BY DEF Import
<1>7. h = loop(h)
  <2>1. ASSUME NEW i \in 0..n
        PROVE  h[i] = IF i = 0 THEN 0 ELSE 256 * h[i - 1] + text[from + n - i][2]
    <3>1. CASE i = 0
      BY <1>2, <3>1
    <3>2. CASE i # 0
      <4>1. i \in 1..n /\ i - 1 \in 0..n
        BY <1>2, <3>2
      <4>2. h[i] = q[n - i] /\ h[i - 1] = q[n - (i - 1)]
        BY <4>1
      <4> HIDE DEF h
      <4> QED BY <1>4, <1>5, <3>2, <4>1, <4>2
    <3> QED BY <3>1, <3>2
  <2> QED BY <2>1
<1>8. res = loop(res)
  <2> HIDE DEF loop, h
  <2> QED BY <1>7
<1> HIDE DEF res
<1>9. res[0] = h[0]
  <2>1. loop(res)[0] = 0 /\ h[0] = q[n]
    BY <1>2
  <2> HIDE DEF loop, h
  <2> QED BY <1>2, <1>8, <2>1
<1>10. ASSUME NEW i \in 1..n, res[i - 1] = h[i - 1] PROVE res[i] = h[i]
  <2>1. i \in 0..n /\ i - 1 \in 0..n /\ i # 0
    BY <1>2
  <2>2. loop(res)[i] = 256 * res[i - 1] + text[from + n - i][2]
    BY <2>1
  <2>3. h[i] = q[n - i] /\ h[i - 1] = q[n - (i - 1)]
    BY <2>1
  <2> HIDE DEF loop, h
  <2> QED BY <1>4, <1>5, <1>8, <1>10, <2>2, <2>3
<1>11. \A i \in 0..n : res[i] = h[i]
  <2> HIDE DEF loop, h
  <2> QED BY <1>2, <1>9, <1>10, Alike DEF GoAlike
<1>12. n \in 0..n /\ n - n = 0
  BY <1>2
<1>13. res[n] = q[0]
  BY <1>11, <1>12
<1> QED BY <1>3, <1>6, <1>13 DEF n

-----------------------------------------------------------------------------
(* Values.                                                                 *)

\* The product of the dimensions, one after the other.
IsProduct(g, shape) ==
  /\ g \in [0..Len(shape) -> Nat] /\ g[0] = 1
  /\ \A d \in 1..Len(shape) : g[d] = g[d - 1] * shape[d]

LEMMA ElementsAre ==
  ASSUME NEW shape \in Seq(Nat)
  PROVE  \E g : IsProduct(g, shape) /\ Elements(shape) = g[Len(shape)]
<1> DEFINE n == Len(shape)
           next(k) == [y \in Nat |-> IF k < n THEN y * shape[k + 1] ELSE y]
           step == [k \in Nat |-> next(k)]
           loop(f) == [d \in 0..n |-> IF d = 0 THEN 1 ELSE f[d - 1] * shape[d]]
           res == CHOOSE f : f = loop(f)
<1>1. n \in Nat /\ \A d \in 1..n : shape[d] \in Nat
  OBVIOUS
<1>2. Elements(shape) = res[n]
  BY DEF Elements
<1> HIDE DEF n
<1>3. \A k \in Nat : next(k) \in [Nat -> Nat]
  <2> TAKE k \in Nat
  <2>1. k < n => k + 1 \in 1..n
    BY <1>1
  <2>2. \A y, z \in Nat : y * z \in Nat
    OBVIOUS
  <2> QED BY <1>1, <2>1, <2>2
<1>4. \A k \in Nat : step[k] = next(k)
  OBVIOUS
<1>5. IsRecursion(Nat, 1, step)
  BY <1>3 DEF IsRecursion
<1> HIDE DEF step
<1>6. PICK g : Follows(g, Nat, 1, step)
  BY <1>5, Recursion
<1> DEFINE h == [d \in 0..n |-> g[d]]
<1>7. g \in [Nat -> Nat] /\ g[0] = 1
  BY <1>6 DEF Follows
<1>8. ASSUME NEW d \in 1..n PROVE g[d] = g[d - 1] * shape[d]
  <2>1. d - 1 \in Nat /\ (d - 1) + 1 = d /\ d - 1 < n
    BY <1>1
  <2>2. g[(d - 1) + 1] = step[d - 1][g[d - 1]] /\ step[d - 1] = next(d - 1)
    BY <1>4, <1>6, <2>1 DEF Follows
  <2>3. next(d - 1)[g[d - 1]] = g[d - 1] * shape[(d - 1) + 1]
    BY <1>7, <2>1
  <2> HIDE DEF next
  <2> QED BY <2>1, <2>2, <2>3
<1>9. h \in [0..n -> Nat] /\ h[0] = 1 /\ \A d \in 1..n : h[d] = h[d - 1] * shape[d]
  <2>1. 0 \in 0..n /\ \A d \in 1..n : d \in 0..n /\ d - 1 \in 0..n
    BY <1>1
  <2> QED BY <1>7, <1>8, <2>1
<1> HIDE DEF h
<1>10. h = loop(h)
  <2>1. ASSUME NEW d \in 0..n PROVE h[d] = IF d = 0 THEN 1 ELSE h[d - 1] * shape[d]
    <3>1. d # 0 => d \in 1..n
      BY <1>1
    <3> QED BY <1>9, <3>1
  <2>2. h = [d \in 0..n |-> h[d]]
    BY <1>9
  <2> QED BY <2>1, <2>2
<1>11. res = loop(res)
  <2> HIDE DEF loop
  <2> QED BY <1>10
<1> HIDE DEF res
<1>12. res[0] = h[0]
  BY <1>1, <1>9, <1>11
<1>13. ASSUME NEW d \in 1..n, res[d - 1] = h[d - 1] PROVE res[d] = h[d]
  <2>1. d \in 0..n /\ d # 0
    BY <1>1
  <2>2. loop(res)[d] = res[d - 1] * shape[d]
    BY <2>1
  <2> HIDE DEF loop
  <2> QED BY <1>9, <1>11, <1>13, <2>2
<1> HIDE DEF loop
<1> HIDE DEF next
<1>14. \A d \in 0..n : res[d] = h[d]
  <2>1. \A d \in 1..n : res[d - 1] = h[d - 1] => res[d] = h[d]
    BY <1>13
  <2>2. n \in Nat
    BY <1>1
  <2>3. GoAlike(res, h, n)
    BY <1>12, <2>1 DEF GoAlike
  <2> QED BY <2>2, <2>3, Alike
<1>15. Elements(shape) = h[n]
  BY <1>1, <1>2, <1>14
<1>16. IsProduct(h, shape)
  BY <1>9 DEF IsProduct, n
<1> QED BY <1>15, <1>16 DEF n

LEMMA ElementsIsNat ==
  ASSUME NEW shape \in Seq(Nat)
  PROVE  Elements(shape) \in Nat
<1>1. PICK g : IsProduct(g, shape) /\ Elements(shape) = g[Len(shape)]
  BY ElementsAre
<1> QED BY <1>1 DEF IsProduct

\* Shapes of one and of two dimensions.
LEMMA FewDimensions ==
  ASSUME NEW a \in Nat, NEW b \in Nat
  PROVE  Elements(<<a>>) = a /\ Elements(<<a, b>>) = a * b
<1>1. Elements(<<a>>) = a
  <2> DEFINE shape == <<a>>
  <2>1. shape \in Seq(Nat) /\ Len(shape) = 1 /\ shape[1] = a
    OBVIOUS
  <2> HIDE DEF shape
  <2>2. PICK g : IsProduct(g, shape) /\ Elements(shape) = g[Len(shape)]
    BY <2>1, ElementsAre
  <2>3. g[0] = 1 /\ \A d \in 1..1 : g[d] = g[d - 1] * shape[d]
    BY <2>1, <2>2 DEF IsProduct
  <2>4. g[1] = g[1 - 1] * shape[1] /\ 1 - 1 = 0
    BY <2>3
  <2>5. Elements(shape) = 1 * a
    BY <2>1, <2>2, <2>3, <2>4
  <2>6. Elements(shape) = a
    BY <2>5
  <2> QED BY <2>6 DEF shape
<1>2. Elements(<<a, b>>) = a * b
  <2> DEFINE shape == <<a, b>>
  <2>1. shape \in Seq(Nat) /\ Len(shape) = 2 /\ shape[1] = a /\ shape[2] = b
    OBVIOUS
  <2> HIDE DEF shape
  <2>2. PICK g : IsProduct(g, shape) /\ Elements(shape) = g[Len(shape)]
    BY <2>1, ElementsAre
  <2>3. g[0] = 1 /\ \A d \in 1..2 : g[d] = g[d - 1] * shape[d]
    BY <2>1, <2>2 DEF IsProduct
  <2>4. g[1] = g[1 - 1] * shape[1] /\ 1 - 1 = 0 /\ g[2] = g[2 - 1] * shape[2] /\ 2 - 1 = 1
    BY <2>3
  <2>5. g[1] = 1 * a
    BY <2>1, <2>3, <2>4
  <2>6. g[1] = a
    BY <2>5
  <2>7. Elements(shape) = a * b
    BY <2>1, <2>2, <2>4, <2>6
  <2> QED BY <2>7 DEF shape
<1> QED BY <1>1, <1>2

\* The offset of a number is the place where its bytes begin.
LEMMA OffsetIs ==
  ASSUME NEW numbers \in Seq(Int), NEW p,
         Places(p, [i \in 1..Len(numbers) |-> ByteSize(numbers[i])], Len(numbers)),
         NEW j \in 1..Len(numbers)
  PROVE  Offset(numbers, j) = p[j - 1]
<1> DEFINE n == Len(numbers)
           m == j - 1
           loop(f) == [i \in 0..m |-> IF i = 0 THEN 0 ELSE f[i - 1] + ByteSize(numbers[i])]
           res == CHOOSE f : f = loop(f)
           h == [i \in 0..m |-> p[i]]
<1>1. n \in Nat /\ m \in Nat /\ m < n
  OBVIOUS
<1>2. Offset(numbers, j) = res[m]
  BY DEF Offset
<1>3. p[0] = 0 /\ \A i \in 1..n : p[i] = p[i - 1] + ByteSize(numbers[i])
  BY DEF Places
<1> HIDE DEF m, n
<1>4. h = loop(h)
  <2>1. ASSUME NEW i \in 0..m
        PROVE  h[i] = IF i = 0 THEN 0 ELSE h[i - 1] + ByteSize(numbers[i])
    <3>1. CASE i = 0
      BY <1>3, <3>1
    <3>2. CASE i # 0
      <4>1. i \in 1..n /\ i - 1 \in 0..m
        BY <1>1, <3>2
      <4> QED BY <1>3, <3>2, <4>1
    <3> QED BY <3>1, <3>2
  <2> QED BY <2>1
<1>5. res = loop(res)
  <2> HIDE DEF loop, h
  <2> QED BY <1>4
<1> HIDE DEF res
<1>6. res[0] = p[0]
  BY <1>1, <1>3, <1>5
<1>7. ASSUME NEW i \in 1..m, res[i - 1] = p[i - 1] PROVE res[i] = p[i]
  <2>1. i \in 0..m /\ i # 0 /\ i \in 1..n
    BY <1>1
  <2>2. loop(res)[i] = res[i - 1] + ByteSize(numbers[i])
    BY <2>1
  <2> HIDE DEF loop
  <2> QED BY <1>3, <1>5, <1>7, <2>1, <2>2
<1> HIDE DEF loop
<1> HIDE DEF h
<1>8. \A i \in 0..m : res[i] = p[i]
  <2>1. \A i \in 1..m : res[i - 1] = p[i - 1] => res[i] = p[i]
    BY <1>7
  <2>2. m \in Nat
    BY <1>1
  <2>3. GoAlike(res, p, m)
    BY <1>6, <2>1 DEF GoAlike
  <2> QED BY <2>2, <2>3, Alike
<1> QED BY <1>1, <1>2, <1>8 DEF m

\* What stands where in the text of a tensor.
Chars(numbers) == {Byte(b) : b \in Nat} \cup {Entry(numbers, j) : j \in 1..Len(numbers)}

Sizes(numbers) == [i \in 1..Len(numbers) |-> ByteSize(numbers[i])]

IsTensorText(t, shape, numbers, p) ==
  LET nd == Len(shape)
      n == Len(numbers)
  IN  /\ t \in Seq(Chars(numbers)) /\ Len(t) = (1 + nd + n) + p[n]
      /\ t[1] = Byte(nd)
      /\ \A d \in 1..nd : t[1 + d] = Byte(shape[d])
      /\ \A j \in 1..n : t[1 + nd + j] = Entry(numbers, j)
      /\ \A j \in 1..n : \A k \in 1..ByteSize(numbers[j]) :
           t[(1 + nd + n) + (p[j - 1] + k)] = Export(numbers[j])[k]

LEMMA ExportIs ==
  ASSUME NEW x \in Int
  PROVE  /\ ByteSize(x) \in Nat \ {0}
         /\ Export(x) \in Seq({Byte(b) : b \in Nat}) /\ Len(Export(x)) = ByteSize(x)
<1>1. PICK q : IsShifted(q, x) /\ \A i \in Nat : Shifted(x, i) = q[i]
  BY ShiftedIs
<1>2. ByteSize(x) \in Nat \ {0}
  BY <1>1, NothingLeft
<1>3. \A i \in 1..ByteSize(x) : Shifted(x, i - 1) % 256 \in Nat
  <2> TAKE i \in 1..ByteSize(x)
  <2>1. i - 1 \in Nat
    BY <1>2
  <2>2. Shifted(x, i - 1) \in Nat
    BY <1>1, <2>1 DEF IsShifted
  <2>3. \A a \in Nat : a % 256 \in Nat
    OBVIOUS
  <2> QED BY <2>2, <2>3
<1>4. \A i \in 1..ByteSize(x) : Export(x)[i] \in {Byte(b) : b \in Nat}
  BY <1>3 DEF Export
<1>5. Export(x) = [i \in 1..ByteSize(x) |-> Export(x)[i]]
  BY DEF Export
<1> QED BY <1>2, <1>4, <1>5

LEMMA SizesAre ==
  ASSUME NEW numbers \in Seq(Int)
  PROVE  /\ Sizes(numbers) \in [1..Len(numbers) -> Nat] /\ Len(numbers) \in Nat
         /\ \E p : Places(p, Sizes(numbers), Len(numbers))
<1>1. Len(numbers) \in Nat /\ \A i \in 1..Len(numbers) : numbers[i] \in Int
  OBVIOUS
<1>2. Sizes(numbers) \in [1..Len(numbers) -> Nat]
  BY <1>1, ExportIs DEF Sizes
<1> QED BY <1>1, <1>2, PlacesExist

Bytes(numbers) == FlattenSeq([j \in DOMAIN numbers |-> Export(numbers[j])])

LEMMA BytesAre ==
  ASSUME NEW numbers \in Seq(Int), NEW p, Places(p, Sizes(numbers), Len(numbers))
  PROVE  /\ Bytes(numbers) \in Seq({Byte(b) : b \in Nat})
         /\ Len(Bytes(numbers)) = p[Len(numbers)]
         /\ \A j \in 1..Len(numbers) : \A k \in 1..ByteSize(numbers[j]) :
              Bytes(numbers)[p[j - 1] + k] = Export(numbers[j])[k]
<1> DEFINE n == Len(numbers)
           B == {Byte(b) : b \in Nat}
           s == [j \in 1..n |-> Export(numbers[j])]
           lens == [j \in 1..n |-> Len(s[j])]
<1>1. n \in Nat /\ DOMAIN numbers = 1..n /\ \A j \in 1..n : numbers[j] \in Int
  OBVIOUS
<1>2. \A j \in 1..n : /\ s[j] = Export(numbers[j]) /\ s[j] \in Seq(B)
                      /\ Len(s[j]) = ByteSize(numbers[j])
  BY <1>1, ExportIs
<1>3. s \in [1..n -> Seq(B)]
  <2> HIDE DEF B
  <2> QED BY <1>2
<1>4. lens = Sizes(numbers)
  BY <1>2 DEF Sizes
<1>5. Places(p, lens, n)
  BY <1>4
<1> DEFINE bytes == FlattenSeq(s)
<1>6. IsFlat(bytes, s, p, n, B)
  <2> HIDE DEF B, s, n
  <2> QED BY <1>1, <1>3, <1>5, Flattened
<1>7. Bytes(numbers) = bytes
  BY <1>1 DEF Bytes
<1> HIDE DEF s, lens, bytes, B
<1>8. /\ bytes \in Seq(B) /\ Len(bytes) = p[n]
      /\ \A j \in 1..n : \A k \in 1..ByteSize(numbers[j]) :
           bytes[p[j - 1] + k] = Export(numbers[j])[k]
  BY <1>2, <1>6 DEF IsFlat
<1> QED BY <1>7, <1>8 DEF B

LEMMA FourParts ==
  ASSUME NEW shape \in Seq(Nat), NEW numbers \in Seq(Int),
         NEW p, Places(p, Sizes(numbers), Len(numbers))
  PROVE  IsTensorText(((<<Byte(Len(shape))>> \o [d \in DOMAIN shape |-> Byte(shape[d])])
                       \o [j \in DOMAIN numbers |-> Entry(numbers, j)]) \o Bytes(numbers),
                      shape, numbers, p)
<1> DEFINE nd == Len(shape)
           n == Len(numbers)
           C == Chars(numbers)
           one == <<Byte(nd)>>
           dims == [d \in 1..nd |-> Byte(shape[d])]
           table == [j \in 1..n |-> Entry(numbers, j)]
           bytes == Bytes(numbers)
<1>1. /\ nd \in Nat /\ n \in Nat /\ DOMAIN shape = 1..nd /\ DOMAIN numbers = 1..n
      /\ \A d \in 1..nd : shape[d] \in Nat
  OBVIOUS
<1>2. /\ dims = [d \in DOMAIN shape |-> Byte(shape[d])]
      /\ table = [j \in DOMAIN numbers |-> Entry(numbers, j)]
  BY <1>1
<1>3. /\ bytes \in Seq({Byte(b) : b \in Nat}) /\ Len(bytes) = p[n]
      /\ \A j \in 1..n : \A k \in 1..ByteSize(numbers[j]) :
           bytes[p[j - 1] + k] = Export(numbers[j])[k]
  <2>1. /\ Bytes(numbers) \in Seq({Byte(b) : b \in Nat})
        /\ Len(Bytes(numbers)) = p[Len(numbers)]
        /\ \A j \in 1..Len(numbers) : \A k \in 1..ByteSize(numbers[j]) :
              Bytes(numbers)[p[j - 1] + k] = Export(numbers[j])[k]
    BY BytesAre
  <2> QED BY <2>1
<1>4. bytes \in Seq(C)
  <2> HIDE DEF bytes
  <2>1. {Byte(b) : b \in Nat} \subseteq C
    BY DEF Chars
  <2> HIDE DEF C
  <2> QED BY <1>3, <2>1
<1>5. one \in Seq(C) /\ Len(one) = 1 /\ one[1] = Byte(nd)
  <2>1. Byte(nd) \in C
    BY <1>1 DEF Chars
  <2> HIDE DEF C
  <2> QED BY <2>1
<1>6. dims \in Seq(C) /\ Len(dims) = nd /\ \A d \in 1..nd : dims[d] = Byte(shape[d])
  <2>1. \A d \in 1..nd : Byte(shape[d]) \in C
    BY <1>1 DEF Chars
  <2> HIDE DEF C
  <2> QED BY <1>1, <2>1
<1>7. table \in Seq(C) /\ Len(table) = n /\ \A j \in 1..n : table[j] = Entry(numbers, j)
  <2>1. \A j \in 1..n : Entry(numbers, j) \in C
    BY DEF Chars
  <2> HIDE DEF C
  <2> QED BY <1>1, <2>1
<1>8. p[n] \in Nat /\ \A j \in 1..n : p[j - 1] \in Nat /\ p[j] \in Nat
                                      /\ p[j] = p[j - 1] + ByteSize(numbers[j])
  <2>1. p \in [0..n -> Nat] /\ \A j \in 1..n : p[j] = p[j - 1] + Sizes(numbers)[j]
    BY DEF Places
  <2>2. \A j \in 1..n : Sizes(numbers)[j] = ByteSize(numbers[j])
    BY DEF Sizes
  <2>3. n \in 0..n /\ \A j \in 1..n : j \in 0..n /\ j - 1 \in 0..n
    BY <1>1
  <2> HIDE DEF n
  <2> QED BY <2>1, <2>2, <2>3
<1> HIDE DEF one, dims, table, bytes, C, nd, n
<1> DEFINE t1 == one \o dims
           t2 == t1 \o table
           t == t2 \o bytes
<1>9. /\ t1 \in Seq(C) /\ Len(t1) = 1 + nd
      /\ \A i \in 1..1 : t1[i] = one[i]
      /\ \A i \in 1..nd : t1[1 + i] = dims[i]
  <2>1. /\ t1 \in Seq(C) /\ Len(t1) = Len(one) + Len(dims)
        /\ \A i \in 1..Len(one) : t1[i] = one[i]
        /\ \A i \in 1..Len(dims) : t1[Len(one) + i] = dims[i]
    <3>1. one \in Seq(C) /\ dims \in Seq(C)
      BY <1>5, <1>6
    <3> QED BY <3>1, Joined
  <2> HIDE DEF t1
  <2> QED BY <1>5, <1>6, <2>1
<1> HIDE DEF t1
<1>10. /\ t2 \in Seq(C) /\ Len(t2) = (1 + nd) + n
       /\ \A i \in 1..(1 + nd) : t2[i] = t1[i]
       /\ \A i \in 1..n : t2[(1 + nd) + i] = table[i]
  <2>1. /\ t2 \in Seq(C) /\ Len(t2) = Len(t1) + Len(table)
        /\ \A i \in 1..Len(t1) : t2[i] = t1[i]
        /\ \A i \in 1..Len(table) : t2[Len(t1) + i] = table[i]
    <3>1. t1 \in Seq(C) /\ table \in Seq(C)
      BY <1>7, <1>9
    <3> QED BY <3>1, Joined
  <2> HIDE DEF t2
  <2> QED BY <1>7, <1>9, <2>1
<1> HIDE DEF t2
<1>11. /\ t \in Seq(C) /\ Len(t) = ((1 + nd) + n) + p[n]
       /\ \A i \in 1..((1 + nd) + n) : t[i] = t2[i]
       /\ \A i \in 1..p[n] : t[((1 + nd) + n) + i] = bytes[i]
  <2>1. /\ t \in Seq(C) /\ Len(t) = Len(t2) + Len(bytes)
        /\ \A i \in 1..Len(t2) : t[i] = t2[i]
        /\ \A i \in 1..Len(bytes) : t[Len(t2) + i] = bytes[i]
    <3>1. t2 \in Seq(C) /\ bytes \in Seq(C)
      BY <1>4, <1>10
    <3> QED BY <3>1, Joined
  <2> HIDE DEF t
  <2> QED BY <1>3, <1>10, <2>1
<1> HIDE DEF t
<1>12. t[1] = Byte(nd)
  <2>1. 1 \in 1..1 /\ 1 \in 1..(1 + nd) /\ 1 \in 1..((1 + nd) + n)
    BY <1>1
  <2> QED BY <1>5, <1>9, <1>10, <1>11, <2>1
<1>13. ASSUME NEW d \in 1..nd PROVE t[1 + d] = Byte(shape[d])
  <2>1. 1 + d \in 1..(1 + nd) /\ 1 + d \in 1..((1 + nd) + n)
    BY <1>1
  <2> QED BY <1>6, <1>9, <1>10, <1>11, <2>1
<1>14. ASSUME NEW j \in 1..n PROVE t[1 + nd + j] = Entry(numbers, j)
  <2>1. (1 + nd) + j \in 1..((1 + nd) + n)
    BY <1>1
  <2> QED BY <1>7, <1>10, <1>11, <2>1
<1>15. ASSUME NEW j \in 1..n, NEW k \in 1..ByteSize(numbers[j])
       PROVE  t[(1 + nd + n) + (p[j - 1] + k)] = Export(numbers[j])[k]
  <2>1. numbers[j] \in Int
    BY DEF n
  <2>2. ByteSize(numbers[j]) \in Nat
    BY <2>1, ExportIs
  <2>3. k \in Nat /\ k >= 1
    BY <2>2
  <2>4. p[j - 1] + k <= p[n]
    <3>1. p[j - 1] + k <= p[j]
      BY <1>8, <2>2, <2>3
    <3>2. p[j] <= p[n]
      <4>1. \A i \in 1..Len(numbers) : Sizes(numbers)[i] \in Nat
        BY SizesAre
      <4>2. \A b \in 0..Len(numbers) : \A a \in 0..b : p[a] <= p[b]
        <5> HIDE DEF Sizes
        <5> QED BY <1>1, <4>1, PlacesGrow DEF n
      <4> QED BY <1>1, <4>2 DEF n
    <3> QED BY <1>8, <2>3, <3>1, <3>2
  <2>5. p[j - 1] + k \in 1..p[n]
    BY <1>8, <2>3, <2>4
  <2>6. t[(1 + nd + n) + (p[j - 1] + k)] = bytes[p[j - 1] + k]
    BY <1>11, <2>5
  <2> QED BY <1>3, <2>6
<1>16. IsTensorText(t, shape, numbers, p)
  BY <1>11, <1>12, <1>13, <1>14, <1>15 DEF IsTensorText, C, nd, n
<1>17. IsTensorText(((one \o dims) \o table) \o bytes, shape, numbers, p)
  BY <1>16 DEF t, t2, t1
<1> QED BY <1>2, <1>17 DEF one, bytes, nd

LEMMA TensorLayout ==
  ASSUME NEW v, v.shape \in Seq(Nat), v.numbers \in Seq(Int),
         NEW p, Places(p, Sizes(v.numbers), Len(v.numbers))
  PROVE  IsTensorText(TensorText(v), v.shape, v.numbers, p)
<1> DEFINE shape == v.shape
           numbers == v.numbers
<1>1. TensorText(v) = ((<<Byte(Len(shape))>> \o [d \in DOMAIN shape |-> Byte(shape[d])])
                       \o [j \in DOMAIN numbers |-> Entry(numbers, j)]) \o Bytes(numbers)
  BY DEF TensorText, Bytes
<1>2. /\ shape \in Seq(Nat) /\ numbers \in Seq(Int)
      /\ Places(p, Sizes(numbers), Len(numbers))
  OBVIOUS
<1> HIDE DEF shape, numbers
<1>3. IsTensorText(TensorText(v), shape, numbers, p)
  BY <1>1, <1>2, FourParts
<1> QED BY <1>3 DEF shape, numbers

\* How the decoder reads number j.
ReadsNumber(number, length, header, j, t, nd, n) ==
  /\ header = 1 + nd + n
  /\ length = IF j < n THEN t[1 + nd + (j + 1)][2] - t[1 + nd + j][2]
              ELSE Len(t) - t[1 + nd + j][2] - header
  /\ number = Import(t, header + t[1 + nd + j][2] + 1, length)

\* One number of a tensor is read where its offset says, with its sign.
LEMMA OneNumber ==
  ASSUME NEW shape \in Seq(Nat), NEW numbers \in Seq(Int),
         NEW p, Places(p, Sizes(numbers), Len(numbers)),
         NEW t, IsTensorText(t, shape, numbers, p), NEW j \in 1..Len(numbers),
         NEW header, NEW length, NEW number,
         ReadsNumber(number, length, header, j, t, Len(shape), Len(numbers))
  PROVE  (IF t[1 + Len(shape) + j][3] THEN - number ELSE number) = numbers[j]
<1> DEFINE nd == Len(shape)
           n == Len(numbers)
           x == numbers[j]
<1>1. nd \in Nat /\ n \in Nat /\ x \in Int
  OBVIOUS
<1>2. ASSUME NEW i \in 1..n
      PROVE  t[1 + nd + i][2] = p[i - 1] /\ t[1 + nd + i][3] = ~ numbers[i] > 0
  <2>1. t[1 + nd + i] = <<"entry", Offset(numbers, i), ~ numbers[i] > 0>>
    BY DEF IsTensorText, Entry
  <2>2. Offset(numbers, i) = p[i - 1]
    BY OffsetIs DEF Sizes
  <2> QED BY <2>1, <2>2
<1>3. /\ p[j - 1] \in Nat /\ p[j] = p[j - 1] + ByteSize(x)
      /\ ByteSize(x) \in Nat \ {0}
  <2>1. p \in [0..n -> Nat] /\ p[j] = p[j - 1] + Sizes(numbers)[j]
    BY DEF Places
  <2>2. Sizes(numbers)[j] = ByteSize(x)
    BY DEF Sizes
  <2>3. j - 1 \in 0..n
    BY <1>1
  <2> QED BY <1>1, <2>1, <2>2, <2>3, ExportIs
<1>4. Len(t) = (1 + nd + n) + p[n]
  BY DEF IsTensorText
<1>6. \A k \in 1..ByteSize(x) : t[(1 + nd + n) + (p[j - 1] + k)] = Export(x)[k]
  BY DEF IsTensorText
<1>7. ReadsNumber(number, length, header, j, t, nd, n) /\ j \in 1..n
  OBVIOUS
<1> HIDE DEF nd, n, x
<1>8. header = 1 + nd + n /\ header \in Nat
  <2>1. header = 1 + nd + n
    BY <1>7 DEF ReadsNumber
  <2>2. 1 + nd + n \in Nat
    BY <1>1
  <2> QED BY <2>1, <2>2
<1>9. length = ByteSize(x)
  <2>1. CASE j < n
    <3>1. j + 1 \in 1..n /\ (j + 1) - 1 = j
      BY <1>1, <1>7, <2>1
    <3>2. t[1 + nd + (j + 1)][2] = p[j] /\ t[1 + nd + j][2] = p[j - 1]
      BY <1>2, <1>7, <3>1
    <3>3. length = p[j] - p[j - 1]
      BY <1>7, <2>1, <3>2 DEF ReadsNumber
    <3> QED BY <1>3, <3>3
  <2>2. CASE ~ (j < n)
    <3>1. j = n
      BY <1>1, <1>7, <2>2
    <3>2. t[1 + nd + j][2] = p[j - 1]
      BY <1>2, <1>7
    <3>3. length = Len(t) - p[j - 1] - header
      BY <1>7, <2>2, <3>2 DEF ReadsNumber
    <3>4. Len(t) = header + (p[j - 1] + ByteSize(x))
      BY <1>3, <1>4, <1>8, <3>1
    <3> QED BY SMTT(30), <1>3, <1>8, <3>3, <3>4
  <2> QED BY <2>1, <2>2
<1> DEFINE from == header + p[j - 1] + 1
<1>11. from \in Nat /\ number = Import(t, from, ByteSize(x))
  <2>1. number = Import(t, header + t[1 + nd + j][2] + 1, length)
    BY <1>7 DEF ReadsNumber
  <2>2. t[1 + nd + j][2] = p[j - 1]
    BY <1>2, <1>7
  <2>3. from \in Nat
    <3>1. p[j - 1] \in Nat /\ header \in Nat
      BY <1>3, <1>8
    <3> QED BY <3>1
  <2> QED BY <1>9, <2>1, <2>2, <2>3
<1>12. \A i \in 1..ByteSize(x) : t[from + i - 1] = Export(x)[i]
  <2> TAKE i \in 1..ByteSize(x)
  <2>1. i \in Nat /\ p[j - 1] \in Nat /\ header \in Nat
    BY <1>3, <1>8
  <2>2. from + i - 1 = header + (p[j - 1] + i)
    BY <2>1
  <2> HIDE DEF from
  <2> QED BY <1>6, <1>8, <2>2
<1> HIDE DEF from
<1>13. number = Abs(x)
  BY <1>1, <1>11, <1>12, ImportOfExport
<1>14. t[1 + nd + j][3] = ~ x > 0
  BY <1>2, <1>7 DEF x
<1>15. Abs(x) \in Nat /\ (x > 0 => Abs(x) = x) /\ (~ x > 0 => x = - Abs(x))
  BY <1>1, AbsIsNat
<1>16. (IF t[1 + nd + j][3] THEN - number ELSE number) = x
  <2>1. CASE x > 0
    BY <1>13, <1>14, <1>15, <2>1
  <2>2. CASE ~ x > 0
    BY <1>13, <1>14, <1>15, <2>2
  <2> QED BY <2>1, <2>2
<1> QED BY <1>16 DEF nd, x

\* What the decoder of a tensor makes of what the encoder wrote.
LEMMA TextIsRead ==
  ASSUME NEW shape \in Seq(Nat), NEW numbers \in Seq(Int), NEW e,
         Len(numbers) = Elements(shape) * Numbers(e),
         NEW p, Places(p, Sizes(numbers), Len(numbers)),
         NEW t, IsTensorText(t, shape, numbers, p)
  PROVE  ReadTensor(t, e) =
           IF Elements(shape) = 0 THEN Dies
           ELSE [shape |-> IF e = "PLAINTEXT" THEN <<Elements(shape)>> ELSE shape,
                 numbers |-> numbers]
<1> DEFINE nd == t[1][2]
           sh == [d \in 1..nd |-> t[1 + d][2]]
           el == Elements(sh)
           count == el * Numbers(e)
           header == 1 + nd + count
           OffsetOf(j) == t[1 + nd + j][2]
           Length(j) == IF j < count THEN OffsetOf(j + 1) - OffsetOf(j)
                                     ELSE Len(t) - OffsetOf(j) - header
           Number(j) == Import(t, header + OffsetOf(j) + 1, Length(j))
           read == [j \in 1..count |-> IF t[1 + nd + j][3] THEN - Number(j) ELSE Number(j)]
<1>1. ReadTensor(t, e) =
        IF el = 0 THEN Dies
        ELSE [shape |-> IF e = "PLAINTEXT" THEN <<el>> ELSE sh, numbers |-> read]
  BY DEF ReadTensor
<1>2. nd = Len(shape)
  <2>1. t[1] = Byte(Len(shape))
    BY DEF IsTensorText
  <2> QED BY <2>1 DEF Byte
<1>3. sh = shape
  <2>1. \A d \in 1..Len(shape) : t[1 + d][2] = shape[d]
    BY DEF IsTensorText, Byte
  <2>2. shape = [d \in 1..Len(shape) |-> shape[d]]
    OBVIOUS
  <2> HIDE DEF nd
  <2>3. sh = [d \in 1..Len(shape) |-> t[1 + d][2]]
    BY <1>2
  <2> QED BY <2>1, <2>2, <2>3
<1>4. el = Elements(shape) /\ count = Len(numbers)
  BY <1>3
<1>5. read = numbers
  <2>1. \A j \in 1..Len(numbers) : read[j] = numbers[j]
    <3> TAKE j \in 1..Len(numbers)
    <3>1. header = 1 + Len(shape) + Len(numbers)
      BY <1>2, <1>4
    <3> HIDE DEF count, header
    <3>2. Length(j) = IF j < Len(numbers)
                        THEN t[1 + Len(shape) + (j + 1)][2] - t[1 + Len(shape) + j][2]
                        ELSE Len(t) - t[1 + Len(shape) + j][2] - header
      BY <1>2, <1>4
    <3>3. Number(j) = Import(t, header + t[1 + Len(shape) + j][2] + 1, Length(j))
      BY <1>2
    <3>4. read[j] = IF t[1 + Len(shape) + j][3] THEN - Number(j) ELSE Number(j)
      BY <1>2, <1>4
    <3> HIDE DEF Length, Number, read
    <3> DEFINE length == Length(j)
               number == Number(j)
    <3>6. ReadsNumber(number, length, header, j, t, Len(shape), Len(numbers))
      BY <3>1, <3>2, <3>3 DEF ReadsNumber
    <3> HIDE DEF number, length
    <3>7. (IF t[1 + Len(shape) + j][3] THEN - number ELSE number) = numbers[j]
      BY <3>6, OneNumber
    <3>5. (IF t[1 + Len(shape) + j][3] THEN - Number(j) ELSE Number(j)) = numbers[j]
      BY <3>7 DEF number
    <3> QED BY <3>4, <3>5
  <2>2. numbers = [j \in 1..Len(numbers) |-> numbers[j]]
    OBVIOUS
  <2>3. read = [j \in 1..Len(numbers) |-> read[j]]
    <3> HIDE DEF count
    <3> QED BY <1>4
  <2> HIDE DEF read
  <2> QED BY <2>1, <2>2, <2>3
<1> HIDE DEF read, el, sh
<1> QED BY <1>1, <1>3, <1>4, <1>5

LEMMA TensorRoundTrip ==
  ASSUME NEW v, v.shape \in Seq(Nat), v.numbers \in Seq(Int), NEW e,
         Len(v.numbers) = Elements(v.shape) * Numbers(e)
  PROVE  ReadTensor(TensorText(v), e) =
           IF Elements(v.shape) = 0 THEN Dies
           ELSE [shape |-> IF e = "PLAINTEXT" THEN <<Elements(v.shape)>> ELSE v.shape,
                 numbers |-> v.numbers]
<1>1. PICK p : Places(p, Sizes(v.numbers), Len(v.numbers))
  BY SizesAre
<1>2. IsTensorText(TensorText(v), v.shape, v.numbers, p)
  BY <1>1, TensorLayout
<1> DEFINE shape == v.shape
           numbers == v.numbers
           t == TensorText(v)
<1>3. /\ shape \in Seq(Nat) /\ numbers \in Seq(Int)
      /\ Len(numbers) = Elements(shape) * Numbers(e)
      /\ Places(p, Sizes(numbers), Len(numbers))
      /\ IsTensorText(t, shape, numbers, p)
  BY <1>1, <1>2
<1> HIDE DEF shape, numbers, t
<1>4. ReadTensor(t, e) =
        IF Elements(shape) = 0 THEN Dies
        ELSE [shape |-> IF e = "PLAINTEXT" THEN <<Elements(shape)>> ELSE shape,
              numbers |-> numbers]
  BY <1>3, TextIsRead
<1> QED BY <1>4 DEF shape, numbers, t


-----------------------------------------------------------------------------
(* Lines with data behind them.                                            *)

\* A sequence, whatever it is a sequence of.
IsText(t) == \E C : t \in Seq(C)

LEMMA WiderText ==
  ASSUME NEW A, NEW C, A \subseteq C, NEW a \in Seq(A)
  PROVE  a \in Seq(C)
<1>1. Len(a) \in Nat /\ \A i \in 1..Len(a) : a[i] \in A
  OBVIOUS
<1>2. a = [i \in 1..Len(a) |-> a[i]]
  OBVIOUS
<1>3. [i \in 1..Len(a) |-> a[i]] \in Seq(C)
  BY <1>1
<1> QED BY <1>2, <1>3

LEMMA TextPlus ==
  ASSUME NEW a, NEW b, IsText(a), IsText(b)
  PROVE  \E C : a \in Seq(C) /\ b \in Seq(C) /\ Nat \subseteq C
<1>1. PICK A : a \in Seq(A)
  BY DEF IsText
<1>2. PICK B : b \in Seq(B)
  BY DEF IsText
<1> DEFINE C == (A \cup B) \cup Nat
<1>3. A \subseteq C /\ B \subseteq C /\ Nat \subseteq C
  OBVIOUS
<1> HIDE DEF C
<1>4. a \in Seq(C)
  BY <1>1, <1>3, WiderText
<1>5. b \in Seq(C)
  BY <1>2, <1>3, WiderText
<1> QED BY <1>3, <1>4, <1>5

\* A sequence of sequences written out.
LEMMA IsTextIfs ==
  /\ IsText(<<>>)
  /\ \A x : IsText(<<x>>)
  /\ \A x, y : IsText(<<x, y>>)
  /\ \A x, y, z : IsText(<<x, y, z>>)
<1>1. <<>> \in Seq({})
  OBVIOUS
<1>2. ASSUME NEW x PROVE <<x>> \in Seq({x})
  OBVIOUS
<1>3. ASSUME NEW x, NEW y PROVE <<x, y>> \in Seq({x, y})
  OBVIOUS
<1>4. ASSUME NEW x, NEW y, NEW z PROVE <<x, y, z>> \in Seq({x, y, z})
  OBVIOUS
<1> QED BY <1>1, <1>2, <1>3, <1>4 DEF IsText

\* A text and its first characters.
LEMMA Cut ==
  ASSUME NEW C, NEW t \in Seq(C), NEW k \in 0..Len(t)
  PROVE  /\ SubSeq(t, 1, k) \in Seq(C) /\ Len(SubSeq(t, 1, k)) = k
         /\ \A i \in 1..k : SubSeq(t, 1, k)[i] = t[i]
OBVIOUS

\* A character before a text.
LEMMA Behind ==
  ASSUME NEW C, NEW t \in Seq(C), NEW x
  PROVE  LET all == <<x>> \o t
         IN  /\ all \in Seq(C \cup {x}) /\ Len(all) = Len(t) + 1
             /\ all[1] = x /\ Tail(all) = t
             /\ \A i \in 1..Len(t) : all[i + 1] = t[i]
             /\ \A k \in 1..(Len(t) + 1) :
                  /\ SubSeq(all, 1, k)[1] = x
                  /\ Tail(SubSeq(all, 1, k)) = SubSeq(t, 1, k - 1)
<1> DEFINE D == C \cup {x}
           all == <<x>> \o t
<1>1. <<x>> \in Seq(D) /\ Len(<<x>>) = 1 /\ <<x>>[1] = x
  OBVIOUS
<1>2. t \in Seq(D) /\ Len(t) \in Nat
  <2>1. C \subseteq D
    OBVIOUS
  <2> HIDE DEF D
  <2> QED BY <2>1, WiderText
<1> HIDE DEF D
<1>3. /\ all \in Seq(D) /\ Len(all) = Len(<<x>>) + Len(t)
      /\ \A i \in 1..Len(<<x>>) : all[i] = <<x>>[i]
      /\ \A i \in 1..Len(t) : all[Len(<<x>>) + i] = t[i]
  BY <1>1, <1>2, Joined
<1> HIDE DEF all
<1>4. /\ all \in Seq(D) /\ Len(all) = Len(t) + 1 /\ all[1] = x
      /\ \A i \in 1..Len(t) : all[i + 1] = t[i]
  <2>1. Len(all) = Len(t) + 1
    BY <1>1, <1>2, <1>3
  <2>2. all[1] = x
    <3>1. 1 \in 1..Len(<<x>>)
      BY <1>1
    <3> QED BY <1>1, <1>3, <3>1
  <2>3. ASSUME NEW i \in 1..Len(t) PROVE all[i + 1] = t[i]
    <3>1. Len(<<x>>) + i = i + 1
      BY <1>1, <1>2
    <3> QED BY <1>3, <3>1
  <2> QED BY <1>3, <2>1, <2>2, <2>3
<1>5. Tail(all) = t
  <2>1. Len(Tail(all)) = Len(t) /\ \A i \in 1..Len(t) : Tail(all)[i] = t[i]
    BY <1>2, <1>4
  <2>2. Tail(all) \in Seq(D)
    BY <1>2, <1>4
  <2> QED BY <1>2, <2>1, <2>2
<1>6. ASSUME NEW k \in 1..(Len(t) + 1)
      PROVE  /\ SubSeq(all, 1, k)[1] = x
             /\ Tail(SubSeq(all, 1, k)) = SubSeq(t, 1, k - 1)
  <2> DEFINE s == SubSeq(all, 1, k)
             r == SubSeq(t, 1, k - 1)
  <2>1. k \in 0..Len(all) /\ k - 1 \in 0..Len(t) /\ k \in Nat /\ 1 \in 1..k
    BY <1>2, <1>4
  <2>2. s \in Seq(D) /\ Len(s) = k /\ \A i \in 1..k : s[i] = all[i]
    BY <1>4, <2>1, Cut
  <2>3. r \in Seq(D) /\ Len(r) = k - 1 /\ \A i \in 1..(k - 1) : r[i] = t[i]
    BY <1>2, <2>1, Cut
  <2> HIDE DEF s, r
  <2>4. s[1] = x
    BY <1>4, <2>1, <2>2
  <2>5. Tail(s) \in Seq(D) /\ Len(Tail(s)) = k - 1
        /\ \A i \in 1..(k - 1) : Tail(s)[i] = s[i + 1]
    BY <2>1, <2>2
  <2>6. ASSUME NEW i \in 1..(k - 1) PROVE Tail(s)[i] = r[i]
    <3>1. i + 1 \in 1..k /\ i \in 1..Len(t)
      BY <1>2, <2>1
    <3> QED BY <1>4, <2>2, <2>3, <2>5, <3>1
  <2>7. Tail(s) = r
    BY <2>1, <2>3, <2>5, <2>6
  <2> QED BY <2>4, <2>7 DEF s, r
<1> QED BY <1>4, <1>5, <1>6 DEF all, D
\* Data behind its line is what is read, whatever the fields and the data are:
\* newlines and lines within the data do not matter (Request::from_string and
\* the like).
THEOREM FramedIsRead ==
  ASSUME NEW F, NEW fields \in Seq(F), Nat \subseteq F,
         NEW C, NEW data \in Seq(C)
  PROVE  Read(Framed(fields, data)) = [fields |-> fields, data |-> data]
<1> DEFINE all == Append(fields, Len(data))
           text == Framed(fields, data)
<1>1. /\ all \in Seq(F) /\ Len(all) = Len(fields) + 1
      /\ \A i \in 1..Len(fields) : all[i] = fields[i]
      /\ all[Len(all)] = Len(data)
  OBVIOUS
<1>2. text[1] = Line(all) /\ Tail(text) = data
  <2>1. <<Line(all)>> \in Seq(C \cup {Line(all)}) /\ data \in Seq(C \cup {Line(all)})
    OBVIOUS
  <2> HIDE DEF all
  <2>2. text = <<Line(all)>> \o data
    BY DEF Framed, all
  <2> QED BY <2>1, <2>2
<1>3. Front(all) = fields /\ Last(all) = Len(data)
  BY <1>1 DEF Front, Last
<1>4. text[1][1] = "line" /\ text[1][2] = all
  BY <1>2 DEF Line
<1> QED BY <1>2, <1>3, <1>4 DEF Read

\* A request or a response of one layer: what is read from it, and what from
\* its beginning.
LEMMA Layer ==
  ASSUME NEW fields, NEW data, IsText(fields), IsText(data)
  PROVE  LET text == Framed(fields, data)
         IN  /\ IsText(text) /\ Len(text) = Len(data) + 1 /\ Len(data) \in Nat
             /\ text[1] = Line(Append(fields, Len(data))) /\ Tail(text) = data
             /\ Read(text) = [fields |-> fields, data |-> data]
             /\ ReadLoosely(text) = {Read(text)}
             /\ SubSeq(text, 1, Len(text)) = text
             /\ \A k \in 1..Len(data) : Read(SubSeq(text, 1, k)) = Throws
<1> DEFINE all == Append(fields, Len(data))
           line == Line(all)
           text == Framed(fields, data)
<1>1. PICK C : fields \in Seq(C) /\ data \in Seq(C) /\ Nat \subseteq C
  BY TextPlus
<1>2. text = <<line>> \o data
  BY DEF Framed
<1>3. line[1] = "line" /\ line[2] = all
  BY DEF Line
<1>4. Last(all) = Len(data) /\ Len(data) \in Nat
  BY <1>1 DEF Last
<1>5. Read(text) = [fields |-> fields, data |-> data]
  BY <1>1, FramedIsRead
<1> HIDE DEF line, all
<1>6. /\ text \in Seq(C \cup {line}) /\ Len(text) = Len(data) + 1
      /\ text[1] = line /\ Tail(text) = data
      /\ \A k \in 1..(Len(data) + 1) :
           /\ SubSeq(text, 1, k)[1] = line
           /\ Tail(SubSeq(text, 1, k)) = SubSeq(data, 1, k - 1)
  BY <1>1, <1>2, Behind
<1> HIDE DEF text
<1>7. SubSeq(text, 1, Len(text)) = text
  BY <1>6
<1>8. ASSUME NEW k \in 1..Len(data) PROVE Read(SubSeq(text, 1, k)) = Throws
  <2> DEFINE s == SubSeq(text, 1, k)
  <2>1. k \in 1..(Len(data) + 1) /\ k - 1 \in 0..Len(data) /\ k - 1 # Len(data)
    BY <1>4
  <2>2. s[1] = line /\ Tail(s) = SubSeq(data, 1, k - 1)
    BY <1>6, <2>1
  <2>3. Len(SubSeq(data, 1, k - 1)) = k - 1
    BY <1>1, <2>1, Cut
  <2> HIDE DEF s
  <2>4. Last(s[1][2]) # Len(Tail(s))
    BY <1>3, <1>4, <2>1, <2>2, <2>3
  <2>5. Read(s) = Throws
    BY <2>4 DEF Read
  <2> QED BY <2>5 DEF s
<1>9. ReadLoosely(text) = {Read(text)}
  BY <1>3, <1>6 DEF ReadLoosely
<1>10. IsText(text)
  BY <1>6 DEF IsText
<1> QED BY <1>4, <1>5, <1>6, <1>7, <1>8, <1>9, <1>10 DEF text, line, all

-----------------------------------------------------------------------------
(* Words with spaces between them.                                         *)

\* The words up to each character, one after the other.
WordsUpTo(w, text, L) ==
  /\ w[0] = <<>>
  /\ \A i \in 1..L : w[i] = IF IsSpace(text[i]) THEN w[i - 1] ELSE Append(w[i - 1], text[i])

LEMMA WordsAre ==
  ASSUME NEW text, Len(text) \in Nat, NEW w, WordsUpTo(w, text, Len(text))
  PROVE  Words(text) = w[Len(text)]
<1> DEFINE L == Len(text)
           loop(f) == [i \in 0..L |->
             IF i = 0 THEN <<>>
             ELSE IF IsSpace(text[i]) THEN f[i - 1] ELSE Append(f[i - 1], text[i])]
           res == CHOOSE f : f = loop(f)
           h == [i \in 0..L |-> w[i]]
<1>1. Words(text) = res[L]
  BY DEF Words
<1>0. L \in Nat
  OBVIOUS
<1>2. w[0] = <<>>
      /\ \A i \in 1..L : w[i] = IF IsSpace(text[i]) THEN w[i - 1]
                                ELSE Append(w[i - 1], text[i])
  BY DEF WordsUpTo
<1> HIDE DEF L
<1>3. ASSUME NEW f
      PROVE  /\ loop(f)[0] = <<>>
             /\ \A i \in 1..L : loop(f)[i] = IF IsSpace(text[i]) THEN f[i - 1]
                                             ELSE Append(f[i - 1], text[i])
  <2>1. loop(f)[0] = <<>>
    BY <1>0
  <2>2. ASSUME NEW i \in 1..L
        PROVE  loop(f)[i] = IF IsSpace(text[i]) THEN f[i - 1]
                            ELSE Append(f[i - 1], text[i])
    <3>1. i \in 0..L /\ i > 0 /\ i # 0
      OBVIOUS
    <3> QED BY <3>1
  <2> QED BY <2>1, <2>2
<1>4. h = loop(h)
  <2>1. ASSUME NEW i \in 0..L PROVE h[i] = loop(h)[i]
    <3>1. CASE i = 0
      <4> HIDE DEF loop
      <4>1. loop(h)[0] = <<>>
        BY <1>3
      <4> QED BY <1>2, <3>1, <4>1
    <3>2. CASE i # 0
      <4>1. i \in 1..L /\ i - 1 \in 0..L
        <5> HIDE DEF h, loop
        <5> QED BY <1>0, <3>2
      <4>2. h[i] = w[i] /\ h[i - 1] = w[i - 1]
        BY <4>1
      <4> HIDE DEF loop, h
      <4>3. loop(h)[i] = IF IsSpace(text[i]) THEN h[i - 1] ELSE Append(h[i - 1], text[i])
        BY <1>3, <4>1
      <4> QED BY <1>2, <4>1, <4>2, <4>3
    <3> QED BY <3>1, <3>2
  <2>2. h = [i \in 0..L |-> h[i]]
    OBVIOUS
  <2>3. loop(h) = [i \in 0..L |-> loop(h)[i]]
    <3> HIDE DEF h
    <3> QED OBVIOUS
  <2> HIDE DEF h, loop
  <2> QED BY <2>1, <2>2, <2>3
<1>5. res = loop(res)
  <2> HIDE DEF loop, h
  <2> QED BY <1>4
<1> HIDE DEF res, loop, h
<1>6. res[0] = w[0]
  BY <1>2, <1>3, <1>5
<1>7. ASSUME NEW i \in 1..L, res[i - 1] = w[i - 1] PROVE res[i] = w[i]
  <2>1. loop(res)[i] = IF IsSpace(text[i]) THEN res[i - 1] ELSE Append(res[i - 1], text[i])
    BY <1>3
  <2> QED BY <1>2, <1>5, <1>7, <2>1
<1>8. GoAlike(res, w, L)
  BY <1>6, <1>7 DEF GoAlike
<1>9. \A i \in 0..L : res[i] = w[i]
  BY <1>0, <1>8, Alike
<1> QED BY <1>0, <1>1, <1>9 DEF L

LEMMA Appended ==
  ASSUME NEW n \in Nat, NEW s, NEW x
  PROVE  Append([j \in 1..n |-> s[j]], x) =
           [j \in 1..(n + 1) |-> IF j = n + 1 THEN x ELSE s[j]]
<1> DEFINE a == [j \in 1..n |-> s[j]]
           C == {s[j] : j \in 1..n} \cup {x}
<1>1. a \in Seq(C) /\ Len(a) = n /\ \A j \in 1..n : a[j] = s[j]
  OBVIOUS
<1> HIDE DEF a
<1>2. /\ Append(a, x) \in Seq(C) /\ Len(Append(a, x)) = n + 1
      /\ \A j \in 1..n : Append(a, x)[j] = a[j]
      /\ Append(a, x)[n + 1] = x
  BY <1>1, AppendProperties
<1> DEFINE b == Append(a, x)
<1> HIDE DEF C
<1>6. b \in Seq(C) /\ Len(b) = n + 1
  BY <1>2
<1> HIDE DEF b
<1>3. ASSUME NEW j \in 1..(n + 1) PROVE b[j] = IF j = n + 1 THEN x ELSE s[j]
  <2>1. CASE j = n + 1
    BY <1>2, <2>1 DEF b
  <2>2. CASE j # n + 1
    <3>1. j \in 1..n
      BY <2>2
    <3> QED BY <1>1, <1>2, <2>2, <3>1 DEF b
  <2> QED BY <2>1, <2>2
<1>4. b = [j \in 1..(n + 1) |-> b[j]]
  BY <1>6
<1>5. b = [j \in 1..(n + 1) |-> IF j = n + 1 THEN x ELSE s[j]]
  BY <1>3, <1>4
<1> QED BY <1>5 DEF b, a

\* A decimal number or a name is no white space, and a separator is.
LEMMA WordIsNoSpace ==
  /\ \A x : ~ IsSpace(Word(x)) /\ Word(x)[2] = x
  /\ \A x : ~ IsSpace(Line(x)) /\ Line(x)[2] = x /\ Line(x)[1] = "line"
  /\ \A x : Word(x)[1] # "line"
  /\ IsSpace(Space) /\ IsSpace(Newline)
BY DEF IsSpace, Word, Line, Space, Newline, Byte

\* What is written with spaces between is read word by word.
LEMMA SpacedIsRead ==
  ASSUME NEW ws, IsText(ws), ws # <<>>
  PROVE  /\ IsText(SpacedText(ws))
         /\ Words(SpacedText(ws)) = [j \in 1..Len(ws) |-> Word(ws[j])]
<1> DEFINE n == Len(ws)
           text == SpacedText(ws)
           L == 2 * n - 1
           w == [i \in 0..L |-> [j \in 1..((i + 1) \div 2) |-> Word(ws[j])]]
<1>1. n \in Nat /\ n # 0
  BY DEF IsText
<1> HIDE DEF n
<1>2. text = [k \in 1..L |-> IF (k % 2) = 1 THEN Word(ws[(k + 1) \div 2]) ELSE Space]
  BY DEF SpacedText, n
<1> HIDE DEF text
<1>3. L \in Nat /\ (L + 1) \div 2 = n
  BY <1>1
<1> HIDE DEF L
<1>4. text \in Seq({text[k] : k \in 1..L}) /\ Len(text) = L
  <2> DEFINE C == {text[k] : k \in 1..L}
  <2>1. \A k \in 1..L : text[k] \in C
    OBVIOUS
  <2>2. text = [k \in 1..L |-> text[k]]
    BY <1>2
  <2> HIDE DEF C
  <2>3. [k \in 1..L |-> text[k]] \in Seq(C) /\ Len([k \in 1..L |-> text[k]]) = L
    BY <1>3, <2>1
  <2> QED BY <2>2, <2>3 DEF C
<1>5. w[0] = <<>>
  <2>1. (0 + 1) \div 2 = 0 /\ 0 \in 0..L
    BY <1>3
  <2> QED BY <2>1
<1>6. ASSUME NEW i \in 1..L
      PROVE  w[i] = IF IsSpace(text[i]) THEN w[i - 1] ELSE Append(w[i - 1], text[i])
  <2> DEFINE m == i \div 2
  <2>1. i \in 0..L /\ i - 1 \in 0..L /\ (i - 1) + 1 = i
    BY <1>3
  <2>2. w[i] = [j \in 1..((i + 1) \div 2) |-> Word(ws[j])]
        /\ w[i - 1] = [j \in 1..m |-> Word(ws[j])]
    BY <2>1
  <2>3. text[i] = IF (i % 2) = 1 THEN Word(ws[(i + 1) \div 2]) ELSE Space
    BY <1>2
  <2> HIDE DEF w
  <2>4. CASE (i % 2) = 1
    <3>1. (i + 1) \div 2 = m + 1 /\ m \in Nat
      BY <2>4
    <3> HIDE DEF m
    <3>2. text[i] = Word(ws[m + 1]) /\ ~ IsSpace(text[i])
      BY <2>3, <2>4, <3>1, WordIsNoSpace
    <3> DEFINE s == [j \in 1..(m + 1) |-> Word(ws[j])]
    <3>3. w[i - 1] = [j \in 1..m |-> s[j]] /\ w[i] = s
      BY <2>2, <3>1
    <3>4. s[m + 1] = text[i]
      BY <3>1, <3>2
    <3>5. s = [j \in 1..(m + 1) |-> IF j = m + 1 THEN text[i] ELSE s[j]]
      BY <3>4
    <3> HIDE DEF s
    <3>6. Append([j \in 1..m |-> s[j]], text[i]) =
            [j \in 1..(m + 1) |-> IF j = m + 1 THEN text[i] ELSE s[j]]
      BY <3>1, Appended
    <3> QED BY <3>2, <3>3, <3>5, <3>6
  <2>5. CASE (i % 2) # 1
    <3>1. (i + 1) \div 2 = m
      BY <2>5
    <3>2. IsSpace(text[i])
      BY <2>3, <2>5, WordIsNoSpace
    <3> QED BY <2>2, <3>1, <3>2
  <2> QED BY <2>4, <2>5
<1> HIDE DEF w
<1>7. WordsUpTo(w, text, Len(text)) /\ Len(text) \in Nat
  BY <1>3, <1>4, <1>5, <1>6 DEF WordsUpTo
<1>8. Words(text) = w[Len(text)]
  BY <1>7, WordsAre
<1>9. w[L] = [j \in 1..n |-> Word(ws[j])]
  BY <1>3 DEF w
<1> QED BY <1>4, <1>8, <1>9 DEF IsText, text, n

\* What join requests say is what is read.
LEMMA JoinIsRead ==
  ASSUME NEW as, NEW ip, NEW port
  PROVE  /\ IsText(JoinText(as, ip, port))
         /\ ReadJoin(JoinText(as, ip, port)) = [as |-> as, ip |-> ip, port |-> port]
<1> DEFINE ws == <<ip, port>>
           data == SpacedText(ws)
           line == Line(<<as, 4>>)
           text == JoinText(as, ip, port)
<1>1. text = <<line>> \o data
  BY DEF JoinText
<1>2. IsText(ws) /\ ws # <<>> /\ Len(ws) = 2 /\ ws[1] = ip /\ ws[2] = port
  BY IsTextIfs
<1>3. line[2] = <<as, 4>>
  BY WordIsNoSpace
<1> HIDE DEF ws, line, text
<1>4. IsText(data) /\ Words(data) = [j \in 1..2 |-> Word(ws[j])]
  BY <1>2, SpacedIsRead
<1> HIDE DEF data
<1>5. PICK C : data \in Seq(C)
  BY <1>4 DEF IsText
<1>6. text \in Seq(C \cup {line}) /\ text[1] = line /\ Tail(text) = data
  BY <1>1, <1>5, Behind
<1>7. /\ Len(Words(Tail(text))) = 2
      /\ Words(Tail(text))[1] = Word(ip) /\ Words(Tail(text))[2] = Word(port)
  <2> DEFINE words == Words(Tail(text))
  <2>1. words = [j \in 1..2 |-> Word(ws[j])]
    BY <1>4, <1>6
  <2> HIDE DEF words
  <2>2. Len(words) = 2 /\ words[1] = Word(ws[1]) /\ words[2] = Word(ws[2])
    BY <2>1
  <2> QED BY <1>2, <2>2 DEF words
<1>8. text[1][2][1] = as /\ text[1][2][2] = 4
  <2>1. <<as, 4>>[1] = as /\ <<as, 4>>[2] = 4
    OBVIOUS
  <2> HIDE DEF Word
  <2> QED BY <1>3, <1>6, <2>1
<1>9. Word(ip)[2] = ip /\ Word(port)[2] = port
  BY WordIsNoSpace
<1>10. ReadJoin(text) = [as |-> as, ip |-> ip, port |-> port]
  <2> DEFINE words == Words(Tail(text))
  <2>1. 2 * Len(words) = 4
    <3>1. Len(words) = 2
      BY <1>7
    <3>2. \A l \in Nat : l = 2 => 2 * l = 4
      OBVIOUS
    <3> HIDE DEF words
    <3> QED BY <3>1, <3>2
  <2>2. words[1][2] = ip /\ words[2][2] = port
    BY <1>7, <1>9
  <2>3. ReadJoin(text) =
          IF text[1][2][2] = 2 * Len(words)
          THEN [as |-> text[1][2][1], ip |-> words[1][2], port |-> words[2][2]] ELSE Throws
    BY DEF ReadJoin
  <2> HIDE DEF words
  <2> QED BY <1>8, <2>1, <2>2, <2>3
<1> QED BY <1>6, <1>10 DEF IsText, text

-----------------------------------------------------------------------------
(* Values.                                                                 *)

\* A value as the operand or the result of its type and encryption has it.
IsValue(type, e, v) ==
  /\ v \in [shape : Seq(Nat), numbers : Seq(Int)]
  /\ type = "TENSOR" => Len(v.numbers) = Elements(v.shape) * Numbers(e)
  /\ type # "TENSOR" => v.shape = <<>>
  /\ type = "SINGLE" => Len(v.numbers) = Numbers(e)

LEMMA SpacedValue ==
  ASSUME NEW ns \in Seq(Int), ns # <<>>
  PROVE  ReadSpaced(SpacedText(ns)) = ns
<1> DEFINE n == Len(ns)
           words == Words(SpacedText(ns))
<1>1. words = [j \in 1..n |-> Word(ns[j])]
  <2>1. IsText(ns)
    BY DEF IsText
  <2> QED BY <2>1, SpacedIsRead
<1>2. ReadSpaced(SpacedText(ns)) = [i \in DOMAIN words |-> words[i][2]]
  BY DEF ReadSpaced
<1> HIDE DEF words
<1>3. DOMAIN words = 1..n /\ \A j \in 1..n : words[j][2] = ns[j]
  BY <1>1, WordIsNoSpace
<1>4. ns = [j \in 1..n |-> ns[j]]
  OBVIOUS
<1> QED BY <1>2, <1>3, <1>4

LEMMA SpacedIsText ==
  ASSUME NEW ns \in Seq(Int)
  PROVE  IsText(SpacedText(ns))
<1>1. CASE ns = <<>>
  <2>1. Len(ns) = 0
    BY <1>1
  <2>2. 2 * Len(ns) - 1 = -1
    BY <2>1
  <2>3. 1..(-1) = {}
    OBVIOUS
  <2>4. SpacedText(ns) = [k \in {} |-> IF (k % 2) = 1 THEN Word(ns[(k + 1) \div 2]) ELSE Space]
    BY <2>2, <2>3 DEF SpacedText
  <2>5. SpacedText(ns) = <<>>
    BY <2>4
  <2> QED BY <2>5, IsTextIfs
<1>2. CASE ns # <<>>
  <2>1. IsText(ns)
    BY DEF IsText
  <2> QED BY <1>2, <2>1, SpacedIsRead
<1> QED BY <1>1, <1>2

LEMMA ValueIsText ==
  ASSUME NEW v \in [shape : Seq(Nat), numbers : Seq(Int)], NEW type
  PROVE  IsText(ValueText(type, v))
<1>1. v.shape \in Seq(Nat) /\ v.numbers \in Seq(Int)
  OBVIOUS
<1>2. IsText(TensorText(v))
  <2>1. PICK p : Places(p, Sizes(v.numbers), Len(v.numbers))
    BY <1>1, SizesAre
  <2>2. IsTensorText(TensorText(v), v.shape, v.numbers, p)
    BY <1>1, <2>1, TensorLayout
  <2> QED BY <2>2 DEF IsTensorText, IsText
<1>3. IsText(SpacedText(v.numbers))
  BY <1>1, SpacedIsText
<1> QED BY <1>2, <1>3 DEF ValueText

LEMMA NumbersIs ==
  /\ Numbers("PLAINTEXT") = 1 /\ Numbers("PARTIAL") = 3 /\ Numbers("CIPHERTEXT") = 6
BY DEF Numbers

\* What from_string makes of what to_string wrote is the value, at every size and
\* sign of its numbers and every shape; decoding a tensor of no elements kills
\* the process (cpu_cryptosystem.hpp, the serialisers of tensors and numbers).
THEOREM ValueRoundTrip ==
  ASSUME NEW type \in {"SINGLE", "TENSOR"},
         NEW e \in {"PLAINTEXT", "PARTIAL", "CIPHERTEXT"}, NEW v, IsValue(type, e, v)
  PROVE  ReadValue(type, e, ValueText(type, v)) =
           IF type = "TENSOR" /\ Elements(v.shape) = 0 THEN Dies
           ELSE AsReceived(type, e, v)
<1>1. /\ v \in [shape : Seq(Nat), numbers : Seq(Int)]
      /\ v.shape \in Seq(Nat) /\ v.numbers \in Seq(Int)
      /\ v = [shape |-> v.shape, numbers |-> v.numbers]
  BY DEF IsValue
<1>2. CASE type = "TENSOR"
  <2>1. Len(v.numbers) = Elements(v.shape) * Numbers(e)
    BY <1>2 DEF IsValue
  <2>2. ReadTensor(TensorText(v), e) =
           IF Elements(v.shape) = 0 THEN Dies
           ELSE [shape |-> IF e = "PLAINTEXT" THEN <<Elements(v.shape)>> ELSE v.shape,
                 numbers |-> v.numbers]
    BY <1>1, <2>1, TensorRoundTrip
  <2>3. ReadValue(type, e, ValueText(type, v)) = ReadTensor(TensorText(v), e)
    BY <1>2 DEF ReadValue, ValueText
  <2>4. AsReceived(type, e, v) =
          [shape |-> IF e = "PLAINTEXT" THEN <<Elements(v.shape)>> ELSE v.shape,
           numbers |-> v.numbers]
    <3>1. CASE e = "PLAINTEXT"
      <4>1. AsReceived(type, e, v) = [v EXCEPT !.shape = <<Elements(v.shape)>>]
        BY <1>2, <3>1 DEF AsReceived
      <4>2. [v EXCEPT !.shape = <<Elements(v.shape)>>] =
              [shape |-> <<Elements(v.shape)>>, numbers |-> v.numbers]
        BY <1>1
      <4> QED BY <3>1, <4>1, <4>2
    <3>2. CASE e # "PLAINTEXT"
      BY <1>1, <3>2 DEF AsReceived
    <3> QED BY <3>1, <3>2
  <2> QED BY <1>2, <2>2, <2>3, <2>4
<1>3. CASE type = "SINGLE"
  <2>1. v.shape = <<>> /\ Len(v.numbers) = Numbers(e)
    BY <1>3 DEF IsValue
  <2>2. v.numbers # <<>>
    <3>1. Numbers(e) # 0
      BY NumbersIs
    <3>2. Len(<<>>) = 0
      OBVIOUS
    <3> QED BY <2>1, <3>1, <3>2
  <2>3. ReadSpaced(SpacedText(v.numbers)) = v.numbers
    BY <1>1, <2>2, SpacedValue
  <2>4. ReadValue(type, e, ValueText(type, v)) = [shape |-> <<>>, numbers |-> v.numbers]
    BY <1>3, <2>3 DEF ReadValue, ValueText
  <2>5. AsReceived(type, e, v) = v
    BY <1>3 DEF AsReceived
  <2> QED BY <1>1, <1>3, <2>1, <2>4, <2>5
<1> QED BY <1>2, <1>3

-----------------------------------------------------------------------------
(* Operands one behind the other.                                          *)

LEMMA Least ==
  ASSUME NEW S, S \subseteq Nat, S # {}
  PROVE  Min(S) \in S /\ \A y \in S : Min(S) <= y
<1> DEFINE R == OpToRel(<, Nat)
<1>1. \E x \in S : \A y \in S : ~ (<<y, x>> \in R)
  <2>1. IsWellFoundedOn(R, Nat)
    BY NatLessThanWellFounded
  <2> HIDE DEF R
  <2> QED BY <2>1, WFMin
<1>2. \E x \in S : \A y \in S : x <= y
  <2>1. PICK x \in S : \A y \in S : ~ (<<y, x>> \in R)
    BY <1>1
  <2>2. \A y \in S : ~ (y < x)
    BY <2>1 DEF OpToRel
  <2>3. \A y \in S : x <= y
    BY <2>2
  <2> QED BY <2>3
<1> QED BY <1>2 DEF Min

\* Where the white space from a place on ends.
LEMMA SkipSpaceIs ==
  ASSUME NEW text, Len(text) \in Nat, NEW from \in Nat \ {0}
  PROVE  /\ SkipSpace(text, from) \in Nat
         /\ from > Len(text) => SkipSpace(text, from) = Len(text) + 1
         /\ SkipSpace(text, from) <= Len(text) =>
              from <= SkipSpace(text, from) /\ ~ IsSpace(text[SkipSpace(text, from)])
         /\ from <= Len(text) /\ ~ IsSpace(text[from]) => SkipSpace(text, from) = from
         /\ from <= Len(text) /\ IsSpace(text[from]) =>
              SkipSpace(text, from) = SkipSpace(text, from + 1)
<1> DEFINE L == Len(text)
           Rest(k) == {i \in k..L : ~ IsSpace(text[i])}
<1>1. \A k : SkipSpace(text, k) = IF Rest(k) = {} THEN L + 1 ELSE Min(Rest(k))
  BY DEF SkipSpace
<1>2. L \in Nat
  OBVIOUS
<1> HIDE DEF L
<1>3. \A k \in Nat : Rest(k) \subseteq Nat /\ \A i \in Rest(k) : k <= i /\ i <= L /\ ~ IsSpace(text[i])
  BY <1>2
<1>4. ASSUME NEW k \in Nat, Rest(k) # {}
      PROVE  Min(Rest(k)) \in Rest(k) /\ \A y \in Rest(k) : Min(Rest(k)) <= y
  <2>1. Rest(k) \subseteq Nat
    BY <1>3
  <2> HIDE DEF Rest
  <2> QED BY <1>4, <2>1, Least
<1>5. SkipSpace(text, from) \in Nat
  <2> HIDE DEF Rest
  <2> QED BY <1>1, <1>2, <1>3, <1>4
<1>6. ASSUME from > L PROVE SkipSpace(text, from) = L + 1
  <2>1. Rest(from) = {}
    BY <1>2, <1>6
  <2> QED BY <1>1, <2>1
<1>7. ASSUME SkipSpace(text, from) <= L
      PROVE  from <= SkipSpace(text, from) /\ ~ IsSpace(text[SkipSpace(text, from)])
  <2> HIDE DEF Rest
  <2>1. Rest(from) # {}
    BY <1>1, <1>2, <1>7
  <2>2. SkipSpace(text, from) \in Rest(from)
    BY <1>1, <1>4, <2>1
  <2> QED BY <1>3, <2>2
<1>8. ASSUME from <= L, ~ IsSpace(text[from]) PROVE SkipSpace(text, from) = from
  <2>1. from \in Rest(from)
    BY <1>2, <1>8
  <2> HIDE DEF Rest
  <2>2. SkipSpace(text, from) = Min(Rest(from)) /\ Rest(from) # {}
    BY <1>1, <2>1
  <2>3. Min(Rest(from)) \in Rest(from) /\ Min(Rest(from)) <= from
    BY <1>4, <2>1, <2>2
  <2>4. Min(Rest(from)) \in Nat /\ from <= Min(Rest(from))
    BY <1>3, <2>3
  <2> QED BY <2>2, <2>3, <2>4
<1>9. ASSUME from <= L, IsSpace(text[from])
      PROVE  SkipSpace(text, from) = SkipSpace(text, from + 1)
  <2>1. Rest(from) = Rest(from + 1)
    <3>1. ASSUME NEW i \in Rest(from) PROVE i \in Rest(from + 1)
      <4>1. i # from
        BY <1>9
      <4>2. i \in Nat /\ i <= L /\ from <= i /\ ~ IsSpace(text[i])
        BY <1>2
      <4>3. i \in (from + 1)..L
        BY <1>2, <4>1, <4>2
      <4> QED BY <4>2, <4>3
    <3>2. ASSUME NEW i \in Rest(from + 1) PROVE i \in Rest(from)
      BY <1>2
    <3> HIDE DEF Rest
    <3> QED BY <3>1, <3>2
  <2> HIDE DEF Rest
  <2> QED BY <1>1, <2>1
<1> QED BY <1>5, <1>6, <1>7, <1>8, <1>9 DEF L

\* An operand that stands at a place of a text of length L, as far as the text
\* goes; what is behind it is no white space.
OperandAt(text, at, o) ==
  LET L == Len(text)
      n == Len(o.data)
  IN  /\ L \in Nat /\ n \in Nat /\ at \in Nat \ {0}
      /\ IsText(o.data) /\ o = [type |-> o.type, encryption |-> o.encryption, data |-> o.data]
      /\ at <= L => text[at] = Line(<<o.type, o.encryption, n>>)
      /\ \A k \in 1..n : at + k <= L => text[at + k] = o.data[k]
      /\ at + n + 1 <= L => text[at + n + 1] = Newline
      /\ at + n + 2 <= L => ~ IsSpace(text[at + n + 2])

\* Data that does not begin with white space.
Sound(data) == data = <<>> \/ ~ IsSpace(data[1])

\* So much of it is in the text that it is read as it is.
Whole(o, at, L) ==
  /\ Sound(o.data) /\ at + Len(o.data) <= L
  /\ o.data = <<>> => at + 2 <= L

\* Behind an operand, or behind the text.
Next2(o, at, L) == IF at + Len(o.data) + 1 <= L THEN at + Len(o.data) + 2 ELSE L + 1

\* The parts of ReadOperand.
ReadsOperand(r, text, last, fields, start, after, data) ==
  /\ fields = text[last.at][2]
  /\ start = SkipSpace(text, last.at + 1)
  /\ after = start + fields[3]
  /\ data = SubSeq(text, start, Min({after - 1, Len(text)}))
  /\ r = IF start > Len(text) THEN Throws
         ELSE [at |-> SkipSpace(text, after),
               operands |-> Append(last.operands,
                 [type |-> fields[1], encryption |-> fields[2], data |-> data])]

LEMMA OperandParts ==
  ASSUME NEW text, NEW last
  PROVE  \E fields, start, after, data :
           ReadsOperand(ReadOperand(text, last), text, last, fields, start, after, data)
BY DEF ReadOperand, ReadsOperand

LEMMA MinOfTwo ==
  ASSUME NEW a \in Int, NEW b \in Int
  PROVE  Min({a, b}) = IF a <= b THEN a ELSE b
BY DEF Min

\* Behind the text there is nothing to read.
LEMMA NoOperand ==
  ASSUME NEW text, Len(text) \in Nat, NEW last, last.at \in Nat, last.at > Len(text)
  PROVE  ReadOperand(text, last) = Throws
<1>1. PICK fields, start, after, data :
        ReadsOperand(ReadOperand(text, last), text, last, fields, start, after, data)
  BY OperandParts
<1>2. last.at + 1 \in Nat \ {0} /\ last.at + 1 > Len(text)
  OBVIOUS
<1>3. SkipSpace(text, last.at + 1) = Len(text) + 1
  BY <1>2, SkipSpaceIs
<1>4. start > Len(text)
  BY <1>1, <1>3 DEF ReadsOperand
<1> QED BY <1>1, <1>4 DEF ReadsOperand

\* An operand in the text, and one that is read otherwise.
LEMMA WholeOperand ==
  ASSUME NEW text, NEW last, NEW o, OperandAt(text, last.at, o),
         Whole(o, last.at, Len(text))
  PROVE  ReadOperand(text, last) =
           [at |-> Next2(o, last.at, Len(text)), operands |-> Append(last.operands, o)]
<1> DEFINE L == Len(text)
           at == last.at
           n == Len(o.data)
<1>1. PICK fields, start, after, data :
        ReadsOperand(ReadOperand(text, last), text, last, fields, start, after, data)
  BY OperandParts
<1>2. L \in Nat /\ n \in Nat /\ at \in Nat \ {0}
  BY DEF OperandAt
<1>3. /\ at <= L => text[at] = Line(<<o.type, o.encryption, n>>)
      /\ \A k \in 1..n : at + k <= L => text[at + k] = o.data[k]
      /\ at + n + 1 <= L => text[at + n + 1] = Newline
      /\ at + n + 2 <= L => ~ IsSpace(text[at + n + 2])
  BY DEF OperandAt
<1>4. at + n <= L /\ Sound(o.data) /\ (o.data = <<>> => at + 2 <= L)
  BY DEF Whole
<1>5. PICK C : o.data \in Seq(C)
  BY DEF OperandAt, IsText
<1>13. o = [type |-> o.type, encryption |-> o.encryption, data |-> o.data]
  BY DEF OperandAt
<1>6. /\ fields = text[at][2] /\ start = SkipSpace(text, at + 1)
      /\ after = start + fields[3]
      /\ data = SubSeq(text, start, Min({after - 1, L}))
      /\ ReadOperand(text, last) =
           IF start > L THEN Throws
           ELSE [at |-> SkipSpace(text, after),
                 operands |-> Append(last.operands,
                   [type |-> fields[1], encryption |-> fields[2], data |-> data])]
  BY <1>1 DEF ReadsOperand
<1>7. fields[1] = o.type /\ fields[2] = o.encryption /\ fields[3] = n
  <2>1. fields = <<o.type, o.encryption, n>>
    <3>1. text[at] = Line(<<o.type, o.encryption, n>>)
      BY <1>2, <1>3, <1>4
    <3>2. Line(<<o.type, o.encryption, n>>)[2] = <<o.type, o.encryption, n>>
      BY WordIsNoSpace
    <3> QED BY <1>6, <3>1, <3>2
  <2> HIDE DEF n
  <2> QED BY <2>1
<1>8. o.data = <<>> <=> n = 0
  BY <1>5
<1>9. Len(text) \in Nat
  BY <1>2
<1>10. \A k \in Nat \ {0} :
         /\ k > L => SkipSpace(text, k) = L + 1
         /\ k <= L /\ ~ IsSpace(text[k]) => SkipSpace(text, k) = k
         /\ k <= L /\ IsSpace(text[k]) => SkipSpace(text, k) = SkipSpace(text, k + 1)
  BY <1>9, SkipSpaceIs
<1>11. IsSpace(Newline)
  BY WordIsNoSpace
<1>20. IF at + n + 1 <= L THEN SkipSpace(text, at + n + 2) = at + n + 2
       ELSE SkipSpace(text, at + n + 1) = L + 1
  <2> HIDE DEF L, at, n
  <2>1. CASE at + n + 1 <= L
    <3>1. at + n + 2 \in Nat \ {0} /\ (at + n + 2 <= L \/ (at + n + 2 > L /\ at + n + 2 = L + 1))
      BY <1>2, <2>1
    <3> QED BY <1>3, <1>10, <2>1, <3>1
  <2>2. CASE ~ (at + n + 1 <= L)
    <3>1. at + n + 1 \in Nat \ {0} /\ at + n + 1 > L
      BY <1>2, <2>2
    <3> QED BY <1>10, <2>2, <3>1
  <2> QED BY <2>1, <2>2
<1>21. Next2(o, at, L) = IF at + n + 1 <= L THEN at + n + 2 ELSE L + 1
  BY DEF Next2
<1> HIDE DEF L, at, n
<1>12. start <= L /\ data = o.data /\ SkipSpace(text, after) = Next2(o, at, L)
  <2>1. CASE n = 0
    <3>1. at + 2 <= L /\ at + 1 \in Nat \ {0} /\ at + 2 \in Nat \ {0} /\ at + 1 <= L
          /\ at + n + 1 = at + 1 /\ at + n + 2 = at + 2 /\ (at + 1) + 1 = at + 2
      BY <1>2, <1>4, <1>8, <2>1
    <3>2. IsSpace(text[at + 1]) /\ ~ IsSpace(text[at + 2])
      BY <1>3, <1>11, <3>1
    <3>3. start = at + 2
      BY <1>6, <1>10, <3>1, <3>2
    <3>4. after = at + 2
      BY <1>2, <1>6, <1>7, <2>1, <3>3
    <3>5. data = <<>>
      <4>1. Min({after - 1, L}) = at + 1
        <5>1. after - 1 \in Int /\ L \in Int /\ after - 1 <= L /\ after - 1 = at + 1
          BY <1>2, <3>1, <3>4
        <5> QED BY <5>1, MinOfTwo
      <4>2. data = SubSeq(text, at + 2, at + 1)
        BY <1>6, <3>3, <4>1
      <4>3. at + 2 \in Int /\ at + 1 \in Int /\ at + 1 < at + 2
        BY <1>2
      <4> QED BY <4>2, <4>3, SubSeqEmpty
    <3>6. SkipSpace(text, after) = at + 2
      BY <1>10, <3>1, <3>2, <3>4
    <3>7. Next2(o, at, L) = at + 2
      BY <1>21, <3>1
    <3> QED BY <1>8, <2>1, <3>1, <3>3, <3>5, <3>6, <3>7
  <2>2. CASE n # 0
    <3>1. at + 1 \in Nat \ {0} /\ at + 1 <= L /\ 1 \in 1..n
      BY <1>2, <1>4, <2>2
    <3>2. ~ IsSpace(text[at + 1])
      <4>1. ~ IsSpace(o.data[1])
        BY <1>4, <1>8, <2>2 DEF Sound
      <4> QED BY <1>3, <3>1, <4>1
    <3>3. start = at + 1
      BY <1>6, <1>10, <3>1, <3>2
    <3>4. after = at + n + 1 /\ after - 1 = at + n
      <4>1. after = (at + 1) + n
        BY <1>6, <1>7, <3>3
      <4> QED BY <1>2, <4>1
    <3>5. data = o.data
      <4>1. Min({after - 1, L}) = at + n
        <5>1. after - 1 \in Int /\ L \in Int /\ after - 1 <= L
          BY <1>2, <1>4, <3>4
        <5> QED BY <3>4, <5>1, MinOfTwo
      <4>2. data = SubSeq(text, at + 1, at + n)
        BY <1>6, <3>3, <4>1
      <4>3. \A i \in (at + 1)..(at + n) : text[i] \in C
        <5> TAKE i \in (at + 1)..(at + n)
        <5>1. i - at \in 1..n /\ at + (i - at) = i /\ i <= L
          BY <1>2, <1>4
        <5>2. o.data[i - at] \in C
          BY <1>5, <5>1 DEF n
        <5> QED BY <1>3, <5>1, <5>2
      <4>4. at + 1 \in Int /\ at + n \in Int /\ at + 1 <= at + n /\ ((at + n) - (at + 1)) + 1 = n
        BY <1>2, <3>1
      <4>5. /\ data \in Seq(C) /\ Len(data) = n
            /\ \A i \in 1..n : data[i] = text[((at + 1) + i) - 1]
        BY <4>2, <4>3, <4>4, SubSeqProperties
      <4>6. \A i \in 1..n : data[i] = o.data[i]
        <5> TAKE i \in 1..n
        <5>1. ((at + 1) + i) - 1 = at + i /\ at + i <= L
          BY <1>2, <1>4
        <5> QED BY <1>3, <4>5, <5>1
      <4>7. o.data \in Seq(C) /\ Len(o.data) = n
        BY <1>5 DEF n
      <4> QED BY <4>5, <4>6, <4>7
    <3>6. SkipSpace(text, after) = Next2(o, at, L)
      <4>1. CASE at + n + 1 <= L
        <5>1. at + n + 1 \in Nat \ {0} /\ (at + n + 1) + 1 = at + n + 2
          BY <1>2
        <5>2. SkipSpace(text, at + n + 1) = SkipSpace(text, at + n + 2)
          BY <1>3, <1>10, <1>11, <4>1, <5>1
        <5> QED BY <1>20, <1>21, <3>4, <4>1, <5>2
      <4>2. CASE ~ (at + n + 1 <= L)
        BY <1>20, <1>21, <3>4, <4>2
      <4> QED BY <4>1, <4>2
    <3>7. start <= L
      BY <3>1, <3>3
    <3> QED BY <3>5, <3>6, <3>7
  <2> QED BY <2>1, <2>2
<1>14. start \in Int /\ ~ (start > L)
  <2>1. start \in Nat
    <3>1. at + 1 \in Nat \ {0}
      BY <1>2
    <3>2. SkipSpace(text, at + 1) \in Nat
      BY <1>9, <3>1, SkipSpaceIs
    <3> QED BY <1>6, <3>2
  <2> QED BY <1>2, <1>12, <2>1
<1>15. ReadOperand(text, last) = [at |-> Next2(o, at, L),
          operands |-> Append(last.operands, [type |-> o.type, encryption |-> o.encryption,
                                              data |-> o.data])]
  BY <1>6, <1>7, <1>12, <1>14
<1> QED BY <1>13, <1>15 DEF L, at

\* One more operand was read.
ReadAs(r, last, x, e) == r = [at |-> x, operands |-> Append(last.operands, e)]

NotWhole(text, last, o) ==
  /\ OperandAt(text, last.at, o) /\ last.at <= Len(text)
  /\ ~ Whole(o, last.at, Len(text))

\* What is not whole is not read, or read as something else.
LEMMA OtherOperand ==
  ASSUME NEW text, NEW last, NEW o, NotWhole(text, last, o)
  PROVE  \/ ReadOperand(text, last) = Throws
         \/ \E x, e : ReadAs(ReadOperand(text, last), last, x, e) /\ e # o
<1> DEFINE L == Len(text)
           at == last.at
           n == Len(o.data)
<1>0. /\ OperandAt(text, last.at, o) /\ last.at <= Len(text)
      /\ ~ Whole(o, last.at, Len(text))
  BY DEF NotWhole
<1>1. PICK fields, start, after, data :
        ReadsOperand(ReadOperand(text, last), text, last, fields, start, after, data)
  BY OperandParts
<1>2. L \in Nat /\ n \in Nat /\ at \in Nat \ {0} /\ at <= L
  BY <1>0 DEF OperandAt
<1>3. /\ text[at] = Line(<<o.type, o.encryption, n>>)
      /\ \A k \in 1..n : at + k <= L => text[at + k] = o.data[k]
      /\ at + n + 1 <= L => text[at + n + 1] = Newline
  BY <1>0 DEF OperandAt
<1>5. PICK C : o.data \in Seq(C)
  BY <1>0 DEF OperandAt, IsText
<1>8. o.data = <<>> <=> n = 0
  BY <1>5
<1>4. \/ n # 0 /\ IsSpace(o.data[1])
      \/ at + n > L
      \/ n = 0 /\ at + 2 > L
  BY <1>0, <1>2, <1>8 DEF Whole, Sound
<1>6. /\ fields = text[at][2] /\ start = SkipSpace(text, at + 1)
      /\ after = start + fields[3]
      /\ data = SubSeq(text, start, Min({after - 1, L}))
      /\ ReadOperand(text, last) =
           IF start > L THEN Throws
           ELSE [at |-> SkipSpace(text, after),
                 operands |-> Append(last.operands,
                   [type |-> fields[1], encryption |-> fields[2], data |-> data])]
  BY <1>1 DEF ReadsOperand
<1>7. fields[3] = n
  <2>1. fields = <<o.type, o.encryption, n>>
    <3>2. Line(<<o.type, o.encryption, n>>)[2] = <<o.type, o.encryption, n>>
      BY WordIsNoSpace
    <3> QED BY <1>3, <1>6, <3>2
  <2> HIDE DEF n
  <2> QED BY <2>1
<1>9. Len(text) \in Nat
  BY <1>2
<1>10. \A k \in Nat \ {0} :
         /\ k > L => SkipSpace(text, k) = L + 1
         /\ k <= L /\ IsSpace(text[k]) => SkipSpace(text, k) = SkipSpace(text, k + 1)
         /\ SkipSpace(text, k) \in Nat
         /\ SkipSpace(text, k) <= L =>
              k <= SkipSpace(text, k) /\ ~ IsSpace(text[SkipSpace(text, k)])
  BY <1>9, SkipSpaceIs
<1>11. IsSpace(Newline)
  BY WordIsNoSpace
<1> DEFINE elem == [type |-> fields[1], encryption |-> fields[2], data |-> data]
<1>12. ASSUME data # o.data PROVE elem # o
  BY <1>12
<1> HIDE DEF L, at, n
<1>13. at + 1 \in Nat \ {0} /\ start \in Nat
  <2>1. at + 1 \in Nat \ {0}
    BY <1>2
  <2> QED BY <1>6, <1>10, <2>1
<1>14. ASSUME start <= L PROVE data # o.data
  <2>1. at + 1 <= start /\ ~ IsSpace(text[start])
    BY <1>6, <1>10, <1>13, <1>14
  <2>2. after = start + n /\ after - 1 \in Int /\ after - 1 = (start + n) - 1
    <3>1. after = start + n
      BY <1>6, <1>7
    <3> QED BY <1>2, <1>13, <3>1
  <2> DEFINE end == IF after - 1 <= L THEN after - 1 ELSE L
  <2>3. data = SubSeq(text, start, end)
    <3>1. after - 1 \in Int /\ L \in Int
      BY <1>2, <2>2
    <3>2. Min({after - 1, L}) = end
      BY <3>1, MinOfTwo
    <3> HIDE DEF end
    <3> QED BY <1>6, <3>2
  <2>4. end \in Int /\ start \in Int /\ end <= L /\ end <= (start + n) - 1
        /\ (n # 0 => start <= end)
    BY <1>2, <1>13, <1>14, <2>2
  <2> HIDE DEF end
  <2> DEFINE D == {text[i] : i \in start..end}
  <2>5. /\ Len(data) = IF start <= end THEN (end - start) + 1 ELSE 0
        /\ \A i \in 1..((end - start) + 1) : data[i] = text[(start + i) - 1]
    <3>1. \A i \in start..end : text[i] \in D
      OBVIOUS
    <3> HIDE DEF D
    <3>2. /\ Len(SubSeq(text, start, end)) = IF start <= end THEN (end - start) + 1 ELSE 0
          /\ \A i \in 1..((end - start) + 1) :
               SubSeq(text, start, end)[i] = text[(start + i) - 1]
      BY <2>4, <3>1, SubSeqProperties
    <3> QED BY <2>3, <3>2
  <2>6. CASE n # 0 /\ IsSpace(o.data[1])
    <3>1. 1 \in 1..((end - start) + 1) /\ (start + 1) - 1 = start
      BY <2>4, <2>6
    <3>2. data[1] = text[start]
      BY <2>5, <3>1
    <3> QED BY <2>1, <2>6, <3>2
  <2>7. CASE at + n > L
    <3>1. Len(data) # n
      BY <1>2, <1>13, <2>1, <2>4, <2>5, <2>7
    <3> QED BY <3>1 DEF n
  <2>8. CASE n = 0 /\ at + 2 > L
    <3>1. SkipSpace(text, at + 1) = L + 1
      <4>1. CASE at + 1 > L
        BY <1>10, <1>13, <4>1
      <4>2. CASE at + 1 <= L
        <5>1. at + n + 1 = at + 1 /\ (at + 1) + 1 = at + 2 /\ at + 2 \in Nat \ {0}
          BY <1>2, <2>8
        <5>2. IsSpace(text[at + 1])
          BY <1>3, <1>11, <4>2, <5>1
        <5>3. SkipSpace(text, at + 1) = SkipSpace(text, at + 2)
          BY <1>10, <1>13, <4>2, <5>1, <5>2
        <5> QED BY <1>10, <2>8, <5>1, <5>3
      <4> QED BY <1>2, <1>13, <4>1, <4>2
    <3> QED BY <1>2, <1>6, <1>14, <3>1
  <2> QED BY <1>4, <2>6, <2>7, <2>8
<1>15. CASE start > L
  <2>1. ReadOperand(text, last) = Throws
    BY <1>6, <1>15
  <2> QED BY <2>1
<1>16. CASE ~ (start > L)
  <2>1. start <= L
    BY <1>2, <1>13, <1>16
  <2>2. elem # o
    BY <1>12, <1>14, <2>1
  <2>3. ReadOperand(text, last) =
          [at |-> SkipSpace(text, after), operands |-> Append(last.operands, elem)]
    BY <1>6, <1>16
  <2>4. ReadAs(ReadOperand(text, last), last, SkipSpace(text, after), elem)
    BY <2>3 DEF ReadAs
  <2> HIDE DEF elem
  <2> QED BY <2>2, <2>4
<1> QED BY <1>15, <1>16

\* The operands up to one, and one more.
LEMMA OneMore ==
  ASSUME NEW text
  PROVE  /\ OperandsUpTo(text, 0) = [at |-> 1, operands |-> <<>>]
         /\ \A k \in Nat : OperandsUpTo(text, k + 1) =
              IF OperandsUpTo(text, k) = Throws THEN Throws
              ELSE ReadOperand(text, OperandsUpTo(text, k))
<1> DEFINE loop(n, f) == [i \in 0..n |->
             IF i = 0 THEN [at |-> 1, operands |-> <<>>]
             ELSE IF f[i - 1] = Throws THEN Throws ELSE ReadOperand(text, f[i - 1])]
           R(n) == CHOOSE f : f = loop(n, f)
           first == [at |-> 1, operands |-> <<>>]
           Step(x) == IF x = Throws THEN Throws ELSE ReadOperand(text, x)
<1>1. \A n : OperandsUpTo(text, n) = R(n)[n]
  BY DEF OperandsUpTo
<1>2. ASSUME NEW n \in Nat, NEW f
      PROVE  /\ DOMAIN loop(n, f) = 0..n /\ loop(n, f)[0] = first
             /\ \A i \in 1..n : loop(n, f)[i] = Step(f[i - 1])
             /\ loop(n, f) = [i \in 0..n |-> loop(n, f)[i]]
  <2>1. loop(n, f)[0] = first
    OBVIOUS
  <2>2. ASSUME NEW i \in 1..n PROVE loop(n, f)[i] = Step(f[i - 1])
    <3>1. i \in 0..n /\ i # 0
      OBVIOUS
    <3> QED BY <3>1
  <2> QED BY <2>1, <2>2
<1> HIDE DEF loop, first, Step
<1> DEFINE U == {n \in Nat : \E f : f = loop(n, f)}
<1>3. 0 \in U
  <2> DEFINE f == [i \in 0..0 |-> first]
  <2>1. f = [i \in 0..0 |-> f[i]] /\ \A i \in 0..0 : i = 0 /\ f[i] = first
    OBVIOUS
  <2> HIDE DEF f
  <2>2. loop(0, f) = [i \in 0..0 |-> loop(0, f)[i]] /\ loop(0, f)[0] = first
    BY <1>2
  <2>3. \A i \in 0..0 : loop(0, f)[i] = f[i]
    BY <2>1, <2>2
  <2>4. f = loop(0, f)
    BY <2>1, <2>2, <2>3
  <2> QED BY <2>4
<1>4. ASSUME NEW n \in Nat, n \in U PROVE n + 1 \in U
  <2>1. PICK f : f = loop(n, f)
    BY <1>4
  <2> DEFINE h == [i \in 0..(n + 1) |-> IF i = n + 1 THEN Step(f[n]) ELSE f[i]]
  <2>2. f[0] = first /\ \A i \in 1..n : f[i] = Step(f[i - 1])
    BY <1>2, <2>1
  <2>3. h = [i \in 0..(n + 1) |-> h[i]] /\ h[0] = f[0]
        /\ \A i \in 0..n : h[i] = f[i]
        /\ h[n + 1] = Step(f[n])
    OBVIOUS
  <2> HIDE DEF h
  <2>4. n + 1 \in Nat
    OBVIOUS
  <2>5. /\ loop(n + 1, h) = [i \in 0..(n + 1) |-> loop(n + 1, h)[i]]
        /\ loop(n + 1, h)[0] = first
        /\ \A i \in 1..(n + 1) : loop(n + 1, h)[i] = Step(h[i - 1])
    BY <1>2, <2>4
  <2>6. ASSUME NEW i \in 0..(n + 1) PROVE h[i] = loop(n + 1, h)[i]
    <3>1. CASE i = 0
      BY <2>2, <2>3, <2>5, <3>1
    <3>2. CASE i = n + 1
      <4>1. i \in 1..(n + 1) /\ i - 1 = n /\ n \in 0..n
        BY <3>2
      <4>2. loop(n + 1, h)[i] = Step(h[n]) /\ h[n] = f[n]
        BY <2>3, <2>5, <4>1
      <4> QED BY <2>3, <3>2, <4>2
    <3>3. CASE i # 0 /\ i # n + 1
      <4>1. i \in 1..n /\ i \in 1..(n + 1) /\ i - 1 \in 0..n /\ i \in 0..n
        BY <3>3
      <4>2. loop(n + 1, h)[i] = Step(h[i - 1]) /\ h[i - 1] = f[i - 1]
        BY <2>3, <2>5, <4>1
      <4> QED BY <2>2, <2>3, <4>1, <4>2
    <3> QED BY <3>1, <3>2, <3>3
  <2>7. h = loop(n + 1, h)
    BY <2>3, <2>5, <2>6
  <2> QED BY <2>4, <2>7
<1>5. Nat \subseteq U
  <2> HIDE DEF U
  <2> QED BY <1>3, <1>4, SetInduction
<1>6. \A n \in Nat : R(n) = loop(n, R(n))
  BY <1>5
<1> HIDE DEF R
<1>7. ASSUME NEW n \in Nat
      PROVE  R(n)[0] = first /\ \A i \in 1..n : R(n)[i] = Step(R(n)[i - 1])
  BY <1>2, <1>6
<1>8. ASSUME NEW k \in Nat PROVE OperandsUpTo(text, k + 1) = Step(OperandsUpTo(text, k))
  <2> DEFINE f == R(k + 1)
             h == R(k)
  <2>1. f[0] = first /\ \A i \in 1..(k + 1) : f[i] = Step(f[i - 1])
    BY <1>7
  <2>2. h[0] = first /\ \A i \in 1..k : h[i] = Step(h[i - 1])
    BY <1>7
  <2>3. OperandsUpTo(text, k + 1) = f[k + 1] /\ OperandsUpTo(text, k) = h[k]
    BY <1>1
  <2> HIDE DEF f, h
  <2>4. GoAlike(f, h, k)
    <3>1. \A i \in 1..k : f[i] = Step(f[i - 1]) /\ h[i] = Step(h[i - 1])
      BY <2>1, <2>2
    <3> QED BY <2>1, <2>2, <3>1 DEF GoAlike
  <2>5. \A i \in 0..k : f[i] = h[i]
    BY <2>4, Alike
  <2>6. k + 1 \in 1..(k + 1) /\ (k + 1) - 1 = k /\ k \in 0..k
    OBVIOUS
  <2> QED BY <2>1, <2>3, <2>5, <2>6
<1>9. OperandsUpTo(text, 0) = first
  BY <1>1, <1>7
<1> QED BY <1>8, <1>9 DEF first, Step

IsOperand(o) ==
  IsText(o.data) /\ o = [type |-> o.type, encryption |-> o.encryption, data |-> o.data]

LEMMA ThreeFields ==
  ASSUME NEW a, NEW b, NEW c
  PROVE  Append(<<a, b>>, c) = <<a, b, c>>
<1> DEFINE S == {a, b, c}
           x == Append(<<a, b>>, c)
           y == <<a, b, c>>
<1>1. <<a, b>> \in Seq(S) /\ c \in S /\ Len(<<a, b>>) = 2
  OBVIOUS
<1>2. /\ x \in Seq(S) /\ Len(x) = Len(<<a, b>>) + 1
      /\ \A i \in 1..Len(<<a, b>>) : x[i] = <<a, b>>[i]
      /\ x[Len(<<a, b>>) + 1] = c
  <2> HIDE DEF S
  <2> QED BY <1>1, AppendProperties
<1>3. y \in Seq(S) /\ Len(y) = 3 /\ y[1] = a /\ y[2] = b /\ y[3] = c
  OBVIOUS
<1>4. <<a, b>>[1] = a /\ <<a, b>>[2] = b
  OBVIOUS
<1> HIDE DEF x, y, S
<1>5. Len(x) = 3 /\ x[1] = a /\ x[2] = b /\ x[3] = c
  BY <1>1, <1>2, <1>4
<1>6. \A i \in 1..3 : x[i] = y[i]
  <2>1. \A i \in 1..3 : i = 1 \/ i = 2 \/ i = 3
    OBVIOUS
  <2> QED BY <1>3, <1>5, <2>1
<1>7. x = y
  BY <1>2, <1>3, <1>5, <1>6
<1> QED BY <1>7 DEF x, y

LEMMA OperandTextIs ==
  ASSUME NEW o, IsOperand(o)
  PROVE  LET t == OperandText(o)
             n == Len(o.data)
         IN  /\ IsText(t) /\ n \in Nat /\ Len(t) = n + 2
             /\ t[1] = Line(<<o.type, o.encryption, n>>)
             /\ \A k \in 1..n : t[1 + k] = o.data[k]
             /\ t[n + 2] = Newline
<1> DEFINE n == Len(o.data)
           line == Line(<<o.type, o.encryption, n>>)
           f == Framed(<<o.type, o.encryption>>, o.data)
           t == OperandText(o)
<1>1. PICK C : o.data \in Seq(C)
  BY DEF IsOperand, IsText
<1>2. n \in Nat
  BY <1>1
<1>3. f = <<line>> \o o.data
  <2>1. Append(<<o.type, o.encryption>>, n) = <<o.type, o.encryption, n>>
    BY ThreeFields
  <2> QED BY <2>1 DEF Framed
<1>4. t = f \o <<Newline>>
  BY DEF OperandText
<1> HIDE DEF n, line, f, t
<1>5. /\ f \in Seq(C \cup {line}) /\ Len(f) = n + 1 /\ f[1] = line
      /\ \A i \in 1..n : f[i + 1] = o.data[i]
  BY <1>1, <1>3, Behind DEF n
<1> DEFINE D == (C \cup {line}) \cup {Newline}
<1>6. f \in Seq(D) /\ <<Newline>> \in Seq(D) /\ Len(<<Newline>>) = 1 /\ <<Newline>>[1] = Newline
  <2>1. C \cup {line} \subseteq D /\ Newline \in D
    OBVIOUS
  <2> HIDE DEF D
  <2>2. f \in Seq(D)
    BY <1>5, <2>1, WiderText
  <2> QED BY <2>1, <2>2
<1> HIDE DEF D
<1>7. /\ t \in Seq(D) /\ Len(t) = Len(f) + Len(<<Newline>>)
      /\ \A i \in 1..Len(f) : t[i] = f[i]
      /\ \A i \in 1..Len(<<Newline>>) : t[Len(f) + i] = <<Newline>>[i]
  BY <1>4, <1>6, Joined
<1>8. t[1] = line
  <2>1. 1 \in 1..Len(f)
    BY <1>2, <1>5
  <2> QED BY <1>5, <1>7, <2>1
<1>9. ASSUME NEW k \in 1..n PROVE t[1 + k] = o.data[k]
  <2>1. k + 1 \in 1..Len(f) /\ k + 1 = 1 + k
    BY <1>2, <1>5
  <2> QED BY <1>5, <1>7, <2>1
<1>10. t[n + 2] = Newline
  <2>1. 1 \in 1..Len(<<Newline>>) /\ Len(f) + 1 = n + 2
    BY <1>2, <1>5, <1>6
  <2> QED BY <1>6, <1>7, <2>1
<1>11. Len(t) = n + 2
  BY <1>2, <1>5, <1>6, <1>7
<1> QED BY <1>2, <1>7, <1>8, <1>9, <1>10, <1>11 DEF IsText, n, line, t

\* The operands of a request, where they begin, and their text.
Lengths(os, n) == [i \in 1..n |-> Len(os[i].data) + 2]

AreOperands(os, n, p) ==
  /\ n \in Nat \ {0} /\ \A i \in 1..n : IsOperand(os[i])
  /\ Places(p, Lengths(os, n), n)

OperandTexts(os, n) == FlattenSeq([i \in 1..n |-> OperandText(os[i])])

LEMMA OperandsLayout ==
  ASSUME NEW os, NEW n, NEW p, AreOperands(os, n, p)
  PROVE  LET text == OperandTexts(os, n)
         IN  /\ IsText(text) /\ Len(text) = p[n]
             /\ \A i \in 1..n : \A k \in 1..(Len(os[i].data) + 2) :
                  text[p[i - 1] + k] = OperandText(os[i])[k]
<1> DEFINE t == [i \in 1..n |-> OperandText(os[i])]
           Of(i) == {t[i][k] : k \in 1..Len(t[i])}
           C == UNION {Of(i) : i \in 1..n}
<1>1. n \in Nat /\ Places(p, Lengths(os, n), n)
  BY DEF AreOperands
<1>2. ASSUME NEW i \in 1..n
      PROVE  t[i] = OperandText(os[i]) /\ IsText(t[i]) /\ Len(t[i]) = Len(os[i].data) + 2
  <2>1. IsOperand(os[i])
    BY DEF AreOperands
  <2> QED BY <2>1, OperandTextIs
<1> DEFINE lens == [i \in 1..n |-> Len(t[i])]
<1>3. lens = Lengths(os, n)
  <2> HIDE DEF t
  <2> QED BY <1>2 DEF Lengths
<1>4. ASSUME NEW i \in 1..n PROVE t[i] \in Seq(C)
  <2> DEFINE ti == t[i]
  <2>1. PICK D : ti \in Seq(D)
    BY <1>2 DEF IsText
  <2>2. \A k \in 1..Len(ti) : ti[k] \in C
    OBVIOUS
  <2> HIDE DEF ti, C
  <2>3. Len(ti) \in Nat /\ ti = [k \in 1..Len(ti) |-> ti[k]]
    BY <2>1
  <2>4. [k \in 1..Len(ti) |-> ti[k]] \in Seq(C)
    BY <2>2, <2>3
  <2>5. ti \in Seq(C)
    BY <2>3, <2>4
  <2> QED BY <2>5 DEF ti
<1>5. t \in [1..n -> Seq(C)]
  <2> HIDE DEF C
  <2> QED BY <1>4
<1>6. Places(p, lens, n)
  BY <1>1, <1>3
<1> HIDE DEF C
<1>7. IsFlat(FlattenSeq(t), t, p, n, C)
  <2> HIDE DEF t
  <2> QED BY <1>1, <1>5, <1>6, Flattened
<1> DEFINE text == FlattenSeq(t)
<1>8. text = OperandTexts(os, n)
  BY DEF OperandTexts
<1> HIDE DEF text, t
<1>9. /\ text \in Seq(C) /\ Len(text) = p[n]
      /\ \A i \in 1..n : \A k \in 1..Len(t[i]) : text[p[i - 1] + k] = t[i][k]
  BY <1>7 DEF IsFlat, text
<1>10. \A i \in 1..n : \A k \in 1..(Len(os[i].data) + 2) :
         text[p[i - 1] + k] = OperandText(os[i])[k]
  BY <1>2, <1>9
<1> QED BY <1>8, <1>9, <1>10 DEF IsText

\* The places of the operands, without what they stand for.
LEMMA OperandPlaces ==
  ASSUME NEW os, NEW n, NEW p, AreOperands(os, n, p)
  PROVE  /\ n \in Nat \ {0} /\ p[0] = 0 /\ \A i \in 0..n : p[i] \in Nat /\ p[i] <= p[n]
         /\ \A i \in 1..n : /\ Len(os[i].data) \in Nat /\ p[i - 1] \in Nat
                            /\ p[i] = p[i - 1] + Len(os[i].data) + 2
<1>1. n \in Nat \ {0} /\ Places(p, Lengths(os, n), n) /\ \A i \in 1..n : IsOperand(os[i])
  BY DEF AreOperands
<1>2. /\ p \in [0..n -> Nat] /\ p[0] = 0
      /\ \A i \in 1..n : p[i] = p[i - 1] + Lengths(os, n)[i]
  BY <1>1 DEF Places
<1>3. \A i \in 1..n : Len(os[i].data) \in Nat
  <2> TAKE i \in 1..n
  <2>1. PICK C : os[i].data \in Seq(C)
    BY <1>1 DEF IsOperand, IsText
  <2> QED BY <2>1
<1>4. \A i \in 1..n : Lengths(os, n)[i] = Len(os[i].data) + 2 /\ Lengths(os, n)[i] \in Nat
  BY <1>3 DEF Lengths
<1>5. \A j \in 0..n : \A i \in 0..j : p[i] <= p[j]
  <2>1. n \in Nat /\ \A i \in 1..n : Lengths(os, n)[i] \in Nat
    BY <1>1, <1>4
  <2> HIDE DEF Lengths
  <2> QED BY <1>1, <2>1, PlacesGrow
<1>6. ASSUME NEW i \in 0..n PROVE p[i] \in Nat /\ p[i] <= p[n]
  <2>1. n \in 0..n
    BY <1>1
  <2> QED BY <1>2, <1>5, <2>1
<1>7. ASSUME NEW i \in 1..n PROVE p[i - 1] \in Nat /\ p[i] = p[i - 1] + Len(os[i].data) + 2
  <2>1. i - 1 \in 0..n
    BY <1>1
  <2>2. p[i] = p[i - 1] + (Len(os[i].data) + 2)
    BY <1>2, <1>4
  <2> QED BY <1>2, <1>3, <2>1, <2>2
<1> QED BY <1>1, <1>2, <1>3, <1>6, <1>7

\* In the text, or its beginning, every operand stands at its place.
LEMMA OperandStands ==
  ASSUME NEW os, NEW n, NEW p, AreOperands(os, n, p), NEW L \in 0..p[n], NEW i \in 1..n
  PROVE  OperandAt(SubSeq(OperandTexts(os, n), 1, L), p[i - 1] + 1, os[i])
<1> DEFINE F == OperandTexts(os, n)
           U == SubSeq(F, 1, L)
           at == p[i - 1] + 1
           m == Len(os[i].data)
<1>1. PICK C : F \in Seq(C)
  BY OperandsLayout DEF IsText
<1>2. /\ Len(F) = p[n]
      /\ \A j \in 1..n : \A k \in 1..(Len(os[j].data) + 2) :
           F[p[j - 1] + k] = OperandText(os[j])[k]
  BY OperandsLayout
<1>3. /\ n \in Nat \ {0} /\ \A j \in 0..n : p[j] \in Nat
      /\ \A j \in 1..n : /\ Len(os[j].data) \in Nat /\ p[j - 1] \in Nat
                         /\ p[j] = p[j - 1] + Len(os[j].data) + 2
  BY OperandPlaces
<1>4. \A j \in 1..n : IsOperand(os[j])
  BY DEF AreOperands
<1>5. L \in Nat /\ L <= p[n] /\ p[n] \in Nat
  <2>1. n \in 0..n
    BY <1>3
  <2> QED BY <1>3, <2>1
<1> HIDE DEF F
<1>6. Len(U) = L /\ \A k \in 1..L : U[k] = F[k]
  <2>1. L \in 0..Len(F)
    BY <1>2, <1>5
  <2> QED BY <1>1, <2>1, Cut
<1> HIDE DEF U
<1>7. m \in Nat /\ at \in Nat \ {0} /\ p[i - 1] \in Nat /\ p[i] = p[i - 1] + m + 2
  BY <1>3
<1>8. LET t == OperandText(os[i])
      IN  /\ t[1] = Line(<<os[i].type, os[i].encryption, m>>)
          /\ \A k \in 1..m : t[1 + k] = os[i].data[k]
          /\ t[m + 2] = Newline
  BY <1>4, OperandTextIs
<1>9. \A k \in 1..(m + 2) : F[p[i - 1] + k] = OperandText(os[i])[k]
  BY <1>2
<1> HIDE DEF m, at
<1>10. ASSUME at <= L PROVE U[at] = Line(<<os[i].type, os[i].encryption, m>>)
  <2>1. at \in 1..L /\ 1 \in 1..(m + 2) /\ p[i - 1] + 1 = at
    BY <1>5, <1>7, <1>10 DEF at
  <2> QED BY <1>6, <1>8, <1>9, <2>1
<1>11. ASSUME NEW k \in 1..m, at + k <= L PROVE U[at + k] = os[i].data[k]
  <2>1. at + k \in 1..L /\ 1 + k \in 1..(m + 2) /\ p[i - 1] + (1 + k) = at + k
    BY <1>5, <1>7, <1>11 DEF at
  <2> QED BY <1>6, <1>8, <1>9, <2>1
<1>12. ASSUME at + m + 1 <= L PROVE U[at + m + 1] = Newline
  <2>1. at + m + 1 \in 1..L /\ m + 2 \in 1..(m + 2) /\ p[i - 1] + (m + 2) = at + m + 1
    BY <1>5, <1>7, <1>12 DEF at
  <2> QED BY <1>6, <1>8, <1>9, <2>1
<1>13. ASSUME at + m + 2 <= L PROVE ~ IsSpace(U[at + m + 2])
  <2>1. at + m + 2 \in 1..L /\ at + m + 2 = p[i] + 1
    BY <1>5, <1>7, <1>13 DEF at
  <2>2. i # n
    BY <1>5, <1>7, <1>13, <2>1
  <2>3. i + 1 \in 1..n /\ (i + 1) - 1 = i
    BY <1>3, <2>2
  <2>4. 1 \in 1..(Len(os[i + 1].data) + 2)
    BY <1>3, <2>3
  <2>5. F[p[i] + 1] = OperandText(os[i + 1])[1]
    BY <1>2, <2>3, <2>4
  <2>6. OperandText(os[i + 1])[1] =
          Line(<<os[i + 1].type, os[i + 1].encryption, Len(os[i + 1].data)>>)
    BY <1>4, <2>3, OperandTextIs
  <2>7. U[at + m + 2] = F[p[i] + 1]
    BY <1>6, <2>1
  <2> QED BY <2>5, <2>6, <2>7, WordIsNoSpace
<1>14. IsOperand(os[i])
  BY <1>4
<1>15. OperandAt(U, at, os[i])
  BY <1>5, <1>6, <1>7, <1>10, <1>11, <1>12, <1>13, <1>14 DEF OperandAt, IsOperand, m
<1> QED BY <1>15 DEF U, F, at

\* What was read of the operands so far: the first i as they are, or something
\* that is not theirs.
Faithful(r, os, i, p, L) ==
  r = [at |-> IF p[i] <= L THEN p[i] + 1 ELSE L + 1, operands |-> [j \in 1..i |-> os[j]]]
SpoiledAs(r, os, i, x, s) ==
  r = [at |-> x, operands |-> s] /\ IsText(s) /\ Len(s) = i /\ \E j \in 1..i : s[j] # os[j]
Spoiled(r, os, i) == r = Throws \/ \E x, s : SpoiledAs(r, os, i, x, s)

WholeUpTo(os, p, L, i) ==
  \A j \in 1..i : p[j - 1] + 1 <= L /\ Whole(os[j], p[j - 1] + 1, L)

\* Whatever is read behind operands that are not right, they stay so.
LEMMA StaysSpoiled ==
  ASSUME NEW text, NEW last, NEW os, NEW i \in Nat, Spoiled(last, os, i), last # Throws
  PROVE  Spoiled(ReadOperand(text, last), os, i + 1)
<1>1. PICK x, s : SpoiledAs(last, os, i, x, s)
  BY DEF Spoiled
<1>2. last.operands = s /\ IsText(s) /\ Len(s) = i
  BY <1>1 DEF SpoiledAs
<1>3. PICK j \in 1..i : s[j] # os[j]
  BY <1>1 DEF SpoiledAs
<1>4. PICK fields, start, after, data :
        ReadsOperand(ReadOperand(text, last), text, last, fields, start, after, data)
  BY OperandParts
<1> DEFINE e == [type |-> fields[1], encryption |-> fields[2], data |-> data]
           next == SkipSpace(text, after)
           more == Append(s, e)
           r == ReadOperand(text, last)
<1>5. r = Throws \/ r = [at |-> next, operands |-> more]
  BY <1>2, <1>4 DEF ReadsOperand
<1> HIDE DEF e, next, r
<1>6. PICK C : s \in Seq(C)
  BY <1>2 DEF IsText
<1>7. more \in Seq(C \cup {e}) /\ Len(more) = i + 1 /\ more[j] = s[j]
  <2>1. C \subseteq C \cup {e} /\ e \in C \cup {e}
    OBVIOUS
  <2> DEFINE D == C \cup {e}
  <2>2. s \in Seq(D) /\ e \in D
    BY <1>6, <2>1, WiderText
  <2> HIDE DEF D
  <2>3. /\ more \in Seq(D) /\ Len(more) = Len(s) + 1
        /\ \A k \in 1..Len(s) : more[k] = s[k]
    BY <2>2, AppendProperties
  <2> QED BY <1>2, <2>3 DEF D
<1> HIDE DEF more
<1>8. j \in 1..(i + 1) /\ more[j] # os[j]
  BY <1>3, <1>7
<1>9. IsText(more)
  BY <1>7 DEF IsText
<1>10. CASE r = Throws
  BY <1>10 DEF Spoiled, r
<1>11. CASE r = [at |-> next, operands |-> more]
  <2>1. SpoiledAs(r, os, i + 1, next, more)
    BY <1>7, <1>8, <1>9, <1>11 DEF SpoiledAs
  <2> QED BY <2>1 DEF Spoiled, r
<1> QED BY <1>5, <1>10, <1>11

\* How far the operands are read as they are.
LEMMA OperandsSoFar ==
  ASSUME Apart, NEW os, NEW n, NEW p, AreOperands(os, n, p), NEW L \in 0..p[n]
  PROVE  LET text == SubSeq(OperandTexts(os, n), 1, L)
         IN  \A i \in 0..n : IF WholeUpTo(os, p, L, i)
                             THEN Faithful(OperandsUpTo(text, i), os, i, p, L)
                             ELSE Spoiled(OperandsUpTo(text, i), os, i)
<1> DEFINE text == SubSeq(OperandTexts(os, n), 1, L)
           Claim(i) == IF WholeUpTo(os, p, L, i)
                       THEN Faithful(OperandsUpTo(text, i), os, i, p, L)
                       ELSE Spoiled(OperandsUpTo(text, i), os, i)
           U == {i \in Nat : i <= n => Claim(i)}
<1>1. /\ n \in Nat \ {0} /\ p[0] = 0 /\ \A i \in 0..n : p[i] \in Nat /\ p[i] <= p[n]
      /\ \A i \in 1..n : /\ Len(os[i].data) \in Nat /\ p[i - 1] \in Nat
                         /\ p[i] = p[i - 1] + Len(os[i].data) + 2
  BY OperandPlaces
<1>2. L \in Nat /\ L <= p[n] /\ p[n] \in Nat
  <2>1. n \in 0..n
    BY <1>1
  <2> QED BY <1>1, <2>1
<1>3. \A i \in 1..n : OperandAt(text, p[i - 1] + 1, os[i])
  BY OperandStands
<1>4. /\ OperandsUpTo(text, 0) = [at |-> 1, operands |-> <<>>]
      /\ \A k \in Nat : OperandsUpTo(text, k + 1) =
           IF OperandsUpTo(text, k) = Throws THEN Throws
           ELSE ReadOperand(text, OperandsUpTo(text, k))
  BY OneMore
<1>5. Len(text) = L
  <2>1. IsText(OperandTexts(os, n)) /\ Len(OperandTexts(os, n)) = p[n]
    BY OperandsLayout
  <2>2. PICK C : OperandTexts(os, n) \in Seq(C)
    BY <2>1 DEF IsText
  <2>3. L \in 0..Len(OperandTexts(os, n))
    BY <2>1
  <2> QED BY <2>2, <2>3, Cut
<1> HIDE DEF text
<1>6. 0 \in U
  <2>1. WholeUpTo(os, p, L, 0)
    BY DEF WholeUpTo
  <2>2. [j \in 1..0 |-> os[j]] = <<>>
    OBVIOUS
  <2>3. Faithful(OperandsUpTo(text, 0), os, 0, p, L)
    BY <1>1, <1>2, <1>4, <2>2 DEF Faithful
  <2> QED BY <2>1, <2>3
<1>7. ASSUME NEW i \in Nat, i \in U PROVE i + 1 \in U
  <2> SUFFICES ASSUME i + 1 <= n PROVE Claim(i + 1)
    OBVIOUS
  <2> DEFINE last == OperandsUpTo(text, i)
             new == OperandsUpTo(text, i + 1)
             at == p[i] + 1
             o == os[i + 1]
  <2>1. i + 1 \in 1..n /\ (i + 1) - 1 = i /\ i \in 0..n /\ i <= n /\ i + 1 \in 0..n
    BY <1>1
  <2>2. OperandAt(text, at, o)
    BY <1>3, <2>1
  <2>3. new = IF last = Throws THEN Throws ELSE ReadOperand(text, last)
    BY <1>4
  <2>4. p[i] \in Nat /\ at \in Nat
    BY <1>1, <2>1
  <2>5. WholeUpTo(os, p, L, i + 1) <=> (WholeUpTo(os, p, L, i) /\ at <= L /\ Whole(o, at, L))
    <3>1. \A j \in 1..(i + 1) : j \in 1..i \/ j = i + 1
      OBVIOUS
    <3>2. \A j \in 1..i : j \in 1..(i + 1)
      OBVIOUS
    <3>3. i + 1 \in 1..(i + 1)
      OBVIOUS
    <3> QED BY <2>1, <3>1, <3>2, <3>3 DEF WholeUpTo
  <2>6. Claim(i)
    BY <1>7, <2>1
  <2>7. CASE ~ WholeUpTo(os, p, L, i)
    <3>1. Spoiled(last, os, i)
      BY <2>6, <2>7
    <3> HIDE DEF last, new
    <3>2. Spoiled(new, os, i + 1)
      <4>1. CASE last = Throws
        BY <2>3, <4>1 DEF Spoiled
      <4>2. CASE last # Throws
        <5>1. Spoiled(ReadOperand(text, last), os, i + 1)
          BY <3>1, <4>2, StaysSpoiled
        <5> QED BY <2>3, <4>2, <5>1
      <4> QED BY <4>1, <4>2
    <3> QED BY <2>5, <2>7, <3>2 DEF new
  <2>8. CASE WholeUpTo(os, p, L, i)
    <3>1. Faithful(last, os, i, p, L)
      BY <2>6, <2>8
    <3> HIDE DEF last, new, o
    <3>2. last = [at |-> IF p[i] <= L THEN p[i] + 1 ELSE L + 1,
                  operands |-> [j \in 1..i |-> os[j]]]
      BY <3>1 DEF Faithful
    <3>3. last # Throws
      <4>1. "at" \in DOMAIN last
        BY <3>2
      <4>2. \A x : "at" \in DOMAIN x => x # Throws
        <5>1. Throws \in {Throws, Misread, Dies, Nothing, Lost}
          OBVIOUS
        <5> QED BY <5>1, MarksAreNoData
      <4> QED BY <4>1, <4>2
    <3>4. new = ReadOperand(text, last)
      BY <2>3, <3>3
    <3>5. Len(text) \in Nat
      BY <1>2, <1>5
    <3>6. CASE ~ (at <= L)
      <4>1. last.at \in Nat /\ last.at > Len(text)
        BY <1>2, <1>5, <2>4, <3>2, <3>6
      <4>2. new = Throws
        BY <3>4, <3>5, <4>1, NoOperand
      <4>3. Spoiled(new, os, i + 1)
        BY <4>2 DEF Spoiled
      <4> QED BY <2>5, <3>6, <4>3 DEF new
    <3>7. CASE at <= L
      <4>1. last.at = at /\ last.operands = [j \in 1..i |-> os[j]]
        BY <1>2, <2>4, <3>2, <3>7
      <4>2. OperandAt(text, last.at, o) /\ last.at <= Len(text)
        BY <1>5, <2>2, <3>7, <4>1
      <4>3. CASE Whole(o, at, L)
        <5>1. Whole(o, last.at, Len(text))
          BY <1>5, <4>1, <4>3
        <5>2. new = [at |-> Next2(o, at, L), operands |-> Append(last.operands, o)]
          <6>1. ReadOperand(text, last) =
                  [at |-> Next2(o, last.at, Len(text)), operands |-> Append(last.operands, o)]
            BY <4>2, <5>1, WholeOperand
          <6> QED BY <1>5, <3>4, <4>1, <6>1
        <5>3. Append(last.operands, o) = [j \in 1..(i + 1) |-> os[j]]
          <6>1. Append([j \in 1..i |-> os[j]], o) =
                  [j \in 1..(i + 1) |-> IF j = i + 1 THEN o ELSE os[j]]
            BY Appended
          <6>2. [j \in 1..(i + 1) |-> IF j = i + 1 THEN o ELSE os[j]] =
                  [j \in 1..(i + 1) |-> os[j]]
            BY DEF o
          <6> QED BY <4>1, <6>1, <6>2
        <5>4. Next2(o, at, L) = IF p[i + 1] <= L THEN p[i + 1] + 1 ELSE L + 1
          <6>1. p[i + 1] = p[i] + Len(o.data) + 2 /\ Len(o.data) \in Nat
            BY <1>1, <2>1 DEF o
          <6>2. at + Len(o.data) + 1 = p[i + 1] /\ at + Len(o.data) + 2 = p[i + 1] + 1
            <7> DEFINE a == p[i]
                       m == Len(o.data)
                       b == p[i + 1]
            <7>1. a \in Nat /\ m \in Nat /\ b = a + m + 2 /\ at = a + 1
              BY <2>4, <6>1
            <7> HIDE DEF a, m, b, at
            <7>2. at + m + 1 = b /\ at + m + 2 = b + 1
              BY <7>1
            <7> QED BY <7>2 DEF m, b
          <6> HIDE DEF at
          <6> QED BY <6>2 DEF Next2
        <5>5. Faithful(new, os, i + 1, p, L)
          BY <5>2, <5>3, <5>4 DEF Faithful
        <5> QED BY <2>5, <2>8, <3>7, <4>3, <5>5 DEF new
      <4>4. CASE ~ Whole(o, at, L)
        <5>1. ~ Whole(o, last.at, Len(text))
          BY <1>5, <4>1, <4>4
        <5>4. NotWhole(text, last, o)
          BY <4>2, <5>1 DEF NotWhole
        <5>2. \/ ReadOperand(text, last) = Throws
              \/ \E x, e : ReadAs(ReadOperand(text, last), last, x, e) /\ e # o
          <6> HIDE DEF at
          <6> QED BY <5>4, OtherOperand
        <5>3. Spoiled(new, os, i + 1)
          <6>1. CASE new = Throws
            BY <6>1 DEF Spoiled
          <6>2. CASE new # Throws
            <7>1. PICK x, e : ReadAs(new, last, x, e) /\ e # o
              BY <3>4, <5>2, <6>2
            <7> DEFINE s == Append([j \in 1..i |-> os[j]], e)
            <7>2. new = [at |-> x, operands |-> s]
              BY <4>1, <7>1 DEF ReadAs
            <7>3. s = [j \in 1..(i + 1) |-> IF j = i + 1 THEN e ELSE os[j]]
              BY Appended
            <7> HIDE DEF s
            <7>4. Len(s) = i + 1 /\ s[i + 1] = e /\ i + 1 \in 1..(i + 1)
              BY <7>3
            <7>5. IsText(s)
              <8> DEFINE C == {s[j] : j \in 1..(i + 1)}
              <8>1. s = [j \in 1..(i + 1) |-> s[j]] /\ \A j \in 1..(i + 1) : s[j] \in C
                BY <7>3
              <8> HIDE DEF C
              <8>2. [j \in 1..(i + 1) |-> s[j]] \in Seq(C)
                BY <8>1
              <8>3. s \in Seq(C)
                BY <8>1, <8>2
              <8> QED BY <8>3 DEF IsText
            <7>6. s[i + 1] # os[i + 1]
              BY <7>1, <7>4 DEF o
            <7>7. SpoiledAs(new, os, i + 1, x, s)
              BY <7>2, <7>4, <7>5, <7>6 DEF SpoiledAs
            <7> QED BY <7>7 DEF Spoiled
          <6> QED BY <6>1, <6>2
        <5> QED BY <2>5, <4>4, <5>3 DEF new
      <4> QED BY <4>3, <4>4
    <3> QED BY <3>6, <3>7
  <2> QED BY <2>7, <2>8
<1>8. Nat \subseteq U
  <2> HIDE DEF U
  <2> QED BY <1>6, <1>7, SetInduction
<1>9. \A i \in 0..n : Claim(i)
  BY <1>1, <1>8
<1> QED BY <1>9 DEF text

\* What LosesData says, of operands.
Loses(os, n) ==
  \/ \E i \in 1..n : os[i].data # <<>> /\ IsSpace(os[i].data[1])
  \/ os[n].data = <<>>

\* All operands are read as they are exactly when none of them begins with white
\* space, the last is not empty, and the text has all of it but the last newline.
LEMMA AllWhole ==
  ASSUME NEW os, NEW n, NEW p, AreOperands(os, n, p), NEW L \in 0..p[n]
  PROVE  WholeUpTo(os, p, L, n) <=> (~ Loses(os, n) /\ p[n] - 1 <= L)
<1>1. /\ n \in Nat \ {0} /\ p[0] = 0 /\ \A i \in 0..n : p[i] \in Nat /\ p[i] <= p[n]
      /\ \A i \in 1..n : /\ Len(os[i].data) \in Nat /\ p[i - 1] \in Nat
                         /\ p[i] = p[i - 1] + Len(os[i].data) + 2
  BY OperandPlaces
<1>2. L \in Nat /\ L <= p[n] /\ p[n] \in Nat
  <2>1. n \in 0..n
    BY <1>1
  <2> QED BY <1>1, <2>1
<1>3. ASSUME NEW i \in 1..n PROVE os[i].data = <<>> <=> Len(os[i].data) = 0
  <2>1. IsOperand(os[i])
    BY DEF AreOperands
  <2>2. PICK C : os[i].data \in Seq(C)
    BY <2>1 DEF IsOperand, IsText
  <2> QED BY <2>2
<1>4. ASSUME NEW i \in 1..n
      PROVE  (p[i - 1] + 1 <= L /\ Whole(os[i], p[i - 1] + 1, L)) <=>
               (/\ os[i].data = <<>> \/ ~ IsSpace(os[i].data[1])
                /\ p[i] - 1 <= L
                /\ os[i].data = <<>> => p[i] + 1 <= L)
  <2> DEFINE a == p[i - 1]
             b == p[i]
             m == Len(os[i].data)
  <2>1. a \in Nat /\ m \in Nat /\ b = a + m + 2 /\ (os[i].data = <<>> <=> m = 0)
    BY <1>1, <1>3
  <2>2. Whole(os[i], a + 1, L) <=>
          (/\ os[i].data = <<>> \/ ~ IsSpace(os[i].data[1])
           /\ (a + 1) + m <= L
           /\ os[i].data = <<>> => (a + 1) + 2 <= L)
    BY DEF Whole, Sound
  <2> HIDE DEF a, b, m
  <2>3. /\ (a + 1) + m <= L <=> b - 1 <= L
        /\ b - 1 <= L => a + 1 <= L
        /\ m = 0 => ((a + 1) + 2 <= L <=> b + 1 <= L)
    BY <1>2, <2>1
  <2>4. (a + 1 <= L /\ Whole(os[i], a + 1, L)) <=>
               (/\ os[i].data = <<>> \/ ~ IsSpace(os[i].data[1])
                /\ b - 1 <= L
                /\ os[i].data = <<>> => b + 1 <= L)
    BY <2>1, <2>2, <2>3
  <2> QED BY <2>4 DEF a, b
<1>5. ASSUME WholeUpTo(os, p, L, n) PROVE ~ Loses(os, n) /\ p[n] - 1 <= L
  <2>1. \A i \in 1..n : /\ os[i].data = <<>> \/ ~ IsSpace(os[i].data[1])
                        /\ p[i] - 1 <= L
                        /\ os[i].data = <<>> => p[i] + 1 <= L
    <3>1. \A i \in 1..n : p[i - 1] + 1 <= L /\ Whole(os[i], p[i - 1] + 1, L)
      BY <1>5 DEF WholeUpTo
    <3> QED BY <1>4, <3>1
  <2>2. n \in 1..n
    BY <1>1
  <2>3. os[n].data # <<>>
    BY <1>2, <2>1, <2>2
  <2> QED BY <2>1, <2>2, <2>3 DEF Loses
<1>6. ASSUME ~ Loses(os, n), p[n] - 1 <= L PROVE WholeUpTo(os, p, L, n)
  <2>1. ASSUME NEW i \in 1..n PROVE p[i - 1] + 1 <= L /\ Whole(os[i], p[i - 1] + 1, L)
    <3>1. os[i].data = <<>> \/ ~ IsSpace(os[i].data[1])
      BY <1>6 DEF Loses
    <3>2. p[i] - 1 <= L
      <4>1. i \in 0..n
        BY <1>1
      <4>2. p[i] \in Nat /\ p[i] <= p[n]
        BY <1>1, <4>1
      <4> QED BY <1>2, <1>6, <4>2
    <3>3. ASSUME os[i].data = <<>> PROVE p[i] + 1 <= L
      <4>1. i # n
        BY <1>6, <3>3 DEF Loses
      <4>2. i + 1 \in 1..n /\ (i + 1) - 1 = i /\ i + 1 \in 0..n
        BY <1>1, <4>1
      <4>3. p[i] \in Nat /\ p[i + 1] = p[i] + Len(os[i + 1].data) + 2
            /\ Len(os[i + 1].data) \in Nat /\ p[i + 1] <= p[n]
        BY <1>1, <4>2
      <4> DEFINE m == Len(os[i + 1].data)
      <4>4. m \in Nat /\ p[i + 1] = p[i] + m + 2
        BY <4>3
      <4> HIDE DEF m
      <4> QED BY SMTT(30), <1>2, <1>6, <4>3, <4>4
    <3> QED BY <1>4, <3>1, <3>2, <3>3
  <2> QED BY <2>1 DEF WholeUpTo
<1> QED BY <1>5, <1>6

\* From the text of the operands of a compute request, cut anywhere, the operands
\* are read exactly when none begins with white space, which std::ws skips, the
\* last is not empty, and at most the last character, a line break, was cut off
\* (compute_request_handler.hpp, ComputeOperationInstance::from_string).
THEOREM OperandsAreRead ==
  ASSUME Apart, NEW os, NEW n, NEW p, AreOperands(os, n, p), NEW L \in 0..p[n]
  PROVE  LET read == ReadOperands(SubSeq(OperandTexts(os, n), 1, L), n)
         IN  /\ read = Throws \/ (IsText(read) /\ Len(read) = n)
             /\ read = [j \in 1..n |-> os[j]] <=> (~ Loses(os, n) /\ p[n] - 1 <= L)
<1> DEFINE text == SubSeq(OperandTexts(os, n), 1, L)
           last == OperandsUpTo(text, n)
           read == ReadOperands(text, n)
           all == [j \in 1..n |-> os[j]]
<1>1. n \in Nat \ {0}
  BY DEF AreOperands
<1>2. n \in 0..n
  BY <1>1
<1>3. IF WholeUpTo(os, p, L, n) THEN Faithful(last, os, n, p, L) ELSE Spoiled(last, os, n)
  BY <1>2, OperandsSoFar
<1>4. read = IF last = Throws THEN Throws ELSE last.operands
  BY DEF ReadOperands
<1>5. WholeUpTo(os, p, L, n) <=> (~ Loses(os, n) /\ p[n] - 1 <= L)
  BY AllWhole
<1> HIDE DEF read, last
<1>6. IsText(all) /\ Len(all) = n /\ \A j \in 1..n : all[j] = os[j]
  <2> DEFINE C == {os[j] : j \in 1..n}
  <2>1. \A j \in 1..n : os[j] \in C
    OBVIOUS
  <2> HIDE DEF C
  <2>2. all \in Seq(C) /\ Len(all) = n
    BY <1>1, <2>1
  <2> QED BY <2>2 DEF IsText
<1>7. all # Throws
  <2>1. 1 \in DOMAIN all
    BY <1>1
  <2>2. \A x : 1 \in DOMAIN x => x # Throws
    <3>1. Throws \in {Throws, Misread, Dies, Nothing, Lost}
      OBVIOUS
    <3> QED BY <3>1, MarksAreNoData
  <2> QED BY <2>1, <2>2
<1> HIDE DEF all
<1>8. CASE WholeUpTo(os, p, L, n)
  <2>1. last.operands = all /\ "at" \in DOMAIN last
    BY <1>3, <1>8 DEF Faithful, all
  <2>2. \A x : "at" \in DOMAIN x => x # Throws
    <3>1. Throws \in {Throws, Misread, Dies, Nothing, Lost}
      OBVIOUS
    <3> QED BY <3>1, MarksAreNoData
  <2>3. read = all
    BY <1>4, <2>1, <2>2
  <2> QED BY <1>5, <1>6, <1>8, <2>3 DEF read, all
<1>9. CASE ~ WholeUpTo(os, p, L, n)
  <2>1. CASE last = Throws
    BY <1>4, <1>5, <1>7, <1>9, <2>1 DEF read, all
  <2>2. CASE last # Throws
    <3>1. PICK x, s : SpoiledAs(last, os, n, x, s)
      BY <1>3, <1>9, <2>2 DEF Spoiled
    <3>2. last.operands = s /\ IsText(s) /\ Len(s) = n /\ \E j \in 1..n : s[j] # os[j]
      BY <3>1 DEF SpoiledAs
    <3>3. read = s
      BY <1>4, <2>2, <3>2
    <3>4. read # all
      BY <1>6, <3>2, <3>3
    <3> QED BY <1>5, <1>9, <3>2, <3>3, <3>4 DEF read, all
  <2> QED BY <2>1, <2>2
<1> QED BY <1>8, <1>9

-----------------------------------------------------------------------------
(* Requests.                                                               *)

LEMMA ThrowsIsNone ==
  ASSUME Apart
  PROVE  /\ \A x : "fields" \in DOMAIN x => x # Throws
         /\ \A x : "type" \in DOMAIN x => x # Throws
         /\ \A x : "arity" \in DOMAIN x => x # Throws
<1>1. Throws \in {Throws, Misread, Dies, Nothing, Lost}
  OBVIOUS
<1> QED BY <1>1, MarksAreNoData

\* The layer of a node: its type, and what is behind it.
LEMMA TypedLayer ==
  ASSUME Apart, NEW type, NEW data, IsText(data)
  PROVE  LET text == Framed(<<type>>, data)
         IN  /\ IsText(text) /\ Len(text) = Len(data) + 1 /\ Len(data) \in Nat
             /\ Read(text) # Throws /\ Read(text).fields[1] = type /\ Read(text).data = data
             /\ Tail(text) = data /\ SubSeq(text, 1, Len(text)) = text
             /\ ReadLoosely(text) = {Read(text)}
             /\ \A k \in 1..Len(data) : Read(SubSeq(text, 1, k)) = Throws
<1> DEFINE text == Framed(<<type>>, data)
<1>1. IsText(<<type>>)
  BY IsTextIfs
<1>2. /\ IsText(text) /\ Len(text) = Len(data) + 1 /\ Len(data) \in Nat
      /\ Tail(text) = data
      /\ Read(text) = [fields |-> <<type>>, data |-> data]
      /\ ReadLoosely(text) = {Read(text)}
      /\ SubSeq(text, 1, Len(text)) = text
      /\ \A k \in 1..Len(data) : Read(SubSeq(text, 1, k)) = Throws
  BY <1>1, Layer
<1> HIDE DEF text
<1>3. Read(text) # Throws
  <2>1. "fields" \in DOMAIN Read(text)
    BY <1>2
  <2> QED BY <2>1, ThrowsIsNone
<1>4. Read(text).fields[1] = type /\ Read(text).data = data
  BY <1>2
<1> QED BY <1>2, <1>3, <1>4 DEF text

\* What the setup node is asked for it reads, or nothing of it.
SetupData(r) ==
  CASE r.type = "BEAVERS_TRIPLET_REQUEST" -> <<Word(r.count)>>
    [] r.type = "JOIN_AS_NODE_REQUEST" -> JoinText(r.join.as, r.join.ip, r.join.port)
    [] r.type = "NetworkDetailsRequest" -> Framed(<<r.ask>>, <<>>)
    [] OTHER -> <<>>

LEMMA SetupIsRead ==
  ASSUME Apart, NEW r \in SetupRequests
  PROVE  LET text == SetupText(r)
         IN  /\ IsText(text) /\ Len(text) \in Nat \ {0}
             /\ ReadSetup(SubSeq(text, 1, Len(text))) = r
             /\ \A k \in 1..(Len(text) - 1) : ReadSetup(SubSeq(text, 1, k)) = Throws
<1> DEFINE data == SetupData(r)
           text == SetupText(r)
<1>1. text = Framed(<<r.type>>, data)
  BY DEF SetupText, SetupData
<1>2. IsText(<<>>) /\ (\A x : IsText(<<x>>))
  BY IsTextIfs
<1>3. IsText(Framed(<<r.ask>>, <<>>)) /\ Read(Framed(<<r.ask>>, <<>>)).fields[1] = r.ask
  BY <1>2, TypedLayer
<1>4. /\ IsText(JoinText(r.join.as, r.join.ip, r.join.port))
      /\ ReadJoin(JoinText(r.join.as, r.join.ip, r.join.port)) =
           [as |-> r.join.as, ip |-> r.join.ip, port |-> r.join.port]
  BY JoinIsRead
<1>5. IsText(data)
  <2>1. CASE r.type = "BEAVERS_TRIPLET_REQUEST"
    BY <1>2, <2>1 DEF SetupData
  <2>2. CASE r.type = "JOIN_AS_NODE_REQUEST"
    BY <1>4, <2>2 DEF SetupData
  <2>3. CASE r.type = "NetworkDetailsRequest"
    BY <1>3, <2>3 DEF SetupData
  <2>4. CASE r.type \notin SetupTypes
    BY <1>2, <2>4 DEF SetupData, SetupTypes
  <2> QED BY <2>1, <2>2, <2>3, <2>4 DEF SetupTypes
<1> HIDE DEF text
<1>6. /\ IsText(text) /\ Len(text) = Len(data) + 1 /\ Len(data) \in Nat
      /\ Read(text) # Throws /\ Read(text).fields[1] = r.type /\ Read(text).data = data
      /\ SubSeq(text, 1, Len(text)) = text
      /\ \A k \in 1..Len(data) : Read(SubSeq(text, 1, k)) = Throws
  <2> HIDE DEF data
  <2>1. IsText(data)
    BY <1>5
  <2>2. text = Framed(<<r.type>>, data)
    BY <1>1
  <2> QED BY <2>1, <2>2, TypedLayer
<1>7. \A k \in 1..(Len(text) - 1) : ReadSetup(SubSeq(text, 1, k)) = Throws
  <2> TAKE k \in 1..(Len(text) - 1)
  <2>1. k \in 1..Len(data)
    BY <1>6
  <2>2. Read(SubSeq(text, 1, k)) = Throws
    BY <1>6, <2>1
  <2> QED BY <2>2 DEF ReadSetup
<1>8. ReadSetup(text) = r
  <2>1. CASE r.type = "BEAVERS_TRIPLET_REQUEST"
    <3>1. r \in [type : {"BEAVERS_TRIPLET_REQUEST"}, count : Nat \ {0}]
      BY <2>1 DEF SetupRequests, OtherRequests, SetupTypes
    <3>2. r = [type |-> r.type, count |-> r.count]
      BY <3>1
    <3>3. data[1][2] = r.count
      BY <2>1 DEF SetupData, Word
    <3>4. ReadSetup(text) = [type |-> r.type, count |-> data[1][2]]
      <4> HIDE DEF data
      <4> QED BY <1>6, <2>1 DEF ReadSetup
    <3> QED BY <3>2, <3>3, <3>4
  <2>2. CASE r.type = "JOIN_AS_NODE_REQUEST"
    <3>1. r \in [type : {"JOIN_AS_NODE_REQUEST"},
                 join : [as : {"JOIN_AS_COFHE_NODE", "JOIN_AS_COMPUTE_NODE"},
                         ip : STRING, port : STRING]]
      BY <2>2 DEF SetupRequests, OtherRequests, SetupTypes
    <3>2. r = [type |-> r.type, join |-> r.join]
          /\ r.join = [as |-> r.join.as, ip |-> r.join.ip, port |-> r.join.port]
      BY <3>1
    <3>3. ReadJoin(data) = r.join
      BY <1>4, <2>2, <3>2 DEF SetupData
    <3>4. ReadSetup(text) = [type |-> r.type, join |-> ReadJoin(data)]
      <4> HIDE DEF data
      <4> QED BY <1>6, <2>2 DEF ReadSetup
    <3> QED BY <3>2, <3>3, <3>4
  <2>3. CASE r.type = "NetworkDetailsRequest"
    <3>1. r \in [type : {"NetworkDetailsRequest"}, ask : STRING]
      BY <2>3 DEF SetupRequests, OtherRequests, SetupTypes
    <3>2. r = [type |-> r.type, ask |-> r.ask]
      BY <3>1
    <3>3. Read(data).fields[1] = r.ask
      BY <1>3, <2>3 DEF SetupData
    <3>4. ReadSetup(text) = [type |-> r.type, ask |-> Read(data).fields[1]]
      <4> HIDE DEF data
      <4> QED BY <1>6, <2>3 DEF ReadSetup
    <3> QED BY <3>2, <3>3, <3>4
  <2>4. CASE r.type \notin SetupTypes
    <3>1. r \in OtherRequests
      BY <2>4 DEF SetupRequests, SetupTypes
    <3>2. r = [type |-> r.type]
      BY <3>1 DEF OtherRequests
    <3>4. ReadSetup(text) = [type |-> r.type]
      <4> HIDE DEF data
      <4> QED BY <1>6, <2>4 DEF ReadSetup, SetupTypes
    <3> QED BY <3>2, <3>4
  <2> QED BY <2>1, <2>2, <2>3, <2>4 DEF SetupTypes
<1> HIDE DEF data
<1>9. Len(text) \in Nat \ {0}
  BY <1>6
<1> QED BY <1>6, <1>7, <1>8, <1>9 DEF text

\* A request to a CoFHE node, its operand encoded.
IsCofhe(r) ==
  \/ r.type # "PartialDecryption" /\ r = [type |-> r.type]
  \/ /\ r.type = "PartialDecryption"
     /\ r = [type |-> r.type, share |-> r.share, operand |-> r.operand]
     /\ IsOperand(r.operand) /\ r.operand.encryption = "CIPHERTEXT"

LEMMA CofheIsRead ==
  ASSUME Apart, NEW r, IsCofhe(r)
  PROVE  LET text == CofheText(r)
         IN  /\ IsText(text) /\ Len(text) \in Nat \ {0}
             /\ ReadCofhe(SubSeq(text, 1, Len(text))) = r
             /\ \A k \in 1..(Len(text) - 1) : ReadCofhe(SubSeq(text, 1, k)) = Throws
<1> DEFINE inner == Framed(<<r.share, r.operand.type>>, r.operand.data)
           data == IF r.type = "PartialDecryption" THEN inner ELSE <<>>
           text == CofheText(r)
<1>1. text = Framed(<<r.type>>, data)
  BY DEF CofheText
<1>2. IsText(<<>>) /\ IsText(<<r.share, r.operand.type>>)
  BY IsTextIfs
<1>3. r.type = "PartialDecryption" =>
        /\ IsText(inner)
        /\ Read(inner) = [fields |-> <<r.share, r.operand.type>>, data |-> r.operand.data]
  <2> SUFFICES ASSUME r.type = "PartialDecryption"
               PROVE  /\ IsText(inner)
                      /\ Read(inner) = [fields |-> <<r.share, r.operand.type>>,
                                        data |-> r.operand.data]
    OBVIOUS
  <2>1. IsText(r.operand.data)
    BY DEF IsOperand, IsCofhe
  <2> QED BY <1>2, <2>1, Layer
<1> HIDE DEF inner
<1>5. IsText(data)
  BY <1>2, <1>3
<1> HIDE DEF text
<1>6. /\ IsText(text) /\ Len(text) = Len(data) + 1 /\ Len(data) \in Nat
      /\ Read(text) # Throws /\ Read(text).fields[1] = r.type /\ Read(text).data = data
      /\ SubSeq(text, 1, Len(text)) = text
      /\ \A k \in 1..Len(data) : Read(SubSeq(text, 1, k)) = Throws
  <2> HIDE DEF data
  <2>1. IsText(data)
    BY <1>5
  <2>2. text = Framed(<<r.type>>, data)
    BY <1>1
  <2> QED BY <2>1, <2>2, TypedLayer
<1>7. \A k \in 1..(Len(text) - 1) : ReadCofhe(SubSeq(text, 1, k)) = Throws
  <2> TAKE k \in 1..(Len(text) - 1)
  <2>1. k \in 1..Len(data)
    BY <1>6
  <2>2. Read(SubSeq(text, 1, k)) = Throws
    BY <1>6, <2>1
  <2> QED BY <2>2 DEF ReadCofhe
<1>8. ReadCofhe(text) = r
  <2>1. CASE r.type = "PartialDecryption"
    <3>1. r = [type |-> r.type, share |-> r.share, operand |-> r.operand]
          /\ r.operand = [type |-> r.operand.type, encryption |-> "CIPHERTEXT",
                          data |-> r.operand.data]
      BY <2>1 DEF IsOperand, IsCofhe
    <3>2. data = inner
      BY <2>1
    <3>3. /\ Read(data).fields[1] = r.share /\ Read(data).fields[2] = r.operand.type
          /\ Read(data).data = r.operand.data
      BY <1>3, <2>1, <3>2
    <3> HIDE DEF data
    <3>4. ReadCofhe(text) =
            [type |-> r.type, share |-> Read(data).fields[1],
             operand |-> [type |-> Read(data).fields[2], encryption |-> "CIPHERTEXT",
                          data |-> Read(data).data]]
      BY <1>6, <2>1 DEF ReadCofhe
    <3> QED BY <3>1, <3>3, <3>4
  <2>2. CASE r.type # "PartialDecryption"
    <3>1. r = [type |-> r.type]
      BY <2>2 DEF IsCofhe
    <3> HIDE DEF data
    <3>2. ReadCofhe(text) = [type |-> r.type]
      BY <1>6, <2>2 DEF ReadCofhe
    <3> QED BY <3>1, <3>2
  <2> QED BY <2>1, <2>2
<1> HIDE DEF data
<1>9. Len(text) \in Nat \ {0}
  BY <1>6
<1> QED BY <1>6, <1>7, <1>8, <1>9 DEF text

\* A request to compute, its operands encoded.
IsCompute(r, n, p) ==
  /\ r = [arity |-> r.arity, operation |-> r.operation, operands |-> r.operands]
  /\ r.operands = [j \in 1..n |-> r.operands[j]]
  /\ AreOperands(r.operands, n, p)

LEMMA ComputeIsRead ==
  ASSUME Apart, NEW r, NEW n, NEW p, IsCompute(r, n, p)
  PROVE  LET text == ComputeText(r)
         IN  /\ IsText(text) /\ p[n] \in Nat /\ Len(text) = p[n] + 1
             /\ \A k \in 1..Len(text) :
                  LET read == ReadCompute(SubSeq(text, 1, k))
                  IN  /\ read = r <=> (~ Loses(r.operands, n) /\ p[n] <= k)
                      /\ read = Throws \/ (IsText(read.operands) /\ Len(read.operands) = n)
<1> DEFINE os == r.operands
           line == Line(<<r.arity, r.operation, n>>)
           rest == OperandTexts(os, n)
           text == ComputeText(r)
<1>1. /\ r = [arity |-> r.arity, operation |-> r.operation, operands |-> os]
      /\ os = [j \in 1..n |-> os[j]] /\ AreOperands(os, n, p)
  BY DEF IsCompute
<1>2. /\ n \in Nat \ {0} /\ p[n] \in Nat
  <2>1. n \in Nat \ {0}
    BY <1>1, OperandPlaces
  <2>2. n \in 0..n
    BY <2>1
  <2>3. \A i \in 0..n : p[i] \in Nat
    BY <1>1, OperandPlaces
  <2> QED BY <2>1, <2>2, <2>3
<1>3. Len(os) = n /\ DOMAIN os = 1..n
  <2> HIDE DEF os
  <2>1. \A f : f = [j \in 1..n |-> os[j]] => Len(f) = n /\ DOMAIN f = 1..n
    BY <1>2
  <2> QED BY <1>1, <2>1
<1>4. text = <<line>> \o rest
  BY <1>3 DEF ComputeText, OperandTexts
<1>5. PICK C : rest \in Seq(C)
  BY <1>1, OperandsLayout DEF IsText
<1>6. Len(rest) = p[n]
  BY <1>1, OperandsLayout
<1>7. line[2] = <<r.arity, r.operation, n>>
  BY WordIsNoSpace
<1> HIDE DEF line, rest, text, os
<1>8. /\ text \in Seq(C \cup {line}) /\ Len(text) = p[n] + 1
      /\ \A k \in 1..(p[n] + 1) :
           /\ SubSeq(text, 1, k)[1] = line
           /\ Tail(SubSeq(text, 1, k)) = SubSeq(rest, 1, k - 1)
  BY <1>4, <1>5, <1>6, Behind
<1>9. ASSUME NEW k \in 1..(p[n] + 1)
      PROVE  LET read == ReadCompute(SubSeq(text, 1, k))
             IN  /\ read = r <=> (~ Loses(os, n) /\ p[n] <= k)
                 /\ read = Throws \/ (IsText(read.operands) /\ Len(read.operands) = n)
  <2> DEFINE s == SubSeq(text, 1, k)
             L == k - 1
             ops == ReadOperands(SubSeq(rest, 1, L), n)
  <2>1. L \in 0..p[n] /\ (p[n] - 1 <= L <=> p[n] <= k)
    BY <1>2
  <2>2. s[1][2] = <<r.arity, r.operation, n>> /\ Tail(s) = SubSeq(rest, 1, L)
    BY <1>7, <1>8
  <2> HIDE DEF L, s
  <2>3. /\ ops = Throws \/ (IsText(ops) /\ Len(ops) = n)
        /\ ops = [j \in 1..n |-> os[j]] <=> (~ Loses(os, n) /\ p[n] - 1 <= L)
    BY <1>1, <2>1, OperandsAreRead DEF rest
  <2>4. /\ s[1][2][1] = r.arity /\ s[1][2][2] = r.operation /\ s[1][2][3] = n
    BY <2>2
  <2>5. ReadOperands(Tail(s), s[1][2][3]) = ops
    BY <2>2, <2>4
  <2> HIDE DEF ops
  <2>6. ReadCompute(s) = IF ops = Throws THEN Throws
                         ELSE [arity |-> r.arity, operation |-> r.operation, operands |-> ops]
    BY <2>4, <2>5 DEF ReadCompute
  <2> DEFINE read == ReadCompute(s)
  <2>7. read = r <=> ops = os
    <3> HIDE DEF read
    <3>1. CASE ops = Throws
      <4>1. 1 \in DOMAIN os /\ "arity" \in DOMAIN r
        BY <1>1, <1>2, <1>3
      <4>2. os # Throws /\ r # Throws
        <5>1. Throws \in {Throws, Misread, Dies, Nothing, Lost}
          OBVIOUS
        <5>2. /\ \A x : 1 \in DOMAIN x => x # Throws
              /\ \A x : "arity" \in DOMAIN x => x # Throws
          BY <5>1, MarksAreNoData
        <5> QED BY <4>1, <5>2
      <4> QED BY <2>6, <3>1, <4>2 DEF read
    <3>2. CASE ops # Throws
      <4>1. read = [arity |-> r.arity, operation |-> r.operation, operands |-> ops]
        BY <2>6, <3>2 DEF read
      <4>2. read.operands = ops /\ r.operands = os
        BY <4>1 DEF os
      <4> QED BY <1>1, <4>1, <4>2
    <3> QED BY <3>1, <3>2
  <2>8. read = r <=> (~ Loses(os, n) /\ p[n] <= k)
    BY <1>1, <2>1, <2>3, <2>7
  <2>9. read = Throws \/ (IsText(read.operands) /\ Len(read.operands) = n)
    BY <2>3, <2>6
  <2> QED BY <2>8, <2>9 DEF s
<1>10. IsText(text)
  BY <1>8 DEF IsText
<1> QED BY <1>2, <1>8, <1>9, <1>10 DEF text, os

LEMMA EncodedIs ==
  ASSUME NEW o \in Operands
  PROVE  /\ IsOperand(Encoded(o))
         /\ Encoded(o).type = o.type /\ Encoded(o).encryption = o.encryption
         /\ Encoded(o).data = ValueText(o.type, o.value)
         /\ IsValue(o.type, o.encryption, o.value)
<1>1. Encoded(o) = [type |-> o.type, encryption |-> o.encryption,
                    data |-> ValueText(o.type, o.value)]
  BY DEF Encoded
<1>2. o.value \in [shape : Seq(Nat), numbers : Seq(Int)]
  BY DEF Operands
<1>3. IsText(ValueText(o.type, o.value))
  BY <1>2, ValueIsText
<1>4. IsValue(o.type, o.encryption, o.value)
  <2>1. /\ o.type = "TENSOR" =>
             Len(o.value.numbers) = Elements(o.value.shape) * Numbers(o.encryption)
        /\ o.type # "TENSOR" => o.value.shape = <<>>
        /\ o.type = "SINGLE" => Len(o.value.numbers) = Numbers(o.encryption)
    BY DEF Operands
  <2> QED BY <1>2, <2>1 DEF IsValue
<1> QED BY <1>1, <1>3, <1>4 DEF IsOperand

\* The three kinds of requests.
LEMMA Kinds ==
  ASSUME NEW q \in Requests
  PROVE  \/ q.service = "SETUP_REQUEST" /\ q.request \in SetupRequests
         \/ q.service = "COFHE_REQUEST" /\ q.request \in CofheRequests
         \/ q.service = "COMPUTE_REQUEST" /\ q.request \in ComputingRequests
<1> HIDE DEF SetupRequests, CofheRequests, ComputingRequests
<1> QED BY DEF Requests

LEMMA SetupMeant ==
  ASSUME NEW q, q.service = "SETUP_REQUEST", q.request \in SetupRequests
  PROVE  Meant(q) = q.request
<1>1. q.request.type # "PartialDecryption"
  BY DEF SetupRequests, OtherRequests, SetupTypes
<1> QED BY <1>1 DEF Meant

LEMMA CofheMeant ==
  ASSUME NEW q, q.service = "COFHE_REQUEST", q.request \in CofheRequests
  PROVE  /\ IsCofhe(Meant(q)) /\ Meant(q).type = q.request.type
         /\ q.request.type = "PartialDecryption" =>
              /\ q.request.share \in Nat
              /\ q.request.operand \in Operands
              /\ q.request.operand.encryption = "CIPHERTEXT"
              /\ Meant(q).share = q.request.share
              /\ Meant(q).operand = Encoded(q.request.operand)
<1> DEFINE r == q.request
<1>1. CASE r.type # "PartialDecryption"
  <2>1. r \in OtherRequests
    BY <1>1 DEF CofheRequests
  <2>2. r = [type |-> r.type]
    BY <2>1 DEF OtherRequests
  <2>3. Meant(q) = r
    BY <1>1 DEF Meant
  <2> QED BY <1>1, <2>2, <2>3 DEF IsCofhe
<1>2. CASE r.type = "PartialDecryption"
  <2>1. r \in [type : {"PartialDecryption"}, share : Nat,
               operand : {o \in Operands : o.encryption = "CIPHERTEXT"}]
    BY <1>2 DEF CofheRequests, OtherRequests, SetupTypes
  <2>2. /\ r = [type |-> r.type, share |-> r.share, operand |-> r.operand]
        /\ r.share \in Nat /\ r.operand \in Operands /\ r.operand.encryption = "CIPHERTEXT"
    BY <2>1
  <2>3. Meant(q) = [r EXCEPT !.operand = Encoded(r.operand)]
    BY <1>2 DEF Meant
  <2> DEFINE e == Encoded(r.operand)
  <2>4. IsOperand(e) /\ e.encryption = "CIPHERTEXT"
    BY <2>2, EncodedIs
  <2> HIDE DEF e
  <2>5. Meant(q) = [type |-> r.type, share |-> r.share, operand |-> e]
    BY <2>2, <2>3 DEF e
  <2> HIDE DEF r
  <2>6. IsCofhe(Meant(q))
    BY <1>2, <2>4, <2>5 DEF IsCofhe
  <2> QED BY <2>2, <2>5, <2>6 DEF e, r
<1> QED BY <1>1, <1>2

LEMMA ComputeMeant ==
  ASSUME NEW q, q.service = "COMPUTE_REQUEST", q.request \in ComputingRequests
  PROVE  LET n == Len(q.request.operands)
         IN  /\ n \in Nat \ {0} /\ q.request.operands \in Seq(Operands)
             /\ DOMAIN q.request.operands = 1..n
             /\ Meant(q).arity = q.request.arity
             /\ Meant(q).operation = q.request.operation
             /\ Meant(q).operands = [i \in 1..n |-> Encoded(q.request.operands[i])]
             /\ \E p : IsCompute(Meant(q), n, p)
<1> DEFINE r == q.request
           n == Len(r.operands)
           os == [i \in 1..n |-> Encoded(r.operands[i])]
<1>1. /\ r = [arity |-> r.arity, operation |-> r.operation, operands |-> r.operands]
      /\ r.operands \in Seq(Operands) /\ r.operands # <<>>
  BY DEF ComputingRequests
<1>2. n \in Nat \ {0} /\ DOMAIN r.operands = 1..n /\ \A i \in 1..n : r.operands[i] \in Operands
  BY <1>1
<1>3. Meant(q) = [r EXCEPT !.operands = os]
  <2>1. Meant(q) = [r EXCEPT !.operands = [i \in DOMAIN @ |-> Encoded(@[i])]]
    BY DEF Meant
  <2> QED BY <1>2, <2>1
<1>4. \A i \in 1..n : os[i] = Encoded(r.operands[i]) /\ IsOperand(os[i])
  BY <1>2, EncodedIs
<1> HIDE DEF os
<1>5. Meant(q) = [arity |-> r.arity, operation |-> r.operation, operands |-> os]
  BY <1>1, <1>3
<1>6. os = [i \in 1..n |-> os[i]]
  BY DEF os
<1>7. Lengths(os, n) \in [1..n -> Nat]
  <2>1. ASSUME NEW i \in 1..n PROVE Len(os[i].data) + 2 \in Nat
    <3>1. PICK C : os[i].data \in Seq(C)
      BY <1>4 DEF IsOperand, IsText
    <3> QED BY <3>1
  <2> QED BY <2>1 DEF Lengths
<1>8. PICK p : Places(p, Lengths(os, n), n)
  BY <1>2, <1>7, PlacesExist
<1> HIDE DEF n, r
<1>9. AreOperands(os, n, p)
  BY <1>2, <1>4, <1>8 DEF AreOperands
<1> DEFINE m == Meant(q)
<1>10. m.arity = r.arity /\ m.operation = r.operation /\ m.operands = os
  BY <1>5
<1>11. IsCompute(m, n, p)
  <2> HIDE DEF m
  <2>1. m = [arity |-> r.arity, operation |-> r.operation, operands |-> os]
    BY <1>5 DEF m
  <2> QED BY <1>6, <1>9, <1>10, <2>1 DEF IsCompute
<1> QED BY <1>1, <1>2, <1>10, <1>11 DEF n, r, os, m

\* What a handler reads of a request.
DataOf(q) ==
  CASE q.service = "SETUP_REQUEST" -> SetupText(Meant(q))
    [] q.service = "COFHE_REQUEST" -> CofheText(Meant(q))
    [] OTHER -> ComputeText(Meant(q))
BodyOf(q) ==
  SubSeq(Tail(RequestText(q)), 1, Min({IntMax, Len(Tail(RequestText(q)))}))
InputOf(q) ==
  CASE q.service = "SETUP_REQUEST" -> ReadSetup(BodyOf(q))
    [] q.service = "COFHE_REQUEST" -> ReadCofhe(BodyOf(q))
    [] OTHER -> ReadCompute(BodyOf(q))

\* HandledAsSent, of one call.
HandledOk(q, h) ==
  IF RequestSize(q) <= IntMax THEN h = Meant(q) <=> ~ LosesData(q)
  ELSE /\ h = Throws \/ q.service = "COMPUTE_REQUEST"
       /\ h = Meant(q) => RequestSize(q) = IntMax + 1

\* The body is the beginning of the data, all of it if an int can say so much.
BodySize(q, k) ==
  /\ BodyOf(q) = SubSeq(DataOf(q), 1, k) /\ k \in 1..RequestSize(q)
  /\ RequestSize(q) = Len(DataOf(q))
  /\ k = IF RequestSize(q) <= IntMax THEN RequestSize(q) ELSE IntMax

LEMMA BodyIs ==
  ASSUME NEW q, IsText(DataOf(q)), Len(DataOf(q)) \in Nat \ {0}
  PROVE  /\ IsText(RequestText(q)) /\ \E k : BodySize(q, k)
<1> DEFINE d == DataOf(q)
           k == IF Len(d) <= IntMax THEN Len(d) ELSE IntMax
<1>1. RequestText(q) = Framed(<<q.service>>, d)
  BY DEF RequestText, DataOf
<1>2. IsText(<<q.service>>) /\ IsText(d) /\ Len(d) \in Nat \ {0}
  BY IsTextIfs
<1> HIDE DEF d
<1>3. IsText(RequestText(q)) /\ Tail(RequestText(q)) = d
  BY SMTT(30), <1>1, <1>2, Layer
<1>4. IntMax \in Nat \ {0}
  BY FormatsAssumption
<1>5. k \in 1..Len(d)
  BY <1>2, <1>4
<1>6. Min({IntMax, Len(d)}) = k
  <2>1. Min({IntMax, Len(d)}) = IF IntMax <= Len(d) THEN IntMax ELSE Len(d)
    <3>1. IntMax \in Int /\ Len(d) \in Int
      BY <1>2, <1>4
    <3> QED BY <3>1, MinOfTwo
  <2> QED BY <1>2, <1>4, <2>1
<1>7. RequestSize(q) = Len(d)
  BY <1>3 DEF RequestSize
<1>8. BodyOf(q) = SubSeq(d, 1, k)
  BY <1>3, <1>6 DEF BodyOf
<1> HIDE DEF k
<1>9. BodySize(q, k)
  <2>1. k = IF Len(d) <= IntMax THEN Len(d) ELSE IntMax
    BY DEF k
  <2> QED BY <1>5, <1>7, <1>8, <2>1 DEF BodySize, d
<1> QED BY <1>3, <1>9

LEMMA MeantIsSomething ==
  ASSUME Apart, NEW q \in Requests
  PROVE  Meant(q) # Throws
<1>1. CASE q.service = "SETUP_REQUEST" /\ q.request \in SetupRequests
  <2>1. Meant(q) = q.request
    BY <1>1, SetupMeant
  <2>2. "type" \in DOMAIN q.request
    BY <1>1 DEF SetupRequests, OtherRequests
  <2> QED BY <2>1, <2>2, ThrowsIsNone
<1>2. CASE q.service = "COFHE_REQUEST" /\ q.request \in CofheRequests
  <2>1. IsCofhe(Meant(q))
    BY <1>2, CofheMeant
  <2> DEFINE m == Meant(q)
  <2>2. "type" \in DOMAIN m
    <3> HIDE DEF m
    <3>1. m = [type |-> m.type]
          \/ m = [type |-> m.type, share |-> m.share, operand |-> m.operand]
      BY <2>1 DEF IsCofhe, m
    <3> QED BY <3>1
  <2> QED BY <2>2, ThrowsIsNone
<1>3. CASE q.service = "COMPUTE_REQUEST" /\ q.request \in ComputingRequests
  <2>1. PICK p : IsCompute(Meant(q), Len(q.request.operands), p)
    BY <1>3, ComputeMeant
  <2> DEFINE m == Meant(q)
  <2>2. "arity" \in DOMAIN m
    <3> HIDE DEF m
    <3>1. m = [arity |-> m.arity, operation |-> m.operation, operands |-> m.operands]
      BY <2>1 DEF IsCompute, m
    <3> QED BY <3>1
  <2> QED BY <2>2, ThrowsIsNone
<1> QED BY <1>1, <1>2, <1>3, Kinds

\* What a request is read as.
LEMMA InputIs ==
  ASSUME Apart, NEW q \in Requests
  PROVE  /\ IsText(RequestText(q)) /\ HandledOk(q, InputOf(q))
         /\ q.service # "COMPUTE_REQUEST" => InputOf(q) \in {Throws, Meant(q)}
         /\ q.service = "COMPUTE_REQUEST" /\ InputOf(q) # Throws =>
              IsText(InputOf(q).operands) /\ Len(InputOf(q).operands) \in Nat \ {0}
<1>1. Meant(q) # Throws
  BY MeantIsSomething
<1>0. IntMax \in Nat
  BY FormatsAssumption
<1>2. ASSUME NEW text, text = DataOf(q), IsText(text), Len(text) \in Nat \ {0},
             q.service # "COMPUTE_REQUEST",
             NEW read, read = InputOf(q),
             NEW k, BodySize(q, k),
             IF k = Len(text) THEN read = Meant(q) ELSE read = Throws
      PROVE  HandledOk(q, InputOf(q)) /\ InputOf(q) \in {Throws, Meant(q)}
  <2>1. RequestSize(q) = Len(text)
        /\ k = IF RequestSize(q) <= IntMax THEN RequestSize(q) ELSE IntMax
    BY <1>2 DEF BodySize
  <2>2. ~ LosesData(q)
    BY <1>2 DEF LosesData
  <2>3. CASE RequestSize(q) <= IntMax
    BY <1>2, <2>1, <2>2, <2>3 DEF HandledOk
  <2>4. CASE ~ (RequestSize(q) <= IntMax)
    <3>1. k # Len(text)
      BY <1>0, <1>2, <2>1, <2>4
    <3> QED BY <1>1, <1>2, <2>4, <3>1 DEF HandledOk
  <2> QED BY <2>3, <2>4
<1>3. CASE q.service = "SETUP_REQUEST" /\ q.request \in SetupRequests
  <2> DEFINE text == SetupText(q.request)
  <2>1. Meant(q) = q.request
    BY <1>3, SetupMeant
  <2>2. DataOf(q) = text
    BY <1>3, <2>1 DEF DataOf
  <2>3. /\ IsText(text) /\ Len(text) \in Nat \ {0}
        /\ ReadSetup(SubSeq(text, 1, Len(text))) = q.request
        /\ \A k \in 1..(Len(text) - 1) : ReadSetup(SubSeq(text, 1, k)) = Throws
    BY <1>3, SetupIsRead
  <2> HIDE DEF text
  <2>4. IsText(RequestText(q))
    BY <2>2, <2>3, BodyIs
  <2>5. PICK k : BodySize(q, k)
    BY <2>2, <2>3, BodyIs
  <2>6. InputOf(q) = ReadSetup(SubSeq(text, 1, k)) /\ k \in 1..Len(text)
    BY <1>3, <2>2, <2>5 DEF InputOf, BodySize
  <2>7. IF k = Len(text) THEN InputOf(q) = Meant(q) ELSE InputOf(q) = Throws
    <3>1. k = Len(text) \/ k \in 1..(Len(text) - 1)
      BY <2>3, <2>6
    <3> QED BY <2>1, <2>3, <2>6, <3>1
  <2>8. q.service # "COMPUTE_REQUEST"
    BY <1>3
  <2>9. HandledOk(q, InputOf(q)) /\ InputOf(q) \in {Throws, Meant(q)}
    BY <1>2, <2>2, <2>3, <2>5, <2>7, <2>8
  <2> QED BY <2>4, <2>8, <2>9
<1>4. CASE q.service = "COFHE_REQUEST" /\ q.request \in CofheRequests
  <2> DEFINE m == Meant(q)
             text == CofheText(m)
  <2>1. IsCofhe(m)
    BY <1>4, CofheMeant
  <2>2. DataOf(q) = text
    BY <1>4 DEF DataOf
  <2> HIDE DEF m
  <2>3. /\ IsText(text) /\ Len(text) \in Nat \ {0}
        /\ ReadCofhe(SubSeq(text, 1, Len(text))) = m
        /\ \A k \in 1..(Len(text) - 1) : ReadCofhe(SubSeq(text, 1, k)) = Throws
    BY <2>1, CofheIsRead
  <2> HIDE DEF text
  <2>4. IsText(RequestText(q))
    BY <2>2, <2>3, BodyIs
  <2>5. PICK k : BodySize(q, k)
    BY <2>2, <2>3, BodyIs
  <2>6. InputOf(q) = ReadCofhe(SubSeq(text, 1, k)) /\ k \in 1..Len(text)
    BY <1>4, <2>2, <2>5 DEF InputOf, BodySize
  <2>7. IF k = Len(text) THEN InputOf(q) = Meant(q) ELSE InputOf(q) = Throws
    <3>1. k = Len(text) \/ k \in 1..(Len(text) - 1)
      BY <2>3, <2>6
    <3> QED BY <2>3, <2>6, <3>1 DEF m
  <2>8. q.service # "COMPUTE_REQUEST"
    BY <1>4
  <2>9. HandledOk(q, InputOf(q)) /\ InputOf(q) \in {Throws, Meant(q)}
    BY <1>2, <2>2, <2>3, <2>5, <2>7, <2>8
  <2> QED BY <2>4, <2>8, <2>9
<1>5. CASE q.service = "COMPUTE_REQUEST" /\ q.request \in ComputingRequests
  <2> DEFINE m == Meant(q)
             n == Len(q.request.operands)
             text == ComputeText(m)
  <2>1. PICK p : IsCompute(m, n, p)
    BY <1>5, ComputeMeant
  <2>2. DataOf(q) = text
    BY <1>5 DEF DataOf
  <2>10. n \in Nat \ {0} /\ m.operands = [i \in 1..n |-> Encoded(q.request.operands[i])]
    BY <1>5, ComputeMeant
  <2>11. LosesData(q) <=> Loses(m.operands, n)
    <3>1. Len(m.operands) = n
      <4> HIDE DEF n, m
      <4> QED BY <2>10
    <3> QED BY <1>5, <3>1 DEF LosesData, Loses
  <2> HIDE DEF m, n
  <2>3. /\ IsText(text) /\ p[n] \in Nat /\ Len(text) = p[n] + 1
        /\ \A k \in 1..Len(text) :
             LET read == ReadCompute(SubSeq(text, 1, k))
             IN  /\ read = m <=> (~ Loses(m.operands, n) /\ p[n] <= k)
                 /\ read = Throws \/ (IsText(read.operands) /\ Len(read.operands) = n)
    BY <2>1, ComputeIsRead
  <2> HIDE DEF text
  <2>12. Len(text) \in Nat \ {0}
    BY <2>3
  <2>4. IsText(RequestText(q))
    BY <2>2, <2>3, <2>12, BodyIs
  <2>5. PICK k : BodySize(q, k)
    BY <2>2, <2>3, <2>12, BodyIs
  <2>6. /\ InputOf(q) = ReadCompute(SubSeq(text, 1, k)) /\ k \in 1..Len(text)
        /\ RequestSize(q) = Len(text)
        /\ k = IF RequestSize(q) <= IntMax THEN RequestSize(q) ELSE IntMax
    BY <1>5, <2>2, <2>5 DEF InputOf, BodySize
  <2>7. /\ InputOf(q) = Meant(q) <=> (~ LosesData(q) /\ p[n] <= k)
        /\ InputOf(q) = Throws
           \/ (IsText(InputOf(q).operands) /\ Len(InputOf(q).operands) = n)
    BY <2>3, <2>6, <2>11 DEF m
  <2>8. HandledOk(q, InputOf(q))
    <3>1. CASE RequestSize(q) <= IntMax
      <4>1. p[n] <= k
        BY <2>3, <2>6, <3>1
      <4> QED BY <2>7, <3>1, <4>1 DEF HandledOk
    <3>2. CASE ~ (RequestSize(q) <= IntMax)
      <4>1. k = IntMax /\ RequestSize(q) = p[n] + 1
        BY <2>3, <2>6, <3>2
      <4>2. p[n] <= k => RequestSize(q) = IntMax + 1
        BY <1>0, <2>3, <3>2, <4>1
      <4> QED BY <1>5, <2>7, <3>2, <4>2 DEF HandledOk
    <3> QED BY <3>1, <3>2
  <2> QED BY <1>5, <2>4, <2>7, <2>8, <2>10
<1> QED BY <1>3, <1>4, <1>5, Kinds

-----------------------------------------------------------------------------
(* One call: what the four invariants say of it.                           *)

\* RefusalsTold, of one call: a its answer, g what the caller got.
ToldOk(a, g) ==
  g \notin {Nothing, Lost} =>
    /\ a.by = "root" <=> g = Misread
    /\ g # Misread => (g.told = "ERROR" <=> a.status = "ERROR" /\ a.by = "service")

\* The value that answers q, as it is received.
Delivered(q, value) ==
  IF q.service # "SETUP_REQUEST" \/ q.request.type = "BEAVERS_TRIPLET_REQUEST"
  THEN AsReceived(ResultType(q), ResultEncryption(q), value) ELSE value

\* AnswersArrive, of one call: h was handled, rd read, dn the nodes that died.
ArrivesOk(q, h, a, g, rd, dn) ==
  /\ g = Lost => \/ a # Nothing /\ a.by = "root"
                 \/ h = Throws \/ q.node \in dn
  /\ (g \notin {Nothing, Lost, Misread} /\ a.status = "OK" /\ a.value # Misread) =>
       g.value = Delivered(q, a.value)
  /\ a # Nothing /\ rd # Nothing /\ ~ rd.raced => a.value = rd.roster

\* TensorsSurvive, of one call: d was decoded.
OperandsOf(q) ==
  IF q.service = "COMPUTE_REQUEST" THEN q.request.operands ELSE <<q.request.operand>>
DecodedOf(q) ==
  [i \in DOMAIN OperandsOf(q) |->
     AsReceived(OperandsOf(q)[i].type, OperandsOf(q)[i].encryption, OperandsOf(q)[i].value)]
HasEmpty(q) ==
  \E i \in DOMAIN OperandsOf(q) :
    OperandsOf(q)[i].type = "TENSOR" /\ Elements(OperandsOf(q)[i].value.shape) = 0
SurvivesOk(q, h, d, a, g) ==
  /\ d # Nothing => d = DecodedOf(q)
  /\ (g = Lost /\ a = Nothing /\ h \notin {Nothing, Throws}
       /\ q.service # "SETUP_REQUEST") => h # Meant(q) \/ HasEmpty(q)

Good(q, h, d, a, g, rd, dn) ==
  /\ h # Nothing => HandledOk(q, h)
  /\ ToldOk(a, g) /\ ArrivesOk(q, h, a, g, rd, dn) /\ SurvivesOk(q, h, d, a, g)

\* A call that is under way was not handled yet, and its handler reads the
\* roster as it is, or it changed.
Sent(c) ==
  /\ call[c] \in Calls /\ wire[c] = RequestText(call[c])
  /\ handled[c] = Nothing /\ decoded[c] = Nothing /\ answer[c] = Nothing
  /\ got[c] = Nothing

Reads(c) ==
  /\ \E seen, changed :
       /\ reading[c] = [roster |-> seen, raced |-> changed]
       /\ changed \in BOOLEAN /\ (~ changed => seen = roster)
  /\ call[c].service = "SETUP_REQUEST" /\ InputOf(call[c]) # Throws
  /\ InputOf(call[c]).type = "NetworkDetailsRequest"

\* Whatever is made of an answer is right.
Answered(c) ==
  /\ call[c] \in Calls
  /\ \A g \in Outcomes(call[c], Tail(wire[c])) :
       Good(call[c], handled[c], decoded[c], answer[c], g, reading[c], down)

CallInv(c) ==
  /\ pc[c] \in {"idle", "sent", "reading", "answered"}
  /\ Good(call[c], handled[c], decoded[c], answer[c], got[c], reading[c], down)
  /\ pc[c] \in {"sent", "reading"} => Sent(c)
  /\ pc[c] = "sent" => reading[c] = Nothing
  /\ pc[c] = "reading" => Reads(c)
  /\ pc[c] = "answered" => Answered(c)

-----------------------------------------------------------------------------
(* What is made of an answer.                                              *)

\* The record of an answer, and what is told of one.
AnswerOf(by, status, value) == [by |-> by, status |-> status, value |-> value]
ToldOf(told, value) == [told |-> told, value |-> value]

LEMMA Distinct ==
  ASSUME Apart
  PROVE  /\ \A x : "told" \in DOMAIN x => x \notin {Nothing, Lost, Misread}
         /\ \A x : "by" \in DOMAIN x => x # Nothing
         /\ \A x : "shape" \in DOMAIN x => x \notin {Nothing, Misread, Dies}
         /\ \A x : "roster" \in DOMAIN x => x # Nothing
         /\ \A x : 1 \in DOMAIN x => x # Nothing
         /\ Misread \notin {Nothing, Lost, Throws, Dies} /\ Nothing # Lost
         /\ Throws \notin {Nothing, Lost}
<1>1. /\ Nothing \in {Throws, Misread, Dies, Nothing, Lost}
      /\ Lost \in {Throws, Misread, Dies, Nothing, Lost}
      /\ Misread \in {Throws, Misread, Dies, Nothing, Lost}
      /\ Dies \in {Throws, Misread, Dies, Nothing, Lost}
  OBVIOUS
<1>2. \A x : "told" \in DOMAIN x => x # Nothing /\ x # Lost /\ x # Misread
  BY <1>1, MarksAreNoData
<1>3. \A x : "by" \in DOMAIN x => x # Nothing
  BY <1>1, MarksAreNoData
<1>4. \A x : "shape" \in DOMAIN x => x # Nothing /\ x # Misread /\ x # Dies
  BY <1>1, MarksAreNoData
<1>5. \A x : "roster" \in DOMAIN x => x # Nothing
  BY <1>1, MarksAreNoData
<1>6. \A x : 1 \in DOMAIN x => x # Nothing
  BY <1>1, MarksAreNoData
<1>7. /\ Misread \notin {Nothing, Lost, Throws, Dies} /\ Nothing # Lost
      /\ Throws \notin {Nothing, Lost}
  BY DEF Apart
<1> QED BY <1>2, <1>3, <1>4, <1>5, <1>6, <1>7

\* Nothing is wrong with a request that was handled and answered, whose answer
\* the caller did not get yet, or got as it is.
Fits(q, d, by, status, value, told, x, rd) ==
  /\ by \in {"service", "dispatch"}
  /\ d = Nothing \/ d = DecodedOf(q)
  /\ told = "ERROR" <=> status = "ERROR" /\ by = "service"
  /\ status = "OK" /\ value # Misread => x = Delivered(q, value)
  /\ rd # Nothing /\ ~ rd.raced => value = rd.roster

LEMMA FittingIsGood ==
  ASSUME Apart, NEW q \in Requests, NEW d, NEW by, NEW status, NEW value, NEW told,
         NEW x, NEW rd, NEW dn, Fits(q, d, by, status, value, told, x, rd)
  PROVE  \A g \in {Nothing, ToldOf(told, x)} :
           Good(q, InputOf(q), d, AnswerOf(by, status, value), g, rd, dn)
<1> DEFINE a == AnswerOf(by, status, value)
           t == ToldOf(told, x)
<1>1. a.by = by /\ a.status = status /\ a.value = value /\ "by" \in DOMAIN a
  BY DEF AnswerOf
<1>2. t.told = told /\ t.value = x /\ "told" \in DOMAIN t
  BY DEF ToldOf
<1> HIDE DEF a, t
<1>3. a # Nothing /\ t \notin {Nothing, Lost, Misread} /\ Nothing # Lost
  BY <1>1, <1>2, Distinct
<1>4. HandledOk(q, InputOf(q))
  BY InputIs
<1>5. by # "root"
  BY DEF Fits
<1>6. ToldOk(a, Nothing) /\ ToldOk(a, t)
  <2>1. t.told = "ERROR" <=> a.status = "ERROR" /\ a.by = "service"
    BY <1>1, <1>2 DEF Fits
  <2> QED BY <1>1, <1>3, <1>5, <2>1 DEF ToldOk
<1>7. /\ ArrivesOk(q, InputOf(q), a, Nothing, rd, dn)
      /\ ArrivesOk(q, InputOf(q), a, t, rd, dn)
  <2>1. a.status = "OK" /\ a.value # Misread => t.value = Delivered(q, a.value)
    BY <1>1, <1>2 DEF Fits
  <2>2. rd # Nothing /\ ~ rd.raced => a.value = rd.roster
    BY <1>1 DEF Fits
  <2> QED BY <1>3, <2>1, <2>2 DEF ArrivesOk
<1>8. /\ SurvivesOk(q, InputOf(q), d, a, Nothing)
      /\ SurvivesOk(q, InputOf(q), d, a, t)
  <2>1. d # Nothing => d = DecodedOf(q)
    BY DEF Fits
  <2> QED BY <1>3, <2>1 DEF SurvivesOk
<1>9. \A g \in {Nothing, t} : Good(q, InputOf(q), d, a, g, rd, dn)
  BY <1>4, <1>6, <1>7, <1>8 DEF Good
<1> QED BY <1>9 DEF a, t

\* The response of a setup or a CoFHE node, and that of a compute node.
LEMMA OutcomesOfNode ==
  ASSUME Apart, NEW q, q.service # "COMPUTE_REQUEST", NEW data, IsText(data)
  PROVE  Outcomes(q, Framed(<<"OK">>, data)) = {ReadInner(q, data)}
<1> DEFINE text == Framed(<<"OK">>, data)
<1>1. /\ ReadLoosely(text) = {Read(text)} /\ Read(text) # Throws
      /\ Read(text).fields[1] = "OK" /\ Read(text).data = data
  BY TypedLayer
<1>2. Read(text) # Misread
  <2>1. Read(text) = [fields |-> <<"OK">>, data |-> data]
    <3>1. IsText(<<"OK">>)
      BY IsTextIfs
    <3> QED BY <3>1, Layer
  <2>2. "fields" \in DOMAIN Read(text)
    <3> HIDE DEF text
    <3> QED BY <2>1
  <2>3. Misread \in {Throws, Misread, Dies, Nothing, Lost}
    OBVIOUS
  <2> HIDE DEF text
  <2> QED BY <2>2, <2>3, MarksAreNoData
<1> HIDE DEF text
<1> DEFINE out(layer) ==
      CASE layer = Throws -> Lost
        [] layer = Misread -> Misread
        [] OTHER -> LET inner == ReadInner(q, layer.data)
                    IN  IF layer.fields[1] = "ERROR"
                        THEN [inner EXCEPT !.told = "ERROR"] ELSE inner
<1>3. Outcomes(q, text) = {out(layer) : layer \in ReadLoosely(text)}
  BY DEF Outcomes
<1>4. out(Read(text)) = ReadInner(q, data)
  BY <1>1, <1>2
<1> HIDE DEF out
<1>5. Outcomes(q, text) = {ReadInner(q, data)}
  BY <1>1, <1>3, <1>4
<1> QED BY <1>5 DEF text

LEMMA OutcomesOfCompute ==
  ASSUME Apart, NEW q, q.service = "COMPUTE_REQUEST", NEW status, NEW data, IsText(data)
  PROVE  Outcomes(q, Framed(<<status>>, data)) = {ReadInner(q, Framed(<<status>>, data))}
<1>1. Read(Framed(<<status>>, data)) # Throws
  BY TypedLayer
<1> QED BY <1>1 DEF Outcomes

\* A service's response, as it is read.
ByService(q) ==
  \/ q.service = "COMPUTE_REQUEST"
  \/ q.request.type \in {"BEAVERS_TRIPLET_REQUEST", "PartialDecryption"}

LEMMA ServiceIsRead ==
  ASSUME Apart, NEW q, ByService(q), NEW status, NEW data, IsText(data)
  PROVE  ReadInner(q, ServiceResponse(status, data)) =
           ToldOf(status, IF status = "ERROR" THEN Nothing
                          ELSE ReadValue(ResultType(q), ResultEncryption(q), data))
<1> DEFINE text == Framed(<<status>>, data)
<1>1. Read(text).fields[1] = status /\ Read(text).data = data
  BY TypedLayer
<1>2. ServiceResponse(status, data) = text
  BY DEF ServiceResponse
<1> HIDE DEF text
<1>3. ReadInner(q, text) = ReadService(q, text)
  BY DEF ReadInner, ByService
<1> QED BY <1>1, <1>2, <1>3 DEF ReadService, ToldOf

-----------------------------------------------------------------------------
(* The answers of the handlers.                                            *)

\* Whatever becomes of an answer, nothing is wrong.
Answers(q, h, d, by, status, value, text, rd) ==
  /\ IsText(text)
  /\ \A dn : \A g \in Outcomes(q, text) \cup {Nothing} :
       Good(q, h, d, AnswerOf(by, status, value), g, rd, dn)

\* The root's refusal is never told.
LEMMA RootAnswers ==
  ASSUME Apart, NEW q \in Requests, NEW w
  PROVE  Answers(q, Nothing, Nothing, "root", "ERROR", Nothing, Reason(w), Nothing)
<1> DEFINE a == AnswerOf("root", "ERROR", Nothing)
           text == Reason(w)
<1>1. a.by = "root" /\ a.status = "ERROR" /\ "by" \in DOMAIN a
  BY DEF AnswerOf
<1>2. IsText(text) /\ text[1][1] # "line"
  <2>1. text = <<Word(w)>>
    BY DEF Reason
  <2>2. text[1] = Word(w)
    BY <2>1
  <2> HIDE DEF text
  <2> QED BY <2>1, <2>2, WordIsNoSpace, IsTextIfs
<1> HIDE DEF a, text
<1>3. Outcomes(q, text) \subseteq {Lost, Misread}
  <2>1. Read(text) = Throws /\ ReadLoosely(text) = {Throws, Misread}
    BY <1>2 DEF Read, ReadLoosely
  <2> QED BY <2>1, Distinct DEF Outcomes
<1>4. ASSUME NEW dn, NEW g \in {Lost, Misread, Nothing}
      PROVE  Good(q, Nothing, Nothing, a, g, Nothing, dn)
  <2>1. a # Nothing /\ Misread \notin {Nothing, Lost} /\ Nothing # Lost
    BY <1>1, Distinct
  <2>2. ToldOk(a, g)
    BY <1>1, <2>1 DEF ToldOk
  <2>3. ArrivesOk(q, Nothing, a, g, Nothing, dn)
    BY <1>1, <2>1 DEF ArrivesOk
  <2>4. SurvivesOk(q, Nothing, Nothing, a, g)
    BY <2>1 DEF SurvivesOk
  <2> QED BY <2>2, <2>3, <2>4 DEF Good
<1>5. \A dn : \A g \in Outcomes(q, text) \cup {Nothing} :
        Good(q, Nothing, Nothing, a, g, Nothing, dn)
  BY <1>3, <1>4
<1> QED BY <1>2, <1>5 DEF Answers, a, text

\* What fits, wherever it comes from, answers.
LEMMA FittingAnswers ==
  ASSUME Apart, NEW q \in Requests, NEW d, NEW by, NEW status, NEW value, NEW told,
         NEW x, NEW rd, NEW text, Fits(q, d, by, status, value, told, x, rd),
         IsText(text), Outcomes(q, text) = {ToldOf(told, x)}
  PROVE  Answers(q, InputOf(q), d, by, status, value, text, rd)
<1>1. ASSUME NEW dn, NEW g \in Outcomes(q, text) \cup {Nothing}
      PROVE  Good(q, InputOf(q), d, AnswerOf(by, status, value), g, rd, dn)
  <2>1. \A y \in {Nothing, ToldOf(told, x)} :
          Good(q, InputOf(q), d, AnswerOf(by, status, value), y, rd, dn)
    BY FittingIsGood
  <2> QED BY <1>1, <2>1
<1> QED BY <1>1 DEF Answers

\* The request that a handler of the setup node reads.
LEMMA SetupInput ==
  ASSUME Apart, NEW q \in Requests, q.service = "SETUP_REQUEST", InputOf(q) # Throws
  PROVE  InputOf(q) = q.request /\ q.request \in SetupRequests
<1>1. InputOf(q) = Meant(q)
  <2>1. q.service # "COMPUTE_REQUEST"
    OBVIOUS
  <2> QED BY <2>1, InputIs
<1>2. q.request \in SetupRequests
  BY Kinds
<1> QED BY <1>1, <1>2, SetupMeant

LEMMA SetupAnswers ==
  ASSUME Apart, NEW q \in Requests, q.service = "SETUP_REQUEST",
         NEW by, NEW status, NEW value, NEW told, NEW x, NEW rd, NEW data,
         Fits(q, Nothing, by, status, value, told, x, rd),
         IsText(data), ReadInner(q, data) = ToldOf(told, x), NEW s
  PROVE  Answers(q, InputOf(q), Nothing, by, status, value, SetupResponse(s, data), rd)
<1> DEFINE text == SetupResponse(s, data)
<1>1. text = Framed(<<"OK">>, data)
  BY DEF SetupResponse
<1>2. IsText(text)
  BY <1>1, TypedLayer
<1>3. Outcomes(q, text) = {ToldOf(told, x)}
  <2>1. q.service # "COMPUTE_REQUEST"
    OBVIOUS
  <2>2. Outcomes(q, Framed(<<"OK">>, data)) = {ReadInner(q, data)}
    BY <2>1, OutcomesOfNode
  <2> QED BY <1>1, <2>2
<1> HIDE DEF text
<1>4. Answers(q, InputOf(q), Nothing, by, status, value, text, rd)
  BY <1>2, <1>3, FittingAnswers
<1> QED BY <1>4 DEF text

\* Answers to requests to join.
LEMMA JoinAnswerIsRead ==
  ASSUME NEW status, NEW type, NEW lines, IsText(lines)
  PROVE  LET text == JoinAnswer(status, type, lines)
         IN  /\ IsText(text)
             /\ ReadJoinAnswer(text) =
                  IF type = "JOIN_AS_COFHE_NODE"
                  THEN [status |-> status, key |-> lines[1], shares |-> Tail(lines)]
                  ELSE [status |-> status, key |-> <<>>, shares |-> <<>>]
<1> DEFINE text == JoinAnswer(status, type, lines)
           rest == [i \in DOMAIN lines |-> Line(lines[i])]
           first == Line(<<status, type, Len(lines)>>)
<1>1. PICK C : lines \in Seq(C)
  BY DEF IsText
<1>2. /\ rest \in Seq({Line(lines[i]) : i \in DOMAIN lines}) /\ DOMAIN rest = DOMAIN lines
      /\ \A i \in DOMAIN lines : rest[i][2] = lines[i]
  BY <1>1, WordIsNoSpace
<1>3. lines = [i \in DOMAIN lines |-> lines[i]]
  BY <1>1
<1>4. text = <<first>> \o rest
  BY DEF JoinAnswer
<1>5. first[2] = <<status, type, Len(lines)>>
  BY WordIsNoSpace
<1> HIDE DEF rest, text, first
<1>6. text[1] = first /\ Tail(text) = rest /\ IsText(text)
  <2>1. text[1] = first /\ Tail(text) = rest
        /\ text \in Seq({Line(lines[i]) : i \in DOMAIN lines} \cup {first})
    BY <1>2, <1>4, Behind
  <2> QED BY <2>1 DEF IsText
<1> DEFINE read == [i \in DOMAIN Tail(text) |-> Tail(text)[i][2]]
<1>7. read = lines
  <2>1. read = [i \in DOMAIN lines |-> rest[i][2]]
    BY <1>2, <1>6
  <2>2. read = [i \in DOMAIN lines |-> lines[i]]
    BY <1>2, <2>1
  <2> QED BY <1>3, <2>2
<1> DEFINE fields == text[1][2]
<1>8. fields[1] = status /\ fields[2] = type
  BY <1>5, <1>6
<1>9. ReadJoinAnswer(text) =
        IF fields[2] = "JOIN_AS_COFHE_NODE"
        THEN [status |-> fields[1], key |-> read[1], shares |-> Tail(read)]
        ELSE [status |-> fields[1], key |-> <<>>, shares |-> <<>>]
  BY DEF ReadJoinAnswer
<1> HIDE DEF read, fields
<1>10. ReadJoinAnswer(text) =
         IF type = "JOIN_AS_COFHE_NODE"
         THEN [status |-> status, key |-> lines[1], shares |-> Tail(lines)]
         ELSE [status |-> status, key |-> <<>>, shares |-> <<>>]
  BY <1>7, <1>8, <1>9
<1> QED BY <1>6, <1>10 DEF text

\* The numbers of triplets are those of the row, over and over.
LEMMA RowNumbers ==
  ASSUME NEW n \in Nat
  PROVE  LET row == [j \in 1..n |-> TripletRow[((j - 1) % 18) + 1]]
         IN  row \in Seq(Int) /\ Len(row) = n
<1> DEFINE row == [j \in 1..n |-> TripletRow[((j - 1) % 18) + 1]]
<1>1. TripletRow \in [1..18 -> Int]
  BY ServicesAssumption
<1>2. ASSUME NEW j \in 1..n PROVE TripletRow[((j - 1) % 18) + 1] \in Int
  <2>1. ((j - 1) % 18) \in 0..17
    OBVIOUS
  <2>2. ((j - 1) % 18) + 1 \in 1..18
    BY <2>1
  <2> QED BY <1>1, <2>2
<1>3. row \in [1..n -> Int]
  BY <1>2
<1> HIDE DEF row
<1>4. row \in Seq(Int) /\ Len(row) = n
  BY <1>3
<1> QED BY <1>4 DEF row

LEMMA TripletsAreValues ==
  ASSUME NEW n \in Nat \ {0}
  PROVE  /\ IsValue("TENSOR", "CIPHERTEXT", Triplets(n))
         /\ Elements(Triplets(n).shape) # 0
<1> DEFINE row == [j \in 1..(18 * n) |-> TripletRow[((j - 1) % 18) + 1]]
<1>1. Triplets(n) = [shape |-> <<n, 3>>, numbers |-> row]
  BY DEF Triplets
<1>2. row \in Seq(Int) /\ Len(row) = 18 * n
  <2>1. 18 * n \in Nat
    OBVIOUS
  <2> QED BY <2>1, RowNumbers
<1> HIDE DEF row
<1>3. <<n, 3>> \in Seq(Nat) /\ Elements(<<n, 3>>) = n * 3
  <2>1. n \in Nat /\ 3 \in Nat
    OBVIOUS
  <2>2. Elements(<<n, 3>>) = n * 3
    BY <2>1, FewDimensions
  <2> QED BY <2>1, <2>2
<1>4. 18 * n = (n * 3) * 6 /\ n * 3 # 0
  OBVIOUS
<1> QED BY <1>1, <1>2, <1>3, <1>4, NumbersIs DEF IsValue

LEMMA BeaversAnswers ==
  ASSUME Apart, NEW q \in Requests, q.service = "SETUP_REQUEST", InputOf(q) # Throws,
         InputOf(q).type = "BEAVERS_TRIPLET_REQUEST"
  PROVE  LET triplets == Triplets(InputOf(q).count)
         IN  Answers(q, InputOf(q), Nothing, "service", "OK", triplets,
               SetupResponse("OK", ServiceResponse("OK", TensorText(triplets))), Nothing)
<1> DEFINE n == InputOf(q).count
           triplets == Triplets(n)
           data == ServiceResponse("OK", TensorText(triplets))
<1>1. /\ InputOf(q) = q.request /\ q.request \in SetupRequests
      /\ q.request.type = "BEAVERS_TRIPLET_REQUEST"
  BY SetupInput
<1>2. n \in Nat \ {0}
  BY <1>1 DEF SetupRequests, OtherRequests, SetupTypes
<1> HIDE DEF n
<1>3. IsValue("TENSOR", "CIPHERTEXT", triplets) /\ Elements(triplets.shape) # 0
  BY <1>2, TripletsAreValues
<1> HIDE DEF triplets
<1>4. TensorText(triplets) = ValueText("TENSOR", triplets)
  BY DEF ValueText
<1>5. IsText(TensorText(triplets))
  <2>1. triplets \in [shape : Seq(Nat), numbers : Seq(Int)]
    BY <1>3 DEF IsValue
  <2> QED BY <1>4, <2>1, ValueIsText
<1>6. ResultType(q) = "TENSOR" /\ ResultEncryption(q) = "CIPHERTEXT"
  BY DEF ResultType, ResultEncryption
<1>7. ReadValue("TENSOR", "CIPHERTEXT", TensorText(triplets)) =
        AsReceived("TENSOR", "CIPHERTEXT", triplets)
  BY <1>3, <1>4, ValueRoundTrip
<1> DEFINE x == AsReceived("TENSOR", "CIPHERTEXT", triplets)
<1>8. ReadInner(q, data) = ToldOf("OK", x)
  <2>1. ByService(q)
    BY <1>1 DEF ByService
  <2> QED BY <1>5, <1>6, <1>7, <2>1, ServiceIsRead
<1>9. Fits(q, Nothing, "service", "OK", triplets, "OK", x, Nothing)
  BY <1>1, <1>6 DEF Fits, Delivered
<1>10. IsText(data)
  BY <1>5, TypedLayer DEF ServiceResponse
<1> HIDE DEF data, x
<1>11. Answers(q, InputOf(q), Nothing, "service", "OK", triplets,
               SetupResponse("OK", data), Nothing)
  BY <1>8, <1>9, <1>10, SetupAnswers
<1> QED BY <1>11 DEF data, triplets, n

\* A CoFHE node that joins is told the key and its shares, or that there are
\* none left.
LEMMA JoinCofheAnswers ==
  ASSUME Apart, NEW q \in Requests, q.service = "SETUP_REQUEST", InputOf(q) # Throws,
         InputOf(q).type = "JOIN_AS_NODE_REQUEST", NEW key, NEW shares, IsText(shares)
  PROVE  /\ Answers(q, InputOf(q), Nothing, "service", "ERROR", Nothing,
                    SetupResponse("OK", JoinRefusal), Nothing)
         /\ Answers(q, InputOf(q), Nothing, "service", "OK",
                    [key |-> key, shares |-> shares],
                    SetupResponse("OK", Granted(key, shares)), Nothing)
         /\ Answers(q, InputOf(q), Nothing, "service", "OK", [key |-> <<>>, shares |-> <<>>],
                    SetupResponse("OK", Admitted), Nothing)
<1>1. q.request.type = "JOIN_AS_NODE_REQUEST"
  BY SetupInput
<1>2. ASSUME NEW data
      PROVE  ReadInner(q, data) =
               ToldOf(ReadJoinAnswer(data).status,
                      IF ReadJoinAnswer(data).status = "ERROR" THEN Nothing
                      ELSE [key |-> ReadJoinAnswer(data).key,
                            shares |-> ReadJoinAnswer(data).shares])
  BY <1>1 DEF ReadInner, ToldOf
<1>3. ASSUME NEW value PROVE Delivered(q, value) = value
  BY <1>1 DEF Delivered
<1>4. IsText(JoinRefusal) /\ ReadJoinAnswer(JoinRefusal).status = "ERROR"
  <2>1. IsText(<< <<>> >>)
    BY IsTextIfs
  <2>2. JoinRefusal = JoinAnswer("ERROR", "JOIN_AS_COFHE_NODE", << <<>> >>)
    BY DEF JoinRefusal
  <2> QED BY <2>1, <2>2, JoinAnswerIsRead
<1>5. IsText(Granted(key, shares))
      /\ ReadJoinAnswer(Granted(key, shares)) =
           [status |-> "OK", key |-> key, shares |-> shares]
  <2> DEFINE lines == <<key>> \o shares
  <2>1. PICK C : shares \in Seq(C)
    BY DEF IsText
  <2>2. lines \in Seq(C \cup {key}) /\ lines[1] = key /\ Tail(lines) = shares
    BY <2>1, Behind
  <2>3. Granted(key, shares) = JoinAnswer("OK", "JOIN_AS_COFHE_NODE", lines)
    BY DEF Granted
  <2> HIDE DEF lines
  <2>4. IsText(lines)
    BY <2>2 DEF IsText
  <2> QED BY <2>2, <2>3, <2>4, JoinAnswerIsRead
<1>6. IsText(Admitted)
      /\ ReadJoinAnswer(Admitted) = [status |-> "OK", key |-> <<>>, shares |-> <<>>]
  <2>1. IsText(<<>>)
    BY IsTextIfs
  <2>2. Admitted = JoinAnswer("OK", "JOIN_AS_COMPUTE_NODE", <<>>)
    BY DEF Admitted
  <2> QED BY <2>1, <2>2, JoinAnswerIsRead
<1>7. Answers(q, InputOf(q), Nothing, "service", "ERROR", Nothing,
              SetupResponse("OK", JoinRefusal), Nothing)
  <2>1. ReadInner(q, JoinRefusal) = ToldOf("ERROR", Nothing)
    BY <1>2, <1>4
  <2>2. Fits(q, Nothing, "service", "ERROR", Nothing, "ERROR", Nothing, Nothing)
    BY DEF Fits
  <2> QED BY <1>4, <2>1, <2>2, SetupAnswers
<1>8. ASSUME NEW data, IsText(data), NEW k, NEW ss,
             ReadJoinAnswer(data) = [status |-> "OK", key |-> k, shares |-> ss]
      PROVE  Answers(q, InputOf(q), Nothing, "service", "OK", [key |-> k, shares |-> ss],
                     SetupResponse("OK", data), Nothing)
  <2> DEFINE value == [key |-> k, shares |-> ss]
  <2>1. ReadInner(q, data) = ToldOf("OK", value)
    BY <1>2, <1>8
  <2>2. Fits(q, Nothing, "service", "OK", value, "OK", value, Nothing)
    <3> HIDE DEF value
    <3> QED BY <1>3 DEF Fits
  <2>3. IsText(data)
    BY <1>8
  <2> QED BY <2>1, <2>2, <2>3, SetupAnswers
<1> QED BY <1>5, <1>6, <1>7, <1>8

\* The network's details, and what may be asked of them.
LEMMA DetailsAnswers ==
  ASSUME Apart, NEW q \in Requests, q.service = "SETUP_REQUEST", InputOf(q) # Throws,
         InputOf(q).type = "NetworkDetailsRequest", NEW by, NEW status, NEW value,
         NEW w, NEW rd, by = "dispatch" \/ (status = "OK" /\ by = "service"),
         status = "OK" => w = value,
         rd # Nothing /\ ~ rd.raced => value = rd.roster, NEW s
  PROVE  Answers(q, InputOf(q), Nothing, by, status, value,
                 SetupResponse("OK", DetailsResponse(s, <<Word(w)>>)), rd)
<1>1. q.request.type = "NetworkDetailsRequest"
  BY SetupInput
<1> DEFINE data == DetailsResponse(s, <<Word(w)>>)
<1> DEFINE told == <<Word(w)>>
<1>2. IsText(told) /\ told[1][2] = w
  BY IsTextIfs, WordIsNoSpace
<1>3. data = Framed(<<"OK">>, told)
  BY DEF DetailsResponse
<1> HIDE DEF told, data
<1>4. IsText(data) /\ Read(data).fields[1] = "OK" /\ Read(data).data[1][2] = w
  <2>2. IsText(told)
    BY <1>2
  <2>1. IsText(data) /\ Read(data).fields[1] = "OK" /\ Read(data).data = told
    BY SMTT(30), <1>3, <2>2, TypedLayer
  <2> QED BY <1>2, <2>1
<1>5. ReadInner(q, data) = ToldOf("OK", w)
  BY <1>1, <1>4 DEF ReadInner, ToldOf
<1>6. Fits(q, Nothing, by, status, value, "OK", w, rd)
  BY <1>1 DEF Fits, Delivered
<1>7. Answers(q, InputOf(q), Nothing, by, status, value, SetupResponse("OK", data), rd)
  BY <1>4, <1>5, <1>6, SetupAnswers
<1> QED BY <1>7 DEF data, told

\* What neither dispatch has a branch for.
IsOther(q) ==
  q.service # "COMPUTE_REQUEST"
  /\ q.request.type \notin SetupTypes \cup {"PartialDecryption", "compute"}

LEMMA OtherIsTold ==
  ASSUME Apart, NEW q \in Requests, IsOther(q), NEW w
  PROVE  /\ IsText(Reason(w)) /\ ReadInner(q, Reason(w)) = ToldOf("OK", w)
         /\ Fits(q, Nothing, "dispatch", "ERROR", Nothing, "OK", w, Nothing)
<1>1. IsText(Reason(w)) /\ Reason(w)[1][2] = w
  BY IsTextIfs, WordIsNoSpace DEF Reason
<1>2. ReadInner(q, Reason(w)) = ToldOf("OK", w)
  BY <1>1 DEF ReadInner, ToldOf, IsOther, SetupTypes
<1> QED BY <1>1, <1>2 DEF Fits

LEMMA OtherSetupAnswers ==
  ASSUME Apart, NEW q \in Requests, q.service = "SETUP_REQUEST", InputOf(q) # Throws,
         InputOf(q).type \notin SetupTypes, NEW s, NEW w
  PROVE  Answers(q, InputOf(q), Nothing, "dispatch", "ERROR", Nothing,
                 SetupResponse(s, Reason(w)), Nothing)
<1>1. InputOf(q) = q.request /\ q.request \in SetupRequests
  BY SetupInput
<1>2. q.request \in OtherRequests
  BY <1>1 DEF SetupRequests, SetupTypes
<1>3. IsOther(q)
  BY <1>2 DEF IsOther, OtherRequests
<1>4. /\ IsText(Reason(w)) /\ ReadInner(q, Reason(w)) = ToldOf("OK", w)
      /\ Fits(q, Nothing, "dispatch", "ERROR", Nothing, "OK", w, Nothing)
  BY <1>3, OtherIsTold
<1> QED BY <1>4, SetupAnswers

\* The request that a handler of a CoFHE node reads.
LEMMA CofheInput ==
  ASSUME Apart, NEW q \in Requests, q.service = "COFHE_REQUEST", InputOf(q) # Throws
  PROVE  InputOf(q) = Meant(q) /\ q.request \in CofheRequests
<1>1. InputOf(q) = Meant(q)
  <2>1. q.service # "COMPUTE_REQUEST"
    OBVIOUS
  <2> QED BY <2>1, InputIs
<1> QED BY <1>1, Kinds

LEMMA CofheAnswers ==
  ASSUME Apart, NEW q \in Requests, q.service = "COFHE_REQUEST",
         NEW d, NEW by, NEW status, NEW value, NEW told, NEW x, NEW data,
         Fits(q, d, by, status, value, told, x, Nothing),
         IsText(data), ReadInner(q, data) = ToldOf(told, x), NEW s
  PROVE  Answers(q, InputOf(q), d, by, status, value, CofheResponse(s, data), Nothing)
<1> DEFINE text == CofheResponse(s, data)
<1>1. text = Framed(<<"OK">>, data)
  BY DEF CofheResponse
<1>2. IsText(text)
  BY <1>1, TypedLayer
<1>3. Outcomes(q, text) = {ToldOf(told, x)}
  <2>1. q.service # "COMPUTE_REQUEST"
    OBVIOUS
  <2>2. Outcomes(q, Framed(<<"OK">>, data)) = {ReadInner(q, data)}
    BY <2>1, OutcomesOfNode
  <2> QED BY <1>1, <2>2
<1> HIDE DEF text
<1>4. Answers(q, InputOf(q), d, by, status, value, text, Nothing)
  BY <1>2, <1>3, FittingAnswers
<1> QED BY <1>4 DEF text

LEMMA OtherCofheAnswers ==
  ASSUME Apart, NEW q \in Requests, q.service = "COFHE_REQUEST", InputOf(q) # Throws,
         InputOf(q).type # "PartialDecryption", NEW s, NEW w
  PROVE  Answers(q, InputOf(q), Nothing, "dispatch", "ERROR", Nothing,
                 CofheResponse(s, Reason(w)), Nothing)
<1>1. q.request \in CofheRequests /\ q.request.type # "PartialDecryption"
  BY CofheInput, CofheMeant
<1>2. q.request \in OtherRequests
  BY <1>1 DEF CofheRequests
<1>3. IsOther(q)
  BY <1>2 DEF IsOther, OtherRequests
<1>4. /\ IsText(Reason(w)) /\ ReadInner(q, Reason(w)) = ToldOf("OK", w)
      /\ Fits(q, Nothing, "dispatch", "ERROR", Nothing, "OK", w, Nothing)
  BY <1>3, OtherIsTold
<1> QED BY <1>4, CofheAnswers

\* What a partial decryption makes of a ciphertext: half as many numbers.
LEMMA PartDecryptedIsValue ==
  ASSUME NEW type \in {"SINGLE", "TENSOR"}, NEW v, IsValue(type, "CIPHERTEXT", v),
         NEW share \in Nat
  PROVE  /\ IsValue(type, "PARTIAL", PartDecrypted(v, share))
         /\ PartDecrypted(v, share).shape = v.shape
<1> DEFINE n == Len(v.numbers)
           m == n \div 2
           half == [j \in 1..m |->
                      v.numbers[6 * ((j - 1) \div 3) + ((j - 1) % 3) + 1] + share]
<1>1. /\ v \in [shape : Seq(Nat), numbers : Seq(Int)]
      /\ type = "TENSOR" => n = Elements(v.shape) * 6
      /\ type # "TENSOR" => v.shape = <<>>
      /\ type = "SINGLE" => n = 6
  BY NumbersIs DEF IsValue
<1>2. v.shape \in Seq(Nat) /\ v.numbers \in [1..n -> Int] /\ n \in Nat
  BY <1>1
<1> DEFINE e == IF type = "TENSOR" THEN Elements(v.shape) ELSE 1
<1>3. e \in Nat /\ n = e * 6 /\ (type = "TENSOR" => e = Elements(v.shape))
      /\ (type = "SINGLE" => e = 1)
  <2>1. CASE type = "TENSOR"
    <3>1. Elements(v.shape) \in Nat
      BY <1>2, ElementsIsNat
    <3> QED BY <1>1, <2>1, <3>1
  <2>2. CASE type = "SINGLE"
    BY <1>1, <2>2
  <2> QED BY <2>1, <2>2
<1>4. PartDecrypted(v, share) = [shape |-> v.shape, numbers |-> half]
  BY DEF PartDecrypted
<1> HIDE DEF n, e
<1>5. m = e * 3 /\ m \in Nat
  BY <1>3
<1>6. ASSUME NEW j \in 1..m
      PROVE  6 * ((j - 1) \div 3) + ((j - 1) % 3) + 1 \in 1..n
  <2> DEFINE k == (j - 1) \div 3
             l == ((j - 1) % 3)
  <2>1. j \in Nat /\ j <= e * 3 /\ 1 <= j /\ e \in Nat
    BY <1>3, <1>5
  <2>2. k \in Nat /\ l \in 0..2 /\ j - 1 = 3 * k + l
    BY <2>1
  <2> HIDE DEF k, l
  <2>3. k < e
    BY <2>1, <2>2
  <2>4. 6 * k + l + 1 \in 1..(e * 6)
    BY <2>1, <2>2, <2>3
  <2> QED BY <1>3, <2>4 DEF k, l
<1>7. half \in [1..m -> Int]
  BY <1>2, <1>6
<1> HIDE DEF half, m
<1>8. half \in Seq(Int) /\ Len(half) = m
  BY <1>5, <1>7
<1>9. m = e * Numbers("PARTIAL")
  BY <1>5, NumbersIs
<1> DEFINE r == PartDecrypted(v, share)
<1>10. r = [shape |-> v.shape, numbers |-> half]
  BY <1>4
<1> HIDE DEF r
<1>11. r.shape = v.shape /\ r.numbers = half
       /\ r \in [shape : Seq(Nat), numbers : Seq(Int)]
  BY <1>2, <1>8, <1>10
<1>12. IsValue(type, "PARTIAL", r)
  <2>1. Numbers("PARTIAL") = 3
    BY NumbersIs
  <2>2. type = "TENSOR" => Len(r.numbers) = Elements(r.shape) * Numbers("PARTIAL")
    BY <1>3, <1>8, <1>9, <1>11
  <2>3. type # "TENSOR" => r.shape = <<>>
    BY <1>1, <1>11
  <2>4. type = "SINGLE" => Len(r.numbers) = Numbers("PARTIAL")
    <3>1. e = 1 => m = 3
      BY <1>5
    <3> QED BY <1>3, <1>8, <1>11, <2>1, <3>1
  <2> QED BY <1>11, <2>2, <2>3, <2>4 DEF IsValue
<1> QED BY <1>11, <1>12 DEF r

\* The partial decryption of a value, and what is refused.
LEMMA PartialInput ==
  ASSUME Apart, NEW q \in Requests, q.service = "COFHE_REQUEST", InputOf(q) # Throws,
         InputOf(q).type = "PartialDecryption"
  PROVE  LET o == q.request.operand
             input == InputOf(q)
         IN  /\ o \in Operands /\ o.encryption = "CIPHERTEXT"
             /\ q.request.type = "PartialDecryption" /\ input = Meant(q)
             /\ input.share \in Nat /\ input.operand.type = o.type
             /\ input.operand.data = ValueText(o.type, o.value)
             /\ IsValue(o.type, "CIPHERTEXT", o.value)
             /\ ResultType(q) = o.type /\ ResultEncryption(q) = "PARTIAL"
<1> DEFINE o == q.request.operand
<1>1. InputOf(q) = Meant(q) /\ q.request \in CofheRequests
  BY CofheInput
<1>2. q.request.type = "PartialDecryption"
  BY <1>1, CofheMeant
<1>3. /\ q.request.share \in Nat /\ o \in Operands /\ o.encryption = "CIPHERTEXT"
      /\ Meant(q).share = q.request.share /\ Meant(q).operand = Encoded(o)
  BY <1>1, <1>2, CofheMeant
<1> HIDE DEF o
<1>4. /\ Encoded(o).type = o.type /\ Encoded(o).data = ValueText(o.type, o.value)
      /\ IsValue(o.type, "CIPHERTEXT", o.value)
  BY <1>3, EncodedIs
<1>5. ResultType(q) = o.type /\ ResultEncryption(q) = "PARTIAL"
  BY DEF ResultType, ResultEncryption, o
<1> QED BY <1>1, <1>2, <1>3, <1>4, <1>5 DEF o

LEMMA RefusedIsTold ==
  ASSUME Apart, NEW q \in Requests, ByService(q), NEW w
  PROVE  /\ IsText(ServiceResponse("ERROR", Reason(w)))
         /\ ReadInner(q, ServiceResponse("ERROR", Reason(w))) = ToldOf("ERROR", Nothing)
         /\ Fits(q, Nothing, "service", "ERROR", Nothing, "ERROR", Nothing, Nothing)
<1> DEFINE reason == Reason(w)
<1>1. IsText(reason)
  BY IsTextIfs DEF Reason
<1> HIDE DEF reason
<1>2. IsText(ServiceResponse("ERROR", reason))
  BY <1>1, TypedLayer DEF ServiceResponse
<1>3. ReadInner(q, ServiceResponse("ERROR", reason)) = ToldOf("ERROR", Nothing)
  BY <1>1, ServiceIsRead
<1>4. Fits(q, Nothing, "service", "ERROR", Nothing, "ERROR", Nothing, Nothing)
  BY DEF Fits
<1> QED BY <1>2, <1>3, <1>4 DEF reason

\* A result comes back as the value it is.
LEMMA ResultIsTold ==
  ASSUME Apart, NEW q \in Requests, ByService(q), q.service # "SETUP_REQUEST",
         NEW type \in {"SINGLE", "TENSOR"}, type = ResultType(q),
         NEW e \in {"PLAINTEXT", "PARTIAL", "CIPHERTEXT"}, e = ResultEncryption(q),
         NEW v, IsValue(type, e, v), ~ (type = "TENSOR" /\ Elements(v.shape) = 0),
         NEW d, d = Nothing \/ d = DecodedOf(q)
  PROVE  LET data == ServiceResponse("OK", ValueText(type, v))
             x == AsReceived(type, e, v)
         IN  /\ IsText(data) /\ ReadInner(q, data) = ToldOf("OK", x)
             /\ Fits(q, d, "service", "OK", v, "OK", x, Nothing)
<1> DEFINE text == ValueText(type, v)
           x == AsReceived(type, e, v)
<1>1. IsText(text)
  <2>1. v \in [shape : Seq(Nat), numbers : Seq(Int)]
    BY DEF IsValue
  <2> QED BY <2>1, ValueIsText
<1>2. ReadValue(type, e, text) = x
  BY ValueRoundTrip
<1>3. Delivered(q, v) = x
  BY DEF Delivered
<1> HIDE DEF text, x
<1>4. ReadInner(q, ServiceResponse("OK", text)) = ToldOf("OK", x)
  BY <1>1, <1>2, ServiceIsRead
<1>5. Fits(q, d, "service", "OK", v, "OK", x, Nothing)
  BY <1>3 DEF Fits
<1>6. IsText(ServiceResponse("OK", text))
  BY <1>1, TypedLayer DEF ServiceResponse
<1> QED BY <1>4, <1>5, <1>6 DEF text, x

LEMMA PartialAnswers ==
  ASSUME Apart, NEW q \in Requests, q.service = "COFHE_REQUEST", InputOf(q) # Throws,
         InputOf(q).type = "PartialDecryption"
  PROVE  LET input == InputOf(q)
             type == input.operand.type
             value == ReadValue(type, "CIPHERTEXT", input.operand.data)
             result == PartDecrypted(value, input.share)
         IN  /\ Answers(q, input, Nothing, "service", "ERROR", Nothing,
                  CofheResponse("OK", ServiceResponse("ERROR", Reason("Refused"))), Nothing)
             /\ type # "TENSOR_ID" /\ value # Dies =>
                  Answers(q, input, <<value>>, "service", "OK", result,
                    CofheResponse("OK", ServiceResponse("OK", ValueText(type, result))),
                    Nothing)
             /\ type # "TENSOR_ID" /\ value = Dies => HasEmpty(q)
<1> DEFINE o == q.request.operand
           v == o.value
           type == o.type
           value == ReadValue(type, "CIPHERTEXT", InputOf(q).operand.data)
           share == InputOf(q).share
           result == PartDecrypted(value, share)
<1>1. /\ o \in Operands /\ o.encryption = "CIPHERTEXT"
      /\ q.request.type = "PartialDecryption"
      /\ InputOf(q).share \in Nat /\ InputOf(q).operand.type = type
      /\ InputOf(q).operand.data = ValueText(type, v)
      /\ IsValue(type, "CIPHERTEXT", v)
      /\ ResultType(q) = type /\ ResultEncryption(q) = "PARTIAL"
  BY PartialInput
<1>2. ByService(q)
  BY <1>1 DEF ByService
<1>3. Answers(q, InputOf(q), Nothing, "service", "ERROR", Nothing,
              CofheResponse("OK", ServiceResponse("ERROR", Reason("Refused"))), Nothing)
  <2> DEFINE data == ServiceResponse("ERROR", Reason("Refused"))
  <2>1. /\ IsText(data) /\ ReadInner(q, data) = ToldOf("ERROR", Nothing)
        /\ Fits(q, Nothing, "service", "ERROR", Nothing, "ERROR", Nothing, Nothing)
    BY <1>2, RefusedIsTold
  <2> HIDE DEF data
  <2>2. Answers(q, InputOf(q), Nothing, "service", "ERROR", Nothing,
                CofheResponse("OK", data), Nothing)
    BY <2>1, CofheAnswers
  <2> QED BY <2>2 DEF data
<1>4. type \in {"SINGLE", "TENSOR", "TENSOR_ID"}
  BY <1>1 DEF Operands
<1>5. OperandsOf(q) = <<o>>
  BY DEF OperandsOf
<1>6. ASSUME type # "TENSOR_ID"
      PROVE  value = IF type = "TENSOR" /\ Elements(v.shape) = 0 THEN Dies
                     ELSE v
  <2>1. type \in {"SINGLE", "TENSOR"}
    BY <1>4, <1>6
  <2>2. "CIPHERTEXT" \in {"PLAINTEXT", "PARTIAL", "CIPHERTEXT"}
    OBVIOUS
  <2>3. AsReceived(type, "CIPHERTEXT", v) = v
    BY DEF AsReceived
  <2> HIDE DEF type, v
  <2>4. ReadValue(type, "CIPHERTEXT", ValueText(type, v)) =
          IF type = "TENSOR" /\ Elements(v.shape) = 0 THEN Dies
          ELSE AsReceived(type, "CIPHERTEXT", v)
    BY <1>1, <2>1, <2>2, ValueRoundTrip
  <2> QED BY <1>1, <2>3, <2>4
<1>7. v # Dies
  <2>1. v \in [shape : Seq(Nat), numbers : Seq(Int)]
    BY <1>1 DEF IsValue
  <2>2. "shape" \in DOMAIN v
    BY <2>1
  <2> QED BY <2>2, Distinct
<1>8. ASSUME type # "TENSOR_ID", value = Dies PROVE HasEmpty(q)
  <2>1. type = "TENSOR" /\ Elements(v.shape) = 0
    BY <1>6, <1>7, <1>8
  <2>2. 1 \in DOMAIN <<o>> /\ <<o>>[1] = o
    OBVIOUS
  <2> QED BY <1>5, <2>1, <2>2 DEF HasEmpty
<1>9. ASSUME type # "TENSOR_ID", value # Dies
      PROVE  Answers(q, InputOf(q), <<value>>, "service", "OK", result,
               CofheResponse("OK", ServiceResponse("OK", ValueText(type, result))), Nothing)
  <2>1. value = v /\ ~ (type = "TENSOR" /\ Elements(v.shape) = 0)
    BY <1>6, <1>9
  <2>2. type \in {"SINGLE", "TENSOR"}
    BY <1>4, <1>9
  <2>3. <<value>> = DecodedOf(q)
    <3>1. AsReceived(o.type, o.encryption, o.value) = v
      BY <1>1 DEF AsReceived
    <3> DEFINE os == <<o>>
    <3>2. DOMAIN os = {1} /\ os[1] = o
      OBVIOUS
    <3>3. DecodedOf(q) = [i \in DOMAIN os |-> AsReceived(os[i].type, os[i].encryption, os[i].value)]
      BY <1>5 DEF DecodedOf
    <3>4. <<v>> = [i \in {1} |-> v]
      OBVIOUS
    <3> HIDE DEF os, v
    <3>5. DecodedOf(q) = [i \in {1} |-> v]
      BY <3>1, <3>2, <3>3
    <3> QED BY <2>1, <3>4, <3>5
  <2>4. IsValue(type, "PARTIAL", result) /\ result.shape = v.shape
    <3> HIDE DEF v, type, share, value
    <3>1. share \in Nat
      BY <1>1 DEF share
    <3>2. IsValue(type, "PARTIAL", PartDecrypted(v, share))
          /\ PartDecrypted(v, share).shape = v.shape
      BY <1>1, <2>2, <3>1, PartDecryptedIsValue
    <3> QED BY <2>1, <3>2
  <2> DEFINE data == ServiceResponse("OK", ValueText(type, result))
             x == AsReceived(type, "PARTIAL", result)
             d == <<value>>
  <2>5. ~ (type = "TENSOR" /\ Elements(result.shape) = 0)
    BY <2>1, <2>4
  <2>6. "PARTIAL" \in {"PLAINTEXT", "PARTIAL", "CIPHERTEXT"}
    OBVIOUS
  <2>7. q.service # "SETUP_REQUEST" /\ type = ResultType(q) /\ "PARTIAL" = ResultEncryption(q)
    BY <1>1
  <2>8. d = Nothing \/ d = DecodedOf(q)
    BY <2>3
  <2> HIDE DEF d, result, type
  <2>9. /\ IsText(data) /\ ReadInner(q, data) = ToldOf("OK", x)
        /\ Fits(q, d, "service", "OK", result, "OK", x, Nothing)
    BY <1>2, <2>2, <2>4, <2>5, <2>6, <2>7, <2>8, ResultIsTold
  <2> HIDE DEF data, x
  <2>10. Answers(q, InputOf(q), d, "service", "OK", result,
                 CofheResponse("OK", data), Nothing)
    BY <2>9, CofheAnswers
  <2> QED BY <2>10 DEF data, d
<1>10. InputOf(q).operand.type = type
  BY <1>1
<1> HIDE DEF type
<1> QED BY <1>3, <1>8, <1>9, <1>10

\* What a compute node reads, when it is what was meant.
LEMMA ComputeInput ==
  ASSUME Apart, NEW q \in Requests, q.service = "COMPUTE_REQUEST"
  PROVE  LET os == q.request.operands
             n == Len(os)
         IN  /\ n \in Nat \ {0} /\ os \in Seq(Operands) /\ DOMAIN os = 1..n
             /\ OperandsOf(q) = os /\ ByService(q)
             /\ Meant(q).arity = q.request.arity
             /\ Meant(q).operation = q.request.operation
             /\ DOMAIN Meant(q).operands = 1..n /\ Len(Meant(q).operands) = n
             /\ \A i \in 1..n :
                  /\ os[i] \in Operands
                  /\ IsValue(os[i].type, os[i].encryption, os[i].value)
                  /\ Meant(q).operands[i].type = os[i].type
                  /\ Meant(q).operands[i].encryption = os[i].encryption
                  /\ Meant(q).operands[i].data = ValueText(os[i].type, os[i].value)
<1> DEFINE os == q.request.operands
           n == Len(os)
           ms == Meant(q).operands
<1>1. q.request \in ComputingRequests
  BY Kinds
<1>2. /\ n \in Nat \ {0} /\ os \in Seq(Operands) /\ DOMAIN os = 1..n
      /\ Meant(q).arity = q.request.arity /\ Meant(q).operation = q.request.operation
      /\ ms = [i \in 1..n |-> Encoded(os[i])]
  BY <1>1, ComputeMeant
<1>3. OperandsOf(q) = os /\ ByService(q)
  BY DEF OperandsOf, ByService
<1> HIDE DEF os, ms
<1>4. DOMAIN ms = 1..n /\ Len(ms) = n
  <2> HIDE DEF n
  <2> QED BY <1>2
<1>5. ASSUME NEW i \in 1..n
      PROVE  /\ os[i] \in Operands
             /\ IsValue(os[i].type, os[i].encryption, os[i].value)
             /\ ms[i].type = os[i].type /\ ms[i].encryption = os[i].encryption
             /\ ms[i].data = ValueText(os[i].type, os[i].value)
  <2>1. os[i] \in Operands /\ ms[i] = Encoded(os[i])
    BY <1>2
  <2> QED BY <2>1, EncodedIs
<1> QED BY <1>2, <1>3, <1>4, <1>5 DEF os, ms

LEMMA ComputeAnswers ==
  ASSUME Apart, NEW q \in Requests, q.service = "COMPUTE_REQUEST",
         NEW d, NEW status, NEW value, NEW told, NEW x, NEW data,
         Fits(q, d, "service", status, value, told, x, Nothing), IsText(data),
         ReadInner(q, ServiceResponse(status, data)) = ToldOf(told, x)
  PROVE  Answers(q, InputOf(q), d, "service", status, value,
                 ServiceResponse(status, data), Nothing)
<1> DEFINE text == ServiceResponse(status, data)
<1>1. text = Framed(<<status>>, data)
  BY DEF ServiceResponse
<1>2. IsText(text)
  BY <1>1, TypedLayer
<1>3. Outcomes(q, Framed(<<status>>, data)) = {ReadInner(q, Framed(<<status>>, data))}
  BY OutcomesOfCompute
<1>4. Outcomes(q, text) = {ToldOf(told, x)}
  BY <1>1, <1>3
<1> HIDE DEF text
<1>5. Answers(q, InputOf(q), d, "service", status, value, text, Nothing)
  BY <1>2, <1>4, FittingAnswers
<1> QED BY <1>5 DEF text

LEMMA FailureAnswers ==
  ASSUME Apart, NEW q \in Requests, q.service = "COMPUTE_REQUEST", NEW w
  PROVE  Answers(q, InputOf(q), Nothing, "service", "ERROR", Nothing,
                 ServiceResponse("ERROR", Reason(w)), Nothing)
<1>1. ByService(q)
  BY DEF ByService
<1>2. IsText(Reason(w))
  BY IsTextIfs DEF Reason
<1>3. /\ ReadInner(q, ServiceResponse("ERROR", Reason(w))) = ToldOf("ERROR", Nothing)
      /\ Fits(q, Nothing, "service", "ERROR", Nothing, "ERROR", Nothing, Nothing)
  BY <1>1, RefusedIsTold
<1> QED BY <1>2, <1>3, ComputeAnswers

LEMMA FunctionIsSequence ==
  ASSUME NEW n \in Nat, NEW S, NEW f \in [1..n -> S]
  PROVE  f \in Seq(S) /\ Len(f) = n
OBVIOUS

\* A result of data that was not what was sent is whatever it may be.
LEMMA MisreadAnswers ==
  ASSUME Apart, NEW q \in Requests, q.service = "COMPUTE_REQUEST", NEW type,
         NEW n \in {1, 3, 6}
  PROVE  Answers(q, InputOf(q), Nothing, "service", "OK", Misread,
           ServiceResponse("OK", ValueText(type,
             [shape |-> <<1>>, numbers |-> SubSeq(TripletRow, 1, n)])), Nothing)
<1> DEFINE v == [shape |-> <<1>>, numbers |-> SubSeq(TripletRow, 1, n)]
           data == ValueText(type, v)
           x == ReadValue(ResultType(q), ResultEncryption(q), data)
<1>1. v \in [shape : Seq(Nat), numbers : Seq(Int)]
  <2>1. TripletRow \in Seq(Int) /\ Len(TripletRow) = 18
    <3>1. TripletRow \in [1..18 -> Int]
      BY ServicesAssumption
    <3>2. 18 \in Nat
      OBVIOUS
    <3> QED BY <3>1, <3>2, FunctionIsSequence
  <2>2. SubSeq(TripletRow, 1, n) \in Seq(Int)
    <3>1. n \in 0..Len(TripletRow)
      BY <2>1
    <3> QED BY <2>1, <3>1, Cut
  <2>3. <<1>> \in Seq(Nat)
    OBVIOUS
  <2> QED BY <2>2, <2>3
<1> HIDE DEF v
<1>2. IsText(data)
  BY <1>1, ValueIsText
<1>3. ByService(q)
  BY DEF ByService
<1> HIDE DEF data
<1>4. ReadInner(q, ServiceResponse("OK", data)) = ToldOf("OK", x)
  BY <1>2, <1>3, ServiceIsRead
<1>5. Fits(q, Nothing, "service", "OK", Misread, "OK", x, Nothing)
  BY DEF Fits
<1> HIDE DEF x
<1>6. Answers(q, InputOf(q), Nothing, "service", "OK", Misread,
              ServiceResponse("OK", data), Nothing)
  BY <1>2, <1>4, <1>5, ComputeAnswers
<1> QED BY <1>6 DEF data, v

LEMMA ValueIs ==
  ASSUME NEW s \in Seq(Nat), NEW ns \in Seq(Int)
  PROVE  LET w == [shape |-> s, numbers |-> ns]
         IN  /\ w.shape = s /\ w.numbers = ns
             /\ w \in [shape : Seq(Nat), numbers : Seq(Int)]
OBVIOUS

\* What an operation makes of its first operand.
LEMMA DecryptedIsValue ==
  ASSUME NEW type \in {"SINGLE", "TENSOR"}, NEW v, IsValue(type, "CIPHERTEXT", v),
         NEW w, w = [shape |-> v.shape,
                     numbers |-> [j \in 1..(Len(v.numbers) \div 6) |-> v.numbers[6 * j]]]
  PROVE  IsValue(type, "PLAINTEXT", w) /\ w.shape = v.shape
<1> DEFINE n == Len(v.numbers)
           m == n \div 6
           ns == [j \in 1..m |-> v.numbers[6 * j]]
           e == IF type = "TENSOR" THEN Elements(v.shape) ELSE 1
<1>1. /\ v \in [shape : Seq(Nat), numbers : Seq(Int)]
      /\ type = "TENSOR" => n = Elements(v.shape) * 6
      /\ type # "TENSOR" => v.shape = <<>>
      /\ type = "SINGLE" => n = 6
  BY NumbersIs DEF IsValue
<1>2. v.shape \in Seq(Nat) /\ v.numbers \in [1..n -> Int] /\ n \in Nat
  BY <1>1
<1>3. e \in Nat /\ n = e * 6 /\ (type = "TENSOR" => e = Elements(v.shape))
      /\ (type = "SINGLE" => e = 1)
  <2>1. CASE type = "TENSOR"
    <3>1. Elements(v.shape) \in Nat
      BY <1>2, ElementsIsNat
    <3> QED BY <1>1, <2>1, <3>1
  <2>2. CASE type = "SINGLE"
    BY <1>1, <2>2
  <2> QED BY <2>1, <2>2
<1>4. w = [shape |-> v.shape, numbers |-> ns]
  OBVIOUS
<1> HIDE DEF n, e
<1>5. m = e
  BY <1>3
<1>6. ns \in [1..m -> Int]
  <2>1. ASSUME NEW j \in 1..m PROVE 6 * j \in 1..n
    BY <1>3, <1>5
  <2> HIDE DEF m
  <2> QED BY <1>2, <2>1
<1> HIDE DEF ns, m
<1>7. ns \in Seq(Int) /\ Len(ns) = e
  BY <1>3, <1>5, <1>6, FunctionIsSequence
<1>8. w.shape = v.shape /\ w.numbers = ns /\ w \in [shape : Seq(Nat), numbers : Seq(Int)]
  <2>1. v.shape \in Seq(Nat) /\ ns \in Seq(Int)
    BY <1>2, <1>7
  <2> DEFINE r == [shape |-> v.shape, numbers |-> ns]
  <2>2. r.shape = v.shape /\ r.numbers = ns /\ r \in [shape : Seq(Nat), numbers : Seq(Int)]
    BY <2>1, ValueIs
  <2>3. w = r
    BY <1>4
  <2> HIDE DEF r
  <2> QED BY <2>2, <2>3
<1>9. /\ type = "TENSOR" => Len(w.numbers) = Elements(w.shape) * 1
      /\ type # "TENSOR" => w.shape = <<>>
      /\ type = "SINGLE" => Len(w.numbers) = 1
  BY <1>1, <1>3, <1>7, <1>8
<1> QED BY <1>8, <1>9, NumbersIs DEF IsValue

LEMMA EncryptedIsValue ==
  ASSUME NEW type \in {"SINGLE", "TENSOR"}, NEW v, IsValue(type, "PLAINTEXT", v),
         NEW w, w = [shape |-> v.shape,
                     numbers |-> [j \in 1..(6 * Len(v.numbers)) |->
                                    TripletRow[((j - 1) % 18) + 1]]]
  PROVE  IsValue(type, "CIPHERTEXT", w) /\ w.shape = v.shape
<1> DEFINE n == Len(v.numbers)
           ns == [j \in 1..(6 * n) |-> TripletRow[((j - 1) % 18) + 1]]
<1>1. /\ v \in [shape : Seq(Nat), numbers : Seq(Int)]
      /\ type = "TENSOR" => n = Elements(v.shape) * 1
      /\ type # "TENSOR" => v.shape = <<>>
      /\ type = "SINGLE" => n = 1
  BY NumbersIs DEF IsValue
<1>2. v.shape \in Seq(Nat) /\ n \in Nat
  BY <1>1
<1>3. ns \in Seq(Int) /\ Len(ns) = 6 * n
  <2>1. 6 * n \in Nat
    BY <1>2
  <2> QED BY <2>1, RowNumbers
<1>4. w = [shape |-> v.shape, numbers |-> ns]
  OBVIOUS
<1> HIDE DEF ns, n
<1>5. w.shape = v.shape /\ w.numbers = ns /\ w \in [shape : Seq(Nat), numbers : Seq(Int)]
  <2>1. v.shape \in Seq(Nat) /\ ns \in Seq(Int)
    BY <1>2, <1>3
  <2> DEFINE r == [shape |-> v.shape, numbers |-> ns]
  <2>2. r.shape = v.shape /\ r.numbers = ns /\ r \in [shape : Seq(Nat), numbers : Seq(Int)]
    BY <2>1, ValueIs
  <2>3. w = r
    BY <1>4
  <2> HIDE DEF r
  <2> QED BY <2>2, <2>3
<1>6. Elements(v.shape) \in Nat
  BY <1>2, ElementsIsNat
<1>7. /\ type = "TENSOR" => Len(w.numbers) = Elements(w.shape) * 6
      /\ type # "TENSOR" => w.shape = <<>>
      /\ type = "SINGLE" => Len(w.numbers) = 6
  BY <1>1, <1>2, <1>3, <1>5, <1>6
<1> QED BY <1>5, <1>7, NumbersIs DEF IsValue

\* A plaintext tensor comes flat, and flat it is a value too.
LEMMA ReceivedIsValue ==
  ASSUME NEW type \in {"SINGLE", "TENSOR"}, NEW e \in {"PLAINTEXT", "CIPHERTEXT"},
         NEW v, IsValue(type, e, v)
  PROVE  /\ IsValue(type, e, AsReceived(type, e, v))
         /\ "shape" \in DOMAIN AsReceived(type, e, v)
         /\ type = "TENSOR" => Elements(AsReceived(type, e, v).shape) = Elements(v.shape)
<1> DEFINE w == AsReceived(type, e, v)
<1>1. /\ v \in [shape : Seq(Nat), numbers : Seq(Int)]
      /\ v = [shape |-> v.shape, numbers |-> v.numbers]
  BY DEF IsValue
<1>2. CASE type = "TENSOR" /\ e = "PLAINTEXT"
  <2> DEFINE a == Elements(v.shape)
  <2>1. v.shape \in Seq(Nat) /\ v.numbers \in Seq(Int)
    BY <1>1
  <2>2. a \in Nat
    BY <2>1, ElementsIsNat
  <2>3. w = [v EXCEPT !.shape = <<a>>]
    BY <1>2 DEF AsReceived
  <2>4. Len(v.numbers) = a * Numbers(e)
    BY <1>2 DEF IsValue
  <2> HIDE DEF a, w
  <2>5. Elements(<<a>>) = a
    <3>1. 0 \in Nat
      OBVIOUS
    <3> QED BY <2>2, <3>1, FewDimensions
  <2>6. w = [shape |-> <<a>>, numbers |-> v.numbers]
    BY <1>1, <2>3
  <2>7. w.shape = <<a>> /\ w.numbers = v.numbers /\ "shape" \in DOMAIN w
        /\ w \in [shape : Seq(Nat), numbers : Seq(Int)]
    BY <2>1, <2>2, <2>6
  <2>8. IsValue(type, e, w)
    BY <1>2, <2>4, <2>5, <2>7 DEF IsValue
  <2> QED BY <2>5, <2>7, <2>8 DEF a, w
<1>3. CASE ~ (type = "TENSOR" /\ e = "PLAINTEXT")
  <2>1. w = v
    BY <1>3 DEF AsReceived
  <2>2. "shape" \in DOMAIN v
    BY <1>1
  <2> QED BY <2>1, <2>2
<1> QED BY <1>2, <1>3

LEMMA ComputedIsValue ==
  ASSUME NEW type \in {"SINGLE", "TENSOR"}, NEW e \in {"PLAINTEXT", "CIPHERTEXT"},
         NEW v, IsValue(type, e, v), ~ (type = "TENSOR" /\ Elements(v.shape) = 0),
         NEW r, r.operands[1].encryption = e, r.operation = "DECRYPT" => e = "CIPHERTEXT"
  PROVE  LET w == Computed(r, AsReceived(type, e, v))
         IN  /\ IsValue(type, IF r.operation = "DECRYPT" THEN "PLAINTEXT"
                              ELSE "CIPHERTEXT", w)
             /\ ~ (type = "TENSOR" /\ Elements(w.shape) = 0)
<1> DEFINE u == AsReceived(type, e, v)
           w == Computed(r, u)
<1>1. IsValue(type, e, u) /\ ~ (type = "TENSOR" /\ Elements(u.shape) = 0)
  BY ReceivedIsValue
<1> HIDE DEF u
<1>2. CASE r.operation = "DECRYPT"
  <2>1. w = [shape |-> u.shape,
             numbers |-> [j \in 1..(Len(u.numbers) \div 6) |-> u.numbers[6 * j]]]
    BY <1>2 DEF Computed
  <2> HIDE DEF w
  <2>2. IsValue(type, "CIPHERTEXT", u)
    BY <1>1, <1>2
  <2>3. IsValue(type, "PLAINTEXT", w) /\ w.shape = u.shape
    BY <2>1, <2>2, DecryptedIsValue
  <2> QED BY <1>1, <1>2, <2>3 DEF w, u
<1>3. CASE r.operation # "DECRYPT" /\ e = "PLAINTEXT"
  <2>1. w = [shape |-> u.shape,
             numbers |-> [j \in 1..(6 * Len(u.numbers)) |->
                            TripletRow[((j - 1) % 18) + 1]]]
    BY <1>3 DEF Computed
  <2> HIDE DEF w
  <2>2. IsValue(type, "PLAINTEXT", u)
    BY <1>1, <1>3
  <2>3. IsValue(type, "CIPHERTEXT", w) /\ w.shape = u.shape
    BY <2>1, <2>2, EncryptedIsValue
  <2> QED BY <1>1, <1>3, <2>3 DEF w, u
<1>4. CASE r.operation # "DECRYPT" /\ e = "CIPHERTEXT"
  <2>1. w = u
    BY <1>4 DEF Computed
  <2> QED BY <1>1, <1>4, <2>1 DEF u
<1> QED BY <1>2, <1>3, <1>4

\* The values that are decoded of what was meant.
ValuesOf(q) ==
  [i \in DOMAIN Meant(q).operands |->
     ReadValue(Meant(q).operands[i].type, Meant(q).operands[i].encryption,
               Meant(q).operands[i].data)]

LEMMA ValuesAre ==
  ASSUME Apart, NEW q \in Requests, q.service = "COMPUTE_REQUEST", Supported(Meant(q))
  PROVE  /\ DOMAIN ValuesOf(q) = DOMAIN q.request.operands
         /\ \A i \in DOMAIN ValuesOf(q) : ValuesOf(q)[i] # Misread
         /\ (\E i \in DOMAIN ValuesOf(q) : ValuesOf(q)[i] = Dies) => HasEmpty(q)
         /\ (\A i \in DOMAIN ValuesOf(q) : ValuesOf(q)[i] # Dies) =>
              /\ ValuesOf(q) = DecodedOf(q)
              /\ \A i \in DOMAIN ValuesOf(q) :
                   LET o == q.request.operands[i]
                   IN  ~ (o.type = "TENSOR" /\ Elements(o.value.shape) = 0)
<1> DEFINE os == q.request.operands
           n == Len(os)
           m == Meant(q)
           vs == ValuesOf(q)
           Void(o) == o.type = "TENSOR" /\ Elements(o.value.shape) = 0
           Got(o) == AsReceived(o.type, o.encryption, o.value)
<1>1. /\ n \in Nat \ {0} /\ DOMAIN os = 1..n /\ OperandsOf(q) = os
      /\ DOMAIN m.operands = 1..n /\ Len(m.operands) = n
      /\ \A i \in 1..n :
           /\ os[i] \in Operands
           /\ IsValue(os[i].type, os[i].encryption, os[i].value)
           /\ m.operands[i].type = os[i].type
           /\ m.operands[i].encryption = os[i].encryption
           /\ m.operands[i].data = ValueText(os[i].type, os[i].value)
  BY ComputeInput
<1> HIDE DEF os, n
<1>2. ASSUME NEW i \in 1..n PROVE m.operands[i].type \in {"SINGLE", "TENSOR"}
  <2>1. CASE Len(m.operands) = 1 /\ m.operands[1].type \in {"SINGLE", "TENSOR"}
    BY <1>1, <1>2, <2>1
  <2>2. CASE /\ Len(m.operands) = 2 /\ m.operands[1].type \in {"SINGLE", "TENSOR"}
             /\ m.operands[1].type = m.operands[2].type
    <3>1. i = 1 \/ i = 2
      BY <1>1, <1>2, <2>2
    <3> QED BY <2>2, <3>1
  <2> QED BY <2>1, <2>2 DEF Supported
<1> HIDE DEF m
<1>3. DOMAIN vs = 1..n
      /\ \A i \in 1..n : vs[i] = ReadValue(os[i].type, os[i].encryption,
                                           ValueText(os[i].type, os[i].value))
  BY <1>1 DEF ValuesOf, m
<1> HIDE DEF vs
<1>4. ASSUME NEW i \in 1..n
      PROVE  /\ vs[i] = IF Void(os[i]) THEN Dies ELSE Got(os[i])
             /\ Got(os[i]) # Dies /\ vs[i] # Misread
  <2> DEFINE o == os[i]
             type == o.type
             e == o.encryption
             v == o.value
  <2>1. type \in {"SINGLE", "TENSOR"} /\ e \in {"PLAINTEXT", "CIPHERTEXT"}
        /\ IsValue(type, e, v)
    <3>1. e \in {"PLAINTEXT", "CIPHERTEXT"}
      BY <1>1 DEF Operands
    <3> QED BY <1>1, <1>2, <3>1
  <2>2. vs[i] = ReadValue(type, e, ValueText(type, v))
    BY <1>3
  <2> HIDE DEF type, e, v
  <2>3. e \in {"PLAINTEXT", "PARTIAL", "CIPHERTEXT"}
    BY <2>1
  <2>4. ReadValue(type, e, ValueText(type, v)) =
          IF type = "TENSOR" /\ Elements(v.shape) = 0 THEN Dies
          ELSE AsReceived(type, e, v)
    BY <2>1, <2>3, ValueRoundTrip
  <2>5. "shape" \in DOMAIN AsReceived(type, e, v)
    BY <2>1, ReceivedIsValue
  <2>6. AsReceived(type, e, v) \notin {Nothing, Misread, Dies} /\ Misread # Dies
    BY <2>5, Distinct
  <2> QED BY <2>2, <2>4, <2>6 DEF type, e, v
<1>5. ASSUME NEW i \in DOMAIN vs, vs[i] = Dies PROVE HasEmpty(q)
  <2>1. Void(os[i]) /\ i \in DOMAIN os
    BY <1>1, <1>3, <1>4, <1>5
  <2> QED BY <1>1, <2>1 DEF HasEmpty
<1>6. ASSUME \A i \in DOMAIN vs : vs[i] # Dies
      PROVE  vs = DecodedOf(q) /\ \A i \in DOMAIN vs : ~ Void(os[i])
  <2>1. \A i \in 1..n : ~ Void(os[i]) /\ vs[i] = Got(os[i])
    BY <1>3, <1>4, <1>6
  <2>2. DecodedOf(q) = [i \in 1..n |-> Got(os[i])]
    BY <1>1 DEF DecodedOf
  <2>3. vs = [i \in 1..n |-> vs[i]]
    BY <1>1, <1>3 DEF vs, ValuesOf
  <2> HIDE DEF Void, Got
  <2>4. vs = [i \in 1..n |-> Got(os[i])]
    BY <2>1, <2>3
  <2> QED BY <1>3, <2>1, <2>2, <2>4
<1>7. \A i \in DOMAIN vs : vs[i] # Misread
  BY <1>3, <1>4
<1> QED BY <1>1, <1>3, <1>5, <1>6, <1>7 DEF vs, os

LEMMA ResultAnswers ==
  ASSUME Apart, NEW q \in Requests, q.service = "COMPUTE_REQUEST", Supported(Meant(q)),
         \A i \in DOMAIN ValuesOf(q) : ValuesOf(q)[i] # Dies
  PROVE  LET m == Meant(q)
             result == Computed(m, ValuesOf(q)[1])
         IN  Answers(q, InputOf(q), ValuesOf(q), "service", "OK", result,
                     ServiceResponse("OK", ValueText(m.operands[1].type, result)), Nothing)
<1> DEFINE o == q.request.operands[1]
           type == o.type
           e == o.encryption
           v == o.value
           m == Meant(q)
           d == ValuesOf(q)
           result == Computed(m, d[1])
<1>1. /\ DOMAIN d = DOMAIN q.request.operands /\ d = DecodedOf(q)
      /\ \A i \in DOMAIN d :
           LET p == q.request.operands[i]
           IN  ~ (p.type = "TENSOR" /\ Elements(p.value.shape) = 0)
  BY ValuesAre
<1>2. /\ 1 \in DOMAIN q.request.operands /\ OperandsOf(q) = q.request.operands
      /\ o \in Operands /\ IsValue(type, e, v) /\ ByService(q)
      /\ m.operands[1].type = type /\ m.operands[1].encryption = e
      /\ m.operation = q.request.operation
  <2>1. LET n == Len(q.request.operands)
        IN  n \in Nat \ {0} /\ DOMAIN q.request.operands = 1..n /\ 1 \in 1..n
    BY ComputeInput
  <2> QED BY <2>1, ComputeInput
<1>3. d[1] = AsReceived(type, e, v)
  BY <1>1, <1>2 DEF DecodedOf
<1>4. ~ (type = "TENSOR" /\ Elements(v.shape) = 0)
  BY <1>1, <1>2
<1>5. e \in {"PLAINTEXT", "CIPHERTEXT"}
  BY <1>2 DEF Operands
<1>6. type \in {"SINGLE", "TENSOR"} /\ (m.operation = "DECRYPT" => e = "CIPHERTEXT")
  BY <1>2 DEF Supported
<1> DEFINE re == IF m.operation = "DECRYPT" THEN "PLAINTEXT" ELSE "CIPHERTEXT"
<1>7. ResultType(q) = type /\ ResultEncryption(q) = re
  BY <1>2 DEF ResultType, ResultEncryption
<1>8. re \in {"PLAINTEXT", "PARTIAL", "CIPHERTEXT"}
  OBVIOUS
<1> HIDE DEF type, e, v, m, d
<1>9. IsValue(type, re, result) /\ ~ (type = "TENSOR" /\ Elements(result.shape) = 0)
  <2>1. /\ IsValue(type, re, Computed(m, AsReceived(type, e, v)))
        /\ ~ (type = "TENSOR" /\ Elements(Computed(m, AsReceived(type, e, v)).shape) = 0)
    BY <1>2, <1>4, <1>5, <1>6, ComputedIsValue
  <2> QED BY <1>3, <2>1
<1> HIDE DEF re, result
<1> DEFINE data == ValueText(type, result)
           x == AsReceived(type, re, result)
<1>10. q.service # "SETUP_REQUEST" /\ (d = Nothing \/ d = DecodedOf(q))
  BY <1>1
<1>11. /\ IsText(ServiceResponse("OK", data))
       /\ ReadInner(q, ServiceResponse("OK", data)) = ToldOf("OK", x)
       /\ Fits(q, d, "service", "OK", result, "OK", x, Nothing)
  BY <1>2, <1>6, <1>7, <1>8, <1>9, <1>10, ResultIsTold
<1>12. IsText(data)
  <2>1. result \in [shape : Seq(Nat), numbers : Seq(Int)]
    BY <1>9 DEF IsValue
  <2> QED BY <2>1, ValueIsText
<1> HIDE DEF data, x
<1>13. Answers(q, InputOf(q), d, "service", "OK", result,
               ServiceResponse("OK", data), Nothing)
  BY <1>11, <1>12, ComputeAnswers
<1>14. Answers(q, InputOf(q), d, "service", "OK", result,
               ServiceResponse("OK", ValueText(m.operands[1].type, result)), Nothing)
  BY <1>2, <1>13 DEF data
<1> QED BY <1>14 DEF d, m, result

-----------------------------------------------------------------------------
(* Calls that end without an answer, and the others while one goes on.     *)

\* A call that nobody handled yet has nothing wrong with it.
LEMMA NewIsGood ==
  ASSUME Apart, NEW q, NEW rd, NEW dn
  PROVE  Good(q, Nothing, Nothing, Nothing, Nothing, rd, dn)
BY Distinct DEF Good, ToldOk, ArrivesOk, SurvivesOk

\* The process that handled it died.
LEMMA DeathIsGood ==
  ASSUME Apart, NEW q \in Requests, NEW rd, NEW dn, q.node \in dn,
         \/ q.service = "SETUP_REQUEST" \/ InputOf(q) # Meant(q) \/ HasEmpty(q)
  PROVE  Good(q, InputOf(q), Nothing, Nothing, Lost, rd, dn)
<1>1. HandledOk(q, InputOf(q))
  BY InputIs
<1>2. Nothing # Lost
  BY Distinct
<1>3. ToldOk(Nothing, Lost)
  BY DEF ToldOk
<1>4. ArrivesOk(q, InputOf(q), Nothing, Lost, rd, dn)
  BY DEF ArrivesOk
<1>5. SurvivesOk(q, InputOf(q), Nothing, Nothing, Lost)
  BY DEF SurvivesOk
<1> QED BY <1>1, <1>3, <1>4, <1>5 DEF Good

\* What could not be decoded was not handled, and its session ended.
LEMMA ThrowingIsGood ==
  ASSUME Apart, NEW q \in Requests, InputOf(q) = Throws, NEW rd, NEW dn
  PROVE  Good(q, Throws, Nothing, Nothing, Lost, rd, dn)
<1>1. HandledOk(q, Throws)
  BY InputIs
<1>2. ToldOk(Nothing, Lost)
  BY DEF ToldOk
<1>3. ArrivesOk(q, Throws, Nothing, Lost, rd, dn)
  BY DEF ArrivesOk
<1>4. SurvivesOk(q, Throws, Nothing, Nothing, Lost)
  BY DEF SurvivesOk
<1> QED BY <1>1, <1>2, <1>3, <1>4 DEF Good

\* The node had died before.
LEMMA DisconnectedIsGood ==
  ASSUME NEW q, NEW rd, NEW dn, q.node \in dn
  PROVE  Good(q, Nothing, Nothing, Nothing, Lost, rd, dn)
BY DEF Good, ToldOk, ArrivesOk, SurvivesOk

\* That more nodes die changes nothing.
LEMMA GoodStays ==
  ASSUME NEW q, NEW h, NEW d, NEW a, NEW g, NEW rd, NEW dn, NEW dn2, dn \subseteq dn2,
         Good(q, h, d, a, g, rd, dn)
  PROVE  Good(q, h, d, a, g, rd, dn2)
<1>1. ArrivesOk(q, h, a, g, rd, dn)
  BY DEF Good
<1>2. ArrivesOk(q, h, a, g, rd, dn2)
  BY <1>1 DEF ArrivesOk
<1> QED BY <1>2 DEF Good

-----------------------------------------------------------------------------
(* The inductive invariant.                                                *)

\* Every caller has its entry.
Tables ==
  /\ DOMAIN call = Callers /\ DOMAIN pc = Callers /\ DOMAIN wire = Callers
  /\ DOMAIN handled = Callers /\ DOMAIN decoded = Callers /\ DOMAIN answer = Callers
  /\ DOMAIN got = Callers /\ DOMAIN reading = Callers

\* The inductive invariant.
ServicesInv == Tables /\ dealt \in Nat /\ \A c \in Callers : CallInv(c)

\* The step is that of another caller: at most the roster grew, or nodes died.
Leaves(c) ==
  /\ call'[c] = call[c] /\ pc'[c] = pc[c] /\ wire'[c] = wire[c]
  /\ handled'[c] = handled[c] /\ decoded'[c] = decoded[c] /\ answer'[c] = answer[c]
  /\ got'[c] = got[c] /\ down \subseteq down'
  /\ \/ reading'[c] = reading[c] /\ (roster' = roster \/ pc[c] # "reading")
     \/ pc[c] = "reading" /\ reading'[c] = [reading[c] EXCEPT !.raced = TRUE]

LEMMA Changed ==
  ASSUME NEW s, NEW x, NEW t
  PROVE  [[roster |-> s, raced |-> x] EXCEPT !.raced = t] = [roster |-> s, raced |-> t]
<1> DEFINE r == [roster |-> s, raced |-> x]
           u == [r EXCEPT !.raced = t]
<1>1. DOMAIN r = {"roster", "raced"} /\ r.roster = s
  OBVIOUS
<1>2. u = [f \in {"roster", "raced"} |-> IF f = "raced" THEN t ELSE r[f]]
  <2> HIDE DEF r
  <2> QED BY <1>1
<1>3. u = [f \in {"roster", "raced"} |-> IF f = "raced" THEN t ELSE s]
  <2> HIDE DEF r, u
  <2> QED BY <1>1, <1>2
<1>4. [roster |-> s, raced |-> t] =
        [f \in {"roster", "raced"} |-> IF f = "raced" THEN t ELSE s]
  OBVIOUS
<1> QED BY <1>3, <1>4

LEMMA OthersStay ==
  ASSUME Apart, NEW c \in Callers, CallInv(c), Leaves(c)
  PROVE  CallInv(c)'
<1>1. /\ pc[c] \in {"idle", "sent", "reading", "answered"}
      /\ Good(call[c], handled[c], decoded[c], answer[c], got[c], reading[c], down)
      /\ pc[c] \in {"sent", "reading"} => Sent(c)
      /\ pc[c] = "sent" => reading[c] = Nothing
      /\ pc[c] = "reading" => Reads(c)
      /\ pc[c] = "answered" => Answered(c)
  BY DEF CallInv
<1>2. /\ call'[c] = call[c] /\ pc'[c] = pc[c] /\ wire'[c] = wire[c]
      /\ handled'[c] = handled[c] /\ decoded'[c] = decoded[c] /\ answer'[c] = answer[c]
      /\ got'[c] = got[c] /\ down \subseteq down'
      /\ \/ reading'[c] = reading[c] /\ (roster' = roster \/ pc[c] # "reading")
         \/ pc[c] = "reading" /\ reading'[c] = [reading[c] EXCEPT !.raced = TRUE]
  BY DEF Leaves
<1>3. CASE pc[c] = "reading"
  <2>1. Sent(c)' /\ Sent(c)
    BY <1>1, <1>2, <1>3 DEF Sent
  <2>2. Good(call'[c], handled'[c], decoded'[c], answer'[c], got'[c], reading'[c], down')
    BY <2>1, NewIsGood DEF Sent
  <2>3. /\ call[c].service = "SETUP_REQUEST" /\ InputOf(call[c]) # Throws
        /\ InputOf(call[c]).type = "NetworkDetailsRequest"
    BY <1>1, <1>3 DEF Reads
  <2>4. PICK seen, changed :
          /\ reading[c] = [roster |-> seen, raced |-> changed]
          /\ changed \in BOOLEAN /\ (~ changed => seen = roster)
    BY <1>1, <1>3 DEF Reads
  <2>5. \E s, x : /\ reading'[c] = [roster |-> s, raced |-> x]
                  /\ x \in BOOLEAN /\ (~ x => s = roster')
    <3>1. CASE reading'[c] = reading[c] /\ roster' = roster
      BY <2>4, <3>1
    <3>2. CASE reading'[c] = [reading[c] EXCEPT !.raced = TRUE]
      <4>1. reading'[c] = [roster |-> seen, raced |-> TRUE]
        <5> DEFINE rd == reading[c]
        <5>1. rd = [roster |-> seen, raced |-> changed]
          BY <2>4
        <5>2. reading'[c] = [rd EXCEPT !.raced = TRUE]
          BY <3>2
        <5> HIDE DEF rd
        <5> QED BY <5>1, <5>2, Changed
      <4> QED BY <4>1
    <3> QED BY <1>2, <1>3, <3>1, <3>2
  <2>6. Reads(c)'
    BY <1>2, <2>3, <2>5 DEF Reads
  <2> QED BY <1>2, <1>3, <2>1, <2>2, <2>6 DEF CallInv
<1>4. CASE pc[c] # "reading"
  <2>1. reading'[c] = reading[c]
    BY <1>2, <1>4
  <2>2. Good(call'[c], handled'[c], decoded'[c], answer'[c], got'[c], reading'[c], down')
    <3>1. Good(call[c], handled[c], decoded[c], answer[c], got[c], reading[c], down')
      BY <1>1, <1>2, GoodStays
    <3> QED BY <1>2, <2>1, <3>1
  <2>3. pc[c] = "sent" => Sent(c)' /\ reading'[c] = Nothing
    BY <1>1, <1>2, <2>1 DEF Sent
  <2>4. ASSUME pc[c] = "answered" PROVE Answered(c)'
    <3>1. Answered(c)
      BY <1>1, <2>4
    <3>2. ASSUME NEW g \in Outcomes(call[c], Tail(wire[c]))
          PROVE  Good(call[c], handled[c], decoded[c], answer[c], g, reading[c], down')
      <4>1. Good(call[c], handled[c], decoded[c], answer[c], g, reading[c], down)
        BY <3>1 DEF Answered
      <4>2. down \subseteq down'
        BY <1>2
      <4> QED BY <4>1, <4>2, GoodStays
    <3>3. call[c] \in Calls
      BY <3>1 DEF Answered
    <3> QED BY <1>2, <2>1, <3>2, <3>3 DEF Answered
  <2> QED BY <1>1, <1>2, <1>4, <2>2, <2>3, <2>4 DEF CallInv
<1> QED BY <1>3, <1>4

LEMMA CallsAreRequests ==
  \A q \in Calls : q \in Requests
BY ServicesAssumption

\* A caller whose request was answered.
LEMMA AnsweredIsOk ==
  ASSUME Tables, NEW c \in Callers, call[c] \in Calls, got[c] = Nothing,
         NEW h, NEW d, NEW by, NEW status, NEW value, NEW text, NEW rd,
         Answers(call[c], h, d, by, status, value, text, rd),
         Respond(c, h, d, by, status, value, text), reading'[c] = rd
  PROVE  CallInv(c)' /\ \A x \in Callers \ {c} :
            /\ call'[x] = call[x] /\ pc'[x] = pc[x] /\ wire'[x] = wire[x]
            /\ handled'[x] = handled[x] /\ decoded'[x] = decoded[x]
            /\ answer'[x] = answer[x] /\ got'[x] = got[x]
<1> DEFINE root == IF by = "root" THEN "ERROR" ELSE "OK"
           layer == <<call[c].service, root>>
           a == AnswerOf(by, status, value)
<1>1. /\ handled' = [handled EXCEPT ![c] = h] /\ decoded' = [decoded EXCEPT ![c] = d]
      /\ answer' = [answer EXCEPT ![c] = a]
      /\ wire' = [wire EXCEPT ![c] = Framed(layer, text)]
      /\ pc' = [pc EXCEPT ![c] = "answered"]
      /\ call' = call /\ got' = got /\ down' = down
  BY DEF Respond, AnswerOf
<1>2. IsText(text) /\ \A dn : \A g \in Outcomes(call[c], text) \cup {Nothing} :
        Good(call[c], h, d, a, g, rd, dn)
  BY DEF Answers
<1>3. IsText(layer)
  BY IsTextIfs
<1> HIDE DEF layer, a
<1>4. Tail(Framed(layer, text)) = text
  BY <1>2, <1>3, Layer
<1>5. /\ handled'[c] = h /\ decoded'[c] = d /\ answer'[c] = a /\ pc'[c] = "answered"
      /\ wire'[c] = Framed(layer, text) /\ got'[c] = Nothing /\ call'[c] = call[c]
  BY <1>1 DEF Tables
<1>6. Good(call'[c], handled'[c], decoded'[c], answer'[c], got'[c], reading'[c], down')
  BY <1>2, <1>5
<1>7. Answered(c)'
  BY <1>2, <1>4, <1>5 DEF Answered
<1>8. CallInv(c)'
  BY <1>5, <1>6, <1>7 DEF CallInv
<1>9. \A x \in Callers \ {c} :
        /\ call'[x] = call[x] /\ pc'[x] = pc[x] /\ wire'[x] = wire[x]
        /\ handled'[x] = handled[x] /\ decoded'[x] = decoded[x]
        /\ answer'[x] = answer[x] /\ got'[x] = got[x]
  BY <1>1 DEF Tables
<1> QED BY <1>8, <1>9

\* A caller whose session ended.
LEMMA EndedIsOk ==
  ASSUME Tables, NEW c \in Callers, NEW h, EndSession(c),
         handled'[c] = h, \A x \in Callers \ {c} : handled'[x] = handled[x],
         decoded' = decoded, answer' = answer, decoded[c] = Nothing, answer[c] = Nothing, down \subseteq down',
         Good(call[c], h, Nothing, Nothing, Lost, reading[c], down')
  PROVE  CallInv(c)' /\ \A x \in Callers \ {c} : Leaves(x)
<1>1. /\ pc' = [pc EXCEPT ![c] = "idle"] /\ wire' = [wire EXCEPT ![c] = Nothing]
      /\ got' = [got EXCEPT ![c] = Lost]
      /\ call' = call /\ roster' = roster /\ reading' = reading
  BY DEF EndSession
<1>2. /\ pc'[c] = "idle" /\ got'[c] = Lost /\ handled'[c] = h /\ decoded'[c] = Nothing
      /\ answer'[c] = Nothing /\ call'[c] = call[c] /\ reading'[c] = reading[c]
  BY <1>1 DEF Tables
<1>3. CallInv(c)'
  BY <1>2 DEF CallInv
<1>4. \A x \in Callers \ {c} : Leaves(x)
  BY <1>1 DEF Tables, Leaves
<1> QED BY <1>3, <1>4

\* The steps keep the tables.
LEMMA TablesStay ==
  ASSUME Tables, NEW c \in Callers,
         \/ Call(c) \/ RefuseService(c) \/ DecodingThrows(c) \/ Beavers(c)
         \/ JoinAsCofhe(c) \/ JoinAsCompute(c) \/ BeginDetails(c) \/ EndDetails(c)
         \/ SetDetails(c) \/ RefuseSetup(c) \/ RefuseCofhe(c) \/ PartialDecryption(c)
         \/ ComputeFails(c) \/ Compute(c) \/ Receive(c) \/ Disconnected(c)
  PROVE  Tables'
<1>1. CASE Call(c)
  BY <1>1 DEF Call, Tables
<1>2. ASSUME NEW h, NEW d, NEW by, NEW status, NEW value, NEW text,
             Respond(c, h, d, by, status, value, text), DOMAIN reading' = Callers
      PROVE  Tables'
  BY <1>2 DEF Respond, Tables
<1>3. ASSUME EndSession(c), NEW h,
             handled' = [handled EXCEPT ![c] = h] \/ handled' = handled,
             decoded' = decoded, answer' = answer
      PROVE  Tables'
  BY <1>3 DEF EndSession, Tables
<1>4. ASSUME UNCHANGED network PROVE DOMAIN reading' = Callers
  BY <1>4 DEF network, Tables
<1>5. ASSUME NEW h, NodeDies(c, h) PROVE Tables'
  BY <1>3, <1>5 DEF NodeDies
<1>6. CASE RefuseService(c)
  BY <1>2, <1>4, <1>6 DEF RefuseService
<1>7. CASE DecodingThrows(c)
  BY <1>3, <1>7 DEF DecodingThrows
<1>8. CASE Beavers(c)
  BY <1>2, <1>4, <1>8 DEF Beavers
<1>9. ASSUME NEW node, Enroll(node) PROVE DOMAIN reading' = Callers
  BY <1>9 DEF Enroll
<1>10. CASE JoinAsCofhe(c)
  BY <1>2, <1>4, <1>9, <1>10 DEF JoinAsCofhe
<1>11. CASE JoinAsCompute(c)
  BY <1>2, <1>9, <1>11 DEF JoinAsCompute
<1>12. CASE BeginDetails(c)
  BY <1>12 DEF BeginDetails, Tables, served
<1>13. CASE EndDetails(c)
  BY <1>2, <1>4, <1>5, <1>13 DEF EndDetails
<1>14. CASE SetDetails(c)
  BY <1>2, <1>4, <1>14 DEF SetDetails
<1>15. CASE RefuseSetup(c)
  BY <1>2, <1>4, <1>15 DEF RefuseSetup
<1>16. CASE RefuseCofhe(c)
  BY <1>2, <1>4, <1>16 DEF RefuseCofhe
<1>17. CASE PartialDecryption(c)
  BY <1>2, <1>4, <1>5, <1>17 DEF PartialDecryption
<1>18. CASE ComputeFails(c)
  BY <1>2, <1>4, <1>18 DEF ComputeFails
<1>19. CASE Compute(c)
  BY <1>2, <1>4, <1>5, <1>19 DEF Compute
<1>20. CASE Receive(c)
  BY <1>20 DEF Receive, Tables, served, network
<1>21. CASE Disconnected(c)
  <2>1. handled' = handled /\ decoded' = decoded /\ answer' = answer /\ EndSession(c)
    BY <1>21 DEF Disconnected, served
  <2> QED BY <1>3, <2>1
<1> QED BY <1>1, <1>6, <1>7, <1>8, <1>10, <1>11, <1>12, <1>13, <1>14, <1>15, <1>16,
           <1>17, <1>18, <1>19, <1>20, <1>21

LEMMA DealtStays ==
  ASSUME dealt \in Nat, Next PROVE dealt' \in Nat
<1>1. dealt' = dealt \/ dealt' = dealt + 1
  <2>1. CASE Finished
    BY <2>1 DEF Finished, vars, network
  <2>2. ASSUME NEW c \in Callers, Beavers(c) \/ JoinAsCompute(c) \/ SetDetails(c)
                 \/ PartialDecryption(c) \/ Compute(c) \/ EndDetails(c)
        PROVE  dealt' = dealt
    BY <2>2 DEF Beavers, JoinAsCompute, SetDetails, PartialDecryption, Compute,
                EndDetails, EndSession, NodeDies, network
  <2>3. ASSUME NEW c \in Callers, Call(c) \/ RefuseService(c) \/ DecodingThrows(c)
                 \/ BeginDetails(c) \/ RefuseSetup(c) \/ RefuseCofhe(c)
                 \/ ComputeFails(c) \/ Receive(c) \/ Disconnected(c)
        PROVE  dealt' = dealt
    BY <2>3 DEF Call, RefuseService, DecodingThrows, BeginDetails, RefuseSetup,
                RefuseCofhe, ComputeFails, Receive, Disconnected, EndSession, network
  <2>4. ASSUME NEW c \in Callers, JoinAsCofhe(c) PROVE dealt' = dealt \/ dealt' = dealt + 1
    BY <2>4 DEF JoinAsCofhe, network
  <2> QED BY <2>1, <2>2, <2>3, <2>4 DEF Next
<1> QED BY <1>1

-----------------------------------------------------------------------------
(* Every step keeps the invariant.                                         *)

\* A caller's request is under way.
Under(c) ==
  /\ call[c] \in Requests /\ call[c] \in Calls
  /\ handled[c] = Nothing /\ decoded[c] = Nothing /\ answer[c] = Nothing
  /\ got[c] = Nothing /\ Input(c) = InputOf(call[c])

LEMMA UnderWay ==
  ASSUME NEW c \in Callers, CallInv(c), pc[c] \in {"sent", "reading"}
  PROVE  Under(c)
<1>1. Sent(c)
  BY DEF CallInv
<1>2. call[c] \in Requests
  BY <1>1, CallsAreRequests DEF Sent
<1>3. wire[c] = RequestText(call[c])
  BY <1>1 DEF Sent
<1>4. Body(c) = BodyOf(call[c])
  BY <1>3 DEF Body, BodyOf
<1>5. Input(c) = InputOf(call[c])
  BY <1>4 DEF Input, InputOf
<1> QED BY <1>1, <1>2, <1>5 DEF Sent, Under

\* What a step of c leaves of the others.
Steps(c) == CallInv(c)' /\ \A x \in Callers \ {c} : Leaves(x)

\* An answer to a request that was just sent, while the roster at most grows.
LEMMA AnswerStep ==
  ASSUME Apart, Tables, NEW c \in Callers, CallInv(c), pc[c] = "sent",
         NEW h, NEW d, NEW by, NEW status, NEW value, NEW text,
         Answers(call[c], h, d, by, status, value, text, Nothing),
         Respond(c, h, d, by, status, value, text),
         UNCHANGED network \/ \E node : Enroll(node)
  PROVE  Steps(c)
<1>1. Under(c) /\ reading[c] = Nothing
  BY UnderWay DEF CallInv
<1>2. /\ \A x \in Callers : pc[x] # "reading" => reading'[x] = reading[x]
      /\ \A x \in Callers :
           \/ reading'[x] = reading[x] /\ (roster' = roster \/ pc[x] # "reading")
           \/ pc[x] = "reading" /\ reading'[x] = [reading[x] EXCEPT !.raced = TRUE]
  <2>1. CASE UNCHANGED network
    BY <2>1 DEF network
  <2>2. ASSUME NEW node, Enroll(node)
        PROVE \A x \in Callers : reading'[x] =
                IF pc[x] = "reading" THEN [reading[x] EXCEPT !.raced = TRUE] ELSE reading[x]
    BY <2>2 DEF Enroll
  <2> QED BY <2>1, <2>2
<1>3. reading'[c] = Nothing
  BY <1>1, <1>2
<1>4. call[c] \in Calls /\ got[c] = Nothing
  BY <1>1 DEF Under
<1>5. CallInv(c)' /\ \A x \in Callers \ {c} :
         /\ call'[x] = call[x] /\ pc'[x] = pc[x] /\ wire'[x] = wire[x]
         /\ handled'[x] = handled[x] /\ decoded'[x] = decoded[x]
         /\ answer'[x] = answer[x] /\ got'[x] = got[x]
  BY <1>3, <1>4, AnsweredIsOk
<1>6. down' = down
  BY DEF Respond
<1>7. \A x \in Callers \ {c} : Leaves(x)
  BY <1>2, <1>5, <1>6 DEF Leaves
<1> QED BY <1>5, <1>7 DEF Steps

\* The session of a call that was not answered ends.
LEMMA EndStep ==
  ASSUME Tables, NEW c \in Callers, Under(c), NEW h, EndSession(c),
         handled'[c] = h, \A x \in Callers \ {c} : handled'[x] = handled[x],
         decoded' = decoded, answer' = answer, down \subseteq down',
         Good(call[c], h, Nothing, Nothing, Lost, reading[c], down')
  PROVE  Steps(c)
<1>1. decoded[c] = Nothing /\ answer[c] = Nothing
  BY DEF Under
<1> QED BY <1>1, EndedIsOk DEF Steps

LEMMA DeathStep ==
  ASSUME Apart, Tables, NEW c \in Callers, Under(c), NodeDies(c, InputOf(call[c])),
         \/ call[c].service = "SETUP_REQUEST"
         \/ InputOf(call[c]) # Meant(call[c]) \/ HasEmpty(call[c])
  PROVE  Steps(c)
<1> DEFINE q == call[c]
           h == InputOf(q)
<1>1. /\ down' = down \cup {q.node} /\ handled' = [handled EXCEPT ![c] = h]
      /\ EndSession(c) /\ decoded' = decoded /\ answer' = answer
  BY DEF NodeDies
<1>2. q \in Requests
  BY DEF Under
<1>3. q.node \in down' /\ down \subseteq down'
  BY <1>1
<1> DEFINE dn == down'
           rd == reading[c]
<1>4. Good(q, h, Nothing, Nothing, Lost, rd, dn)
  <2> HIDE DEF q, dn, rd
  <2>1. q \in Requests /\ q.node \in dn
    BY <1>2, <1>3 DEF dn
  <2>2. q.service = "SETUP_REQUEST" \/ InputOf(q) # Meant(q) \/ HasEmpty(q)
    BY DEF q
  <2> QED BY <2>1, <2>2, DeathIsGood
<1>5. handled'[c] = h /\ \A x \in Callers \ {c} : handled'[x] = handled[x]
  BY <1>1 DEF Tables
<1> HIDE DEF h
<1> QED BY <1>1, <1>3, <1>4, <1>5, EndStep

LEMMA CallStep ==
  ASSUME Apart, Tables, NEW c \in Callers, Call(c) PROVE Steps(c)
<1>1. PICK q \in Calls : call' = [call EXCEPT ![c] = q]
                         /\ wire' = [wire EXCEPT ![c] = RequestText(q)]
  BY DEF Call
<1>2. /\ pc' = [pc EXCEPT ![c] = "sent"] /\ handled' = [handled EXCEPT ![c] = Nothing]
      /\ decoded' = [decoded EXCEPT ![c] = Nothing]
      /\ answer' = [answer EXCEPT ![c] = Nothing] /\ got' = [got EXCEPT ![c] = Nothing]
      /\ reading' = [reading EXCEPT ![c] = Nothing] /\ roster' = roster /\ down' = down
  BY DEF Call
<1>3. /\ call'[c] = q /\ wire'[c] = RequestText(q) /\ pc'[c] = "sent"
      /\ handled'[c] = Nothing /\ decoded'[c] = Nothing /\ answer'[c] = Nothing
      /\ got'[c] = Nothing /\ reading'[c] = Nothing
  BY <1>1, <1>2 DEF Tables
<1>4. Good(call'[c], handled'[c], decoded'[c], answer'[c], got'[c], reading'[c], down')
  BY <1>3, NewIsGood
<1>5. Sent(c)'
  BY <1>3 DEF Sent
<1>6. CallInv(c)'
  BY <1>3, <1>4, <1>5 DEF CallInv
<1>7. \A x \in Callers \ {c} : Leaves(x)
  BY <1>1, <1>2 DEF Leaves, Tables
<1> QED BY <1>6, <1>7 DEF Steps

LEMMA RefuseServiceStep ==
  ASSUME Apart, Tables, NEW c \in Callers, CallInv(c), RefuseService(c) PROVE Steps(c)
<1>1. /\ pc[c] = "sent" /\ UNCHANGED network
      /\ Respond(c, Nothing, Nothing, "root", "ERROR", Nothing,
                 Reason("Invalid request type"))
  BY DEF RefuseService, Serving
<1>2. call[c] \in Requests
  BY <1>1, UnderWay DEF Under
<1>3. Answers(call[c], Nothing, Nothing, "root", "ERROR", Nothing,
              Reason("Invalid request type"), Nothing)
  BY <1>2, RootAnswers
<1> QED BY <1>1, <1>3, AnswerStep

LEMMA DecodingThrowsStep ==
  ASSUME Apart, Tables, NEW c \in Callers, CallInv(c), DecodingThrows(c) PROVE Steps(c)
<1>1. /\ pc[c] = "sent" /\ Input(c) = Throws /\ EndSession(c)
      /\ handled' = [handled EXCEPT ![c] = Throws]
      /\ decoded' = decoded /\ answer' = answer /\ down \subseteq down'
  BY DEF DecodingThrows, Serving
<1>2. Under(c)
  BY <1>1, UnderWay
<1> DEFINE q == call[c]
           dn == down'
           rd == reading[c]
<1>3. Good(q, Throws, Nothing, Nothing, Lost, rd, dn)
  <2>1. q \in Requests /\ InputOf(q) = Throws
    BY <1>1, <1>2 DEF Under
  <2> HIDE DEF q, dn, rd
  <2> QED BY <2>1, ThrowingIsGood
<1>4. handled'[c] = Throws /\ \A x \in Callers \ {c} : handled'[x] = handled[x]
  BY <1>1 DEF Tables
<1> QED BY <1>1, <1>2, <1>3, <1>4, EndStep

LEMMA DisconnectedStep ==
  ASSUME Apart, Tables, NEW c \in Callers, CallInv(c), Disconnected(c) PROVE Steps(c)
<1>1. /\ pc[c] \in {"sent", "reading"} /\ call[c].node \in down /\ EndSession(c)
      /\ handled' = handled /\ decoded' = decoded /\ answer' = answer /\ down' = down
  BY DEF Disconnected, served
<1>2. Under(c)
  BY <1>1, UnderWay
<1>3. handled'[c] = Nothing /\ \A x \in Callers \ {c} : handled'[x] = handled[x]
  BY <1>1, <1>2 DEF Under
<1> DEFINE q == call[c]
           dn == down'
           rd == reading[c]
<1>4. Good(q, Nothing, Nothing, Nothing, Lost, rd, dn)
  <2>1. q.node \in dn
    BY <1>1
  <2> HIDE DEF q, dn, rd
  <2> QED BY <2>1, DisconnectedIsGood
<1>5. down \subseteq down'
  BY <1>1
<1> QED BY <1>1, <1>2, <1>3, <1>4, <1>5, EndStep

LEMMA ReceiveStep ==
  ASSUME Tables, NEW c \in Callers, CallInv(c), Receive(c) PROVE Steps(c)
<1>1. /\ pc[c] = "answered" /\ pc' = [pc EXCEPT ![c] = "idle"]
      /\ wire' = [wire EXCEPT ![c] = Nothing] /\ call' = call
      /\ handled' = handled /\ decoded' = decoded /\ answer' = answer
      /\ roster' = roster /\ reading' = reading /\ down' = down
  BY DEF Receive, served, network
<1>2. PICK g \in Outcomes(call[c], Tail(wire[c])) : got' = [got EXCEPT ![c] = g]
  BY DEF Receive
<1>3. Good(call[c], handled[c], decoded[c], answer[c], g, reading[c], down)
  BY <1>1, <1>2 DEF CallInv, Answered
<1>4. pc'[c] = "idle" /\ got'[c] = g
  BY <1>1, <1>2 DEF Tables
<1>5. CallInv(c)'
  BY <1>1, <1>3, <1>4 DEF CallInv
<1>6. \A x \in Callers \ {c} : Leaves(x)
  BY <1>1, <1>2 DEF Leaves, Tables
<1> QED BY <1>5, <1>6 DEF Steps

\* A handler of the node that the request is for takes it.
LEMMA Taken ==
  ASSUME NEW c \in Callers, CallInv(c), NEW name, Takes(c, name)
  PROVE  /\ pc[c] = "sent" /\ call[c] \in Requests /\ call[c].service = name
         /\ Input(c) = InputOf(call[c]) /\ InputOf(call[c]) # Throws
         /\ call[c].node = name /\ Under(c)
<1>1. /\ pc[c] = "sent" /\ call[c].service = name /\ Input(c) # Throws
      /\ call[c].node = name
  BY DEF Takes, Serving
<1>2. Under(c)
  BY <1>1, UnderWay
<1> QED BY <1>1, <1>2 DEF Under

LEMMA BeaversStep ==
  ASSUME Apart, Tables, NEW c \in Callers, CallInv(c), Beavers(c) PROVE Steps(c)
<1> DEFINE q == call[c]
           input == InputOf(q)
           triplets == Triplets(input.count)
           text == SetupResponse("OK", ServiceResponse("OK", TensorText(triplets)))
<1>1. Takes(c, "SETUP_REQUEST")
  BY DEF Beavers
<1>2. pc[c] = "sent" /\ q \in Requests /\ q.service = "SETUP_REQUEST"
      /\ Input(c) = input /\ input # Throws
  BY <1>1, Taken
<1>3. /\ input.type = "BEAVERS_TRIPLET_REQUEST" /\ UNCHANGED network
      /\ Respond(c, input, Nothing, "service", "OK", triplets, text)
  BY <1>2 DEF Beavers
<1>4. Answers(q, input, Nothing, "service", "OK", triplets, text, Nothing)
  <2> HIDE DEF q
  <2> QED BY <1>2, <1>3, BeaversAnswers
<1> HIDE DEF input, triplets, text
<1> QED BY <1>2, <1>3, <1>4, AnswerStep

LEMMA JoinAsCofheStep ==
  ASSUME Apart, Tables, NEW c \in Callers, CallInv(c), JoinAsCofhe(c), dealt \in Nat
  PROVE  Steps(c)
<1> DEFINE q == call[c]
           input == InputOf(q)
           shares == SharesOf(dealt + 1)
           value == [key |-> Key, shares |-> shares]
           refusal == SetupResponse("OK", JoinRefusal)
           grant == SetupResponse("OK", Granted(Key, shares))
<1>1. Takes(c, "SETUP_REQUEST")
  BY DEF JoinAsCofhe
<1>2. pc[c] = "sent" /\ q \in Requests /\ q.service = "SETUP_REQUEST"
      /\ Input(c) = input /\ input # Throws
  BY <1>1, Taken
<1>3. input.type = "JOIN_AS_NODE_REQUEST"
  BY <1>2 DEF JoinAsCofhe
<1>4. CASE dealt >= Len(NodeShares)
  <2>1. /\ UNCHANGED network
        /\ Respond(c, input, Nothing, "service", "ERROR", Nothing, refusal)
    BY <1>2, <1>4 DEF JoinAsCofhe
  <2>2. Answers(q, input, Nothing, "service", "ERROR", Nothing, refusal, Nothing)
    <3>1. IsText(<<>>)
      BY IsTextIfs
    <3> HIDE DEF q
    <3> QED BY <1>2, <1>3, <3>1, JoinCofheAnswers
  <2> HIDE DEF input, refusal
  <2> QED BY <1>2, <2>1, <2>2, AnswerStep
<1>5. CASE ~ (dealt >= Len(NodeShares))
  <2>1. /\ Enroll(input.join.ip)
        /\ Respond(c, input, Nothing, "service", "OK", value, grant)
    BY <1>2, <1>5 DEF JoinAsCofhe
  <2>2. IsText(shares)
    <3>1. NodeShares \in Seq(Seq(Seq(Int)))
      BY ServicesAssumption
    <3>2. dealt + 1 \in 1..Len(NodeShares)
      BY <1>5, <3>1
    <3>3. NodeShares[dealt + 1] \in Seq(Seq(Int))
      BY <3>1, <3>2
    <3> QED BY <3>3 DEF SharesOf, IsText
  <2>3. Answers(q, input, Nothing, "service", "OK", value, grant, Nothing)
    <3> HIDE DEF q, shares
    <3> QED BY <1>2, <1>3, <2>2, JoinCofheAnswers
  <2>4. \E node : Enroll(node)
    BY <2>1
  <2> HIDE DEF input, value, grant
  <2> QED BY <1>2, <2>1, <2>3, <2>4, AnswerStep
<1> QED BY <1>4, <1>5

LEMMA JoinAsComputeStep ==
  ASSUME Apart, Tables, NEW c \in Callers, CallInv(c), JoinAsCompute(c) PROVE Steps(c)
<1> DEFINE q == call[c]
           input == InputOf(q)
           value == [key |-> <<>>, shares |-> <<>>]
           text == SetupResponse("OK", Admitted)
<1>1. Takes(c, "SETUP_REQUEST")
  BY DEF JoinAsCompute
<1>2. pc[c] = "sent" /\ q \in Requests /\ q.service = "SETUP_REQUEST"
      /\ Input(c) = input /\ input # Throws
  BY <1>1, Taken
<1>3. /\ input.type = "JOIN_AS_NODE_REQUEST" /\ Enroll(input.join.ip)
      /\ Respond(c, input, Nothing, "service", "OK", value, text)
  BY <1>2 DEF JoinAsCompute
<1>4. Answers(q, input, Nothing, "service", "OK", value, text, Nothing)
  <2>1. IsText(<<>>)
    BY IsTextIfs
  <2> HIDE DEF q
  <2> QED BY <1>2, <1>3, <2>1, JoinCofheAnswers
<1>5. \E node : Enroll(node)
  BY <1>3
<1> HIDE DEF input, value, text
<1> QED BY <1>2, <1>3, <1>4, <1>5, AnswerStep

LEMMA BeginDetailsStep ==
  ASSUME Apart, Tables, NEW c \in Callers, CallInv(c), BeginDetails(c) PROVE Steps(c)
<1>1. Takes(c, "SETUP_REQUEST") /\ Input(c).type = "NetworkDetailsRequest"
  BY DEF BeginDetails
<1>2. /\ reading' = [reading EXCEPT ![c] = [roster |-> roster, raced |-> FALSE]]
      /\ pc' = [pc EXCEPT ![c] = "reading"]
      /\ call' = call /\ wire' = wire /\ handled' = handled /\ decoded' = decoded
      /\ answer' = answer /\ got' = got /\ roster' = roster /\ down' = down
  BY DEF BeginDetails, served
<1>3. /\ call[c].service = "SETUP_REQUEST" /\ InputOf(call[c]) # Throws
      /\ InputOf(call[c]).type = "NetworkDetailsRequest" /\ Sent(c)
  <2>1. /\ call[c].service = "SETUP_REQUEST" /\ InputOf(call[c]) # Throws
        /\ Input(c) = InputOf(call[c]) /\ pc[c] = "sent"
    BY <1>1, Taken
  <2> QED BY <1>1, <2>1 DEF CallInv
<1>4. pc'[c] = "reading" /\ reading'[c] = [roster |-> roster, raced |-> FALSE]
  BY <1>2 DEF Tables
<1>5. Sent(c)'
  BY <1>2, <1>3 DEF Sent
<1>6. Reads(c)'
  <2>1. \E s, x : reading'[c] = [roster |-> s, raced |-> x]
                  /\ x \in BOOLEAN /\ (~ x => s = roster')
    BY <1>2, <1>4
  <2> QED BY <1>2, <1>3, <2>1 DEF Reads
<1>7. Good(call'[c], handled'[c], decoded'[c], answer'[c], got'[c], reading'[c], down')
  BY <1>5, NewIsGood DEF Sent
<1>8. CallInv(c)'
  BY <1>4, <1>5, <1>6, <1>7 DEF CallInv
<1>9. \A x \in Callers \ {c} : Leaves(x)
  BY <1>2 DEF Leaves, Tables
<1> QED BY <1>8, <1>9 DEF Steps

LEMMA EndDetailsStep ==
  ASSUME Apart, Tables, NEW c \in Callers, CallInv(c), EndDetails(c) PROVE Steps(c)
<1> DEFINE q == call[c]
           input == InputOf(q)
           rd == reading[c]
<1>1. pc[c] = "reading"
  BY DEF EndDetails
<1>2. Under(c) /\ Reads(c)
  BY <1>1, UnderWay DEF CallInv
<1>3. /\ q \in Requests /\ q \in Calls /\ Input(c) = input /\ got[c] = Nothing
      /\ q.service = "SETUP_REQUEST" /\ input # Throws
      /\ input.type = "NetworkDetailsRequest"
  BY <1>2 DEF Under, Reads
<1>4. CASE NodeDies(c, Input(c))
  <2>1. NodeDies(c, InputOf(call[c])) /\ call[c].service = "SETUP_REQUEST"
    BY <1>3, <1>4
  <2> QED BY <1>2, <2>1, DeathStep
<1>5. ASSUME NEW nodes \in {rd.roster, roster}, UNCHANGED network,
             Respond(c, Input(c), Nothing, "service", "OK", nodes,
                     SetupResponse("OK", DetailsResponse("OK", <<Word(nodes)>>)))
      PROVE  Steps(c)
  <2> DEFINE text == SetupResponse("OK", DetailsResponse("OK", <<Word(nodes)>>))
             s == "OK"
  <2>1. ~ rd.raced => nodes = rd.roster
    <3>1. PICK seen, changed :
            /\ reading[c] = [roster |-> seen, raced |-> changed]
            /\ changed \in BOOLEAN /\ (~ changed => seen = roster)
      BY <1>2 DEF Reads
    <3>2. rd.raced = changed /\ rd.roster = seen
      BY <3>1
    <3> QED BY <1>5, <3>1, <3>2
  <2>2. Answers(q, input, Nothing, "service", "OK", nodes, text, rd)
    <3> HIDE DEF q, rd
    <3>1. "service" = "dispatch" \/ ("OK" = "OK" /\ "service" = "service")
      OBVIOUS
    <3>2. "OK" = "OK" => nodes = nodes
      OBVIOUS
    <3>3. rd # Nothing /\ ~ rd.raced => nodes = rd.roster
      BY <2>1
    <3> QED BY <1>3, <3>1, <3>2, <3>3, DetailsAnswers
  <2>3. Respond(c, input, Nothing, "service", "OK", nodes, text)
    BY <1>3, <1>5
  <2>4. reading' = reading /\ roster' = roster /\ down' = down
    BY <1>5, <2>3 DEF network, Respond
  <2>5. reading'[c] = rd
    BY <2>4
  <2> HIDE DEF text, input, rd
  <2>6. CallInv(c)' /\ \A x \in Callers \ {c} :
           /\ call'[x] = call[x] /\ pc'[x] = pc[x] /\ wire'[x] = wire[x]
           /\ handled'[x] = handled[x] /\ decoded'[x] = decoded[x]
           /\ answer'[x] = answer[x] /\ got'[x] = got[x]
    BY <1>3, <2>2, <2>3, <2>5, AnsweredIsOk
  <2>7. \A x \in Callers \ {c} : Leaves(x)
    BY <2>4, <2>6 DEF Leaves
  <2> QED BY <2>6, <2>7 DEF Steps
<1> QED BY <1>4, <1>5 DEF EndDetails

LEMMA SetDetailsStep ==
  ASSUME Apart, Tables, NEW c \in Callers, CallInv(c), SetDetails(c) PROVE Steps(c)
<1> DEFINE q == call[c]
           input == InputOf(q)
           w == "SET Not Implemented"
           text == SetupResponse("OK", DetailsResponse("OK", <<Word(w)>>))
<1>1. Takes(c, "SETUP_REQUEST")
  BY DEF SetDetails
<1>2. pc[c] = "sent" /\ q \in Requests /\ q.service = "SETUP_REQUEST"
      /\ Input(c) = input /\ input # Throws
  BY <1>1, Taken
<1>3. /\ input.type = "NetworkDetailsRequest" /\ UNCHANGED network
      /\ Respond(c, input, Nothing, "service", "OK", w, text)
  BY <1>2 DEF SetDetails, Reason
<1>4. Answers(q, input, Nothing, "service", "OK", w, text, Nothing)
  <2>1. "service" = "dispatch" \/ ("OK" = "OK" /\ "service" = "service")
    OBVIOUS
  <2>2. "OK" = "OK" => w = w
    OBVIOUS
  <2> DEFINE rd == Nothing
  <2>3. rd # Nothing /\ ~ rd.raced => w = rd.roster
    OBVIOUS
  <2> HIDE DEF q, rd, w
  <2>4. Answers(q, input, Nothing, "service", "OK", w, text, rd)
    BY <1>2, <1>3, <2>1, <2>2, <2>3, DetailsAnswers
  <2> QED BY <2>4 DEF rd
<1> HIDE DEF input, w, text
<1> QED BY <1>2, <1>3, <1>4, AnswerStep

LEMMA RefuseSetupStep ==
  ASSUME Apart, Tables, NEW c \in Callers, CallInv(c), RefuseSetup(c) PROVE Steps(c)
<1> DEFINE q == call[c]
           input == InputOf(q)
           w == "Invalid request type"
<1>1. Takes(c, "SETUP_REQUEST")
  BY DEF RefuseSetup
<1>2. pc[c] = "sent" /\ q \in Requests /\ q.service = "SETUP_REQUEST"
      /\ Input(c) = input /\ input # Throws
  BY <1>1, Taken
<1>3. UNCHANGED network
  BY DEF RefuseSetup
<1>4. CASE /\ input.type \notin SetupTypes
           /\ Respond(c, input, Nothing, "dispatch", "ERROR", Nothing,
                      SetupResponse("ERROR", Reason(w)))
  <2> DEFINE text == SetupResponse("ERROR", Reason(w))
  <2>1. Answers(q, input, Nothing, "dispatch", "ERROR", Nothing, text, Nothing)
    <3> HIDE DEF q, w
    <3> QED BY <1>2, <1>4, OtherSetupAnswers
  <2>2. Respond(c, input, Nothing, "dispatch", "ERROR", Nothing, text)
    BY <1>4
  <2> HIDE DEF input, text
  <2> QED BY <1>2, <1>3, <2>1, <2>2, AnswerStep
<1>5. CASE /\ input.type = "NetworkDetailsRequest"
           /\ Respond(c, input, Nothing, "dispatch", "ERROR", Nothing,
                      SetupResponse("OK", DetailsResponse("ERROR", Reason(w))))
  <2> DEFINE text == SetupResponse("OK", DetailsResponse("ERROR", Reason(w)))
  <2>1. Answers(q, input, Nothing, "dispatch", "ERROR", Nothing, text, Nothing)
    <3> DEFINE rd == Nothing
               by == "dispatch"
               status == "ERROR"
               value == Nothing
               s == "ERROR"
    <3>1. by = "dispatch" \/ (status = "OK" /\ by = "service")
      OBVIOUS
    <3>2. status = "OK" => w = value
      OBVIOUS
    <3>3. rd # Nothing /\ ~ rd.raced => value = rd.roster
      OBVIOUS
    <3>4. input.type = "NetworkDetailsRequest"
      BY <1>5
    <3> HIDE DEF q, w, rd, by, status, value, s
    <3>5. Answers(q, InputOf(q), Nothing, by, status, value,
                  SetupResponse("OK", DetailsResponse(s, <<Word(w)>>)), rd)
      BY <1>2, <3>1, <3>2, <3>3, <3>4, DetailsAnswers
    <3> QED BY <3>5 DEF rd, by, status, value, s, Reason
  <2>2. Respond(c, input, Nothing, "dispatch", "ERROR", Nothing, text)
    BY <1>5
  <2> HIDE DEF input, text
  <2> QED BY <1>2, <1>3, <2>1, <2>2, AnswerStep
<1>6. \/ /\ input.type \notin SetupTypes
         /\ Respond(c, input, Nothing, "dispatch", "ERROR", Nothing,
                    SetupResponse("ERROR", Reason(w)))
      \/ /\ input.type = "NetworkDetailsRequest"
         /\ Respond(c, input, Nothing, "dispatch", "ERROR", Nothing,
                    SetupResponse("OK", DetailsResponse("ERROR", Reason(w))))
  BY <1>2 DEF RefuseSetup
<1> QED BY <1>4, <1>5, <1>6

LEMMA RefuseCofheStep ==
  ASSUME Apart, Tables, NEW c \in Callers, CallInv(c), RefuseCofhe(c) PROVE Steps(c)
<1> DEFINE q == call[c]
           input == InputOf(q)
           text == CofheResponse("ERROR", Reason("Not implemented"))
<1>1. Takes(c, "COFHE_REQUEST")
  BY DEF RefuseCofhe
<1>2. pc[c] = "sent" /\ q \in Requests /\ q.service = "COFHE_REQUEST"
      /\ Input(c) = input /\ input # Throws
  BY <1>1, Taken
<1>3. /\ input.type # "PartialDecryption" /\ UNCHANGED network
      /\ Respond(c, input, Nothing, "dispatch", "ERROR", Nothing, text)
  BY <1>2 DEF RefuseCofhe
<1>4. Answers(q, input, Nothing, "dispatch", "ERROR", Nothing, text, Nothing)
  <2> HIDE DEF q
  <2> QED BY <1>2, <1>3, OtherCofheAnswers
<1> HIDE DEF input, text
<1> QED BY <1>2, <1>3, <1>4, AnswerStep

LEMMA PartialDecryptionStep ==
  ASSUME Apart, Tables, NEW c \in Callers, CallInv(c), PartialDecryption(c) PROVE Steps(c)
<1> DEFINE q == call[c]
           input == InputOf(q)
           type == input.operand.type
           value == ReadValue(type, "CIPHERTEXT", input.operand.data)
           result == PartDecrypted(value, input.share)
           refusal == CofheResponse("OK", ServiceResponse("ERROR", Reason("Refused")))
           text == CofheResponse("OK", ServiceResponse("OK", ValueText(type, result)))
           Known == input.share < KnownShares
           Refused == input.share >= KnownShares \/ type = "TENSOR_ID"
           Decoded == Known /\ type # "TENSOR_ID" /\ value # Dies
<1>1. Takes(c, "COFHE_REQUEST")
  BY DEF PartialDecryption
<1>2. /\ pc[c] = "sent" /\ q \in Requests /\ q.service = "COFHE_REQUEST"
      /\ Input(c) = input /\ input # Throws /\ Under(c)
  BY <1>1, Taken
<1>3. input.type = "PartialDecryption"
  BY <1>2 DEF PartialDecryption
<1>4. /\ Answers(q, input, Nothing, "service", "ERROR", Nothing, refusal, Nothing)
      /\ type # "TENSOR_ID" /\ value # Dies =>
           Answers(q, input, <<value>>, "service", "OK", result, text, Nothing)
      /\ type # "TENSOR_ID" /\ value = Dies => HasEmpty(q)
  <2> HIDE DEF q
  <2> QED BY <1>2, <1>3, PartialAnswers
<1>5. input.share \in Nat /\ KnownShares \in Nat
  <2>1. input.share \in Nat
    <3> HIDE DEF q
    <3> QED BY <1>2, <1>3, PartialInput
  <2> QED BY <2>1, ServicesAssumption
<1>6. CASE Respond(c, input, Nothing, "service", "ERROR", Nothing, refusal)
           /\ UNCHANGED network
  <2> HIDE DEF input, refusal
  <2> QED BY <1>2, <1>4, <1>6, AnswerStep
<1>7. CASE /\ type # "TENSOR_ID" /\ value # Dies
           /\ Respond(c, input, <<value>>, "service", "OK", result, text)
           /\ UNCHANGED network
  <2> DEFINE d == <<value>>
  <2>1. /\ Answers(q, input, d, "service", "OK", result, text, Nothing)
        /\ Respond(c, input, d, "service", "OK", result, text)
    BY <1>4, <1>7
  <2> HIDE DEF input, text, d, result
  <2> QED BY <1>2, <1>7, <2>1, AnswerStep
<1>8. CASE type # "TENSOR_ID" /\ value = Dies /\ NodeDies(c, input)
  <2>1. HasEmpty(call[c]) /\ NodeDies(c, InputOf(call[c]))
    BY <1>4, <1>8
  <2> QED BY <1>2, <2>1, DeathStep
<1>9. (CASE Refused ->
              Respond(c, input, Nothing, "service", "ERROR", Nothing, refusal)
              /\ UNCHANGED network
         [] Decoded ->
              Respond(c, input, <<value>>, "service", "OK", result, text)
              /\ UNCHANGED network
         [] OTHER -> NodeDies(c, input))
  BY <1>2 DEF PartialDecryption
<1>10. Known <=> ~ (input.share >= KnownShares)
  BY <1>5
<1> HIDE DEF text, refusal, result, value, type, input
<1>11. CASE Refused
  <2>1. ~ Decoded
    BY <1>10, <1>11
  <2> QED BY <1>6, <1>9, <1>11, <2>1
<1>12. CASE Decoded
  <2>1. ~ Refused
    BY <1>10, <1>12
  <2> QED BY <1>7, <1>9, <1>12, <2>1
<1>13. CASE ~ Refused /\ ~ Decoded
  <2>1. NodeDies(c, input) /\ type # "TENSOR_ID" /\ value = Dies
    BY <1>9, <1>10, <1>13
  <2> QED BY <1>8, <2>1
<1> QED BY <1>11, <1>12, <1>13

LEMMA ComputeFailsStep ==
  ASSUME Apart, Tables, NEW c \in Callers, CallInv(c), ComputeFails(c) PROVE Steps(c)
<1> DEFINE q == call[c]
           input == InputOf(q)
           text == ServiceResponse("ERROR", Reason("Error"))
<1>1. Takes(c, "COMPUTE_REQUEST")
  BY DEF ComputeFails
<1>2. pc[c] = "sent" /\ q \in Requests /\ q.service = "COMPUTE_REQUEST"
      /\ Input(c) = input
  BY <1>1, Taken
<1>3. /\ UNCHANGED network
      /\ Respond(c, input, Nothing, "service", "ERROR", Nothing, text)
  BY <1>2 DEF ComputeFails
<1>4. Answers(q, input, Nothing, "service", "ERROR", Nothing, text, Nothing)
  <2> HIDE DEF q
  <2> QED BY <1>2, FailureAnswers
<1> HIDE DEF input, text
<1> QED BY <1>2, <1>3, <1>4, AnswerStep

\* The values a compute node decodes, of what was meant or of anything else.
LEMMA ValuesOfInput ==
  ASSUME Apart, NEW c, Input(c) # Throws, call[c] \in Requests,
         call[c].service = "COMPUTE_REQUEST", Input(c) = InputOf(call[c])
  PROVE  LET values == Values(c, Input(c))
         IN  /\ Input(c) = Meant(call[c]) => values = ValuesOf(call[c])
             /\ Input(c) # Meant(call[c]) =>
                  /\ 1 \in DOMAIN values
                  /\ \A i \in DOMAIN values : values[i] = Misread
<1> DEFINE q == call[c]
           input == Input(c)
           values == Values(c, input)
<1>1. values = [i \in DOMAIN input.operands |->
                  IF input = Meant(q)
                  THEN ReadValue(input.operands[i].type, input.operands[i].encryption,
                                 input.operands[i].data)
                  ELSE Misread]
  BY DEF Values
<1>2. ASSUME input = Meant(q) PROVE values = ValuesOf(q)
  <2> HIDE DEF values, input, q
  <2> QED BY <1>1, <1>2 DEF ValuesOf
<1>3. IsText(input.operands) /\ Len(input.operands) \in Nat \ {0}
  BY InputIs
<1>4. ASSUME input # Meant(q)
      PROVE  1 \in DOMAIN values /\ \A i \in DOMAIN values : values[i] = Misread
  <2>1. 1 \in DOMAIN input.operands
    <3>1. PICK C : input.operands \in Seq(C)
      BY <1>3 DEF IsText
    <3> QED BY <1>3, <3>1
  <2> HIDE DEF values, input, q
  <2> QED BY <1>1, <1>4, <2>1
<1> QED BY <1>2, <1>4

LEMMA ComputeStep ==
  ASSUME Apart, Tables, NEW c \in Callers, CallInv(c), Compute(c) PROVE Steps(c)
<1> DEFINE q == call[c]
           input == InputOf(q)
           type == input.operands[1].type
           values == Values(c, input)
           result == Computed(input, values[1])
           text == ServiceResponse("OK", ValueText(type, result))
           n == Numbers(ResultEncryption(q))
           guess == ServiceResponse("OK", ValueText(type,
                      [shape |-> <<1>>, numbers |-> SubSeq(TripletRow, 1, n)]))
           SomeDies == \E i \in DOMAIN values : values[i] = Dies
           SomeMisread == \E i \in DOMAIN values : values[i] = Misread
<1>1. Takes(c, "COMPUTE_REQUEST")
  BY DEF Compute
<1>2. /\ pc[c] = "sent" /\ q \in Requests /\ q.service = "COMPUTE_REQUEST"
      /\ Input(c) = input /\ input # Throws /\ Under(c)
  BY <1>1, Taken
<1>3. Supported(input)
  BY <1>2 DEF Compute
<1>4. /\ input = Meant(q) => values = ValuesOf(q)
      /\ input # Meant(q) =>
           1 \in DOMAIN values /\ \A i \in DOMAIN values : values[i] = Misread
  BY <1>2, ValuesOfInput
<1>5. input = Meant(q) =>
        /\ ~ SomeMisread /\ (SomeDies => HasEmpty(q))
  <2>1. ASSUME input = Meant(q) PROVE Supported(Meant(q))
    BY <1>3, <2>1
  <2>2. ASSUME input = Meant(q)
        PROVE  /\ \A i \in DOMAIN ValuesOf(q) : ValuesOf(q)[i] # Misread
               /\ (\E i \in DOMAIN ValuesOf(q) : ValuesOf(q)[i] = Dies) => HasEmpty(q)
    <3> HIDE DEF q
    <3> QED BY <1>2, <2>1, <2>2, ValuesAre
  <2> HIDE DEF values, input
  <2> QED BY <1>4, <2>2
<1>6. CASE (SomeDies \/ SomeMisread) /\ NodeDies(c, input)
  <2>1. InputOf(call[c]) # Meant(call[c]) \/ HasEmpty(call[c])
    BY <1>5, <1>6
  <2> QED BY <1>2, <1>6, <2>1, DeathStep
<1>7. CASE Respond(c, input, Nothing, "service", "OK", Misread, guess)
           /\ UNCHANGED network
  <2>1. n \in {1, 3, 6}
    <3>1. ResultEncryption(q) \in {"PLAINTEXT", "CIPHERTEXT"}
      BY <1>2 DEF ResultEncryption
    <3> QED BY <3>1, NumbersIs
  <2>2. Answers(q, input, Nothing, "service", "OK", Misread, guess, Nothing)
    <3> HIDE DEF q, n, type
    <3> QED BY <1>2, <2>1, MisreadAnswers
  <2> HIDE DEF input, guess
  <2> QED BY <1>2, <1>7, <2>2, AnswerStep
<1>8. CASE /\ ~ SomeDies /\ ~ SomeMisread /\ UNCHANGED network
           /\ Respond(c, input, values, "service", "OK", result, text)
  <2>1. input = Meant(q)
    BY <1>4, <1>8
  <2>2. values = ValuesOf(q)
    BY <1>4, <2>1
  <2>3. Supported(Meant(q)) /\ \A i \in DOMAIN ValuesOf(q) : ValuesOf(q)[i] # Dies
    BY <1>3, <1>8, <2>1, <2>2
  <2>4. Answers(q, input, values, "service", "OK", result, text, Nothing)
    <3> DEFINE m == Meant(q)
               r == Computed(m, ValuesOf(q)[1])
    <3>1. Answers(q, InputOf(q), ValuesOf(q), "service", "OK", r,
                  ServiceResponse("OK", ValueText(m.operands[1].type, r)), Nothing)
      <4> HIDE DEF q
      <4> QED BY <1>2, <2>3, ResultAnswers
    <3> HIDE DEF q, values, input
    <3> QED BY <2>1, <2>2, <3>1 DEF input
  <2> HIDE DEF input, values, result, text
  <2> QED BY <1>2, <1>8, <2>4, AnswerStep
<1>9. (CASE SomeDies -> NodeDies(c, input)
         [] SomeMisread ->
              \/ NodeDies(c, input)
              \/ /\ Respond(c, input, Nothing, "service", "OK", Misread, guess)
                 /\ UNCHANGED network
         [] OTHER -> /\ Respond(c, input, values, "service", "OK", result, text)
                     /\ UNCHANGED network)
  BY <1>2 DEF Compute
<1>10. ~ (SomeDies /\ SomeMisread)
  <2>1. Misread # Dies
    BY Distinct
  <2>2. CASE input = Meant(q)
    BY <1>5, <2>2
  <2>3. CASE input # Meant(q)
    <3>1. \A i \in DOMAIN values : values[i] = Misread
      BY <1>4, <2>3
    <3> HIDE DEF values
    <3> QED BY <2>1, <3>1
  <2> QED BY <2>2, <2>3
<1> HIDE DEF SomeDies, SomeMisread, values, text, guess, result, input
<1>11. CASE SomeDies
  BY <1>6, <1>9, <1>10, <1>11
<1>12. CASE SomeMisread
  BY <1>6, <1>7, <1>9, <1>10, <1>12
<1>13. CASE ~ SomeDies /\ ~ SomeMisread
  BY <1>8, <1>9, <1>13
<1> QED BY <1>11, <1>12, <1>13

-----------------------------------------------------------------------------
(* The invariant holds, and what follows from it.                          *)

LEMMA StepIsOk ==
  ASSUME Apart, ServicesInv, NEW c \in Callers,
         \/ Call(c) \/ RefuseService(c) \/ DecodingThrows(c) \/ Beavers(c)
         \/ JoinAsCofhe(c) \/ JoinAsCompute(c) \/ BeginDetails(c) \/ EndDetails(c)
         \/ SetDetails(c) \/ RefuseSetup(c) \/ RefuseCofhe(c) \/ PartialDecryption(c)
         \/ ComputeFails(c) \/ Compute(c) \/ Receive(c) \/ Disconnected(c)
  PROVE  Steps(c)
<1>1. Tables /\ CallInv(c) /\ dealt \in Nat
  BY DEF ServicesInv
<1>2. CASE Call(c)
  BY <1>1, <1>2, CallStep
<1>3. CASE RefuseService(c)
  BY <1>1, <1>3, RefuseServiceStep
<1>4. CASE DecodingThrows(c)
  BY <1>1, <1>4, DecodingThrowsStep
<1>5. CASE Beavers(c)
  BY <1>1, <1>5, BeaversStep
<1>6. CASE JoinAsCofhe(c)
  BY <1>1, <1>6, JoinAsCofheStep
<1>7. CASE JoinAsCompute(c)
  BY <1>1, <1>7, JoinAsComputeStep
<1>8. CASE BeginDetails(c)
  BY <1>1, <1>8, BeginDetailsStep
<1>9. CASE EndDetails(c)
  BY <1>1, <1>9, EndDetailsStep
<1>10. CASE SetDetails(c)
  BY <1>1, <1>10, SetDetailsStep
<1>11. CASE RefuseSetup(c)
  BY <1>1, <1>11, RefuseSetupStep
<1>12. CASE RefuseCofhe(c)
  BY <1>1, <1>12, RefuseCofheStep
<1>13. CASE PartialDecryption(c)
  BY <1>1, <1>13, PartialDecryptionStep
<1>14. CASE ComputeFails(c)
  BY <1>1, <1>14, ComputeFailsStep
<1>15. CASE Compute(c)
  BY <1>1, <1>15, ComputeStep
<1>16. CASE Receive(c)
  BY <1>1, <1>16, ReceiveStep
<1>17. CASE Disconnected(c)
  BY <1>1, <1>17, DisconnectedStep
<1> QED BY <1>2, <1>3, <1>4, <1>5, <1>6, <1>7, <1>8, <1>9, <1>10, <1>11, <1>12, <1>13,
           <1>14, <1>15, <1>16, <1>17

\* The invariant is inductive: whoever answers, whatever dies and whoever joins
\* meanwhile, every call is as the four properties say, and so is whatever may
\* still be made of its answer.
THEOREM ServicesInvariant == ASSUME Apart PROVE Spec => []ServicesInv
<1>1. Init => ServicesInv
  <2> SUFFICES ASSUME Init PROVE ServicesInv
    OBVIOUS
  <2>1. Tables /\ dealt \in Nat
    BY DEF Init, Tables
  <2>2. ASSUME NEW c \in Callers PROVE CallInv(c)
    <3>1. /\ pc[c] = "idle" /\ handled[c] = Nothing /\ decoded[c] = Nothing
          /\ answer[c] = Nothing /\ got[c] = Nothing
      BY DEF Init
    <3>2. Good(call[c], handled[c], decoded[c], answer[c], got[c], reading[c], down)
      BY <3>1, NewIsGood
    <3> QED BY <3>1, <3>2 DEF CallInv
  <2> QED BY <2>1, <2>2 DEF ServicesInv
<1>2. ServicesInv /\ [Next]_vars => ServicesInv'
  <2> SUFFICES ASSUME ServicesInv, [Next]_vars PROVE ServicesInv'
    OBVIOUS
  <2>1. ASSUME NEW c \in Callers,
               \/ Call(c) \/ RefuseService(c) \/ DecodingThrows(c) \/ Beavers(c)
               \/ JoinAsCofhe(c) \/ JoinAsCompute(c) \/ BeginDetails(c) \/ EndDetails(c)
               \/ SetDetails(c) \/ RefuseSetup(c) \/ RefuseCofhe(c)
               \/ PartialDecryption(c) \/ ComputeFails(c) \/ Compute(c) \/ Receive(c)
               \/ Disconnected(c)
        PROVE  Tables' /\ \A x \in Callers : CallInv(x)'
    <3>1. Steps(c)
      BY <2>1, StepIsOk
    <3>2. Tables'
      BY <2>1, TablesStay DEF ServicesInv
    <3>3. ASSUME NEW x \in Callers \ {c} PROVE CallInv(x)'
      <4>1. CallInv(x) /\ Leaves(x)
        BY <3>1, <3>3 DEF ServicesInv, Steps
      <4> QED BY <4>1, OthersStay
    <3> QED BY <3>1, <3>2, <3>3 DEF Steps
  <2>2. CASE UNCHANGED vars
    <3>1. Tables' /\ dealt' \in Nat
      BY <2>2 DEF vars, ServicesInv, Tables
    <3>2. ASSUME NEW x \in Callers PROVE CallInv(x)'
      <4>1. CallInv(x) /\ Leaves(x)
        BY <2>2 DEF vars, ServicesInv, Leaves
      <4> QED BY <4>1, OthersStay
    <3> QED BY <3>1, <3>2 DEF ServicesInv
  <2>3. CASE Next
    <3>1. dealt' \in Nat
      BY <2>3, DealtStays DEF ServicesInv
    <3>2. CASE Finished
      BY <2>2, <3>2 DEF Finished
    <3> QED BY <2>1, <2>3, <3>1, <3>2 DEF Next, ServicesInv
  <2> QED BY <2>2, <2>3
<1> QED BY <1>1, <1>2, PTL DEF Spec

LEMMA InvariantSays ==
  ASSUME ServicesInv, NEW c \in Callers
  PROVE  Good(call[c], handled[c], decoded[c], answer[c], got[c], reading[c], down)
BY DEF ServicesInv, CallInv

\* What a handler of any node is given is what the caller meant, through every
\* layer, but for the white space that ComputeOperationOperand::from_string
\* skips and the size that an int cannot say (request_response.hpp:283).
THEOREM RequestsAreHandledAsSent == ASSUME Apart PROVE Spec => []HandledAsSent
<1>1. ServicesInv => HandledAsSent
  <2> SUFFICES ASSUME ServicesInv, NEW c \in Callers, handled[c] # Nothing
               PROVE  HandledOk(call[c], handled[c])
    BY DEF HandledAsSent, HandledOk
  <2> QED BY InvariantSays DEF Good
<1> QED BY <1>1, ServicesInvariant, PTL

\* A caller is told ERROR exactly when the service it asked refused; what a
\* dispatch refuses is told as OK, and what the root refuses is never told.
THEOREM RefusalsAreTold == ASSUME Apart PROVE Spec => []RefusalsTold
<1>1. ServicesInv => RefusalsTold
  <2> SUFFICES ASSUME ServicesInv, NEW c \in Callers PROVE ToldOk(answer[c], got[c])
    BY DEF RefusalsTold, ToldOk
  <2> QED BY InvariantSays DEF Good
<1> QED BY <1>1, ServicesInvariant, PTL

\* What a service answers arrives whole, whoever joins or dies meanwhile, and
\* an answer is lost only for the three reasons there are.
THEOREM EveryAnswerArrives == ASSUME Apart PROVE Spec => []AnswersArrive
<1>1. ServicesInv => AnswersArrive
  <2> SUFFICES ASSUME ServicesInv, NEW c \in Callers
               PROVE  ArrivesOk(call[c], handled[c], answer[c], got[c], reading[c], down)
    BY DEF AnswersArrive, ArrivesOk, Delivered
  <2> QED BY InvariantSays DEF Good
<1> QED BY <1>1, ServicesInvariant, PTL

\* A node decodes the numbers and the shape that the caller encoded, whatever
\* their size and sign, and dies decoding only what has no elements or is not
\* what was sent.
THEOREM EveryTensorSurvives == ASSUME Apart PROVE Spec => []TensorsSurvive
<1>1. ServicesInv => TensorsSurvive
  <2> SUFFICES ASSUME ServicesInv, NEW c \in Callers
               PROVE  SurvivesOk(call[c], handled[c], decoded[c], answer[c], got[c])
    BY DEF TensorsSurvive, SurvivesOk, DecodedOf, HasEmpty, OperandsOf
  <2> QED BY InvariantSays DEF Good
<1> QED BY <1>1, ServicesInvariant, PTL
=============================================================================
