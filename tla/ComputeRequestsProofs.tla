----------------------- MODULE ComputeRequestsProofs -----------------------
(***************************************************************************)
(* Theorems about ComputeRequests, for every set of threads, requests and  *)
(* masks, every modulus and every number of calls: ImplementsService, for  *)
(* requests whose plaintexts are numbers and vectors, ServesWhatIsMeant,   *)
(* for those too, DeletesWhatIsThere and MasksOnce.                        *)
(*                                                                         *)
(* The first three follow from one invariant of a thread, ThreadOK: what   *)
(* it knows of its request at each point, and which objects it holds.      *)
(* They need the arithmetic: remainders, finite sums, and that a product   *)
(* of matrices put together from flattened products is the product by      *)
(* rows and columns.  MasksOnce needs to be known of the triplets that     *)
(* threads hold: they were numbered, each is held once, by one thread, and *)
(* what it still has to mask it has not masked yet.                        *)
(***************************************************************************)
EXTENDS ComputeRequests, TLAPS, FiniteSetTheorems, SequenceTheorems,
        WellFoundedInduction

-----------------------------------------------------------------------------
(* Remainders and sums.                                                    *)

LEMMA Division ==
  ASSUME NEW a \in Int, NEW n \in Nat \ {0}
  PROVE  /\ a % n \in 0..(n - 1)
         /\ a \div n \in Int
         /\ a = n * (a \div n) + (a % n)
  OBVIOUS

LEMMA Distribution ==
  ASSUME NEW n \in Int, NEW k \in Int, NEW l \in Int
  PROVE  n * (k + l) = (n * k) + (n * l) /\ n * (k - l) = (n * k) - (n * l)
  OBVIOUS

LEMMA SmallMultiple ==
  ASSUME NEW n \in Nat \ {0}, NEW k \in Int, -n < n * k, n * k < n
  PROVE  k = 0
<1>1. CASE k >= 1
  <2>1. n * k >= n
    BY <1>1
  <2> QED
    BY <2>1
<1>2. CASE k <= -1
  <2>1. n * k <= -n
    BY <1>2
  <2> QED
    BY <2>1
<1> QED
  BY <1>1, <1>2

LEMMA Remainder ==
  ASSUME NEW n \in Nat \ {0}, NEW q \in Int, NEW r \in 0..(n - 1), NEW a \in Int,
         a = n * q + r
  PROVE  a % n = r /\ a \div n = q
<1> DEFINE k == (a \div n) - q
<1>1. /\ a % n \in 0..(n - 1)
      /\ a \div n \in Int
      /\ a = n * (a \div n) + (a % n)
  BY Division
<1>2. n * k = (n * (a \div n)) - (n * q)
  BY <1>1, Distribution
<1>3. n * k = r - (a % n)
  <2> DEFINE u == n * (a \div n)
             v == n * q
             m == n * k
             rest == a % n
  <2>1. /\ a = u + rest /\ a = v + r /\ m = u - v
        /\ u \in Int /\ v \in Int /\ rest \in Int
    BY <1>1, <1>2
  <2> HIDE DEF u, v, m, rest
  <2>2. m = r - rest
    BY <2>1
  <2> QED
    BY <2>2 DEF m, rest
<1>4. k \in Int /\ -n < n * k /\ n * k < n
  BY <1>1, <1>3
<1>5. k = 0
  BY <1>4, SmallMultiple
<1> QED
  BY <1>1, <1>5

Congruent(a, b, n) == \E k \in Int : a = b + n * k

LEMMA CongruentRemainders ==
  ASSUME NEW n \in Nat \ {0}, NEW a \in Int, NEW b \in Int, Congruent(a, b, n)
  PROVE  a % n = b % n
<1>1. PICK k \in Int : a = b + n * k
  BY DEF Congruent
<1>2. /\ b % n \in 0..(n - 1)
      /\ b \div n \in Int
      /\ b = n * (b \div n) + (b % n)
  BY Division
<1>3. n * ((b \div n) + k) = n * (b \div n) + n * k
  BY <1>2
<1>4. a = n * ((b \div n) + k) + (b % n)
  BY <1>1, <1>2, <1>3
<1>5. (b \div n) + k \in Int
  BY <1>2
<1> QED
  BY <1>2, <1>4, <1>5, Remainder

LEMMA RemainderCongruent ==
  ASSUME NEW n \in Nat \ {0}, NEW a \in Int
  PROVE  a % n \in Int /\ Congruent(a % n, a, n)
<1>1. /\ a % n \in 0..(n - 1)
      /\ a \div n \in Int
      /\ a = n * (a \div n) + (a % n)
  BY Division
<1>2. a % n = a + (n * (0 - (a \div n)))
  <2> DEFINE q == a \div n
  <2>1. q \in Int /\ a % n = a - (n * q)
    BY <1>1
  <2>2. n * (0 - q) = 0 - (n * q)
    BY <1>1
  <2> QED
    BY <2>1, <2>2
<1>3. 0 - (a \div n) \in Int /\ a % n \in Int
  BY <1>1
<1> QED
  BY <1>2, <1>3 DEF Congruent

LEMMA CongruentSums ==
  ASSUME NEW n \in Nat \ {0}, NEW a \in Int, NEW b \in Int, NEW c \in Int, NEW d \in Int,
         Congruent(a, b, n), Congruent(c, d, n)
  PROVE  Congruent(a + c, b + d, n)
<1>1. PICK k \in Int : a = b + n * k
  BY DEF Congruent
<1>2. PICK l \in Int : c = d + n * l
  BY DEF Congruent
<1>3. a + c = (b + d) + (n * (k + l))
  BY <1>1, <1>2, Distribution
<1>4. k + l \in Int
  OBVIOUS
<1> QED
  BY <1>3, <1>4 DEF Congruent

LEMMA CongruentProducts ==
  ASSUME NEW n \in Nat \ {0}, NEW a \in Int, NEW b \in Int, NEW c \in Int, NEW d \in Int,
         Congruent(a, b, n), Congruent(c, d, n)
  PROVE  Congruent(a * c, b * d, n)
<1>1. PICK k \in Int : a = b + n * k
  BY DEF Congruent
<1>2. PICK l \in Int : c = d + n * l
  BY DEF Congruent
<1>3. a * c = (b * d) + n * (b * l + k * d + k * (n * l))
  BY <1>1, <1>2
<1>4. b * l + k * d + k * (n * l) \in Int
  OBVIOUS
<1> QED
  BY <1>3, <1>4 DEF Congruent

LEMMA SetInduction ==
  ASSUME NEW S, 0 \in S, \A n \in Nat : n \in S => n + 1 \in S
  PROVE  Nat \subseteq S
<1> DEFINE T == Nat \ S
<1>1. SUFFICES ASSUME T # {} PROVE FALSE
  OBVIOUS
<1> DEFINE R == OpToRel(<, Nat)
<1>2. T \subseteq Nat
  OBVIOUS
<1>3. \E x \in T : \A y \in T : ~ (<<y, x>> \in R)
  <2> HIDE DEF T
  <2>1. IsWellFoundedOn(R, Nat)
    BY NatLessThanWellFounded
  <2> HIDE DEF R
  <2>2. QED
    BY <1>1, <1>2, <2>1, WFMin
<1>4. PICK x \in T : \A y \in T : ~ (<<y, x>> \in R)
  BY <1>3
<1>5. \A y \in T : ~(y < x)
  BY <1>4 DEF OpToRel
<1>6. x \in Nat /\ x # 0 /\ x \notin S
  BY <1>4
<1>7. x - 1 \in Nat /\ x = (x - 1) + 1 /\ x - 1 < x
  BY <1>6
<1>8. x - 1 \in T
  BY <1>6, <1>7
<1>9. QED
  BY <1>5, <1>7, <1>8

Choice(s) == CHOOSE x \in s : TRUE
SumStep(g, F, s) == IF s = {} THEN 0 ELSE F[Choice(s)] + g[s \ {Choice(s)}]
IsSum(g, F, S) == g = [s \in SUBSET S |-> SumStep(g, F, s)]


LEMMA SumExists ==
  ASSUME NEW F, NEW S, IsFiniteSet(S)
  PROVE  \E g : IsSum(g, F, S)
<1> DEFINE Small(n) == {s \in SUBSET S : Cardinality(s) <= n}
           Known == {n \in Nat : \E g : g = [s \in Small(n) |-> SumStep(g, F, s)]}
<1>1. \A s \in SUBSET S : IsFiniteSet(s) /\ Cardinality(s) \in Nat
  BY FS_Subset, FS_CardinalityType
<1>2. \A s \in SUBSET S : s # {} =>
        /\ Choice(s) \in s
        /\ s \ {Choice(s)} \in SUBSET S
        /\ Cardinality(s \ {Choice(s)}) = Cardinality(s) - 1
  BY <1>1, FS_RemoveElement DEF Choice
<1>3. 0 \in Known
  <2> DEFINE g == [s \in Small(0) |-> 0]
  <2>1. \A s \in Small(0) : s = {}
    BY <1>1, FS_EmptySet
  <2>2. g = [s \in Small(0) |-> SumStep(g, F, s)]
    BY <2>1 DEF SumStep
  <2> QED
    BY <2>2
<1>4. ASSUME NEW n \in Nat, n \in Known PROVE n + 1 \in Known
  <2>1. PICK g : g = [s \in Small(n) |-> SumStep(g, F, s)]
    BY <1>4
  <2> DEFINE h == [s \in Small(n + 1) |-> SumStep(g, F, s)]
  <2>2. \A s \in Small(n) : h[s] = g[s]
    <3> SUFFICES ASSUME NEW s \in Small(n) PROVE h[s] = g[s]
      OBVIOUS
    <3>1. s \in Small(n + 1)
      BY <1>1
    <3>2. h[s] = SumStep(g, F, s)
      BY <3>1
    <3>3. g[s] = SumStep(g, F, s)
      BY <2>1
    <3> QED
      BY <3>2, <3>3
  <2>3. \A s \in Small(n + 1) : SumStep(h, F, s) = SumStep(g, F, s)
    <3>1. \A s \in Small(n + 1) : s # {} => s \ {Choice(s)} \in Small(n)
      BY <1>1, <1>2
    <3>2. \A s \in Small(n + 1) : s # {} => h[s \ {Choice(s)}] = g[s \ {Choice(s)}]
      BY <2>2, <3>1
    <3> HIDE DEF h, Small
    <3> QED
      BY <3>2 DEF SumStep
  <2>4. h = [s \in Small(n + 1) |-> SumStep(h, F, s)]
    BY <2>3
  <2> HIDE DEF h, Small
  <2>5. \E f : f = [s \in Small(n + 1) |-> SumStep(f, F, s)]
    BY <2>4
  <2> QED
    BY <2>5
<1>5. Cardinality(S) \in Known
  <2> HIDE DEF Known
  <2>1. Nat \subseteq Known
    BY <1>3, <1>4, SetInduction
  <2> QED
    BY <1>1, <2>1
<1>6. Small(Cardinality(S)) = SUBSET S
  BY <1>1, FS_Subset
<1> QED
  BY <1>5, <1>6 DEF IsSum

LEMMA SumIsOne ==
  ASSUME NEW F, NEW S, IsFiniteSet(S), NEW g, NEW h, IsSum(g, F, S), IsSum(h, F, S)
  PROVE  g = h
<1> DEFINE Same == {n \in Nat : \A s \in SUBSET S : Cardinality(s) = n => g[s] = h[s]}
<1>1. \A s \in SUBSET S : IsFiniteSet(s) /\ Cardinality(s) \in Nat
  BY FS_Subset, FS_CardinalityType
<1>2. \A s \in SUBSET S : s # {} =>
        /\ s \ {Choice(s)} \in SUBSET S
        /\ Cardinality(s \ {Choice(s)}) = Cardinality(s) - 1
  BY <1>1, FS_RemoveElement DEF Choice
<1>3. \A s \in SUBSET S : g[s] = SumStep(g, F, s) /\ h[s] = SumStep(h, F, s)
  BY DEF IsSum
<1>4. 0 \in Same
  BY <1>1, <1>3, FS_EmptySet DEF SumStep
<1>5. ASSUME NEW n \in Nat, n \in Same PROVE n + 1 \in Same
  <2> SUFFICES ASSUME NEW s \in SUBSET S, Cardinality(s) = n + 1 PROVE g[s] = h[s]
    OBVIOUS
  <2>1. s # {}
    BY FS_EmptySet
  <2>2. s \ {Choice(s)} \in SUBSET S /\ Cardinality(s \ {Choice(s)}) = n
    BY <1>2, <2>1
  <2>3. g[s \ {Choice(s)}] = h[s \ {Choice(s)}]
    BY <1>5, <2>2
  <2> QED
    BY <1>3, <2>1, <2>3 DEF SumStep
<1>6. Nat \subseteq Same
  <2> HIDE DEF Same
  <2> QED
    BY <1>4, <1>5, SetInduction
<1>7. \A s \in SUBSET S : g[s] = h[s]
  BY <1>1, <1>6
<1> QED
  BY <1>7 DEF IsSum

LEMMA TotalIs ==
  ASSUME NEW F, NEW S, IsFiniteSet(S), NEW g, IsSum(g, F, S)
  PROVE  SumFunctionOnSet(F, S) = g[S]
<1>1. \A h : IsSum(h, F, S) => h = g
  BY SumIsOne
<1>2. g = CHOOSE h : IsSum(h, F, S)
  BY <1>1
<1> QED
  BY <1>2 DEF SumFunctionOnSet, FoldFunctionOnSet, MapThenFoldSet, IsSum, SumStep, Choice

\* The sum over a set, one element of the library's choice first.
LEMMA TotalUnfolds ==
  ASSUME NEW F, NEW S, IsFiniteSet(S)
  PROVE  /\ S = {} => SumFunctionOnSet(F, S) = 0
         /\ S # {} => /\ Choice(S) \in S
                      /\ SumFunctionOnSet(F, S) = F[Choice(S)] + SumFunctionOnSet(F, S \ {Choice(S)})
<1>1. PICK g : IsSum(g, F, S)
  BY SumExists
<1>2. SumFunctionOnSet(F, S) = SumStep(g, F, S)
  <2>1. g[S] = SumStep(g, F, S)
    BY <1>1 DEF IsSum
  <2> QED
    BY <1>1, <2>1, TotalIs
<1>3. CASE S = {}
  BY <1>2, <1>3 DEF SumStep
<1>4. CASE S # {}
  <2> DEFINE R == S \ {Choice(S)}
             h == [s \in SUBSET R |-> g[s]]
  <2>1. Choice(S) \in S
    BY <1>4 DEF Choice
  <2>2. IsFiniteSet(R)
    BY FS_RemoveElement
  <2>3. IsSum(h, F, R)
    <3>1. \A s \in SUBSET R : h[s] = SumStep(g, F, s)
      BY <1>1 DEF IsSum
    <3>2. \A s \in SUBSET R : SumStep(h, F, s) = SumStep(g, F, s)
      BY DEF SumStep
    <3> QED
      BY <3>1, <3>2 DEF IsSum
  <2>4. SumFunctionOnSet(F, R) = g[R]
    BY <2>2, <2>3, TotalIs
  <2> QED
    BY <1>2, <1>4, <2>1, <2>4 DEF SumStep
<1> QED
  BY <1>3, <1>4

LEMMA TotalType ==
  ASSUME NEW F, NEW S, IsFiniteSet(S), \A x \in S : F[x] \in Int
  PROVE  SumFunctionOnSet(F, S) \in Int
<1> DEFINE Done == {n \in Nat : \A s \in SUBSET S : Cardinality(s) = n => SumFunctionOnSet(F, s) \in Int}
<1>1. \A s \in SUBSET S : IsFiniteSet(s) /\ Cardinality(s) \in Nat
  BY FS_Subset, FS_CardinalityType
<1>2. 0 \in Done
  <2>1. \A s \in SUBSET S : Cardinality(s) = 0 => s = {}
    BY <1>1, FS_EmptySet
  <2>2. SumFunctionOnSet(F, {}) = 0
    BY FS_EmptySet, TotalUnfolds
  <2> QED
    BY <2>1, <2>2
<1>3. ASSUME NEW n \in Nat, n \in Done PROVE n + 1 \in Done
  <2> SUFFICES ASSUME NEW s \in SUBSET S, Cardinality(s) = n + 1 PROVE SumFunctionOnSet(F, s) \in Int
    OBVIOUS
  <2>1. s # {}
    BY FS_EmptySet
  <2>2. /\ Choice(s) \in s
        /\ SumFunctionOnSet(F, s) = F[Choice(s)] + SumFunctionOnSet(F, s \ {Choice(s)})
    BY <1>1, <2>1, TotalUnfolds
  <2>3. Cardinality(s \ {Choice(s)}) = n
    <3>1. IsFiniteSet(s) /\ Choice(s) \in s
      BY <1>1, <2>2
    <3>2. Cardinality(s \ {Choice(s)}) = Cardinality(s) - 1
      BY <3>1, FS_RemoveElement
    <3> QED
      BY <3>2
  <2>4. SumFunctionOnSet(F, s \ {Choice(s)}) \in Int
    BY <1>3, <2>3
  <2> QED
    BY <2>2, <2>4
<1>4. Nat \subseteq Done
  <2> HIDE DEF Done
  <2> QED
    BY <1>2, <1>3, SetInduction
<1> QED
  BY <1>1, <1>4

\* The sum over a set, any element first.
LEMMA TotalAnyFirst ==
  ASSUME NEW F, NEW S, IsFiniteSet(S), \A x \in S : F[x] \in Int, NEW x \in S
  PROVE  SumFunctionOnSet(F, S) = F[x] + SumFunctionOnSet(F, S \ {x})
<1> DEFINE Done == {n \in Nat : \A s \in SUBSET S : Cardinality(s) = n =>
                      \A y \in s : SumFunctionOnSet(F, s) = F[y] + SumFunctionOnSet(F, s \ {y})}
<1>1. \A s \in SUBSET S : /\ IsFiniteSet(s) /\ Cardinality(s) \in Nat
                          /\ SumFunctionOnSet(F, s) \in Int
  BY FS_Subset, FS_CardinalityType, TotalType
<1>2. 0 \in Done
  BY <1>1, FS_EmptySet
<1>3. ASSUME NEW n \in Nat, n \in Done PROVE n + 1 \in Done
  <2> SUFFICES ASSUME NEW s \in SUBSET S, Cardinality(s) = n + 1, NEW y \in s
               PROVE  SumFunctionOnSet(F, s) = F[y] + SumFunctionOnSet(F, s \ {y})
    OBVIOUS
  <2> DEFINE c == Choice(s)
             both == (s \ {c}) \ {y}
  <2>1. c \in s /\ SumFunctionOnSet(F, s) = F[c] + SumFunctionOnSet(F, s \ {c})
    BY <1>1, TotalUnfolds
  <2> HIDE DEF c
  <2>2. CASE y = c
    BY <2>1, <2>2
  <2>3. CASE y # c
    <3>1. Cardinality(s \ {c}) = n /\ Cardinality(s \ {y}) = n
      BY <1>1, <2>1, FS_RemoveElement
    <3>2. SumFunctionOnSet(F, s \ {c}) = F[y] + SumFunctionOnSet(F, both)
      BY <1>3, <2>3, <3>1
    <3>3. SumFunctionOnSet(F, s \ {y}) = F[c] + SumFunctionOnSet(F, both)
      <4>1. both = (s \ {y}) \ {c}
        OBVIOUS
      <4> QED
        BY <1>3, <2>1, <2>3, <3>1, <4>1
    <3>4. SumFunctionOnSet(F, both) \in Int /\ F[y] \in Int /\ F[c] \in Int
      BY <1>1, <2>1
    <3> QED
      BY <2>1, <3>2, <3>3, <3>4
  <2> QED
    BY <2>2, <2>3
<1>4. Nat \subseteq Done
  <2> HIDE DEF Done
  <2> QED
    BY <1>2, <1>3, SetInduction
<1> QED
  BY <1>1, <1>4

-----------------------------------------------------------------------------
(* Operands.                                                               *)

Good(v) == v \in Tensors /\ IsFull(v)

LEMMA SingletonShape ==
  ASSUME NEW n \in Nat \ {0}
  PROVE  /\ <<n>> \in Seq(Nat \ {0})
         /\ Len(<<n>>) = 1 /\ <<n>>[1] = n
         /\ <<n>> # <<>>
  OBVIOUS

LEMMA GoodSize ==
  ASSUME NEW v, Good(v)
  PROVE  /\ v.shape \in Seq(Nat \ {0}) /\ v.data \in Seq(Nat)
         /\ Size(v) \in Nat \ {0} /\ DOMAIN v.data = 1..Size(v)
         /\ Rank(v) \in Nat
         /\ v = [shape |-> v.shape, data |-> v.data]
<1>1. v.shape \in Seq(Nat \ {0}) /\ v.data \in Seq(Nat)
      /\ v = [shape |-> v.shape, data |-> v.data]
  BY DEF Good, Tensors
<1>2. v.data # <<>>
  BY DEF Good, IsFull
<1>3. Len(v.data) \in Nat \ {0}
  BY <1>1, <1>2
<1> QED
  BY <1>1, <1>3 DEF Size, Rank

LEMMA NoDimension ==
  ASSUME NEW v, Good(v), Rank(v) < 2
  PROVE  v.shape = <<>> \/ (Len(v.shape) = 1 /\ v.shape # <<>>)
<1>1. v.shape \in Seq(Nat \ {0}) /\ Rank(v) \in Nat
  BY GoodSize
<1>2. Rank(v) = 0 \/ Rank(v) = 1
  BY <1>1
<1>3. Rank(v) = 0 => v.shape = <<>>
  BY <1>1, EmptySeq DEF Rank
<1>4. Rank(v) = 1 => v.shape # <<>>
  BY EmptySeq DEF Rank
<1> QED
  BY <1>2, <1>3, <1>4 DEF Rank

LEMMA GoodDecoded ==
  ASSUME NEW o \in Operands, IsFull(o.value)
  PROVE  /\ Good(Decoded(o))
         /\ Decoded(o).data = o.value.data
         /\ (Decoded(o).shape = <<>>) <=> (o.value.shape = <<>>)
         /\ Rank(o.value) < 2 => Decoded(o) = o.value
         /\ o.encryption = "CIPHERTEXT" => Decoded(o) = o.value
         /\ o.encryption # "CIPHERTEXT" => Rank(Decoded(o)) < 2
<1> DEFINE v == o.value
           n == Size(v)
<1>1. Good(v)
  BY DEF Good, Operands
<1>2. /\ v.shape \in Seq(Nat \ {0}) /\ v.data \in Seq(Nat)
      /\ n \in Nat \ {0} /\ Rank(v) \in Nat
      /\ v = [shape |-> v.shape, data |-> v.data]
  BY <1>1, GoodSize
<1>3. CASE o.encryption = "CIPHERTEXT"
  BY <1>1, <1>3 DEF Decoded
<1>4. CASE o.encryption # "CIPHERTEXT" /\ v.shape = <<>>
  BY <1>1, <1>2, <1>4 DEF Decoded, DecodedPlaintext, Rank
<1>5. CASE o.encryption # "CIPHERTEXT" /\ v.shape # <<>>
  <2> DEFINE w == [shape |-> <<n>>, data |-> v.data]
  <2>1. Decoded(o) = w
    BY <1>2, <1>5 DEF Decoded, DecodedPlaintext, Flattened
  <2>2. w.shape = <<n>> /\ w.data = v.data
    OBVIOUS
  <2>3. w \in Tensors
    BY <1>2, SingletonShape DEF Tensors
  <2>4. IsFull(w)
    <3>1. v.data # <<>>
      BY DEF IsFull
    <3>2. Len(w.data) = n
      BY DEF Size
    <3> QED
      BY <1>2, <2>2, <3>1, <3>2, SingletonShape DEF IsFull
  <2>5. Rank(w) = 1
    BY <1>2, <2>2, SingletonShape DEF Rank
  <2>6. Rank(v) < 2 => w = v
    <3> SUFFICES ASSUME Rank(v) < 2 PROVE v.shape = <<n>>
      BY <1>2
    <3>1. Len(v.shape) = 1
      BY <1>1, <1>5, NoDimension
    <3>2. v.shape[1] = n
      BY <3>1 DEF IsFull, Size
    <3> QED
      BY <1>2, <3>1, <3>2, SingletonShape
  <2> HIDE DEF w, v
  <2>7. w.shape # <<>>
    BY <1>2, <2>2, SingletonShape
  <2> QED
    BY <1>5, <2>1, <2>2, <2>3, <2>4, <2>5, <2>6, <2>7 DEF Good, v
<1> QED
  BY <1>3, <1>4, <1>5

\* An accepted request has an operand, or two of one type.
LEMMA OperandsOf ==
  ASSUME NEW r \in Requests, Accepted(r)
  PROVE  /\ First(r) \in Operands /\ IsFull(First(r).value)
         /\ (First(r).type = "SINGLE") <=> (First(r).value.shape = <<>>)
         /\ Len(r.operands) = 2 =>
              /\ Second(r) \in Operands /\ IsFull(Second(r).value)
              /\ (Second(r).type = "SINGLE") <=> (Second(r).value.shape = <<>>)
              /\ First(r).value.shape = Second(r).value.shape =>
                   Size(First(r).value) = Size(Second(r).value)
<1>1. /\ r.operands \in Seq(Operands)
      /\ \A o \in Range(r.operands) :
           IsFull(o.value) /\ (o.type = "SINGLE" <=> o.value.shape = <<>>)
      /\ \A o, p \in Range(r.operands) :
           o.value.shape = p.value.shape => Len(o.value.data) = Len(p.value.data)
  BY RequestAssumption
<1>2. Len(r.operands) = 1 \/ Len(r.operands) = 2
  BY DEF Accepted
<1>3. 1 \in DOMAIN r.operands /\ (Len(r.operands) = 2 => 2 \in DOMAIN r.operands)
  BY <1>1, <1>2
<1>4. First(r) \in Range(r.operands) /\ (Len(r.operands) = 2 => Second(r) \in Range(r.operands))
  BY <1>3 DEF Range, First, Second
<1>5. First(r) \in Operands /\ (Len(r.operands) = 2 => Second(r) \in Operands)
  BY <1>1, <1>3 DEF First, Second
<1> QED
  BY <1>1, <1>4, <1>5 DEF Size

IsBinary(r) == r \in Requests /\ Accepted(r) /\ ~ IsDecryption(r)

\* The operands of a request as the handler has them.
LEMMA DecodedFirst ==
  ASSUME NEW r \in Requests, Accepted(r)
  PROVE  /\ Good(X(r))
         /\ IsSingle(r) <=> X(r).shape = <<>>
         /\ First(r).encryption = "CIPHERTEXT" => X(r) = First(r).value
         /\ First(r).encryption # "CIPHERTEXT" => Rank(X(r)) < 2
         /\ Rank(First(r).value) < 2 => X(r) = First(r).value
  BY OperandsOf, GoodDecoded DEF X, IsSingle

LEMMA DecodedSecond ==
  ASSUME NEW r, IsBinary(r)
  PROVE  /\ Good(Y(r))
         /\ Len(r.operands) = 2
         /\ IsSingle(r) <=> Y(r).shape = <<>>
         /\ Second(r).encryption = "CIPHERTEXT" => Y(r) = Second(r).value
         /\ Second(r).encryption # "CIPHERTEXT" => Rank(Y(r)) < 2
         /\ Rank(Second(r).value) < 2 => Y(r) = Second(r).value
<1>1. Len(r.operands) = 2 /\ First(r).type = Second(r).type
  BY DEF IsBinary, Accepted, IsDecryption
<1> QED
  BY <1>1, OperandsOf, GoodDecoded DEF Y, IsSingle, IsBinary

\* Tensors of one or no dimension are as long as their shape says.
LEMMA SameVectors ==
  ASSUME NEW v, NEW w, Good(v), Good(w), v.shape = w.shape, Rank(v) < 2
  PROVE  Size(v) = Size(w)
<1>1. v.shape = <<>> \/ Len(v.shape) = 1
  BY NoDimension
<1> QED
  BY <1>1 DEF Good, IsFull, Size

LEMMA SameSizes ==
  ASSUME NEW r, IsBinary(r), X(r).shape = Y(r).shape
  PROVE  Size(X(r)) = Size(Y(r))
<1>1. Good(X(r)) /\ Good(Y(r))
  BY DecodedFirst, DecodedSecond DEF IsBinary
<1>2. CASE Rank(X(r)) < 2
  BY <1>1, <1>2, SameVectors
<1>3. CASE ~ (Rank(X(r)) < 2)
  <2>1. ~ (Rank(Y(r)) < 2)
    BY <1>3 DEF Rank
  <2>2. X(r) = First(r).value /\ Y(r) = Second(r).value
    BY <1>3, <2>1, DecodedFirst, DecodedSecond DEF IsBinary
  <2> QED
    BY <2>2, OperandsOf, DecodedSecond DEF IsBinary
<1> QED
  BY <1>2, <1>3

-----------------------------------------------------------------------------
(* Places in a product of matrices.                                        *)

LEMMA SmallRemainder ==
  ASSUME NEW n \in Nat \ {0}, NEW i \in 0..(n - 1)
  PROVE  i % n = i
<1>1. i = (n * 0) + i
  OBVIOUS
<1> QED
  BY <1>1, Remainder

\* The sums of two functions, one counted from 0 and one from 1.
LEMMA SumsAgree ==
  ASSUME NEW n \in Nat \ {0}, NEW m \in Nat, NEW F, NEW G,
         \A j \in 0..(m - 1) :
           F[j] \in Int /\ G[j + 1] \in Int /\ Congruent(F[j], G[j + 1], n)
  PROVE  /\ SumFunctionOnSet(F, 0..(m - 1)) \in Int
         /\ SumFunctionOnSet(G, 1..m) \in Int
         /\ Congruent(SumFunctionOnSet(F, 0..(m - 1)), SumFunctionOnSet(G, 1..m), n)
<1> DEFINE A(k) == SumFunctionOnSet(F, 0..(k - 1))
           B(k) == SumFunctionOnSet(G, 1..k)
           Done == {k \in Nat : k <= m => A(k) \in Int /\ B(k) \in Int /\ Congruent(A(k), B(k), n)}
<1>1. 0 \in Done
  <2>1. 0..(0 - 1) = {} /\ 1..0 = {}
    OBVIOUS
  <2>2. A(0) = 0 /\ B(0) = 0
    BY <2>1, FS_EmptySet, TotalUnfolds
  <2>3. Congruent(0, 0, n)
    <3>1. 0 = 0 + n * 0
      OBVIOUS
    <3> QED
      BY <3>1 DEF Congruent
  <2> QED
    BY <2>2, <2>3
<1>2. ASSUME NEW k \in Nat, k \in Done PROVE k + 1 \in Done
  <2> SUFFICES ASSUME k + 1 <= m
               PROVE  A(k + 1) \in Int /\ B(k + 1) \in Int /\ Congruent(A(k + 1), B(k + 1), n)
    OBVIOUS
  <2>1. A(k) \in Int /\ B(k) \in Int /\ Congruent(A(k), B(k), n)
    BY <1>2
  <2>2. k \in 0..(m - 1)
    OBVIOUS
  <2>3. F[k] \in Int /\ G[k + 1] \in Int /\ Congruent(F[k], G[k + 1], n)
    BY <2>2
  <2>4. A(k + 1) = F[k] + A(k)
    <3> DEFINE S == 0..k
    <3>1. IsFiniteSet(S) /\ k \in S
      BY FS_Interval
    <3>2. \A x \in S : F[x] \in Int
      <4> SUFFICES ASSUME NEW x \in S PROVE F[x] \in Int
        OBVIOUS
      <4>1. x \in 0..(m - 1)
        BY <2>2
      <4> QED
        BY <4>1
    <3>3. S \ {k} = 0..(k - 1) /\ S = 0..((k + 1) - 1)
      OBVIOUS
    <3> HIDE DEF S
    <3>4. \A y \in S : SumFunctionOnSet(F, S) = F[y] + SumFunctionOnSet(F, S \ {y})
      BY <3>1, <3>2, TotalAnyFirst
    <3>5. SumFunctionOnSet(F, S) = F[k] + SumFunctionOnSet(F, S \ {k})
      BY <3>1, <3>4
    <3> QED
      BY <3>3, <3>5
  <2>5. B(k + 1) = G[k + 1] + B(k)
    <3> DEFINE S == 1..(k + 1)
    <3>1. IsFiniteSet(S) /\ k + 1 \in S
      BY FS_Interval
    <3>2. \A x \in S : G[x] \in Int
      <4> SUFFICES ASSUME NEW x \in S PROVE G[x] \in Int
        OBVIOUS
      <4>1. x - 1 \in 0..(m - 1) /\ x = (x - 1) + 1
        BY <2>2
      <4> QED
        BY <4>1
    <3>3. S \ {k + 1} = 1..k
      OBVIOUS
    <3> HIDE DEF S
    <3>4. \A y \in S : SumFunctionOnSet(G, S) = G[y] + SumFunctionOnSet(G, S \ {y})
      BY <3>1, <3>2, TotalAnyFirst
    <3>5. SumFunctionOnSet(G, S) = G[k + 1] + SumFunctionOnSet(G, S \ {k + 1})
      BY <3>1, <3>4
    <3> QED
      BY <3>3, <3>5 DEF S
  <2> HIDE DEF A, B
  <2>6. Congruent(F[k] + A(k), G[k + 1] + B(k), n)
    BY <2>1, <2>3, CongruentSums
  <2> QED
    BY <2>1, <2>3, <2>4, <2>5, <2>6
<1>3. m \in Done
  <2> HIDE DEF Done
  <2>1. Nat \subseteq Done
    BY <1>1, <1>2, SetInduction
  <2> QED
    BY <2>1
<1> QED
  BY <1>3

LEMMA ProductBound ==
  ASSUME NEW n \in Nat, NEW m \in Nat \ {0}, NEW i \in 0..(n - 1), NEW j \in 0..(m - 1)
  PROVE  (i * m) + j \in 0..((n * m) - 1)
<1>1. (i + 1) * m <= n * m
  BY SMT
<1>2. (i + 1) * m = (i * m) + m
  BY SMT
<1>3. i * m \in Nat /\ n * m \in Nat
  BY SMT
<1> QED
  BY <1>1, <1>2, <1>3

\* Product number Place of a matrix product is the one of row i, column k and
\* inner place j: what the code's divisions and remainders make of it.
Place(m, p, i, j, k) == (((i * m) + j) * p) + k
PlacesAre(n, m, p, i, j, k, e) ==
  /\ e \in 0..(((n * m) * p) - 1)
  /\ e % p = k /\ e \div p = (i * m) + j
  /\ (e \div p) % m = j
  /\ e \div (m * p) = i

LEMMA Places ==
  ASSUME NEW n \in Nat \ {0}, NEW m \in Nat \ {0}, NEW p \in Nat \ {0},
         NEW i \in 0..(n - 1), NEW j \in 0..(m - 1), NEW k \in 0..(p - 1),
         NEW e, e = Place(m, p, i, j, k)
  PROVE  PlacesAre(n, m, p, i, j, k, e)
<1>0. e = (((i * m) + j) * p) + k
  BY DEF Place
<1> DEFINE u == (i * m) + j
<1>1. u \in 0..((n * m) - 1) /\ n * m \in Nat
  BY ProductBound
<1>2. e \in 0..(((n * m) * p) - 1)
  <2> DEFINE nm == n * m
  <2>1. u \in 0..(nm - 1) /\ nm \in Nat /\ e = (u * p) + k
    BY <1>0, <1>1
  <2> HIDE DEF nm, u
  <2>2. e \in 0..((nm * p) - 1)
    BY <2>1, ProductBound
  <2> QED
    BY <2>2 DEF nm
<1>3. e % p = k /\ e \div p = u
  <2>1. e = (p * u) + k
    BY <1>0, <1>1
  <2>2. e \in Int
    BY <1>2
  <2> HIDE DEF u
  <2> QED
    BY <1>1, <2>1, <2>2, Remainder
<1>4. u % m = j
  <2>1. u = (m * i) + j
    OBVIOUS
  <2> QED
    BY <1>1, <2>1, Remainder
<1>5. e \div (m * p) = i
  <2> DEFINE mp == m * p
             d == (j * p) + k
  <2>1. d \in 0..(mp - 1)
    BY ProductBound
  <2>2. mp \in Nat \ {0}
    BY <2>1
  <2>3. e = (mp * i) + d
    <3>1. ((i * m) + j) * p = ((i * m) * p) + (j * p)
      BY SMT
    <3>2. (i * m) * p = mp * i
      BY SMT
    <3> QED
      BY <1>0, <3>1, <3>2
  <2>4. e \in Int
    BY <1>2
  <2> HIDE DEF mp, d
  <2>5. e \div mp = i
    BY <2>1, <2>2, <2>3, <2>4, Remainder
  <2> QED
    BY <2>5 DEF mp
<1> QED
  BY <1>2, <1>3, <1>4, <1>5 DEF PlacesAre

-----------------------------------------------------------------------------
(* Tensors by their elements.                                              *)

LEMMA SeqByElements ==
  ASSUME NEW S, NEW n \in Nat, NEW f \in [1..n -> S]
  PROVE  f \in Seq(S) /\ Len(f) = n
<1>1. f \in Seq(S)
  BY SeqDef
<1>2. Len(f) \in Nat /\ 1..Len(f) = 1..n
  BY <1>1, LenProperties
<1>3. Len(f) = n
  BY <1>2
<1> QED
  BY <1>1, <1>3

Filled(shape, f) == [shape |-> shape, data |-> f]

LEMMA FilledType ==
  ASSUME NEW shape \in Seq(Nat \ {0}), NEW n \in Nat, NEW f \in [1..n -> Nat]
  PROVE  /\ Filled(shape, f) \in Tensors
         /\ Size(Filled(shape, f)) = n
         /\ Filled(shape, f).shape = shape /\ Filled(shape, f).data = f
<1>1. f \in Seq(Nat) /\ Len(f) = n
  BY SeqByElements
<1> QED
  BY <1>1 DEF Filled, Tensors, Size

\* A tensor with the elements another one has the places for.
LEMMA FilledGood ==
  ASSUME NEW x, Good(x), NEW f \in [1..Size(x) -> Nat]
  PROVE  /\ Good(Filled(x.shape, f))
         /\ Size(Filled(x.shape, f)) = Size(x)
         /\ Filled(x.shape, f).shape = x.shape /\ Filled(x.shape, f).data = f
<1> DEFINE y == Filled(x.shape, f)
<1>1. x.shape \in Seq(Nat \ {0}) /\ Size(x) \in Nat \ {0} /\ Size(x) \in Nat
  BY GoodSize
<1>2. y \in Tensors /\ Size(y) = Size(x) /\ y.shape = x.shape /\ y.data = f
  BY <1>1, FilledType
<1>3. f \in Seq(Nat) /\ Len(f) = Size(x)
  BY <1>1, SeqByElements
<1>4. f # <<>>
  BY <1>1, <1>3, EmptySeq
<1> HIDE DEF y
<1>5. IsFull(y)
  BY <1>2, <1>3, <1>4 DEF Good, IsFull, Size
<1> QED
  BY <1>2, <1>5 DEF Good, y

LEMMA ResidueType ==
  ASSUME NEW a \in Int
  PROVE  a % Modulus \in Nat
<1>1. a % Modulus \in 0..(Modulus - 1)
  BY ModulusAssumption, Division
<1> QED
  BY <1>1, ModulusAssumption

LEMMA GoodElements ==
  ASSUME NEW x, Good(x)
  PROVE  /\ \A q \in 1..Size(x) : x.data[q] \in Nat
         /\ \A i \in 0..(Size(x) - 1) : At(x, i) = x.data[i + 1]
         /\ \A i \in Int : At(x, i) \in Nat
<1>1. x.data \in Seq(Nat) /\ Size(x) \in Nat \ {0} /\ DOMAIN x.data = 1..Size(x)
  BY GoodSize
<1>2. \A q \in 1..Size(x) : x.data[q] \in Nat
  BY <1>1
<1>3. ASSUME NEW i \in 0..(Size(x) - 1) PROVE At(x, i) = x.data[i + 1]
  <2>1. i % Size(x) = i
    BY <1>1, SmallRemainder
  <2> QED
    BY <2>1 DEF At
<1>4. ASSUME NEW i \in Int PROVE At(x, i) \in Nat
  <2>1. i % Size(x) \in 0..(Size(x) - 1)
    BY <1>1, Division
  <2>2. (i % Size(x)) + 1 \in 1..Size(x)
    BY <1>1, <2>1
  <2> QED
    BY <1>2, <2>2 DEF At
<1> QED
  BY <1>2, <1>3, <1>4

LEMMA AtPlace ==
  ASSUME NEW x, Good(x)
  PROVE  \A q \in 1..Size(x) : At(x, q - 1) = x.data[q]
<1> SUFFICES ASSUME NEW q \in 1..Size(x) PROVE At(x, q - 1) = x.data[q]
  OBVIOUS
<1>1. Size(x) \in Nat
  BY GoodSize
<1>2. PICK i \in 0..(Size(x) - 1) : i = q - 1 /\ i + 1 = q
  <2>1. q - 1 \in 0..(Size(x) - 1) /\ (q - 1) + 1 = q
    BY <1>1
  <2> QED
    BY <2>1
<1>3. At(x, i) = x.data[i + 1]
  BY GoodElements
<1> QED
  BY <1>2, <1>3

Summed(x, y) == Filled(x.shape, [q \in 1..Size(x) |-> (x.data[q] + y.data[q]) % Modulus])
Multiplied(x, y) == Filled(x.shape, [q \in 1..Size(x) |-> (x.data[q] * y.data[q]) % Modulus])

LEMMA EntryWiseType ==
  ASSUME NEW x, NEW y, Good(x), Good(y), Size(x) = Size(y)
  PROVE  /\ Good(Summed(x, y)) /\ Size(Summed(x, y)) = Size(x)
         /\ Good(Multiplied(x, y)) /\ Size(Multiplied(x, y)) = Size(x)
<1>1. Size(x) \in Nat
  BY GoodSize
<1>2. \A q \in 1..Size(x) : x.data[q] \in Nat /\ y.data[q] \in Nat
  BY GoodElements
<1>3. \A q \in 1..Size(x) :
        x.data[q] + y.data[q] \in Int /\ x.data[q] * y.data[q] \in Int
  BY <1>2
<1>4. /\ [q \in 1..Size(x) |-> (x.data[q] + y.data[q]) % Modulus] \in [1..Size(x) -> Nat]
      /\ [q \in 1..Size(x) |-> (x.data[q] * y.data[q]) % Modulus] \in [1..Size(x) -> Nat]
  BY <1>3, ResidueType
<1> QED
  BY <1>4, FilledGood DEF Summed, Multiplied

LEMMA EncryptedIs ==
  ASSUME NEW x, Good(x)
  PROVE  /\ Good(Encrypted(x)) /\ Size(Encrypted(x)) = Size(x)
         /\ Encrypted(x).shape = x.shape
         /\ Encrypted(x).data = [q \in 1..Size(x) |-> x.data[q] % Modulus]
         /\ Encrypted(x) = Filled(x.shape, [q \in 1..Size(x) |-> x.data[q] % Modulus])
<1> DEFINE f == [q \in 1..Size(x) |-> x.data[q] % Modulus]
<1>1. DOMAIN x.data = 1..Size(x) /\ x = [shape |-> x.shape, data |-> x.data]
  BY GoodSize
<1>2. Encrypted(x) = Filled(x.shape, f)
  <2> DEFINE s == x.shape
             d == x.data
             g == [q \in DOMAIN d |-> d[q] % Modulus]
  <2>1. x = [shape |-> s, data |-> d]
    BY <1>1
  <2>2. Encrypted(x) = [x EXCEPT !.data = g]
    BY DEF Encrypted
  <2>3. g = f
    BY <1>1
  <2> HIDE DEF s, d, g, f
  <2>4. Encrypted(x) = [shape |-> s, data |-> g]
    BY <2>1, <2>2
  <2> QED
    BY <2>3, <2>4 DEF Filled, s
<1>3. f \in [1..Size(x) -> Nat]
  BY GoodElements, ResidueType
<1> HIDE DEF f
<1> QED
  BY <1>2, <1>3, FilledGood DEF f

LEMMA SumOfResidues ==
  ASSUME NEW a \in Int, NEW b \in Int
  PROVE  ((a % Modulus) + (b % Modulus)) % Modulus = (a + b) % Modulus
<1>1. a % Modulus \in Int /\ Congruent(a % Modulus, a, Modulus)
  BY ModulusAssumption, RemainderCongruent
<1>2. b % Modulus \in Int /\ Congruent(b % Modulus, b, Modulus)
  BY ModulusAssumption, RemainderCongruent
<1> DEFINE c == a % Modulus
           d == b % Modulus
<1>3. c \in Int /\ d \in Int /\ Congruent(c, a, Modulus) /\ Congruent(d, b, Modulus)
  BY <1>1, <1>2
<1> HIDE DEF c, d
<1>4. Congruent(c + d, a + b, Modulus)
  BY <1>3, ModulusAssumption, CongruentSums
<1>5. (c + d) % Modulus = (a + b) % Modulus
  <2>1. c + d \in Int /\ a + b \in Int
    BY <1>3
  <2> QED
    BY <1>4, <2>1, ModulusAssumption, CongruentRemainders
<1> QED
  BY <1>5 DEF c, d

LEMMA CiphertextSums ==
  ASSUME NEW x, NEW y, Good(x), Good(y), x.shape = y.shape => Size(x) = Size(y)
  PROVE  AddCiphertexts(Encrypted(x), Encrypted(y)) =
           IF x.shape = y.shape THEN Summed(x, y) ELSE Throws
<1> DEFINE u == Encrypted(x)
           v == Encrypted(y)
<1>1. /\ Good(u) /\ Size(u) = Size(x) /\ u.shape = x.shape
      /\ u.data = [q \in 1..Size(x) |-> x.data[q] % Modulus]
      /\ Good(v) /\ Size(v) = Size(y) /\ v.shape = y.shape
      /\ v.data = [q \in 1..Size(y) |-> y.data[q] % Modulus]
  BY EncryptedIs
<1> HIDE DEF u, v
<1>2. CASE x.shape # y.shape
  BY <1>1, <1>2 DEF AddCiphertexts, u, v
<1>3. CASE x.shape = y.shape
  <2> DEFINE n == Size(x)
  <2>1. n \in Nat \ {0} /\ Size(y) = n
    BY <1>3, GoodSize
  <2>2. \A q \in 1..n : (At(u, q - 1) + At(v, q - 1)) % Modulus = (x.data[q] + y.data[q]) % Modulus
    <3> SUFFICES ASSUME NEW q \in 1..n
                 PROVE  (At(u, q - 1) + At(v, q - 1)) % Modulus = (x.data[q] + y.data[q]) % Modulus
      OBVIOUS
    <3>2. At(u, q - 1) = u.data[q] /\ At(v, q - 1) = v.data[q]
      BY <1>1, <2>1, AtPlace
    <3>3. u.data[q] = x.data[q] % Modulus /\ v.data[q] = y.data[q] % Modulus
      BY <1>1, <2>1
    <3>4. x.data[q] \in Int /\ y.data[q] \in Int
      BY <2>1, GoodElements
    <3>5. ((x.data[q] % Modulus) + (y.data[q] % Modulus)) % Modulus =
            (x.data[q] + y.data[q]) % Modulus
      BY <3>4, SumOfResidues
    <3> QED
      BY <3>2, <3>3, <3>5
  <2>3. AddCiphertexts(u, v) =
          [shape |-> x.shape, data |-> [q \in 1..n |-> (At(u, q - 1) + At(v, q - 1)) % Modulus]]
    BY <1>1, <1>3 DEF AddCiphertexts, Zip, Tensor
  <2> QED
    BY <1>3, <2>2, <2>3 DEF Summed, Filled, u, v
<1> QED
  BY <1>2, <1>3

-----------------------------------------------------------------------------
(* Operations on tensors.                                                  *)

LEMMA NotThrown ==
  ASSUME NEW x, Good(x)
  PROVE  x # Throws /\ x \in Tensors
  BY ThrowsAssumption DEF Good

\* Sums and products of plaintext vectors, encrypted.
LEMMA PlaintextSums ==
  ASSUME NEW x, NEW y, Good(x), Good(y)
  PROVE  Ciphertext(AddPlaintexts(x, y)) =
           IF x.shape = y.shape /\ Rank(x) < 2 THEN Summed(x, y) ELSE Throws
<1>0. Rank(x) \in Nat
  BY GoodSize
<1>1. CASE ~ (x.shape = y.shape /\ Rank(x) < 2)
  <2>1. x.shape # y.shape \/ Rank(x) > 1
    BY <1>0, <1>1
  <2>2. AddPlaintexts(x, y) = Throws
    BY <2>1 DEF AddPlaintexts
  <2> QED
    BY <1>1, <2>2 DEF Ciphertext
<1>2. CASE x.shape = y.shape /\ Rank(x) < 2
  <2> DEFINE n == Size(x)
             f == [q \in 1..n |-> At(x, q - 1) + At(y, q - 1)]
             z == Filled(x.shape, f)
  <2>1. Size(y) = n /\ n \in Nat \ {0}
    BY <1>2, SameVectors, GoodSize
  <2>2. \A q \in 1..n : f[q] = x.data[q] + y.data[q] /\ f[q] \in Nat
    BY <2>1, AtPlace, GoodElements
  <2>3. f \in [1..n -> Nat]
    BY <2>2
  <2>4. AddPlaintexts(x, y) = z
    BY <1>0, <1>2 DEF AddPlaintexts, Zip, Tensor, Filled
  <2> HIDE DEF f
  <2>5. Good(z) /\ Size(z) = n /\ z.shape = x.shape /\ z.data = f
    BY <2>3, FilledGood
  <2> HIDE DEF z
  <2>6. Encrypted(z) = Filled(x.shape, [q \in 1..n |-> f[q] % Modulus])
    BY <2>5, EncryptedIs
  <2>7. Encrypted(z) = Summed(x, y)
    BY <2>2, <2>6 DEF Summed
  <2> QED
    BY <1>2, <2>4, <2>5, <2>7, NotThrown DEF Ciphertext
<1> QED
  BY <1>1, <1>2

LEMMA PlaintextProducts ==
  ASSUME NEW x, NEW y, Good(x), Good(y)
  PROVE  Ciphertext(MultiplyPlaintexts(x, y)) =
           IF x.shape = y.shape /\ Rank(x) < 2 THEN Multiplied(x, y) ELSE Throws
<1>0. Rank(x) \in Nat
  BY GoodSize
<1>1. CASE ~ (x.shape = y.shape /\ Rank(x) < 2)
  <2>1. x.shape # y.shape \/ Rank(x) > 1
    BY <1>0, <1>1
  <2>2. MultiplyPlaintexts(x, y) = Throws
    BY <2>1 DEF MultiplyPlaintexts
  <2> QED
    BY <1>1, <2>2 DEF Ciphertext
<1>2. CASE x.shape = y.shape /\ Rank(x) < 2
  <2> DEFINE n == Size(x)
             f == [q \in 1..n |-> At(x, q - 1) * At(y, q - 1)]
             z == Filled(x.shape, f)
  <2>1. Size(y) = n /\ n \in Nat \ {0}
    BY <1>2, SameVectors, GoodSize
  <2>2. \A q \in 1..n : f[q] = x.data[q] * y.data[q] /\ f[q] \in Nat
    BY <2>1, AtPlace, GoodElements
  <2>3. f \in [1..n -> Nat]
    BY <2>2
  <2>4. MultiplyPlaintexts(x, y) = z
    BY <1>0, <1>2 DEF MultiplyPlaintexts, Zip, Tensor, Filled
  <2> HIDE DEF f
  <2>5. Good(z) /\ Size(z) = n /\ z.shape = x.shape /\ z.data = f
    BY <2>3, FilledGood
  <2> HIDE DEF z
  <2>6. Encrypted(z) = Filled(x.shape, [q \in 1..n |-> f[q] % Modulus])
    BY <2>5, EncryptedIs
  <2>7. Encrypted(z) = Multiplied(x, y)
    BY <2>2, <2>6 DEF Multiplied
  <2> QED
    BY <1>2, <2>4, <2>5, <2>7, NotThrown DEF Ciphertext
<1> QED
  BY <1>1, <1>2

LEMMA SumType ==
  ASSUME NEW m \in Nat, NEW F, DOMAIN F = 0..(m - 1), \A j \in 0..(m - 1) : F[j] \in Int
  PROVE  SumFunction(F) % Modulus \in Nat
<1>1. IsFiniteSet(0..(m - 1))
  BY FS_Interval
<1>2. SumFunction(F) = SumFunctionOnSet(F, 0..(m - 1))
  BY DEF SumFunction
<1>3. SumFunctionOnSet(F, 0..(m - 1)) \in Int
  BY <1>1, TotalType
<1> QED
  BY <1>2, <1>3, ResidueType

LEMMA MatrixShape ==
  ASSUME NEW n \in Nat \ {0}, NEW p \in Nat \ {0}
  PROVE  /\ <<n, p>> \in Seq(Nat \ {0}) /\ n * p \in Nat \ {0}
         /\ Len(<<n, p>>) = 2 /\ <<n, p>>[1] = n /\ <<n, p>>[2] = p
  OBVIOUS

LEMMA ColumnsType ==
  ASSUME NEW x, Good(x), NEW m \in Columns(x)
  PROVE  m \in Nat \ {0}
<1>1. CASE Rank(x) >= 2
  <2>1. x.shape \in Seq(Nat \ {0}) /\ Len(x.shape) >= 2 /\ Len(x.shape) \in Nat
    BY <1>1, GoodSize DEF Rank
  <2>2. x.shape[2] \in Nat \ {0}
    BY <2>1
  <2> QED
    BY <1>1, <2>2 DEF Columns
<1>2. CASE ~ (Rank(x) >= 2)
  BY <1>2, GarbageAssumption DEF Columns
<1> QED
  BY <1>1, <1>2

LEMMA RowsType ==
  ASSUME NEW x, Good(x), Rank(x) # 0
  PROVE  x.shape[1] \in Nat \ {0}
<1>1. x.shape \in Seq(Nat \ {0}) /\ Len(x.shape) # 0 /\ Len(x.shape) \in Nat
  BY GoodSize DEF Rank
<1> QED
  BY <1>1

LEMMA FactorTypes ==
  ASSUME NEW x, Good(x), NEW m \in Nat \ {0}, NEW p \in Nat \ {0}, NEW q \in Int
  PROVE  LeftFactor(x, m, p, q) \in Nat /\ RightFactor(x, m, p, q) \in Nat
<1>1. m * p \in Nat \ {0}
  BY MatrixShape
<1>2. q \div p \in Int /\ q % p \in Int /\ q \div (m * p) \in Int
  BY <1>1, Division
<1>3. (q \div p) % m \in Int
  BY <1>2, Division
<1> DEFINE l == ((q \div (m * p)) * m) + ((q \div p) % m)
           k == (((q \div p) % m) * p) + (q % p)
<1>4. l \in Int /\ k \in Int
  BY <1>2, <1>3
<1> HIDE DEF l, k
<1>5. At(x, l) \in Nat /\ At(x, k) \in Nat
  BY <1>4, GoodElements
<1> QED
  BY <1>5 DEF LeftFactor, RightFactor, l, k

VectorOf(s, c) ==
  Filled(c.shape, [q \in 1..Size(c) |-> (At(c, q - 1) * At(s, q - 1)) % Modulus])

\* Number q of the products that a matrix c of m columns and one of p take.
FactorsOf(s, c, m, p, q) == LeftFactor(c, m, p, q) * RightFactor(s, m, p, q)

MatrixOf(s, c, m, p) ==
  Filled(<<c.shape[1], p>>, [q \in 1..(c.shape[1] * p) |->
    SumFunction([j \in 0..(m - 1) |->
      FactorsOf(s, c, m, p,
        (((((q - 1) \div p) * m) + j) * p) + ((q - 1) % p))]) % Modulus])

LEMMA ScaledCases ==
  ASSUME NEW s, NEW c
  PROVE  Scaled(s, c) =
           IF Rank(s) = Rank(c) /\ Rank(s) < 2
             THEN IF s.shape # c.shape THEN {Throws} ELSE {VectorOf(s, c)}
           ELSE IF Rank(s) > 2 \/ Rank(c) > 2 THEN {Throws}
           ELSE {MatrixOf(s, c, m, p) : m \in Columns(c), p \in Columns(s)}
                \cup (IF Rank(s) = 1 \/ Rank(c) = 1 THEN {Throws} ELSE {})
  BY DEF Scaled, VectorOf, MatrixOf, FactorsOf, SumProducts, Zip, Tensor, Filled

\* A plaintext times a ciphertext, element by element or as matrices.
LEMMA ScaledIs ==
  ASSUME NEW s, NEW c, Good(s), Good(c), s.shape = <<>> <=> c.shape = <<>>,
         NEW x \in Scaled(s, c)
  PROVE  /\ x = Throws \/ x \in Tensors
         /\ s.shape = c.shape /\ Rank(s) < 2 => x = Multiplied(c, s)
<1>0. Rank(s) \in Nat /\ Rank(c) \in Nat
  BY GoodSize
<1>1. CASE Rank(s) = Rank(c) /\ Rank(s) < 2 /\ s.shape # c.shape
  BY <1>1, ScaledCases
<1>2. CASE Rank(s) = Rank(c) /\ Rank(s) < 2 /\ s.shape = c.shape
  <2> DEFINE n == Size(c)
             f == [q \in 1..n |-> (At(c, q - 1) * At(s, q - 1)) % Modulus]
  <2>1. Size(s) = n /\ n \in Nat \ {0}
    BY <1>2, SameVectors, GoodSize
  <2>2. x = Filled(c.shape, f)
    BY <1>2, ScaledCases DEF VectorOf
  <2>3. \A q \in 1..n : f[q] = (c.data[q] * s.data[q]) % Modulus
    BY <2>1, AtPlace
  <2>4. x = Multiplied(c, s)
    BY <2>2, <2>3 DEF Multiplied
  <2> QED
    BY <2>1, <2>4, EntryWiseType DEF Good
<1>3. CASE ~ (Rank(s) = Rank(c) /\ Rank(s) < 2)
  <2>0. ~ (s.shape = c.shape /\ Rank(s) < 2)
    BY <1>3 DEF Rank
  <2>1. CASE x = Throws
    BY <2>0, <2>1
  <2>2. CASE x # Throws
    <3>0. Rank(c) # 0
      <4> SUFFICES ASSUME Rank(c) = 0 PROVE FALSE
        OBVIOUS
      <4>1. c.shape = <<>>
        BY NoDimension DEF Rank
      <4>2. Rank(s) = 0
        BY <4>1, EmptySeq DEF Rank
      <4> QED
        BY <1>3, <4>2
    <3>1. PICK m \in Columns(c), p \in Columns(s) : x = MatrixOf(s, c, m, p)
      BY <1>3, <2>2, ScaledCases
    <3>2. m \in Nat \ {0} /\ p \in Nat \ {0} /\ c.shape[1] \in Nat \ {0}
      BY <3>0, ColumnsType, RowsType
    <3> DEFINE n == c.shape[1]
               E(q) == FactorsOf(s, c, m, p, q)
               F(q) == [j \in 0..(m - 1) |-> E(((((q \div p) * m) + j) * p) + (q % p))]
               f == [q \in 1..(n * p) |-> SumFunction(F(q - 1)) % Modulus]
    <3>3. x = Filled(<<n, p>>, f)
      BY <3>1 DEF MatrixOf
    <3>4. \A q \in Int : E(q) \in Int
      <4> SUFFICES ASSUME NEW q \in Int
                   PROVE  LeftFactor(c, m, p, q) * RightFactor(s, m, p, q) \in Int
        BY DEF FactorsOf
      <4>1. LeftFactor(c, m, p, q) \in Nat
        BY <3>2, FactorTypes
      <4>2. RightFactor(s, m, p, q) \in Nat
        BY <3>2, FactorTypes
      <4> QED
        BY <4>1, <4>2
    <3>5. \A q \in Int : q \div p \in Int /\ q % p \in Int
      BY <3>2, Division
    <3> HIDE DEF E
    <3>6. \A q \in Int : \A j \in 0..(m - 1) : F(q)[j] \in Int
      <4> SUFFICES ASSUME NEW q \in Int, NEW j \in 0..(m - 1)
                   PROVE  E(((((q \div p) * m) + j) * p) + (q % p)) \in Int
        OBVIOUS
      <4>1. ((((q \div p) * m) + j) * p) + (q % p) \in Int
        BY <3>2, <3>5
      <4> QED
        BY <3>4, <4>1
    <3>7. \A q \in Int : DOMAIN F(q) = 0..(m - 1)
      OBVIOUS
    <3> HIDE DEF F
    <3>8. \A q \in Int : SumFunction(F(q)) % Modulus \in Nat
      BY <3>2, <3>6, <3>7, SumType
    <3>9. f \in [1..(n * p) -> Nat]
      BY <3>8
    <3> HIDE DEF f
    <3>10. x \in Tensors
      <4>1. <<n, p>> \in Seq(Nat \ {0}) /\ n * p \in Nat
        BY <3>2, MatrixShape
      <4> HIDE DEF n
      <4> QED
        BY <3>3, <3>9, <4>1, FilledType
    <3> QED
      BY <2>0, <3>10
  <2> QED
    BY <2>1, <2>2
<1> QED
  BY <1>1, <1>2, <1>3

-----------------------------------------------------------------------------
(* What a request means.                                                   *)

\* Plaintexts have one dimension at most: the decoder keeps no other shape.
PlaintextsAreVectors ==
  \A r \in Requests : \A o \in Range(r.operands) :
    o.encryption # "CIPHERTEXT" => Len(o.value.shape) < 2

LEMMA PlainOperands ==
  ASSUME PlaintextsAreVectors, NEW r, IsBinary(r)
  PROVE  /\ First(r).encryption # "CIPHERTEXT" => Rank(First(r).value) < 2
         /\ Second(r).encryption # "CIPHERTEXT" => Rank(Second(r).value) < 2
         /\ X(r) = First(r).value /\ Y(r) = Second(r).value
<1>1. Len(r.operands) = 2 /\ r \in Requests /\ Accepted(r)
  BY DecodedSecond DEF IsBinary
<1>2. r.operands \in Seq(Operands)
  BY <1>1, RequestAssumption
<1>3. First(r) \in Range(r.operands) /\ Second(r) \in Range(r.operands)
  BY <1>1, <1>2 DEF First, Second, Range
<1>4. /\ First(r).encryption # "CIPHERTEXT" => Rank(First(r).value) < 2
      /\ Second(r).encryption # "CIPHERTEXT" => Rank(Second(r).value) < 2
  BY <1>1, <1>3 DEF PlaintextsAreVectors, Rank
<1> QED
  BY <1>1, <1>4, DecodedFirst, DecodedSecond

\* What a sum, or a product of numbers or vectors, means.
LEMMA MeaningIs ==
  ASSUME NEW r, IsBinary(r), X(r) = First(r).value, Y(r) = Second(r).value
  PROVE  /\ r.operation = "ADD" => Service!Meaning(r) = Summed(X(r), Y(r))
         /\ r.operation = "MULTIPLY" /\ ~ Service!AreMatrices(r) =>
              Service!Meaning(r) = Multiplied(X(r), Y(r))
<1>1. Service!Operand(r, 1) = X(r) /\ Service!Operand(r, 2) = Y(r)
  BY DEF Service!Operand, First, Second
<1>2. Good(X(r)) /\ DOMAIN X(r).data = 1..Size(X(r))
  BY DecodedFirst, GoodSize DEF IsBinary
<1>3. ASSUME r.operation = "ADD" PROVE Service!Meaning(r) = Summed(X(r), Y(r))
  <2>1. Service!Meaning(r) =
          [shape |-> X(r).shape,
           data |-> [i \in DOMAIN X(r).data |-> (X(r).data[i] + Y(r).data[i]) % Modulus]]
    BY <1>1, <1>3 DEF Service!Meaning, Service!ElementWise
  <2> QED
    BY <1>2, <2>1 DEF Summed, Filled
<1>4. ASSUME r.operation = "MULTIPLY", ~ Service!AreMatrices(r)
      PROVE  Service!Meaning(r) = Multiplied(X(r), Y(r))
  <2>1. Service!Meaning(r) =
          [shape |-> X(r).shape,
           data |-> [i \in DOMAIN X(r).data |-> (X(r).data[i] * Y(r).data[i]) % Modulus]]
    BY <1>1, <1>4 DEF Service!Meaning, Service!ElementWise
  <2> QED
    BY <1>2, <2>1 DEF Multiplied, Filled
<1> QED
  BY <1>3, <1>4

\* When such a request means something, its operands have one shape.
LEMMA MeantShapes ==
  ASSUME NEW r, IsBinary(r), X(r) = First(r).value, Y(r) = Second(r).value,
         Service!IsMeant(r)
  PROVE  /\ r.operation = "ADD" => X(r).shape = Y(r).shape
         /\ r.operation = "MULTIPLY" =>
              \/ Service!AreMatrices(r)
              \/ X(r).shape = Y(r).shape /\ Rank(X(r)) < 2 /\ ~ Service!AreMatrices(r)
         /\ Service!AreMatrices(r) <=>
              Rank(X(r)) = 2 /\ Rank(Y(r)) = 2 /\ X(r).shape[2] = Y(r).shape[1]
<1>1. Service!Operand(r, 1) = X(r) /\ Service!Operand(r, 2) = Y(r)
  BY DEF Service!Operand, First, Second
<1>2. r.operation # "DECRYPT" /\ (r.operation = "ADD" => r.operation # "MULTIPLY")
  BY DEF IsBinary, IsDecryption
<1>3. Rank(X(r)) \in Nat
  BY DecodedFirst, GoodSize DEF IsBinary
<1>4. Service!AreMatrices(r) <=>
        Rank(X(r)) = 2 /\ Rank(Y(r)) = 2 /\ X(r).shape[2] = Y(r).shape[1]
  <2>1. Service!AreMatrices(r) <=>
          /\ Len(Service!Operand(r, 1).shape) = 2 /\ Len(Service!Operand(r, 2).shape) = 2
          /\ Service!Operand(r, 1).shape[2] = Service!Operand(r, 2).shape[1]
    BY DEF Service!AreMatrices
  <2> QED
    BY <1>1, <2>1 DEF Rank
<1>5. Service!HaveOneShape(r) <=> X(r).shape = Y(r).shape
  BY <1>1 DEF Service!HaveOneShape
<1>6. Service!ArePlainNumbersOrVectors(r) <=> X(r).shape = Y(r).shape /\ Rank(X(r)) < 2
  BY <1>1, <1>5 DEF Service!ArePlainNumbersOrVectors, Rank
<1>7. r.operation = "ADD" => Service!HaveOneShape(r)
  BY <1>2 DEF Service!IsMeant
<1>8. r.operation = "MULTIPLY" =>
        Service!ArePlainNumbersOrVectors(r) \/ Service!AreMatrices(r)
  BY <1>2 DEF Service!IsMeant
<1>9. Rank(X(r)) < 2 => ~ Service!AreMatrices(r)
  BY <1>3, <1>4
<1> QED
  BY <1>4, <1>5, <1>6, <1>7, <1>8, <1>9

\* A local request has an operand that is no ciphertext, or adds two.
LEMMA LocalOperands ==
  ASSUME NEW r \in Requests, IsLocal(r)
  PROVE  /\ IsBinary(r) /\ r.operation \in {"ADD", "MULTIPLY"}
         /\ r.operation = "MULTIPLY" =>
              First(r).encryption # "CIPHERTEXT" \/ Second(r).encryption # "CIPHERTEXT"
         /\ Good(X(r)) /\ Good(Y(r))
         /\ X(r).shape = <<>> <=> Y(r).shape = <<>>
         /\ X(r).shape = Y(r).shape => Size(X(r)) = Size(Y(r))
<1>1. Accepted(r) /\ ~ IsDecryption(r) /\ ~ IsProduct(r)
  BY DEF IsLocal
<1>2. IsBinary(r)
  BY <1>1 DEF IsBinary
<1>3. r.operation \in {"ADD", "MULTIPLY"}
  BY <1>1 DEF Accepted, IsDecryption
<1>4. r.operation = "MULTIPLY" =>
        First(r).encryption # "CIPHERTEXT" \/ Second(r).encryption # "CIPHERTEXT"
  BY <1>1 DEF IsProduct, Are
<1> QED
  BY <1>1, <1>2, <1>3, <1>4, DecodedFirst, DecodedSecond, SameSizes

\* The results of a sum.
LEMMA SumValue ==
  ASSUME NEW r \in Requests, IsLocal(r), r.operation = "ADD", NEW x \in LocalResults(r)
  PROVE  /\ x # Throws => /\ x = Summed(X(r), Y(r))
                          /\ X(r).shape = Y(r).shape
         /\ X(r).shape = Y(r).shape => x = Summed(X(r), Y(r)) \/ Rank(X(r)) >= 2
         /\ X(r).shape = Y(r).shape /\ x = Throws => Are(r, "PLAINTEXT", "PLAINTEXT")
<1>1. /\ Good(X(r)) /\ Good(Y(r))
      /\ X(r).shape = Y(r).shape => Size(X(r)) = Size(Y(r))
      /\ Rank(X(r)) \in Nat
  BY LocalOperands, GoodSize
<1>2. CASE Are(r, "PLAINTEXT", "PLAINTEXT")
  <2>1. LocalResults(r) = {Ciphertext(AddPlaintexts(X(r), Y(r)))}
    BY <1>2 DEF LocalResults
  <2>2. x = IF X(r).shape = Y(r).shape /\ Rank(X(r)) < 2 THEN Summed(X(r), Y(r)) ELSE Throws
    BY <1>1, <2>1, PlaintextSums
  <2> QED
    BY <1>1, <1>2, <2>2
<1>3. CASE ~ Are(r, "PLAINTEXT", "PLAINTEXT")
  <2>1. LocalResults(r) = {AddCiphertexts(Encrypted(X(r)), Encrypted(Y(r)))}
    BY <1>3 DEF LocalResults
  <2>2. x = IF X(r).shape = Y(r).shape THEN Summed(X(r), Y(r)) ELSE Throws
    BY <1>1, <2>1, CiphertextSums
  <2>3. Summed(X(r), Y(r)) # Throws \/ X(r).shape # Y(r).shape
    BY <1>1, EntryWiseType, NotThrown
  <2> QED
    BY <2>2, <2>3
<1> QED
  BY <1>2, <1>3

\* The results of a product by a plaintext.
LEMMA ScaledValue ==
  ASSUME NEW r \in Requests, IsLocal(r), r.operation = "MULTIPLY", NEW x \in LocalResults(r)
  PROVE  /\ x = Throws \/ x \in Tensors
         /\ X(r).shape = Y(r).shape /\ Rank(X(r)) < 2 => x = Multiplied(X(r), Y(r))
<1>1. /\ Good(X(r)) /\ Good(Y(r))
      /\ X(r).shape = Y(r).shape => Size(X(r)) = Size(Y(r))
      /\ X(r).shape = <<>> <=> Y(r).shape = <<>>
      /\ Rank(X(r)) \in Nat
  BY LocalOperands, GoodSize
<1>2. r.operation # "ADD"
  OBVIOUS
<1>3. CASE Are(r, "PLAINTEXT", "PLAINTEXT")
  <2>0. ~ Are(r, "PLAINTEXT", "CIPHERTEXT")
    BY <1>3 DEF Are
  <2>1. LocalResults(r) = {Ciphertext(MultiplyPlaintexts(X(r), Y(r)))}
    BY <1>2, <1>3, <2>0 DEF LocalResults
  <2>2. x = IF X(r).shape = Y(r).shape /\ Rank(X(r)) < 2 THEN Multiplied(X(r), Y(r)) ELSE Throws
    BY <1>1, <2>1, PlaintextProducts
  <2>3. X(r).shape = Y(r).shape => Multiplied(X(r), Y(r)) \in Tensors
    BY <1>1, EntryWiseType, NotThrown
  <2> QED
    BY <2>2, <2>3
<1>4. ASSUME X(r).shape = Y(r).shape PROVE Multiplied(X(r), Y(r)) = Multiplied(Y(r), X(r))
  <2>1. \A q \in 1..Size(X(r)) : X(r).data[q] \in Nat /\ Y(r).data[q] \in Nat
    BY <1>1, <1>4, GoodElements
  <2>2. \A q \in 1..Size(X(r)) : X(r).data[q] * Y(r).data[q] = Y(r).data[q] * X(r).data[q]
    BY <2>1
  <2> QED
    BY <1>1, <1>4, <2>2 DEF Multiplied
<1>5. CASE ~ Are(r, "PLAINTEXT", "PLAINTEXT") /\ Are(r, "PLAINTEXT", "CIPHERTEXT")
  <2>1. LocalResults(r) = Scaled(X(r), Y(r))
    BY <1>2, <1>5 DEF LocalResults
  <2>2. /\ x = Throws \/ x \in Tensors
        /\ X(r).shape = Y(r).shape /\ Rank(X(r)) < 2 => x = Multiplied(Y(r), X(r))
    BY <1>1, <2>1, ScaledIs
  <2> QED
    BY <1>4, <2>2
<1>6. CASE ~ Are(r, "PLAINTEXT", "PLAINTEXT") /\ ~ Are(r, "PLAINTEXT", "CIPHERTEXT")
  <2>1. LocalResults(r) = Scaled(Y(r), X(r))
    BY <1>2, <1>6 DEF LocalResults
  <2>2. /\ x = Throws \/ x \in Tensors
        /\ Y(r).shape = X(r).shape /\ Rank(Y(r)) < 2 => x = Multiplied(X(r), Y(r))
    BY <1>1, <2>1, ScaledIs
  <2>3. X(r).shape = Y(r).shape => Rank(Y(r)) = Rank(X(r))
    BY DEF Rank
  <2> QED
    BY <2>2, <2>3
<1> QED
  BY <1>3, <1>5, <1>6

LEMMA LocalValue ==
  ASSUME NEW r \in Requests, IsLocal(r), NEW x \in LocalResults(r)
  PROVE  /\ x = Throws \/ x \in Tensors
         /\ r.operation = "ADD" /\ x # Throws =>
              Size(x) = Size(X(r)) /\ Size(Y(r)) = Size(X(r))
         /\ PlaintextsAreVectors /\ Service!IsMeant(r) =>
              x # Throws /\ x = Service!Meaning(r)
<1>1. /\ IsBinary(r) /\ Good(X(r)) /\ Good(Y(r))
      /\ X(r).shape = Y(r).shape => Size(X(r)) = Size(Y(r))
      /\ Rank(X(r)) \in Nat
  BY LocalOperands, GoodSize
<1>2. X(r).shape = Y(r).shape =>
        /\ Summed(X(r), Y(r)) \in Tensors /\ Summed(X(r), Y(r)) # Throws
        /\ Multiplied(X(r), Y(r)) \in Tensors /\ Multiplied(X(r), Y(r)) # Throws
        /\ Size(Summed(X(r), Y(r))) = Size(X(r))
  BY <1>1, EntryWiseType, NotThrown
<1>3. CASE r.operation = "ADD"
  <2>1. /\ x # Throws => x = Summed(X(r), Y(r)) /\ X(r).shape = Y(r).shape
        /\ X(r).shape = Y(r).shape => x = Summed(X(r), Y(r)) \/ Rank(X(r)) >= 2
        /\ X(r).shape = Y(r).shape /\ x = Throws => Are(r, "PLAINTEXT", "PLAINTEXT")
    BY <1>3, SumValue
  <2>2. ASSUME PlaintextsAreVectors, Service!IsMeant(r)
        PROVE  x # Throws /\ x = Service!Meaning(r)
    <3>1. X(r) = First(r).value /\ Y(r) = Second(r).value
      BY <1>1, <2>2, PlainOperands
    <3>2. X(r).shape = Y(r).shape
      BY <1>1, <1>3, <2>2, <3>1, MeantShapes
    <3>3. Are(r, "PLAINTEXT", "PLAINTEXT") => Rank(X(r)) < 2
      BY <1>1, <2>2, <3>1, PlainOperands DEF Are
    <3>4. x # Throws
      <4> SUFFICES ASSUME x = Throws PROVE FALSE
        OBVIOUS
      <4>1. Rank(X(r)) < 2
        BY <2>1, <3>2, <3>3
      <4>2. x = Summed(X(r), Y(r))
        BY <1>1, <2>1, <3>2, <4>1
      <4> QED
        BY <1>2, <3>2, <4>2
    <3>5. x = Service!Meaning(r)
      BY <1>1, <1>3, <2>1, <3>1, <3>4, MeaningIs
    <3> QED
      BY <3>4, <3>5
  <2> QED
    BY <1>1, <1>2, <2>1, <2>2
<1>4. CASE r.operation = "MULTIPLY"
  <2>1. /\ x = Throws \/ x \in Tensors
        /\ X(r).shape = Y(r).shape /\ Rank(X(r)) < 2 => x = Multiplied(X(r), Y(r))
    BY <1>4, ScaledValue
  <2>2. ASSUME PlaintextsAreVectors, Service!IsMeant(r)
        PROVE  x # Throws /\ x = Service!Meaning(r)
    <3>1. /\ X(r) = First(r).value /\ Y(r) = Second(r).value
          /\ First(r).encryption # "CIPHERTEXT" => Rank(X(r)) < 2
          /\ Second(r).encryption # "CIPHERTEXT" => Rank(Y(r)) < 2
      BY <1>1, <2>2, PlainOperands
    <3>2. Rank(X(r)) < 2 \/ Rank(Y(r)) < 2
      BY <1>4, <3>1, LocalOperands
    <3>3. ~ Service!AreMatrices(r)
      <4>1. Rank(X(r)) = 2 => Rank(Y(r)) # 2
        BY <3>2
      <4> QED
        BY <1>1, <2>2, <3>1, <4>1, MeantShapes
    <3>4. X(r).shape = Y(r).shape /\ Rank(X(r)) < 2
      BY <1>1, <1>4, <2>2, <3>1, <3>3, MeantShapes
    <3>5. Service!Meaning(r) = Multiplied(X(r), Y(r))
      BY <1>1, <1>4, <3>1, <3>3, MeaningIs
    <3> QED
      BY <1>2, <2>1, <3>4, <3>5
  <2> QED
    BY <1>4, <2>1, <2>2
<1> QED
  BY <1>3, <1>4, LocalOperands

-----------------------------------------------------------------------------
(* The product of ciphertexts.                                             *)

LEMMA QuotientBound ==
  ASSUME NEW n \in Nat, NEW p \in Nat \ {0}, NEW u \in 0..((n * p) - 1)
  PROVE  u \div p \in 0..(n - 1) /\ u % p \in 0..(p - 1)
<1> DEFINE d == u \div p
           r == u % p
<1>0. n * p \in Nat
  BY SMT
<1>1. r \in 0..(p - 1) /\ d \in Int /\ u = (p * d) + r /\ u \in Int
  BY <1>0, Division
<1> HIDE DEF d, r
<1>2. d < n
  <2> SUFFICES ASSUME d >= n PROVE FALSE
    BY <1>1
  <2>1. p * d >= n * p
    BY <1>1, SMT
  <2> QED
    BY <1>0, <1>1, <2>1
<1>3. d >= 0
  <2> SUFFICES ASSUME d <= -1 PROVE FALSE
    BY <1>1
  <2>1. p * d <= -p
    BY <1>1, SMT
  <2> QED
    BY <1>0, <1>1, <2>1
<1> QED
  BY <1>1, <1>2, <1>3 DEF d, r

\* What the masks hide comes back when the parts are put together.
LEMMA Unmasked ==
  ASSUME NEW x \in Int, NEW y \in Int, NEW triplet, triplet.a \in Nat, triplet.b \in Nat
  PROVE  Recombined(Masked(x, triplet.a), Masked(y, triplet.b), triplet) = (x * y) % Modulus
<1> DEFINE a == triplet.a
           b == triplet.b
           e == Masked(x, a)
           f == Masked(y, b)
<1>1. a \in Int /\ b \in Int
  OBVIOUS
<1> HIDE DEF a, b
<1>2. e \in Int /\ Congruent(e, x - a, Modulus)
  BY <1>1, ModulusAssumption, RemainderCongruent DEF Masked
<1>3. f \in Int /\ Congruent(f, y - b, Modulus)
  BY <1>1, ModulusAssumption, RemainderCongruent DEF Masked
<1> HIDE DEF e, f
<1>4. \A c \in Int : Congruent(c, c, Modulus)
  <2> SUFFICES ASSUME NEW c \in Int PROVE \E k \in Int : c = c + Modulus * k
    BY DEF Congruent
  <2>1. c = c + Modulus * 0
    BY ModulusAssumption
  <2> QED
    BY <2>1
<1>5. Congruent(e + a, (x - a) + a, Modulus)
  <2> DEFINE d == x - a
  <2>1. d \in Int /\ Congruent(e, d, Modulus) /\ Congruent(a, a, Modulus)
    BY <1>1, <1>2, <1>4
  <2> HIDE DEF d
  <2>2. Congruent(e + a, d + a, Modulus)
    BY <1>1, <1>2, <2>1, ModulusAssumption, CongruentSums
  <2> QED
    BY <2>2 DEF d
<1>6. Congruent(f + b, (y - b) + b, Modulus)
  <2> DEFINE d == y - b
  <2>1. d \in Int /\ Congruent(f, d, Modulus) /\ Congruent(b, b, Modulus)
    BY <1>1, <1>3, <1>4
  <2> HIDE DEF d
  <2>2. Congruent(f + b, d + b, Modulus)
    BY <1>1, <1>3, <2>1, ModulusAssumption, CongruentSums
  <2> QED
    BY <2>2 DEF d
<1>7. (x - a) + a = x /\ (y - b) + b = y
  BY <1>1
<1>8. Congruent((e + a) * (f + b), x * y, Modulus)
  <2>1. e + a \in Int /\ f + b \in Int
    BY <1>1, <1>2, <1>3
  <2> QED
    BY <1>5, <1>6, <1>7, <2>1, ModulusAssumption, CongruentProducts
<1>9. (e + a) * (f + b) = (((e * f) + (e * b)) + (f * a)) + (a * b)
  BY <1>1, <1>2, <1>3, SMT
<1>10. (e + a) * (f + b) \in Int /\ x * y \in Int
  BY <1>1, <1>2, <1>3, SMT
<1>11. ((e + a) * (f + b)) % Modulus = (x * y) % Modulus
  BY <1>8, <1>10, ModulusAssumption, CongruentRemainders
<1>12. Recombined(e, f, triplet) = ((((e * f) + (e * b)) + (f * a)) + (a * b)) % Modulus
  BY DEF Recombined, a, b
<1> QED
  BY <1>9, <1>11, <1>12 DEF e, f, a, b

-----------------------------------------------------------------------------

Lefts(r, p) ==
  Filled(<<Size(X(r)) * p>>,
         [q \in 1..(Size(X(r)) * p) |-> LeftFactor(X(r), X(r).shape[2], p, q - 1)])
Rights(r, p) ==
  Filled(<<Size(X(r)) * p>>,
         [q \in 1..(Size(X(r)) * p) |-> RightFactor(Y(r), X(r).shape[2], p, q - 1)])

LEMMA ProductsAre ==
  ASSUME NEW r
  PROVE  Products(r) =
           IF Rank(X(r)) < 2 THEN {[x |-> X(r), y |-> Y(r), p |-> 1]}
           ELSE {[x |-> Lefts(r, p), y |-> Rights(r, p), p |-> p] : p \in Columns(Y(r))}
  BY DEF Products, Lefts, Rights, Tensor, Filled

IsRemoteProduct(r) ==
  r \in Requests /\ Accepted(r) /\ ~ IsLocal(r) /\ ~ IsDecryption(r) /\ Rank(X(r)) < 3

LEMMA ProductOperands ==
  ASSUME NEW r, IsRemoteProduct(r)
  PROVE  /\ IsBinary(r) /\ IsProduct(r) /\ r.operation = "MULTIPLY"
         /\ Good(X(r)) /\ Good(Y(r))
         /\ X(r) = First(r).value /\ Y(r) = Second(r).value
         /\ IsSingle(r) <=> X(r).shape = <<>>
         /\ X(r).shape = Y(r).shape => Size(X(r)) = Size(Y(r))
<1>1. r \in Requests /\ Accepted(r) /\ ~ IsDecryption(r) /\ IsProduct(r)
  BY DEF IsRemoteProduct, IsLocal
<1>2. IsBinary(r)
  BY <1>1 DEF IsBinary
<1>3. First(r).encryption = "CIPHERTEXT" /\ Second(r).encryption = "CIPHERTEXT"
      /\ r.operation = "MULTIPLY"
  BY <1>1 DEF IsProduct, Are
<1> QED
  BY <1>1, <1>2, <1>3, DecodedFirst, DecodedSecond, SameSizes

\* The tensors a product of matrices multiplies element by element.
LEMMA FactorsGood ==
  ASSUME NEW r, IsRemoteProduct(r), Rank(X(r)) = 2, NEW p \in Nat \ {0}
  PROVE  /\ Size(X(r)) * p \in Nat \ {0}
         /\ Good(Lefts(r, p)) /\ Good(Rights(r, p))
         /\ Lefts(r, p).shape = Rights(r, p).shape
         /\ Size(Lefts(r, p)) = Size(X(r)) * p /\ Size(Rights(r, p)) = Size(X(r)) * p
         /\ Lefts(r, p).data =
              [q \in 1..(Size(X(r)) * p) |-> LeftFactor(X(r), X(r).shape[2], p, q - 1)]
         /\ Rights(r, p).data =
              [q \in 1..(Size(X(r)) * p) |-> RightFactor(Y(r), X(r).shape[2], p, q - 1)]
<1> DEFINE n == Size(X(r)) * p
           m == X(r).shape[2]
           f == [q \in 1..n |-> LeftFactor(X(r), m, p, q - 1)]
           g == [q \in 1..n |-> RightFactor(Y(r), m, p, q - 1)]
<1>1. Good(X(r)) /\ Good(Y(r)) /\ Size(X(r)) \in Nat \ {0}
  BY ProductOperands, GoodSize
<1>2. n \in Nat \ {0}
  BY <1>1, MatrixShape
<1>3. m \in Nat \ {0}
  <2>1. X(r).shape \in Seq(Nat \ {0}) /\ Len(X(r).shape) = 2
    BY <1>1, GoodSize DEF Rank
  <2> QED
    BY <2>1
<1>4. \A q \in Int : LeftFactor(X(r), m, p, q) \in Nat /\ RightFactor(Y(r), m, p, q) \in Nat
  BY <1>1, <1>3, FactorTypes
<1>5. f \in [1..n -> Nat] /\ g \in [1..n -> Nat]
  <2>1. \A q \in 1..n : q - 1 \in Int
    BY <1>2
  <2> QED
    BY <1>4, <2>1
<1>6. Lefts(r, p) = Filled(<<n>>, f) /\ Rights(r, p) = Filled(<<n>>, g)
  BY DEF Lefts, Rights
<1> HIDE DEF f, g, n
<1> DEFINE shape == <<n>>
<1>7. shape \in Seq(Nat \ {0}) /\ Len(shape) = 1 /\ shape[1] = n /\ shape # <<>> /\ n \in Nat
  BY <1>2, SingletonShape
<1>12. Lefts(r, p) = Filled(shape, f) /\ Rights(r, p) = Filled(shape, g)
  BY <1>6
<1> HIDE DEF shape
<1>8. ASSUME NEW h \in [1..n -> Nat]
      PROVE  /\ Good(Filled(shape, h)) /\ Filled(shape, h).shape = shape
             /\ Filled(shape, h).data = h /\ Size(Filled(shape, h)) = n
  <2> DEFINE v == Filled(shape, h)
  <2>1. v \in Tensors /\ v.shape = shape /\ v.data = h /\ Size(v) = n
    BY <1>7, FilledType
  <2>2. h \in Seq(Nat) /\ Len(h) = n
    BY <1>7, SeqByElements
  <2>3. h # <<>>
    BY <1>2, <2>2, EmptySeq
  <2> HIDE DEF v
  <2>4. IsFull(v)
    BY <1>7, <2>1, <2>2, <2>3 DEF IsFull
  <2> QED
    BY <2>1, <2>4 DEF Good, v
<1>9. /\ Good(Filled(shape, f)) /\ Good(Filled(shape, g))
      /\ Filled(shape, f).shape = shape /\ Filled(shape, f).data = f
      /\ Filled(shape, g).shape = shape /\ Filled(shape, g).data = g
      /\ Size(Filled(shape, f)) = n /\ Size(Filled(shape, g)) = n
  BY <1>5, <1>8
<1>10. Good(Lefts(r, p)) /\ Good(Rights(r, p))
  BY <1>9, <1>12
<1>11. /\ Lefts(r, p).shape = Rights(r, p).shape
       /\ Size(Lefts(r, p)) = n /\ Size(Rights(r, p)) = n
       /\ Lefts(r, p).data = f /\ Rights(r, p).data = g
  BY <1>9, <1>12
<1> QED
  BY <1>2, <1>10, <1>11 DEF n, f, g

\* A multiplication under way is well formed once it is masked: its
\* triplets are numbers, and e and f are what the CoFHE nodes revealed.
IsMasked(w) ==
  /\ \A i \in 1..Size(w.x) : w.triplets[i].a \in Nat /\ w.triplets[i].b \in Nat
  /\ \A i \in 1..Size(w.x) :
       /\ w.e[i] = Masked(w.x.data[i], w.triplets[i].a)
       /\ w.f[i] = Masked(w.y.data[i], w.triplets[i].b)

Recombination(w) ==
  Filled(w.x.shape,
         [q \in 1..Size(w.x) |->
            Recombined(w.e[(q - 1) + 1], w.f[(q - 1) + 1], w.triplets[(q - 1) + 1])])

\* The product of every pair of elements comes out.
LEMMA ElementProducts ==
  ASSUME NEW w, Good(w.x), Good(w.y), Size(w.x) = Size(w.y), IsMasked(w)
  PROVE  Recombination(w) = Multiplied(w.x, w.y)
<1>1. \A q \in 1..Size(w.x) : w.x.data[q] \in Nat /\ w.y.data[q] \in Nat
  BY GoodElements
<1>2. \A q \in 1..Size(w.x) : (q - 1) + 1 = q
  OBVIOUS
<1>3. ASSUME NEW q \in 1..Size(w.x)
      PROVE  Recombined(w.e[q], w.f[q], w.triplets[q]) = (w.x.data[q] * w.y.data[q]) % Modulus
  <2>1. w.triplets[q].a \in Nat /\ w.triplets[q].b \in Nat
    BY DEF IsMasked
  <2>2. w.e[q] = Masked(w.x.data[q], w.triplets[q].a)
        /\ w.f[q] = Masked(w.y.data[q], w.triplets[q].b)
    BY DEF IsMasked
  <2> DEFINE a == w.x.data[q]
             b == w.y.data[q]
             triplet == w.triplets[q]
  <2>3. a \in Int /\ b \in Int
    BY <1>1
  <2>4. triplet.a \in Nat /\ triplet.b \in Nat
    BY <2>1
  <2> HIDE DEF a, b, triplet
  <2>5. Recombined(Masked(a, triplet.a), Masked(b, triplet.b), triplet) = (a * b) % Modulus
    BY <2>3, <2>4, Unmasked
  <2> QED
    BY <2>2, <2>5 DEF a, b, triplet
<1>4. [q \in 1..Size(w.x) |->
         Recombined(w.e[(q - 1) + 1], w.f[(q - 1) + 1], w.triplets[(q - 1) + 1])]
        = [q \in 1..Size(w.x) |-> (w.x.data[q] * w.y.data[q]) % Modulus]
  <2>1. \A q \in 1..Size(w.x) :
          Recombined(w.e[(q - 1) + 1], w.f[(q - 1) + 1], w.triplets[(q - 1) + 1])
            = (w.x.data[q] * w.y.data[q]) % Modulus
    BY <1>2, <1>3
  <2> QED
    BY <2>1
<1> QED
  BY <1>4 DEF Recombination, Multiplied

SummedUp(v, n, m, p) ==
  Filled(<<n, p>>, [q \in 1..(n * p) |->
    SumFunction([j \in 0..(m - 1) |->
      At(v, (((((q - 1) \div p) * m) + j) * p) + ((q - 1) % p))]) % Modulus])

LEMMA ProductOfIs ==
  ASSUME NEW r, NEW w
  PROVE  ProductOf(r, w) =
           IF Rank(X(r)) < 2 THEN Recombination(w)
           ELSE SummedUp(Recombination(w), X(r).shape[1], X(r).shape[2], w.p)
  BY DEF ProductOf, Recombination, SummedUp, SumProducts, Tensor, Filled

LEMMA SummedUpType ==
  ASSUME NEW v, Good(v), NEW n \in Nat \ {0}, NEW m \in Nat \ {0}, NEW p \in Nat \ {0}
  PROVE  SummedUp(v, n, m, p) \in Tensors
<1> DEFINE u == n * p
           shape == <<n, p>>
           place(q, j) == (((((q - 1) \div p) * m) + j) * p) + ((q - 1) % p)
           F(q) == [j \in 0..(m - 1) |-> At(v, place(q, j))]
           f == [q \in 1..u |-> SumFunction(F(q)) % Modulus]
<1>1. u \in Nat /\ shape \in Seq(Nat \ {0})
  BY MatrixShape
<1>2. ASSUME NEW q \in 1..u PROVE SumFunction(F(q)) % Modulus \in Nat
  <2> DEFINE G == F(q)
  <2>1. q - 1 \in Int
    BY <1>1
  <2>2. (q - 1) \div p \in Int /\ (q - 1) % p \in Int
    <3>1. (q - 1) % p \in 0..(p - 1)
      BY <2>1, Division
    <3> QED
      BY <2>1, <3>1, Division
  <2>3. \A j \in 0..(m - 1) : At(v, place(q, j)) \in Nat
    <3> SUFFICES ASSUME NEW j \in 0..(m - 1) PROVE At(v, place(q, j)) \in Nat
      OBVIOUS
    <3>1. place(q, j) \in Int
      <4> DEFINE d == (q - 1) \div p
                 e == (q - 1) % p
      <4>1. d \in Int /\ e \in Int /\ j \in Int
        BY <2>2
      <4> HIDE DEF d, e
      <4>2. (((d * m) + j) * p) + e \in Int
        BY <4>1, SMT
      <4> QED
        BY <4>2 DEF d, e
    <3> HIDE DEF place
    <3> QED
      BY <3>1, GoodElements
  <2> HIDE DEF place
  <2>4. DOMAIN G = 0..(m - 1) /\ \A j \in 0..(m - 1) : G[j] \in Int
    BY <2>3
  <2> USE DEF place
  <2> HIDE DEF G
  <2>5. SumFunction(G) % Modulus \in Nat
    BY <2>4, SumType
  <2> QED
    BY <2>5 DEF G
<1>3. f \in [1..u -> Nat]
  BY <1>2
<1>4. SummedUp(v, n, m, p) = Filled(shape, f)
  BY DEF SummedUp
<1> HIDE DEF f, u, shape
<1> QED
  BY <1>1, <1>3, <1>4, FilledType

-----------------------------------------------------------------------------

Rowwise(x, y) ==
  Filled(<<x.shape[1], y.shape[2]>>, [q \in 1..(x.shape[1] * y.shape[2]) |->
    SumFunction([j \in 1..x.shape[2] |->
       x.data[((((q - 1) \div y.shape[2]) + 1) - 1) * x.shape[2] + j]
         * y.data[(j - 1) * y.shape[2] + (((q - 1) % y.shape[2]) + 1)]]) % Modulus])

\* The service sums as the code does.
LEMMA ServiceTotal ==
  ASSUME NEW F
  PROVE  Service!SumFunction(F) = SumFunction(F)
  BY DEF Service!SumFunction, Service!SumFunctionOnSet, Service!FoldFunctionOnSet,
         Service!MapThenFoldSet,
         SumFunction, SumFunctionOnSet, FoldFunctionOnSet, MapThenFoldSet

LEMMA MatrixMeaningIs ==
  ASSUME NEW r, r.operation = "MULTIPLY", Service!AreMatrices(r),
         X(r) = First(r).value, Y(r) = Second(r).value
  PROVE  Service!Meaning(r) = Rowwise(X(r), Y(r))
<1>1. Service!Operand(r, 1) = X(r) /\ Service!Operand(r, 2) = Y(r)
  BY DEF Service!Operand, First, Second
<1>2. Service!Meaning(r) = Service!MatrixProduct(Service!Operand(r, 1), Service!Operand(r, 2))
  BY DEF Service!Meaning
<1>3. Service!Meaning(r) = Service!MatrixProduct(X(r), Y(r))
  BY <1>1, <1>2
<1> QED
  BY <1>3, ServiceTotal DEF Service!MatrixProduct, Service!Entry, Rowwise, Filled

\* v holds the products of the factors that x, of n rows and m columns, and y,
\* of m rows and p columns, are flattened into.
IsFlat(x, y, n, m, p, left, right, v) ==
  /\ Good(x) /\ Good(y) /\ Good(v)
  /\ n \in Nat \ {0} /\ m \in Nat \ {0} /\ p \in Nat \ {0}
  /\ Size(x) = n * m /\ Size(y) = m * p /\ Size(v) = Size(x) * p
  /\ left = [q \in 1..(Size(x) * p) |-> LeftFactor(x, m, p, q - 1)]
  /\ right = [q \in 1..(Size(x) * p) |-> RightFactor(y, m, p, q - 1)]
  /\ v.data = [q \in 1..(Size(x) * p) |-> (left[q] * right[q]) % Modulus]

\* One entry: the products that the flattened factors hold in places
\* ((i*m) + j)*p + k are those of row i and column k.
LEMMA EntryIs ==
  ASSUME NEW x, NEW y, NEW n, NEW m, NEW p, NEW left, NEW right, NEW v,
         IsFlat(x, y, n, m, p, left, right, v),
         NEW i \in 0..(n - 1), NEW k \in 0..(p - 1), NEW j \in 0..(m - 1)
  PROVE  At(v, (((i * m) + j) * p) + k) =
           (x.data[((i * m) + j) + 1] * y.data[((j * p) + k) + 1]) % Modulus
<1> DEFINE e == (((i * m) + j) * p) + k
           u == (i * m) + j
           d == (j * p) + k
           s == Size(x) * p
<1>0. /\ Good(x) /\ Good(y) /\ Good(v)
      /\ n \in Nat \ {0} /\ m \in Nat \ {0} /\ p \in Nat \ {0}
      /\ Size(x) = n * m /\ Size(y) = m * p /\ Size(v) = Size(x) * p
      /\ left = [q \in 1..(Size(x) * p) |-> LeftFactor(x, m, p, q - 1)]
      /\ right = [q \in 1..(Size(x) * p) |-> RightFactor(y, m, p, q - 1)]
      /\ v.data = [q \in 1..(Size(x) * p) |-> (left[q] * right[q]) % Modulus]
  BY DEF IsFlat
<1>1. /\ e \in 0..(((n * m) * p) - 1)
      /\ e % p = k /\ e \div p = (i * m) + j
      /\ (e \div p) % m = j
      /\ e \div (m * p) = i
  <2>1. e = Place(m, p, i, j, k)
    BY DEF Place
  <2> HIDE DEF e, u, d, s
  <2>2. PlacesAre(n, m, p, i, j, k, e)
    BY <1>0, <2>1, Places
  <2> QED
    BY <2>2 DEF PlacesAre
<1>2. u \in 0..(Size(x) - 1) /\ d \in 0..(Size(y) - 1)
  BY <1>0, ProductBound
<1>3. s = (n * m) * p /\ s = Size(v)
  BY <1>0
<1>4. At(v, e) = v.data[e + 1]
  <2>1. e \in 0..(Size(v) - 1)
    BY <1>1, <1>3
  <2> HIDE DEF e
  <2> QED
    BY <1>0, <2>1, GoodElements
<1>5. e + 1 \in 1..s /\ (e + 1) - 1 = e
  <2>1. e \in 0..(s - 1)
    BY <1>1, <1>3
  <2>2. s \in Nat
    BY <1>0, <1>3, GoodSize
  <2> HIDE DEF e, s
  <2> QED
    BY <2>1, <2>2
<1>6. left[e + 1] = LeftFactor(x, m, p, e) /\ right[e + 1] = RightFactor(y, m, p, e)
  <2> HIDE DEF e
  <2> QED
    BY <1>0, <1>5
<1>7. v.data[e + 1] = (left[e + 1] * right[e + 1]) % Modulus
  <2> HIDE DEF e
  <2> QED
    BY <1>0, <1>5
<1>8. LeftFactor(x, m, p, e) = At(x, u) /\ RightFactor(y, m, p, e) = At(y, d)
  <2> HIDE DEF e
  <2> QED
    BY <1>1 DEF LeftFactor, RightFactor
<1>9. At(x, u) = x.data[u + 1] /\ At(y, d) = y.data[d + 1]
  <2> HIDE DEF u, d
  <2> QED
    BY <1>0, <1>2, GoodElements
<1> QED
  BY <1>4, <1>6, <1>7, <1>8, <1>9

\* The sums of an entry: F of the flattened products, G of row and column.
LEMMA SumsOfEntry ==
  ASSUME NEW m \in Nat, NEW F, NEW G, DOMAIN F = 0..(m - 1), DOMAIN G = 1..m,
         \A j \in 0..(m - 1) : G[j + 1] \in Int /\ F[j] = G[j + 1] % Modulus
  PROVE  SumFunction(F) % Modulus = SumFunction(G) % Modulus
<1> DEFINE a == SumFunctionOnSet(F, 0..(m - 1))
           b == SumFunctionOnSet(G, 1..m)
<1>1. SumFunction(F) = a /\ SumFunction(G) = b
  BY DEF SumFunction
<1>2. \A j \in 0..(m - 1) : F[j] \in Int /\ G[j + 1] \in Int /\ Congruent(F[j], G[j + 1], Modulus)
  BY ModulusAssumption, RemainderCongruent
<1>3. a \in Int /\ b \in Int /\ Congruent(a, b, Modulus)
  BY <1>2, ModulusAssumption, SumsAgree
<1> HIDE DEF a, b
<1>4. a % Modulus = b % Modulus
  BY <1>3, ModulusAssumption, CongruentRemainders
<1> QED
  BY <1>1, <1>4

\* The sums of row i and column k, as the code and as the service write them.
FlatSum(v, m, p, i, k) == [j \in 0..(m - 1) |-> At(v, (((i * m) + j) * p) + k)]
RowByColumn(x, y, m, p, i, k) ==
  [j \in 1..m |-> x.data[((i + 1) - 1) * m + j] * y.data[(j - 1) * p + (k + 1)]]

LEMMA MatrixEntry ==
  ASSUME NEW x, NEW y, NEW n, NEW m, NEW p, NEW left, NEW right, NEW v,
         IsFlat(x, y, n, m, p, left, right, v),
         NEW i \in 0..(n - 1), NEW k \in 0..(p - 1)
  PROVE  SumFunction(FlatSum(v, m, p, i, k)) % Modulus
           = SumFunction(RowByColumn(x, y, m, p, i, k)) % Modulus
<1> DEFINE F == FlatSum(v, m, p, i, k)
           G == RowByColumn(x, y, m, p, i, k)
<1>0. /\ Good(x) /\ Good(y)
      /\ n \in Nat \ {0} /\ m \in Nat \ {0} /\ p \in Nat \ {0}
      /\ Size(x) = n * m /\ Size(y) = m * p
  BY DEF IsFlat
<1>1. ASSUME NEW j \in 0..(m - 1)
      PROVE  G[j + 1] \in Int /\ F[j] = G[j + 1] % Modulus
  <2> DEFINE u == (i * m) + j
             d == (j * p) + k
  <2>1. u \in 0..(Size(x) - 1) /\ d \in 0..(Size(y) - 1)
    BY <1>0, ProductBound
  <2>2. F[j] = (x.data[u + 1] * y.data[d + 1]) % Modulus
    <3>1. At(v, (((i * m) + j) * p) + k)
            = (x.data[((i * m) + j) + 1] * y.data[((j * p) + k) + 1]) % Modulus
      BY EntryIs
    <3> QED
      BY <3>1 DEF FlatSum
  <2>3. G[j + 1] = x.data[u + 1] * y.data[d + 1]
    <3>1. j + 1 \in 1..m
      BY <1>0
    <3>2. i * m \in Int /\ j * p \in Int /\ i \in Int /\ k \in Int /\ j \in Int
      BY <1>0, SMT
    <3>3. ((i + 1) - 1) * m + (j + 1) = u + 1
      <4>1. (i + 1) - 1 = i
        BY <3>2
      <4> QED
        BY <3>2, <4>1
    <3>4. ((j + 1) - 1) * p + (k + 1) = d + 1
      <4>1. (j + 1) - 1 = j
        BY <3>2
      <4> QED
        BY <3>2, <4>1
    <3>5. G[j + 1] = x.data[((i + 1) - 1) * m + (j + 1)]
                       * y.data[((j + 1) - 1) * p + (k + 1)]
      BY <3>1 DEF RowByColumn
    <3> QED
      BY <3>3, <3>4, <3>5
  <2> HIDE DEF u, d
  <2>4. x.data[u + 1] \in Nat /\ y.data[d + 1] \in Nat
    <3>1. u + 1 \in 1..Size(x) /\ d + 1 \in 1..Size(y)
      <4>1. Size(x) \in Nat /\ Size(y) \in Nat
        BY <1>0, GoodSize
      <4> QED
        BY <2>1, <4>1
    <3> QED
      BY <1>0, <3>1, GoodElements
  <2>5. x.data[u + 1] * y.data[d + 1] \in Int
    BY <2>4
  <2> QED
    BY <2>2, <2>3, <2>5
<1>2. DOMAIN F = 0..(m - 1) /\ DOMAIN G = 1..m /\ m \in Nat
  BY <1>0 DEF FlatSum, RowByColumn
<1> HIDE DEF F, G
<1>3. SumFunction(F) % Modulus = SumFunction(G) % Modulus
  BY <1>1, <1>2, SumsOfEntry
<1> QED
  BY <1>3 DEF F, G

LEMMA MatrixSums ==
  ASSUME NEW x, NEW y, NEW left, NEW right, NEW v,
         IsFlat(x, y, x.shape[1], x.shape[2], y.shape[2], left, right, v)
  PROVE  SummedUp(v, x.shape[1], x.shape[2], y.shape[2]) = Rowwise(x, y)
<1> DEFINE n == x.shape[1]
           m == x.shape[2]
           p == y.shape[2]
           A(i, k) == SumFunction(FlatSum(v, m, p, i, k)) % Modulus
           B(i, k) == SumFunction(RowByColumn(x, y, m, p, i, k)) % Modulus
<1>0. n \in Nat \ {0} /\ m \in Nat \ {0} /\ p \in Nat \ {0}
  BY DEF IsFlat
<1>7. IsFlat(x, y, n, m, p, left, right, v)
  OBVIOUS
<1>1. \A i \in 0..(n - 1), k \in 0..(p - 1) : A(i, k) = B(i, k)
  BY <1>7, MatrixEntry
<1>2. SummedUp(v, n, m, p) =
        Filled(<<n, p>>, [q \in 1..(n * p) |-> A((q - 1) \div p, (q - 1) % p)])
  BY DEF SummedUp, FlatSum
<1>3. Rowwise(x, y) =
        Filled(<<n, p>>, [q \in 1..(n * p) |-> B((q - 1) \div p, (q - 1) % p)])
  BY DEF Rowwise, RowByColumn
<1> HIDE DEF A, B, n, m, p
<1>4. ASSUME NEW q \in 1..(n * p)
      PROVE  A((q - 1) \div p, (q - 1) % p) = B((q - 1) \div p, (q - 1) % p)
  <2> DEFINE u == q - 1
             np == n * p
  <2>1. u \in 0..(np - 1)
    <3>1. np \in Int
      BY <1>0, SMT
    <3> HIDE DEF np
    <3>2. q \in 1..np
      BY DEF np
    <3> QED
      BY <3>1, <3>2
  <2>2. u \div p \in 0..(n - 1) /\ u % p \in 0..(p - 1)
    <3>1. n \in Nat /\ u \in 0..((n * p) - 1)
      BY <1>0, <2>1
    <3> HIDE DEF u
    <3> QED
      BY <1>0, <3>1, QuotientBound
  <2> QED
    BY <1>1, <2>2
<1>5. [q \in 1..(n * p) |-> A((q - 1) \div p, (q - 1) % p)]
        = [q \in 1..(n * p) |-> B((q - 1) \div p, (q - 1) % p)]
  BY <1>4
<1> QED
  BY <1>2, <1>3, <1>5 DEF n, m, p

-----------------------------------------------------------------------------

\* The product of ciphertexts is a tensor, and what the request means.
LEMMA ProductValue ==
  ASSUME NEW r, IsRemoteProduct(r), NEW w,
         NEW base \in Products(r), w.x = base.x, w.y = base.y, w.p = base.p,
         w.x.shape = w.y.shape, IsMasked(w)
  PROVE  /\ ProductOf(r, w) \in Tensors
         /\ Service!IsMeant(r) => ProductOf(r, w) = Service!Meaning(r)
<1> DEFINE x == X(r)
           y == Y(r)
<1>1. /\ IsBinary(r) /\ r.operation = "MULTIPLY"
      /\ Good(x) /\ Good(y) /\ x = First(r).value /\ y = Second(r).value
      /\ x.shape = y.shape => Size(x) = Size(y)
      /\ Rank(x) \in Nat /\ Rank(x) < 3
  BY ProductOperands, GoodSize DEF IsRemoteProduct
<1>2. Service!IsMeant(r) =>
        /\ \/ Service!AreMatrices(r)
           \/ x.shape = y.shape /\ Rank(x) < 2 /\ ~ Service!AreMatrices(r)
        /\ Service!AreMatrices(r) <=> Rank(x) = 2 /\ Rank(y) = 2 /\ x.shape[2] = y.shape[1]
  BY <1>1, MeantShapes
<1>3. CASE Rank(x) < 2
  <2>1. w.x = x /\ w.y = y
    BY <1>3, ProductsAre
  <2>2. Recombination(w) = Multiplied(x, y)
    BY <1>1, <2>1, ElementProducts
  <2>3. ProductOf(r, w) = Multiplied(x, y)
    BY <1>3, <2>2, ProductOfIs
  <2>4. Multiplied(x, y) \in Tensors
    BY <1>1, <2>1, EntryWiseType DEF Good
  <2>5. Service!IsMeant(r) => ~ Service!AreMatrices(r)
    BY <1>1, <1>2, <1>3
  <2>6. Service!IsMeant(r) => Service!Meaning(r) = Multiplied(x, y)
    BY <1>1, <2>5, MeaningIs
  <2> QED
    BY <2>3, <2>4, <2>6
<1>4. CASE ~ (Rank(x) < 2)
  <2>1. Rank(x) = 2
    BY <1>1, <1>4
  <2>2. PICK p \in Columns(y) : w.x = Lefts(r, p) /\ w.y = Rights(r, p) /\ w.p = p
    BY <1>4, ProductsAre
  <2>3. p \in Nat \ {0}
    BY <1>1, ColumnsType
  <2> DEFINE n == x.shape[1]
             m == x.shape[2]
             left == w.x.data
             right == w.y.data
             v == Recombination(w)
  <2>4. /\ n \in Nat \ {0} /\ m \in Nat \ {0} /\ Size(x) = n * m
    <3>1. x.shape \in Seq(Nat \ {0}) /\ Len(x.shape) = 2
      BY <1>1, <2>1, GoodSize DEF Rank
    <3>2. Size(x) = x.shape[1] * x.shape[2]
      BY <1>1, <3>1 DEF Good, IsFull, Size
    <3> QED
      BY <3>1, <3>2
  <2>5. /\ Good(w.x) /\ Good(w.y) /\ Size(w.x) = Size(x) * p /\ Size(w.y) = Size(x) * p
        /\ left = [q \in 1..(Size(x) * p) |-> LeftFactor(x, m, p, q - 1)]
        /\ right = [q \in 1..(Size(x) * p) |-> RightFactor(y, m, p, q - 1)]
    BY <2>1, <2>2, <2>3, FactorsGood
  <2>6. v = Multiplied(w.x, w.y)
    BY <2>5, ElementProducts
  <2>7. Good(v) /\ Size(v) = Size(x) * p
    BY <2>5, <2>6, EntryWiseType
  <2>8. v.data = [q \in 1..(Size(x) * p) |-> (left[q] * right[q]) % Modulus]
    BY <2>5, <2>6 DEF Multiplied, Filled
  <2>9. ProductOf(r, w) = SummedUp(v, n, m, p)
    BY <1>4, <2>2, ProductOfIs
  <2> HIDE DEF v, n, m, left, right, x, y
  <2>10. ProductOf(r, w) \in Tensors
    BY <2>3, <2>4, <2>7, <2>9, SummedUpType
  <2>11. ASSUME Service!IsMeant(r) PROVE ProductOf(r, w) = Service!Meaning(r)
    <3>1. Service!AreMatrices(r) /\ Rank(y) = 2 /\ m = y.shape[1]
      BY <1>2, <1>4, <2>11 DEF m
    <3>2. p = y.shape[2]
      BY <2>2, <3>1 DEF Columns
    <3>3. Size(y) = m * p
      <4>1. Len(y.shape) = 2
        BY <3>1 DEF Rank
      <4>2. Size(y) = y.shape[1] * y.shape[2]
        BY <1>1, <4>1 DEF Good, IsFull, Size
      <4> QED
        BY <3>1, <3>2, <4>2
    <3>4. SummedUp(v, n, m, p) = Rowwise(x, y)
      <4>2. IsFlat(x, y, n, m, p, left, right, v)
        BY <1>1, <2>3, <2>4, <2>5, <2>7, <2>8, <3>3 DEF IsFlat
      <4> QED
        BY <3>2, <4>2, MatrixSums DEF n, m
    <3>5. Service!Meaning(r) = Rowwise(x, y)
      BY <1>1, <3>1, MatrixMeaningIs DEF x, y
    <3> QED
      BY <2>9, <3>4, <3>5
  <2> QED
    BY <2>10, <2>11
<1> QED
  BY <1>3, <1>4

-----------------------------------------------------------------------------
(* The inductive invariant of the threads.                                 *)

OperandsLive(r) == IF IsSingle(r) THEN {} ELSE OperandObjects(r)
MasksLive(r, n) == TripletObjects(n) \cup (IF IsSingle(r) THEN {} ELSE MaskObjects(n))
FirstLive(r, n) == IF IsSingle(r) THEN {} ELSE Objects("pt1", n)

\* The multiplication under way is one the request takes.
IsWork(r, w) == \E base \in Products(r) : w.x = base.x /\ w.y = base.y /\ w.p = base.p

\* Its operands fit, and its triplets are numbers.
HasTriplets(w) ==
  /\ w = [x |-> w.x, y |-> w.y, p |-> w.p,
          triplets |-> w.triplets, e |-> w.e, f |-> w.f]
  /\ w.x.shape = w.y.shape
  /\ \A i \in 1..Size(w.x) : w.triplets[i].a \in Nat /\ w.triplets[i].b \in Nat

FirstRevealed(w) ==
  \A i \in 1..Size(w.x) : w.e[i] = Masked(w.x.data[i], w.triplets[i].a)

\* What a response must be like.
Clean(a) ==
  /\ a.vain = {}
  /\ a.value # Throws =>
       /\ \A o \in a.left : o[1] \in {"pt1_b + pt2_a", "... + c"}
       /\ a.left # {} => IsProduct(a.request)

Right(a) ==
  PlaintextsAreVectors /\ Service!IsMeant(a.request) =>
    /\ a.value = Throws /\ Accepted(a.request) => a.failed
    /\ a.value # Throws => a.value = Service!Meaning(a.request)

\* A thread at c, with request r, work w, objects l and response a.
ThreadOK(c, r, w, l, a) ==
  /\ c \in {"idle", "dispatch", "draw", "first", "second", "decrypt"}
  /\ l \subseteq Heap
  /\ c = "idle" => /\ r = Nothing /\ l = {}
                   /\ a # Nothing => a \in Replies /\ Clean(a) /\ Right(a)
  /\ c # "idle" => r \in Requests /\ a = Nothing
  /\ c = "dispatch" => l = {}
  /\ c = "decrypt" => Accepted(r) /\ IsDecryption(r) /\ l = OperandsLive(r)
  /\ c \in {"draw", "first", "second"} => IsRemoteProduct(r) /\ IsWork(r, w)
  /\ c = "draw" => l = OperandsLive(r)
  /\ c \in {"first", "second"} => HasTriplets(w)
  /\ c = "first" => l = OperandsLive(r) \cup MasksLive(r, Size(w.x))
  /\ c = "second" =>
       /\ FirstRevealed(w)
       /\ l = OperandsLive(r) \cup MasksLive(r, Size(w.x)) \cup FirstLive(r, Size(w.x))

ThreadFunctions ==
  /\ DOMAIN pc = Threads /\ DOMAIN request = Threads /\ DOMAIN work = Threads
  /\ DOMAIN live = Threads /\ DOMAIN reply = Threads

ThreadInv ==
  /\ ThreadFunctions
  /\ \A t \in Threads : ThreadOK(pc[t], request[t], work[t], live[t], reply[t])

-----------------------------------------------------------------------------
(* Objects.                                                                *)

LEMMA ObjectsType ==
  ASSUME NEW name \in Names, NEW n \in Nat
  PROVE  Objects(name, n) \subseteq Heap /\ \A o \in Objects(name, n) : o[1] = name
<1> SUFFICES ASSUME NEW o \in Objects(name, n) PROVE o \in Heap /\ o[1] = name
  OBVIOUS
<1>1. o \in {name} \X (1..n)
  BY DEF Objects
<1>2. PICK k \in 1..n : o = <<name, k>>
  BY <1>1
<1>3. k \in Nat \ {0}
  OBVIOUS
<1> QED
  BY <1>2, <1>3 DEF Heap

LEMMA OperandObjectsType ==
  ASSUME NEW r \in Requests, Accepted(r)
  PROVE  OperandObjects(r) \subseteq Heap /\ OperandsLive(r) \subseteq Heap
<1>1. Size(X(r)) \in Nat
  BY DecodedFirst, GoodSize
<1>2. ~ IsDecryption(r) => Size(Y(r)) \in Nat
  BY DecodedSecond, GoodSize DEF IsBinary
<1>3. Objects("first", Size(X(r))) \subseteq Heap
  BY <1>1, ObjectsType DEF Names
<1>4. ~ IsDecryption(r) => Objects("second", Size(Y(r))) \subseteq Heap
  BY <1>2, ObjectsType DEF Names
<1>5. OperandObjects(r) \subseteq Heap
  BY <1>3, <1>4 DEF OperandObjects
<1> QED
  BY <1>5 DEF OperandsLive

LEMMA MaskObjectsType ==
  ASSUME NEW n \in Nat
  PROVE  /\ TripletObjects(n) \subseteq Heap /\ MaskObjects(n) \subseteq Heap
         /\ \A r : MasksLive(r, n) \subseteq Heap /\ FirstLive(r, n) \subseteq Heap
<1>1. TripletObjects(n) \subseteq Heap
  <2>0. {"a", "b", "c"} \subseteq Names
    BY DEF Names
  <2>1. \A name \in {"a", "b", "c"} : Objects(name, n) \subseteq Heap
    BY <2>0, ObjectsType
  <2> QED
    BY <2>1 DEF TripletObjects
<1>2. MaskObjects(n) \subseteq Heap
  <2>0. {"neg_a", "neg_b", "ct1_neg_a", "ct2_neg_b"} \subseteq Names
    BY DEF Names
  <2>1. \A name \in {"neg_a", "neg_b", "ct1_neg_a", "ct2_neg_b"} : Objects(name, n) \subseteq Heap
    BY <2>0, ObjectsType
  <2> QED
    BY <2>1 DEF MaskObjects
<1>3. Objects("pt1", n) \subseteq Heap
  BY ObjectsType DEF Names
<1> QED
  BY <1>1, <1>2, <1>3 DEF MasksLive, FirstLive

\* A local branch deletes what it made, all of it.
LEMMA LocalCleared ==
  ASSUME NEW r \in Requests, IsLocal(r), NEW x \in LocalResults(r)
  PROVE  /\ LocalObjects(r, x) \subseteq Heap
         /\ Cleared(r, x) = IF x = Throws THEN {} ELSE LocalObjects(r, x)
<1>1. /\ x = Throws \/ x \in Tensors
      /\ r.operation = "ADD" /\ x # Throws =>
           Size(x) = Size(X(r)) /\ Size(Y(r)) = Size(X(r))
  BY LocalValue
<1>2. Accepted(r) /\ ~ IsDecryption(r)
  BY DEF IsLocal
<1>3. IsBinary(r) /\ Size(X(r)) \in Nat /\ Size(Y(r)) \in Nat
  BY LocalOperands, GoodSize
<1>4. x # Throws => Size(x) \in Nat
  BY <1>1 DEF Tensors, Size
<1>5. OperandObjects(r) \subseteq Heap
  BY <1>2, OperandObjectsType
<1>6. EncryptedOperand(r) \subseteq Heap
  <2>1. PlaintextSize(r) \in Nat
    BY <1>3 DEF PlaintextSize
  <2>2. Objects("encrypted", PlaintextSize(r)) \subseteq Heap
    BY <2>1, ObjectsType DEF Names
  <2> QED
    BY <2>2 DEF EncryptedOperand
<1>7. x # Throws => Objects("result", Size(x)) \subseteq Heap /\ PlainResult(r, x) \subseteq Heap
  <2>1. x # Throws => Objects("result", Size(x)) \subseteq Heap
                      /\ Objects("plain", Size(x)) \subseteq Heap
    BY <1>4, ObjectsType DEF Names
  <2> QED
    BY <2>1 DEF PlainResult
<1>8. LocalObjects(r, x) \subseteq Heap
  BY <1>5, <1>6, <1>7 DEF LocalObjects
<1>9. CASE x = Throws
  BY <1>8, <1>9 DEF Cleared
<1>10. CASE x # Throws /\ r.operation = "ADD"
  <2> DEFINE n == Size(X(r))
             loop == IF IsMixed(r) THEN PlaintextSize(r) ELSE Size(X(r))
  <2>1. loop = n /\ Size(x) = n /\ Size(Y(r)) = n
    BY <1>1, <1>10 DEF PlaintextSize
  <2>2. Cleared(r, x) =
          (UNION {Objects(name, loop) : name \in {"first", "second", "result"}})
             \cup EncryptedOperand(r) \cup PlainResult(r, x)
    BY <1>10 DEF Cleared
  <2> HIDE DEF loop
  <2>3. UNION {Objects(name, loop) : name \in {"first", "second", "result"}}
          = Objects("first", n) \cup Objects("second", n) \cup Objects("result", n)
    BY <2>1
  <2>4. OperandObjects(r) = Objects("first", n) \cup Objects("second", n)
    BY <1>2, <2>1 DEF OperandObjects
  <2>5. LocalObjects(r, x) = (Objects("first", n) \cup Objects("second", n))
          \cup EncryptedOperand(r) \cup (Objects("result", n) \cup PlainResult(r, x))
    BY <1>10, <2>1, <2>4 DEF LocalObjects
  <2>6. Cleared(r, x) = LocalObjects(r, x)
    <3> DEFINE A == Objects("first", n)
               B == Objects("second", n)
               C == Objects("result", n)
    <3>1. Cleared(r, x) = ((A \cup B) \cup C) \cup EncryptedOperand(r) \cup PlainResult(r, x)
      BY <2>2, <2>3
    <3> HIDE DEF A, B, C
    <3>2. LocalObjects(r, x) = (A \cup B) \cup EncryptedOperand(r) \cup (C \cup PlainResult(r, x))
      BY <2>5 DEF A, B, C
    <3> QED
      BY <3>1, <3>2
  <2> QED
    BY <1>8, <1>10, <2>6
<1>11. CASE x # Throws /\ r.operation # "ADD"
  <2>1. Cleared(r, x) = LocalObjects(r, x)
    BY <1>11 DEF Cleared
  <2> QED
    BY <1>8, <1>11, <2>1
<1> QED
  BY <1>9, <1>10, <1>11

-----------------------------------------------------------------------------
(* Work.                                                                   *)

LEMMA WorkSizes ==
  ASSUME NEW r, IsRemoteProduct(r), NEW w, IsWork(r, w)
  PROVE  /\ Size(w.x) \in Nat \ {0}
         /\ IsSingle(r) => Size(w.x) = 1
         /\ w.x.shape = w.y.shape => Good(w.x) /\ Good(w.y) /\ Size(w.x) = Size(w.y)
         /\ w.x.shape # w.y.shape /\ PlaintextsAreVectors => ~ Service!IsMeant(r)
<1>1. /\ IsBinary(r) /\ r.operation = "MULTIPLY"
      /\ Good(X(r)) /\ Good(Y(r)) /\ X(r) = First(r).value /\ Y(r) = Second(r).value
      /\ X(r).shape = Y(r).shape => Size(X(r)) = Size(Y(r))
      /\ IsSingle(r) <=> X(r).shape = <<>>
      /\ Rank(X(r)) \in Nat /\ Rank(X(r)) < 3
  BY ProductOperands, GoodSize DEF IsRemoteProduct
<1>2. PICK base \in Products(r) : w.x = base.x /\ w.y = base.y /\ w.p = base.p
  BY DEF IsWork
<1>3. CASE Rank(X(r)) < 2
  <2>1. w.x = X(r) /\ w.y = Y(r)
    BY <1>2, <1>3, ProductsAre
  <2>2. IsSingle(r) => Size(X(r)) = 1
    BY <1>1 DEF Good, IsFull, Size
  <2>3. Service!IsMeant(r) => X(r).shape = Y(r).shape
    BY <1>1, <1>3, MeantShapes
  <2> QED
    BY <1>1, <2>1, <2>2, <2>3, GoodSize
<1>4. CASE ~ (Rank(X(r)) < 2)
  <2>1. Rank(X(r)) = 2
    BY <1>1, <1>4
  <2>2. PICK p \in Columns(Y(r)) : w.x = Lefts(r, p) /\ w.y = Rights(r, p)
    BY <1>2, <1>4, ProductsAre
  <2>3. p \in Nat \ {0}
    BY <1>1, ColumnsType
  <2>4. /\ Good(w.x) /\ Good(w.y) /\ w.x.shape = w.y.shape
        /\ Size(w.x) = Size(X(r)) * p /\ Size(w.y) = Size(X(r)) * p
    <3>1. /\ Good(Lefts(r, p)) /\ Good(Rights(r, p))
          /\ Lefts(r, p).shape = Rights(r, p).shape
          /\ Size(Lefts(r, p)) = Size(X(r)) * p /\ Size(Rights(r, p)) = Size(X(r)) * p
      BY <2>1, <2>3, FactorsGood
    <3> QED
      BY <2>2, <3>1
  <2>5. ~ IsSingle(r)
    <3>1. Rank(X(r)) = 0 \/ X(r).shape # <<>>
      BY EmptySeq DEF Rank
    <3> QED
      BY <1>1, <2>1, <3>1
  <2>6. Size(w.x) \in Nat \ {0}
    BY <2>4, GoodSize
  <2> HIDE DEF Size
  <2> QED
    BY <2>4, <2>5, <2>6
<1> QED
  BY <1>3, <1>4

LEMMA DrawnTriplets ==
  ASSUME NEW row \in MaskRows, NEW n \in Nat
  PROVE  \A i \in 1..n : Triplets(row, n)[i].a \in Nat /\ Triplets(row, n)[i].b \in Nat
<1> SUFFICES ASSUME NEW i \in 1..n
             PROVE  Triplets(row, n)[i].a \in Nat /\ Triplets(row, n)[i].b \in Nat
  OBVIOUS
<1>1. row \in Seq(Nat \X Nat) /\ row # <<>>
  BY MaskAssumption
<1>2. Len(row) \in Nat \ {0}
  BY <1>1, EmptySeq
<1> DEFINE q == ((i - 1) % Len(row)) + 1
<1>3. q \in 1..Len(row)
  <2>1. (i - 1) % Len(row) \in 0..(Len(row) - 1)
    <3>1. i - 1 \in Int
      OBVIOUS
    <3> QED
      BY <1>2, <3>1, Division
  <2> QED
    BY <1>2, <2>1
<1> HIDE DEF q
<1>4. row[q] \in Nat \X Nat
  BY <1>1, <1>3, ElementOfSeq
<1>5. row[q][1] \in Nat /\ row[q][2] \in Nat
  BY <1>4
<1>6. Triplets(row, n)[i].a = row[q][1] /\ Triplets(row, n)[i].b = row[q][2]
  BY DEF Triplets, q
<1> QED
  BY <1>5, <1>6

ThreadIs(t) == ThreadOK(pc[t], request[t], work[t], live[t], reply[t])

\* A step of t: the other threads are where they were.
LEMMA OneMoves ==
  ASSUME ThreadInv, NEW t \in Threads, ThreadFunctions',
         \A s \in Threads \ {t} :
           /\ pc'[s] = pc[s] /\ request'[s] = request[s] /\ work'[s] = work[s]
           /\ live'[s] = live[s] /\ reply'[s] = reply[s],
         ThreadOK(pc'[t], request'[t], work'[t], live'[t], reply'[t])
  PROVE  ThreadInv'
<1>1. ASSUME NEW s \in Threads
      PROVE  ThreadOK(pc'[s], request'[s], work'[s], live'[s], reply'[s])
  BY DEF ThreadInv
<1> QED
  BY <1>1 DEF ThreadInv

\* A response that leaves no wrong behind it.
MayAnswer(t, value, failed, made, cleared) ==
  /\ pc[t] # "idle"
  /\ value \in Tensors \cup {Throws} /\ failed \in BOOLEAN
  /\ made \subseteq Heap /\ cleared \subseteq live[t] \cup made
  /\ value # Throws =>
       \A o \in (live[t] \cup made) \ cleared :
         o[1] \in {"pt1_b + pt2_a", "... + c"} /\ IsProduct(request[t])
  /\ PlaintextsAreVectors /\ Service!IsMeant(request[t]) =>
       /\ value = Throws /\ Accepted(request[t]) => failed = TRUE
       /\ value # Throws => value = Service!Meaning(request[t])

\* What Respond makes of a thread.
LEMMA Responded ==
  ASSUME ThreadInv, NEW t \in Threads, NEW value, NEW failed, NEW made, NEW cleared,
         Respond(t, value, failed, made, cleared),
         MayAnswer(t, value, failed, made, cleared)
  PROVE  ThreadInv' /\ reply'[t] # Nothing /\ reply'[t].value = value
<1>1. ThreadFunctions /\ ThreadOK(pc[t], request[t], work[t], live[t], reply[t])
  BY DEF ThreadInv
<1>0. /\ pc[t] # "idle"
      /\ value \in Tensors \cup {Throws} /\ failed \in BOOLEAN
      /\ made \subseteq Heap /\ cleared \subseteq live[t] \cup made
      /\ value # Throws =>
           \A o \in (live[t] \cup made) \ cleared :
             o[1] \in {"pt1_b + pt2_a", "... + c"} /\ IsProduct(request[t])
      /\ PlaintextsAreVectors /\ Service!IsMeant(request[t]) =>
           /\ value = Throws /\ Accepted(request[t]) => failed = TRUE
           /\ value # Throws => value = Service!Meaning(request[t])
  BY DEF MayAnswer
<1> DEFINE there == live[t] \cup made
           a == [request |-> request[t], value |-> value, failed |-> failed,
                 left |-> there \ cleared, vain |-> cleared \ there]
<1>2. /\ reply' = [reply EXCEPT ![t] = a]
      /\ pc' = [pc EXCEPT ![t] = "idle"]
      /\ request' = [request EXCEPT ![t] = Nothing]
      /\ work' = [work EXCEPT ![t] = Nothing]
      /\ live' = [live EXCEPT ![t] = {}]
  BY DEF Respond
<1>3. live[t] \subseteq Heap /\ request[t] \in Requests
  BY <1>0, <1>1 DEF ThreadOK
<1>4. /\ a.request = request[t] /\ a.value = value /\ a.failed = failed
      /\ a.left = there \ cleared /\ a.vain = cleared \ there
  OBVIOUS
<1>5. a.vain = {}
  BY <1>0, <1>4
<1>6. a \in Replies
  <2>1. there \ cleared \subseteq Heap /\ cleared \ there \subseteq Heap
    BY <1>0, <1>3
  <2> QED
    BY <1>0, <1>3, <2>1 DEF Replies
<1>7. Clean(a)
  <2> HIDE DEF a
  <2> QED
    BY <1>0, <1>4, <1>5 DEF Clean
<1>8. Right(a)
  <2> HIDE DEF a
  <2> QED
    BY <1>0, <1>4 DEF Right
<1> HIDE DEF a
<1>9. /\ pc'[t] = "idle" /\ request'[t] = Nothing /\ live'[t] = {} /\ reply'[t] = a
      /\ ThreadFunctions'
      /\ \A s \in Threads \ {t} :
           /\ pc'[s] = pc[s] /\ request'[s] = request[s] /\ work'[s] = work[s]
           /\ live'[s] = live[s] /\ reply'[s] = reply[s]
  BY <1>1, <1>2 DEF ThreadFunctions
<1>10. ThreadOK(pc'[t], request'[t], work'[t], live'[t], reply'[t])
  BY <1>6, <1>7, <1>8, <1>9 DEF ThreadOK
<1>11. ThreadInv'
  BY <1>9, <1>10, OneMoves
<1>12. a # Nothing
  BY <1>6, NothingAssumption
<1> QED
  BY <1>4, <1>9, <1>11, <1>12

-----------------------------------------------------------------------------
(* The actions.                                                            *)

LEMMA ReceiveKeeps ==
  ASSUME ThreadInv, NEW t \in Threads, Receive(t)
  PROVE  ThreadInv'
<1>1. ThreadFunctions /\ ThreadOK(pc[t], request[t], work[t], live[t], reply[t])
  BY DEF ThreadInv
<1>2. PICK r \in Requests : request' = [request EXCEPT ![t] = r]
  BY DEF Receive
<1>3. /\ pc[t] = "idle" /\ pc' = [pc EXCEPT ![t] = "dispatch"]
      /\ reply' = [reply EXCEPT ![t] = Nothing] /\ work' = work /\ live' = live
  BY DEF Receive
<1>4. live[t] = {}
  BY <1>1, <1>3 DEF ThreadOK
<1>5. /\ pc'[t] = "dispatch" /\ request'[t] = r /\ live'[t] = {} /\ reply'[t] = Nothing
      /\ ThreadFunctions'
      /\ \A s \in Threads \ {t} :
           /\ pc'[s] = pc[s] /\ request'[s] = request[s] /\ work'[s] = work[s]
           /\ live'[s] = live[s] /\ reply'[s] = reply[s]
  BY <1>1, <1>2, <1>3, <1>4 DEF ThreadFunctions
<1>6. ThreadOK(pc'[t], request'[t], work'[t], live'[t], reply'[t])
  BY <1>5 DEF ThreadOK
<1> QED
  BY <1>5, <1>6, OneMoves

LEMMA RejectKeeps ==
  ASSUME ThreadInv, NEW t \in Threads, Reject(t)
  PROVE  ThreadInv' /\ reply'[t].value = Throws
<1>1. ThreadOK(pc[t], request[t], work[t], live[t], reply[t])
  BY DEF ThreadInv
<1>2. pc[t] = "dispatch" /\ ~ Accepted(request[t]) /\ Respond(t, Throws, FALSE, {}, {})
  BY DEF Reject
<1>3. live[t] = {}
  BY <1>1, <1>2 DEF ThreadOK
<1>4. MayAnswer(t, Throws, FALSE, {}, {})
  BY <1>2, <1>3 DEF MayAnswer
<1> QED
  BY <1>2, <1>4, Responded

LEMMA ComputeLocallyKeeps ==
  ASSUME ThreadInv, NEW t \in Threads, ComputeLocally(t)
  PROVE  /\ ThreadInv' /\ reply'[t] # Nothing
         /\ PlaintextsAreVectors /\ Service!IsMeant(request[t]) =>
              reply'[t].value # Throws /\ reply'[t].value = Service!Meaning(request[t])
<1> DEFINE r == request[t]
<1>1. ThreadOK(pc[t], request[t], work[t], live[t], reply[t])
  BY DEF ThreadInv
<1>2. pc[t] = "dispatch" /\ IsLocal(r)
  BY DEF ComputeLocally
<1>3. live[t] = {} /\ r \in Requests
  BY <1>1, <1>2 DEF ThreadOK
<1>4. PICK x \in LocalResults(r) :
        IF IsSingle(r) THEN Respond(t, x, FALSE, {}, {})
        ELSE Respond(t, x, FALSE, LocalObjects(r, x), Cleared(r, x))
  BY DEF ComputeLocally
<1>5. /\ x \in Tensors \cup {Throws}
      /\ PlaintextsAreVectors /\ Service!IsMeant(r) => x # Throws /\ x = Service!Meaning(r)
  BY <1>2, <1>3, LocalValue
<1> HIDE DEF r
<1>6. ThreadInv' /\ reply'[t] # Nothing /\ reply'[t].value = x
  <2>1. CASE IsSingle(r)
    <3>1. Respond(t, x, FALSE, {}, {})
      BY <1>4, <2>1
    <3>2. MayAnswer(t, x, FALSE, {}, {})
      BY <1>2, <1>3, <1>5 DEF MayAnswer, r
    <3> QED
      BY <3>1, <3>2, Responded
  <2>2. CASE ~ IsSingle(r)
    <3> DEFINE made == LocalObjects(r, x)
               cleared == Cleared(r, x)
    <3>1. Respond(t, x, FALSE, made, cleared)
      BY <1>4, <2>2
    <3>2. made \subseteq Heap /\ cleared = IF x = Throws THEN {} ELSE made
      BY <1>2, <1>3, LocalCleared
    <3> HIDE DEF made, cleared
    <3>3. cleared \subseteq live[t] \cup made
          /\ (x # Throws => (live[t] \cup made) \ cleared = {})
      BY <1>3, <3>2
    <3>4. MayAnswer(t, x, FALSE, made, cleared)
      BY <1>2, <1>3, <1>5, <3>2, <3>3 DEF MayAnswer, r
    <3> QED
      BY <3>1, <3>4, Responded
  <2> QED
    BY <2>1, <2>2
<1> QED
  BY <1>5, <1>6 DEF r

LEMMA DecodeKeeps ==
  ASSUME ThreadInv, NEW t \in Threads, Decode(t)
  PROVE  ThreadInv'
<1> DEFINE r == request[t]
<1>1. ThreadFunctions /\ ThreadOK(pc[t], request[t], work[t], live[t], reply[t])
  BY DEF ThreadInv
<1>2. /\ pc[t] = "dispatch" /\ Accepted(r) /\ ~ IsLocal(r)
      /\ IsDecryption(r) \/ Rank(X(r)) < 3
      /\ live' = [live EXCEPT ![t] = OperandsLive(r)]
      /\ request' = request /\ reply' = reply
  BY DEF Decode, OperandsLive
<1>3. r \in Requests /\ reply[t] = Nothing
  BY <1>1, <1>2 DEF ThreadOK
<1>4. \/ IsDecryption(r) /\ pc' = [pc EXCEPT ![t] = "decrypt"] /\ work' = work
      \/ /\ ~ IsDecryption(r) /\ pc' = [pc EXCEPT ![t] = "draw"]
         /\ \E w \in Products(r) : work' = [work EXCEPT ![t] = w]
  BY DEF Decode
<1>5. OperandsLive(r) \subseteq Heap
  BY <1>2, <1>3, OperandObjectsType
<1>6. CASE IsDecryption(r) /\ pc' = [pc EXCEPT ![t] = "decrypt"] /\ work' = work
  <2>1. /\ pc'[t] = "decrypt" /\ request'[t] = r /\ live'[t] = OperandsLive(r)
        /\ reply'[t] = Nothing
        /\ ThreadFunctions'
        /\ \A s \in Threads \ {t} :
             /\ pc'[s] = pc[s] /\ request'[s] = request[s] /\ work'[s] = work[s]
             /\ live'[s] = live[s] /\ reply'[s] = reply[s]
    BY <1>1, <1>2, <1>3, <1>6 DEF ThreadFunctions
  <2>2. ThreadOK(pc'[t], request'[t], work'[t], live'[t], reply'[t])
    BY <1>2, <1>3, <1>5, <1>6, <2>1 DEF ThreadOK
  <2> QED
    BY <2>1, <2>2, OneMoves
<1>7. ASSUME ~ IsDecryption(r), pc' = [pc EXCEPT ![t] = "draw"],
             NEW w \in Products(r), work' = [work EXCEPT ![t] = w]
      PROVE  ThreadInv'
  <2>1. /\ pc'[t] = "draw" /\ request'[t] = r /\ live'[t] = OperandsLive(r)
        /\ reply'[t] = Nothing /\ work'[t] = w
        /\ ThreadFunctions'
        /\ \A s \in Threads \ {t} :
             /\ pc'[s] = pc[s] /\ request'[s] = request[s] /\ work'[s] = work[s]
             /\ live'[s] = live[s] /\ reply'[s] = reply[s]
    BY <1>1, <1>2, <1>3, <1>7 DEF ThreadFunctions
  <2>2. IsRemoteProduct(r) /\ IsWork(r, w)
    BY <1>2, <1>3, <1>7 DEF IsRemoteProduct, IsWork
  <2>3. ThreadOK(pc'[t], request'[t], work'[t], live'[t], reply'[t])
    BY <1>3, <1>5, <2>1, <2>2 DEF ThreadOK
  <2> QED
    BY <2>1, <2>3, OneMoves
<1> QED
  BY <1>4, <1>6, <1>7

LEMMA ProductThrowsKeeps ==
  ASSUME ThreadInv, NEW t \in Threads, ProductThrows(t)
  PROVE  ThreadInv' /\ reply'[t].value = Throws
<1> DEFINE r == request[t]
<1>1. ThreadOK(pc[t], request[t], work[t], live[t], reply[t])
  BY DEF ThreadInv
<1>2. /\ pc[t] = "dispatch" /\ Accepted(r) /\ IsProduct(r)
      /\ Rank(X(r)) > 2 \/ (Rank(X(r)) = 2 /\ Rank(Y(r)) = 1)
      /\ Respond(t, Throws, FALSE, OperandObjects(r), {})
  BY DEF ProductThrows
<1>3. live[t] = {} /\ r \in Requests
  BY <1>1, <1>2 DEF ThreadOK
<1>4. OperandObjects(r) \subseteq Heap
  BY <1>2, <1>3, OperandObjectsType
<1>5. ~ Service!IsMeant(r)
  <2>1. IsBinary(r) /\ r.operation = "MULTIPLY"
        /\ X(r) = First(r).value /\ Y(r) = Second(r).value /\ Rank(X(r)) \in Nat
    <3>1. IsBinary(r) /\ r.operation = "MULTIPLY"
          /\ First(r).encryption = "CIPHERTEXT" /\ Second(r).encryption = "CIPHERTEXT"
      BY <1>2, <1>3 DEF IsBinary, IsProduct, Are, IsDecryption
    <3> QED
      BY <1>2, <1>3, <3>1, DecodedFirst, DecodedSecond, GoodSize
  <2> HIDE DEF r
  <2> QED
    BY <1>2, <2>1, MeantShapes
<1> DEFINE made == OperandObjects(r)
<1>6. Respond(t, Throws, FALSE, made, {}) /\ made \subseteq Heap /\ pc[t] # "idle"
  BY <1>2, <1>4
<1> HIDE DEF made
<1>7. MayAnswer(t, Throws, FALSE, made, {})
  BY <1>5, <1>6 DEF MayAnswer
<1> QED
  BY <1>6, <1>7, Responded

LEMMA DrawKeeps ==
  ASSUME ThreadInv, NEW t \in Threads, Draw(t)
  PROVE  ThreadInv' /\ ((reply' = reply /\ request' = request) \/ reply'[t].value = Throws)
<1> DEFINE r == request[t]
           w == work[t]
           n == Size(w.x)
<1>1. ThreadFunctions /\ ThreadOK(pc[t], request[t], work[t], live[t], reply[t])
  BY DEF ThreadInv
<1>2. pc[t] = "draw"
  BY DEF Draw
<1>3. /\ r \in Requests /\ reply[t] = Nothing /\ IsRemoteProduct(r) /\ IsWork(r, w)
      /\ live[t] = OperandsLive(r) /\ live[t] \subseteq Heap
  BY <1>1, <1>2 DEF ThreadOK
<1>4. n \in Nat /\ (w.x.shape # w.y.shape /\ PlaintextsAreVectors => ~ Service!IsMeant(r))
  BY <1>3, WorkSizes
<1>5. TripletObjects(n) \subseteq Heap /\ MaskObjects(n) \subseteq Heap
      /\ MasksLive(r, n) \subseteq Heap
  BY <1>4, MaskObjectsType
<1>6. PICK row \in MaskRows :
        \/ /\ w.x.shape = w.y.shape
           /\ work' = [work EXCEPT ![t] = [x |-> w.x, y |-> w.y, p |-> w.p,
                         triplets |-> Triplets(row, n), e |-> <<>>, f |-> <<>>]]
           /\ live' = [live EXCEPT ![t] = @ \cup TripletObjects(n) \cup
                         (IF IsSingle(r) THEN {} ELSE MaskObjects(n))]
           /\ pc' = [pc EXCEPT ![t] = "first"]
           /\ UNCHANGED <<up, request, reply, calls>>
        \/ /\ w.x.shape # w.y.shape
           /\ Respond(t, Throws, FALSE,
                      TripletObjects(n) \cup
                      (MaskObjects(n) \ Objects("ct2_neg_b", n)), {})
  BY DEF Draw
<1>7. CASE /\ w.x.shape = w.y.shape
           /\ work' = [work EXCEPT ![t] = [x |-> w.x, y |-> w.y, p |-> w.p,
                         triplets |-> Triplets(row, n), e |-> <<>>, f |-> <<>>]]
           /\ live' = [live EXCEPT ![t] = @ \cup TripletObjects(n) \cup
                         (IF IsSingle(r) THEN {} ELSE MaskObjects(n))]
           /\ pc' = [pc EXCEPT ![t] = "first"]
           /\ UNCHANGED <<up, request, reply, calls>>
  <2> DEFINE v == [x |-> w.x, y |-> w.y, p |-> w.p,
                   triplets |-> Triplets(row, n), e |-> <<>>, f |-> <<>>]
  <2>1. v.x = w.x /\ v.y = w.y /\ v.p = w.p /\ v.triplets = Triplets(row, n)
    OBVIOUS
  <2>2. HasTriplets(v)
    <3>1. \A i \in 1..n : Triplets(row, n)[i].a \in Nat /\ Triplets(row, n)[i].b \in Nat
      BY <1>4, DrawnTriplets
    <3>2. v = [x |-> v.x, y |-> v.y, p |-> v.p,
               triplets |-> v.triplets, e |-> v.e, f |-> v.f]
      OBVIOUS
    <3> HIDE DEF v
    <3> QED
      BY <1>7, <2>1, <3>1, <3>2 DEF HasTriplets
  <2>3. work' = [work EXCEPT ![t] = v]
    BY <1>7
  <2> HIDE DEF v
  <2>4. IsWork(r, v)
    BY <1>3, <2>1 DEF IsWork
  <2> DEFINE l == OperandsLive(r) \cup MasksLive(r, n)
  <2>5. live' = [live EXCEPT ![t] = l]
    <3>1. live[t] \cup TripletObjects(n) \cup (IF IsSingle(r) THEN {} ELSE MaskObjects(n)) = l
      BY <1>3 DEF MasksLive
    <3> QED
      BY <1>7, <3>1
  <2>6. l \subseteq Heap
    BY <1>3, <1>5
  <2>7. l = OperandsLive(r) \cup MasksLive(r, Size(v.x))
    BY <2>1
  <2> HIDE DEF l, r, w, n
  <2>8. /\ pc'[t] = "first" /\ request'[t] = r /\ live'[t] = l
        /\ reply'[t] = Nothing /\ work'[t] = v
        /\ ThreadFunctions'
        /\ \A s \in Threads \ {t} :
             /\ pc'[s] = pc[s] /\ request'[s] = request[s] /\ work'[s] = work[s]
             /\ live'[s] = live[s] /\ reply'[s] = reply[s]
    BY <1>1, <1>3, <1>7, <2>3, <2>5 DEF ThreadFunctions, r
  <2>9. ThreadOK(pc'[t], request'[t], work'[t], live'[t], reply'[t])
    BY <1>3, <2>2, <2>4, <2>6, <2>7, <2>8 DEF ThreadOK
  <2>10. reply' = reply /\ request' = request
    BY <1>7
  <2> QED
    BY <2>8, <2>9, <2>10, OneMoves
<1>8. CASE /\ w.x.shape # w.y.shape
           /\ Respond(t, Throws, FALSE,
                      TripletObjects(n) \cup
                      (MaskObjects(n) \ Objects("ct2_neg_b", n)), {})
  <2> DEFINE made == TripletObjects(n) \cup (MaskObjects(n) \ Objects("ct2_neg_b", n))
  <2>1. made \subseteq Heap
    BY <1>5
  <2>2. Respond(t, Throws, FALSE, made, {}) /\ pc[t] # "idle"
    BY <1>2, <1>8
  <2>3. PlaintextsAreVectors => ~ Service!IsMeant(request[t])
    BY <1>4, <1>8
  <2> HIDE DEF made
  <2>4. MayAnswer(t, Throws, FALSE, made, {})
    BY <2>1, <2>2, <2>3 DEF MayAnswer
  <2> QED
    BY <2>2, <2>4, Responded
<1> QED
  BY <1>6, <1>7, <1>8

LEMMA RevealFirstKeeps ==
  ASSUME ThreadInv, NEW t \in Threads, RevealFirst(t)
  PROVE  ThreadInv'
<1> DEFINE r == request[t]
           w == work[t]
           n == Size(w.x)
           e == [i \in 1..n |-> Masked(w.x.data[i], w.triplets[i].a)]
           v == [w EXCEPT !.e = e]
<1>1. ThreadFunctions /\ ThreadOK(pc[t], request[t], work[t], live[t], reply[t])
  BY DEF ThreadInv
<1>2. /\ pc[t] = "first" /\ pc' = [pc EXCEPT ![t] = "second"]
      /\ work' = [work EXCEPT ![t].e = e]
      /\ live' = [live EXCEPT ![t] = @ \cup FirstLive(r, n)]
      /\ request' = request /\ reply' = reply
  BY DEF RevealFirst, FirstLive
<1>3. /\ r \in Requests /\ reply[t] = Nothing /\ IsRemoteProduct(r) /\ IsWork(r, w)
      /\ live[t] = OperandsLive(r) \cup MasksLive(r, n) /\ live[t] \subseteq Heap
      /\ HasTriplets(w)
  BY <1>1, <1>2 DEF ThreadOK
<1>4. n \in Nat
  BY <1>3, WorkSizes
<1>5. FirstLive(r, n) \subseteq Heap
  BY <1>4, MaskObjectsType
<1>6. work' = [work EXCEPT ![t] = v]
  BY <1>1, <1>2 DEF ThreadFunctions
<1> HIDE DEF e
<1>7. /\ v.x = w.x /\ v.y = w.y /\ v.p = w.p /\ v.triplets = w.triplets /\ v.f = w.f
      /\ v.e = e
      /\ v = [x |-> v.x, y |-> v.y, p |-> v.p,
              triplets |-> v.triplets, e |-> v.e, f |-> v.f]
  <2>1. w = [x |-> w.x, y |-> w.y, p |-> w.p,
             triplets |-> w.triplets, e |-> w.e, f |-> w.f]
    BY <1>3 DEF HasTriplets
  <2>2. v = [x |-> w.x, y |-> w.y, p |-> w.p,
             triplets |-> w.triplets, e |-> e, f |-> w.f]
    BY <2>1
  <2> QED
    BY <2>2
<1> HIDE DEF v
<1>8. HasTriplets(v) /\ FirstRevealed(v) /\ IsWork(r, v)
  <2>1. HasTriplets(v)
    BY <1>3, <1>7 DEF HasTriplets
  <2>2. FirstRevealed(v)
    BY <1>7 DEF FirstRevealed, e
  <2> QED
    BY <1>3, <1>7, <2>1, <2>2 DEF IsWork
<1> DEFINE l == OperandsLive(r) \cup MasksLive(r, n) \cup FirstLive(r, n)
<1>9. live' = [live EXCEPT ![t] = l] /\ l \subseteq Heap
  BY <1>2, <1>3, <1>5
<1>10. l = OperandsLive(r) \cup MasksLive(r, Size(v.x)) \cup FirstLive(r, Size(v.x))
  BY <1>7
<1> HIDE DEF l, r, w, n
<1>11. /\ pc'[t] = "second" /\ request'[t] = r /\ live'[t] = l
       /\ reply'[t] = Nothing /\ work'[t] = v
       /\ ThreadFunctions'
       /\ \A s \in Threads \ {t} :
            /\ pc'[s] = pc[s] /\ request'[s] = request[s] /\ work'[s] = work[s]
            /\ live'[s] = live[s] /\ reply'[s] = reply[s]
  BY <1>1, <1>2, <1>3, <1>6, <1>9 DEF ThreadFunctions, r
<1>12. ThreadOK(pc'[t], request'[t], work'[t], live'[t], reply'[t])
  BY <1>3, <1>8, <1>9, <1>10, <1>11 DEF ThreadOK
<1> QED
  BY <1>11, <1>12, OneMoves

\* The last step deletes everything but the two sums.
LEMMA FinishedObjects ==
  ASSUME NEW r, NEW n \in Nat, NEW x, x \in Tensors, OperandObjects(r) \subseteq Heap
  PROVE  LET there == OperandObjects(r) \cup (TripletObjects(n) \cup MaskObjects(n))
                        \cup Objects("pt1", n) \cup (Objects("pt2", n) \cup FinishObjects(r, n, x))
         IN  /\ Objects("pt2", n) \cup FinishObjects(r, n, x) \subseteq Heap
             /\ FinishCleared(r, n, x) \subseteq there
             /\ \A o \in there \ FinishCleared(r, n, x) : o[1] \in {"pt1_b + pt2_a", "... + c"}
<1> DEFINE T == TripletObjects(n)
           M == MaskObjects(n)
           A == Objects("pt1", n)
           B == Objects("pt2", n)
           C == Objects("pt1_pt2", n)
           D == Objects("enc_pt1_pt2", n)
           E == Objects("pt1_b", n)
           F == Objects("pt2_a", n)
           P == Objects("product", n)
           R == IF Rank(X(r)) = 2 THEN Objects("result", Size(x)) ELSE {}
           S == DroppedSums(n)
           O == OperandObjects(r)
<1>1. FinishObjects(r, n, x) = (C \cup D \cup E \cup F) \cup S \cup P \cup R
  BY DEF FinishObjects
<1>2. FinishCleared(r, n, x) =
        T \cup M \cup (A \cup B \cup C \cup D \cup E \cup F) \cup O \cup P \cup R
  BY DEF FinishCleared
<1>3. /\ B \subseteq Heap /\ C \subseteq Heap /\ D \subseteq Heap /\ E \subseteq Heap
      /\ F \subseteq Heap /\ P \subseteq Heap
  <2>1. {"pt2", "pt1_pt2", "enc_pt1_pt2", "pt1_b", "pt2_a", "product"} \subseteq Names
    BY DEF Names
  <2>2. \A name \in {"pt2", "pt1_pt2", "enc_pt1_pt2", "pt1_b", "pt2_a", "product"} :
          Objects(name, n) \subseteq Heap
    BY <2>1, ObjectsType
  <2> QED
    BY <2>2
<1>4. R \subseteq Heap
  <2>1. Size(x) \in Nat
    BY DEF Tensors, Size
  <2>2. Objects("result", Size(x)) \subseteq Heap
    BY <2>1, ObjectsType DEF Names
  <2> QED
    BY <2>2
<1>5. S \subseteq Heap /\ \A o \in S : o[1] \in {"pt1_b + pt2_a", "... + c"}
  <2>1. {"pt1_b + pt2_a", "... + c"} \subseteq Names
    BY DEF Names
  <2>2. \A name \in {"pt1_b + pt2_a", "... + c"} :
          Objects(name, n) \subseteq Heap /\ \A o \in Objects(name, n) : o[1] = name
    BY <2>1, ObjectsType
  <2> QED
    BY <2>2 DEF DroppedSums
<1> HIDE DEF T, M, A, B, C, D, E, F, P, R, S, O
<1>6. B \cup FinishObjects(r, n, x) \subseteq Heap
  BY <1>1, <1>3, <1>4, <1>5
<1>7. FinishCleared(r, n, x) \subseteq O \cup (T \cup M) \cup A \cup (B \cup FinishObjects(r, n, x))
  BY <1>1, <1>2
<1>8. (O \cup (T \cup M) \cup A \cup (B \cup FinishObjects(r, n, x))) \ FinishCleared(r, n, x)
        \subseteq S
  BY <1>1, <1>2
<1> QED
  BY <1>5, <1>6, <1>7, <1>8 DEF T, M, A, B, O

LEMMA RevealSecondKeeps ==
  ASSUME ThreadInv, NEW t \in Threads, RevealSecond(t)
  PROVE  /\ ThreadInv' /\ reply'[t] # Nothing
         /\ Service!IsMeant(request[t]) => reply'[t].value = Service!Meaning(request[t])
<1> DEFINE r == request[t]
           w == work[t]
           n == Size(w.x)
           f == [i \in 1..n |-> Masked(w.y.data[i], w.triplets[i].b)]
           v == [w EXCEPT !.f = f]
           x == ProductOf(r, v)
<1>1. ThreadOK(pc[t], request[t], work[t], live[t], reply[t])
  BY DEF ThreadInv
<1>2. /\ pc[t] = "second"
      /\ IF IsSingle(r) THEN Respond(t, x, FALSE, {}, TripletObjects(1))
         ELSE Respond(t, x, FALSE,
                      Objects("pt2", n) \cup FinishObjects(r, n, x),
                      FinishCleared(r, n, x))
  BY DEF RevealSecond
<1>3. /\ r \in Requests /\ IsRemoteProduct(r) /\ IsWork(r, w)
      /\ live[t] = OperandsLive(r) \cup MasksLive(r, n) \cup FirstLive(r, n)
      /\ HasTriplets(w) /\ FirstRevealed(w)
  BY <1>1, <1>2 DEF ThreadOK
<1>4. n \in Nat /\ (IsSingle(r) => n = 1)
  BY <1>3, WorkSizes
<1> HIDE DEF f
<1>5. /\ v.x = w.x /\ v.y = w.y /\ v.p = w.p /\ v.triplets = w.triplets /\ v.e = w.e
      /\ v.f = f
  <2>1. w = [x |-> w.x, y |-> w.y, p |-> w.p,
             triplets |-> w.triplets, e |-> w.e, f |-> w.f]
    BY <1>3 DEF HasTriplets
  <2>2. v = [x |-> w.x, y |-> w.y, p |-> w.p,
             triplets |-> w.triplets, e |-> w.e, f |-> f]
    BY <2>1
  <2> QED
    BY <2>2
<1> HIDE DEF v
<1>6. IsMasked(v)
  <2>1. \A i \in 1..n : w.triplets[i].a \in Nat /\ w.triplets[i].b \in Nat
    BY <1>3 DEF HasTriplets
  <2>2. \A i \in 1..n : w.e[i] = Masked(w.x.data[i], w.triplets[i].a)
    BY <1>3 DEF FirstRevealed
  <2>3. \A i \in 1..n : f[i] = Masked(w.y.data[i], w.triplets[i].b)
    BY DEF f
  <2> HIDE DEF w
  <2> QED
    BY <1>5, <2>1, <2>2, <2>3 DEF IsMasked
<1>7. v.x.shape = v.y.shape
  BY <1>3, <1>5 DEF HasTriplets
<1>8. PICK base \in Products(r) : v.x = base.x /\ v.y = base.y /\ v.p = base.p
  BY <1>3, <1>5 DEF IsWork
<1>9. x \in Tensors /\ (Service!IsMeant(r) => x = Service!Meaning(r))
  <2> HIDE DEF r
  <2> QED
    BY <1>3, <1>6, <1>7, <1>8, ProductValue
<1>10. x # Throws
  BY <1>9, ThrowsAssumption
<1>11. Accepted(r) /\ IsProduct(r) /\ OperandObjects(r) \subseteq Heap
  <2> HIDE DEF r
  <2>1. Accepted(r) /\ IsProduct(r)
    BY <1>3, ProductOperands DEF IsRemoteProduct
  <2> QED
    BY <1>3, <2>1, OperandObjectsType
<1> HIDE DEF x, w, n
<1>12. ThreadInv' /\ reply'[t] # Nothing /\ reply'[t].value = x
  <2>1. CASE IsSingle(r)
    <3> DEFINE cleared == TripletObjects(1)
    <3>1. Respond(t, x, FALSE, {}, cleared)
      BY <1>2, <2>1
    <3>2. live[t] = cleared
      BY <1>3, <1>4, <2>1 DEF OperandsLive, MasksLive, FirstLive
    <3> HIDE DEF cleared
    <3>3. cleared \subseteq live[t] \cup {} /\ (live[t] \cup {}) \ cleared = {}
      BY <3>2
    <3>4. MayAnswer(t, x, FALSE, {}, cleared)
      BY <1>2, <1>9, <1>10, <3>3 DEF MayAnswer
    <3> QED
      BY <3>1, <3>4, Responded
  <2>2. CASE ~ IsSingle(r)
    <3> DEFINE made == Objects("pt2", n) \cup FinishObjects(r, n, x)
               cleared == FinishCleared(r, n, x)
    <3>1. Respond(t, x, FALSE, made, cleared)
      BY <1>2, <2>2
    <3>2. live[t] = OperandObjects(r) \cup (TripletObjects(n) \cup MaskObjects(n))
                      \cup Objects("pt1", n)
      BY <1>3, <2>2 DEF OperandsLive, MasksLive, FirstLive
    <3>3. /\ made \subseteq Heap
          /\ cleared \subseteq live[t] \cup made
          /\ \A o \in (live[t] \cup made) \ cleared : o[1] \in {"pt1_b + pt2_a", "... + c"}
      BY <1>4, <1>9, <1>11, <3>2, FinishedObjects
    <3> HIDE DEF made, cleared
    <3>5. \A o \in (live[t] \cup made) \ cleared :
            o[1] \in {"pt1_b + pt2_a", "... + c"} /\ IsProduct(request[t])
      BY <1>11, <3>3
    <3>6. pc[t] # "idle"
      BY <1>2
    <3>7. Service!IsMeant(request[t]) => x = Service!Meaning(request[t])
      BY <1>9
    <3> HIDE DEF r
    <3>8. MayAnswer(t, x, FALSE, made, cleared)
      BY <1>9, <1>10, <3>3, <3>5, <3>6, <3>7 DEF MayAnswer
    <3> QED
      BY <3>1, <3>8, Responded
  <2> QED
    BY <2>1, <2>2
<1> QED
  BY <1>9, <1>12

LEMMA DecryptKeeps ==
  ASSUME ThreadInv, NEW t \in Threads, Decrypt(t)
  PROVE  /\ ThreadInv' /\ reply'[t] # Nothing
         /\ reply'[t].value = Service!Meaning(request[t])
<1> DEFINE r == request[t]
<1>1. ThreadOK(pc[t], request[t], work[t], live[t], reply[t])
  BY DEF ThreadInv
<1>2. /\ pc[t] = "decrypt"
      /\ IF IsSingle(r) THEN Respond(t, X(r), FALSE, {}, {})
         ELSE Respond(t, X(r), FALSE, Objects("plain", Size(X(r))),
                      Objects("plain", Size(X(r))) \cup OperandObjects(r))
  BY DEF Decrypt
<1>3. /\ r \in Requests /\ Accepted(r) /\ IsDecryption(r)
      /\ live[t] = OperandsLive(r)
  BY <1>1, <1>2 DEF ThreadOK
<1>4. Good(X(r)) /\ X(r) = First(r).value /\ Size(X(r)) \in Nat
  <2>1. First(r).encryption = "CIPHERTEXT"
    BY <1>3 DEF Accepted, IsDecryption
  <2> QED
    BY <1>3, <2>1, DecodedFirst, GoodSize
<1>5. X(r) \in Tensors /\ X(r) # Throws
  BY <1>4, NotThrown
<1>6. Service!Meaning(r) = X(r)
  <2>1. Service!Meaning(r) = Service!Operand(r, 1)
    BY <1>3 DEF Service!Meaning, IsDecryption
  <2> QED
    BY <1>4, <2>1 DEF Service!Operand, First
<1>7. Objects("plain", Size(X(r))) \subseteq Heap
  BY <1>4, ObjectsType DEF Names
<1> DEFINE x == X(r)
           plain == Objects("plain", Size(X(r)))
<1> HIDE DEF x, plain
<1>8. x \in Tensors /\ x # Throws /\ x = Service!Meaning(r)
  BY <1>5, <1>6 DEF x
<1>9. ThreadInv' /\ reply'[t] # Nothing /\ reply'[t].value = x
  <2>1. CASE IsSingle(r)
    <3>1. Respond(t, x, FALSE, {}, {})
      BY <1>2, <2>1 DEF x
    <3>2. live[t] = {}
      BY <1>3, <2>1 DEF OperandsLive
    <3>3. MayAnswer(t, x, FALSE, {}, {})
      BY <1>2, <1>8, <3>2 DEF MayAnswer
    <3> QED
      BY <3>1, <3>3, Responded
  <2>2. CASE ~ IsSingle(r)
    <3> DEFINE cleared == plain \cup OperandObjects(r)
    <3>1. Respond(t, x, FALSE, plain, cleared)
      BY <1>2, <2>2 DEF x, plain
    <3>2. live[t] = OperandObjects(r)
      BY <1>3, <2>2 DEF OperandsLive
    <3>3. cleared \subseteq live[t] \cup plain
      BY <3>2
    <3>4. plain \subseteq Heap
      BY <1>7 DEF plain
    <3> HIDE DEF cleared
    <3>5. \A o \in (live[t] \cup plain) \ cleared :
            o[1] \in {"pt1_b + pt2_a", "... + c"} /\ IsProduct(request[t])
      BY <3>2 DEF cleared
    <3>6. pc[t] # "idle"
      BY <1>2
    <3> HIDE DEF r
    <3>7. PlaintextsAreVectors /\ Service!IsMeant(request[t]) =>
            x # Throws /\ x = Service!Meaning(request[t])
      BY <1>8 DEF r
    <3>8. MayAnswer(t, x, FALSE, plain, cleared)
      BY <1>8, <3>3, <3>4, <3>5, <3>6, <3>7 DEF MayAnswer
    <3> QED
      BY <3>1, <3>8, Responded
  <2> QED
    BY <2>1, <2>2
<1> QED
  BY <1>8, <1>9

LEMMA RemoteFailsKeeps ==
  ASSUME ThreadInv, NEW t \in Threads, RemoteFails(t)
  PROVE  ThreadInv' /\ reply'[t].value = Throws
<1>1. ThreadOK(pc[t], request[t], work[t], live[t], reply[t])
  BY DEF ThreadInv
<1>2. pc[t] \in Remote /\ Respond(t, Throws, TRUE, {}, {})
  BY DEF RemoteFails
<1>3. pc[t] # "idle"
  BY <1>2 DEF Remote
<1> DEFINE failed == TRUE
           made == {}
<1>4. /\ failed \in BOOLEAN /\ failed = TRUE /\ made \subseteq Heap
      /\ made \subseteq live[t] \cup made
      /\ Respond(t, Throws, failed, made, made)
  BY <1>2
<1>5. Throws \in Tensors \cup {Throws}
  OBVIOUS
<1> HIDE DEF failed, made
<1>6. MayAnswer(t, Throws, failed, made, made)
  BY <1>3, <1>4, <1>5 DEF MayAnswer
<1> QED
  BY <1>4, <1>6, Responded

LEMMA IdleThread ==
  ASSUME NEW w
  PROVE  ThreadOK("idle", Nothing, w, {}, Nothing)
  BY DEF ThreadOK

LEMMA CrashKeeps ==
  ASSUME ThreadInv, Crash
  PROVE  ThreadInv'
<1>1. /\ pc' = [t \in Threads |-> "idle"] /\ request' = Idle /\ work' = Idle
      /\ reply' = Idle /\ live' = [t \in Threads |-> {}]
  BY DEF Crash
<1>2. ThreadFunctions'
  BY <1>1 DEF ThreadFunctions, Idle
<1>3. ASSUME NEW t \in Threads
      PROVE  ThreadOK(pc'[t], request'[t], work'[t], live'[t], reply'[t])
  BY <1>1, IdleThread DEF Idle
<1> QED
  BY <1>2, <1>3 DEF ThreadInv

LEMMA InitThreads == Init => ThreadInv
<1> SUFFICES ASSUME Init PROVE ThreadInv
  OBVIOUS
<1>1. ThreadFunctions
  BY DEF Init, ThreadFunctions, Idle
<1>2. ASSUME NEW t \in Threads
      PROVE  ThreadOK(pc[t], request[t], work[t], live[t], reply[t])
  BY IdleThread DEF Init, Idle
<1> QED
  BY <1>1, <1>2 DEF ThreadInv

LEMMA QuietThreads ==
  ASSUME ThreadInv, UNCHANGED <<pc, request, work, live, reply>>
  PROVE  ThreadInv'
<1>1. ASSUME NEW t \in Threads
      PROVE  ThreadOK(pc'[t], request'[t], work'[t], live'[t], reply'[t])
  BY DEF ThreadInv
<1> QED
  BY <1>1 DEF ThreadInv, ThreadFunctions

\* One step per action.
LEMMA StepThreads == ThreadInv /\ [Next]_vars => ThreadInv'
<1> SUFFICES ASSUME ThreadInv, [Next]_vars PROVE ThreadInv'
  OBVIOUS
<1>1. ASSUME NEW t \in Threads, Receive(t) PROVE ThreadInv'
  BY <1>1, ReceiveKeeps
<1>2. ASSUME NEW t \in Threads, Reject(t) PROVE ThreadInv'
  BY <1>2, RejectKeeps
<1>3. ASSUME NEW t \in Threads, ComputeLocally(t) PROVE ThreadInv'
  BY <1>3, ComputeLocallyKeeps
<1>4. ASSUME NEW t \in Threads, Decode(t) PROVE ThreadInv'
  BY <1>4, DecodeKeeps
<1>5. ASSUME NEW t \in Threads, ProductThrows(t) PROVE ThreadInv'
  BY <1>5, ProductThrowsKeeps
<1>6. ASSUME NEW t \in Threads, Draw(t) PROVE ThreadInv'
  BY <1>6, DrawKeeps
<1>7. ASSUME NEW t \in Threads, RevealFirst(t) PROVE ThreadInv'
  BY <1>7, RevealFirstKeeps
<1>8. ASSUME NEW t \in Threads, RevealSecond(t) PROVE ThreadInv'
  BY <1>8, RevealSecondKeeps
<1>9. ASSUME NEW t \in Threads, Decrypt(t) PROVE ThreadInv'
  BY <1>9, DecryptKeeps
<1>10. ASSUME NEW t \in Threads, RemoteFails(t) PROVE ThreadInv'
  BY <1>10, RemoteFailsKeeps
<1>11. CASE Crash
  BY <1>11, CrashKeeps
<1>12. CASE Restart \/ Finished \/ UNCHANGED vars
  <2>1. UNCHANGED <<pc, request, work, live, reply>>
    BY <1>12 DEF Restart, Finished, vars
  <2> QED
    BY <2>1, QuietThreads
<1> QED
  BY <1>1, <1>2, <1>3, <1>4, <1>5, <1>6, <1>7, <1>8, <1>9, <1>10, <1>11, <1>12
  DEF Next, Step

-----------------------------------------------------------------------------
(* What follows from it.                                                   *)

LEMMA ThreadsHold == Spec => []ThreadInv
<1>1. Init => ThreadInv
  BY InitThreads
<1>2. ThreadInv /\ [Next]_vars => ThreadInv'
  BY StepThreads
<1> QED
  BY <1>1, <1>2, PTL DEF Spec

\* For all constants: every loop that deletes objects deletes objects that
\* are there, and a response that is no error leaves nothing behind but the
\* two sums the product of tensors drops (compute_request_handler.hpp and
\* ciphertext_multiplications.hpp).
THEOREM DeletesHold == Spec => []DeletesWhatIsThere
<1>1. ThreadInv => DeletesWhatIsThere
  <2> SUFFICES ASSUME ThreadInv, NEW t \in Threads, reply[t] # Nothing
               PROVE  /\ reply[t].vain = {}
                      /\ reply[t].value # Throws =>
                           /\ reply[t].left = {o \in reply[t].left :
                                o[1] \in {"pt1_b + pt2_a", "... + c"}}
                           /\ {o \in reply[t].left :
                                o[1] \in {"pt1_b + pt2_a", "... + c"}} # {}
                                => IsProduct(reply[t].request)
    BY DEF DeletesWhatIsThere
  <2>1. ThreadOK(pc[t], request[t], work[t], live[t], reply[t])
    BY DEF ThreadInv
  <2>2. Clean(reply[t])
    BY <2>1 DEF ThreadOK
  <2> QED
    BY <2>2 DEF Clean
<1> QED
  BY <1>1, ThreadsHold, PTL

\* As long as plaintexts are numbers and vectors, a request that has a branch
\* in the handler and means something is answered by an error only when
\* another node failed it (compute_request_handler.hpp).
THEOREM ServesHold ==
  ASSUME PlaintextsAreVectors
  PROVE  Spec => []ServesWhatIsMeant
<1>1. ThreadInv => ServesWhatIsMeant
  <2> SUFFICES ASSUME ThreadInv, NEW t \in Threads,
                      reply[t] # Nothing, reply[t].value = Throws
               PROVE  \/ reply[t].failed
                      \/ ~ Accepted(reply[t].request)
                      \/ ~ Service!IsMeant(reply[t].request)
    BY DEF ServesWhatIsMeant
  <2>1. ThreadOK(pc[t], request[t], work[t], live[t], reply[t])
    BY DEF ThreadInv
  <2>2. Right(reply[t])
    BY <2>1 DEF ThreadOK
  <2> QED
    BY <2>2 DEF Right
<1> QED
  BY <1>1, ThreadsHold, PTL

-----------------------------------------------------------------------------
(* The refinement.                                                         *)

\* What the service takes for the answers.
Given(replies) ==
  [t \in Threads |-> IF replies[t] = Nothing \/ replies[t].value = Throws THEN Nothing
                     ELSE replies[t].value]

LEMMA InitServes == Init => Service!Init
  BY DEF Init, Idle, Service!Init

\* An answer of the handler is one of the service, or an error.
LEMMA AnswerServes ==
  ASSUME ThreadInv, NEW t \in Threads, pc[t] # "idle",
         \E value, failed, made, cleared : Respond(t, value, failed, made, cleared),
         reply'[t].value # Throws =>
           /\ reply'[t] # Nothing
           /\ Service!IsMeant(request[t]) => reply'[t].value = Service!Meaning(request[t])
  PROVE  Service!Next
<1>1. ThreadFunctions /\ ThreadOK(pc[t], request[t], work[t], live[t], reply[t])
  BY DEF ThreadInv
<1>2. PICK v, failed, made, cleared : Respond(t, v, failed, made, cleared)
  OBVIOUS
<1>3. \E a : reply' = [reply EXCEPT ![t] = a]
  BY <1>2 DEF Respond
<1>4. request' = [request EXCEPT ![t] = Nothing]
  BY <1>2 DEF Respond
<1>5. request[t] # Nothing /\ reply[t] = Nothing
  BY <1>1, NothingAssumption DEF ThreadOK
<1>6. \A s \in Threads \ {t} : reply'[s] = reply[s]
  BY <1>1, <1>3 DEF ThreadFunctions
<1> DEFINE given == Given(reply)
           after == Given(reply')
           value == reply'[t].value
<1>7. given[t] = Nothing
  BY <1>5 DEF Given
<1>8. value # Throws => after[t] = value
  BY DEF Given
<1>9. after = [given EXCEPT ![t] = after[t]]
  BY <1>6 DEF Given
<1>10. CASE value = Throws
  <2>1. after = given
    BY <1>6, <1>7, <1>10 DEF Given
  <2>2. Service!Refuse(t)
    BY <1>4, <1>5, <2>1 DEF Service!Refuse, Given
  <2> QED
    BY <2>2 DEF Service!Next
<1>11. CASE value # Throws
  <2>1. Service!IsMeant(request[t]) => after[t] = Service!Meaning(request[t])
    BY <1>8, <1>11
  <2>2. Service!Answer(t)
    BY <1>4, <1>5, <1>9, <2>1 DEF Service!Answer, Given
  <2> QED
    BY <2>2 DEF Service!Next
<1> QED
  BY <1>10, <1>11

\* Every step of the handler is one of the service, or none.
LEMMA StepServes ==
  ASSUME PlaintextsAreVectors
  PROVE  ThreadInv /\ [Next]_vars => [Service!Next]_(Service!serviceVars)
<1> SUFFICES ASSUME ThreadInv, [Next]_vars
             PROVE  Service!Next \/ UNCHANGED Service!serviceVars
  OBVIOUS
<1>0. \A t \in Threads : pc[t] # "idle" => request[t] \in Requests /\ reply[t] = Nothing
  BY DEF ThreadInv, ThreadOK
<1>1. ASSUME NEW t \in Threads, Receive(t) PROVE Service!Next
  <2>1. ThreadFunctions /\ ThreadOK(pc[t], request[t], work[t], live[t], reply[t])
    BY DEF ThreadInv
  <2>2. PICK r \in Requests : request' = [request EXCEPT ![t] = r]
    BY <1>1 DEF Receive
  <2>3. pc[t] = "idle" /\ reply' = [reply EXCEPT ![t] = Nothing]
    BY <1>1 DEF Receive
  <2>4. request[t] = Nothing
    BY <2>1, <2>3 DEF ThreadOK
  <2>5. Given(reply') = [Given(reply) EXCEPT ![t] = Nothing]
    BY <2>1, <2>3 DEF Given, ThreadFunctions
  <2>6. Service!Ask(t)
    BY <2>2, <2>4, <2>5 DEF Service!Ask, Given
  <2> QED
    BY <2>6 DEF Service!Next
<1>2. ASSUME NEW t \in Threads, Reject(t) PROVE Service!Next
  <2>1. pc[t] # "idle" /\ \E value, failed, made, cleared : Respond(t, value, failed, made, cleared)
    BY <1>2 DEF Reject
  <2> QED
    BY <1>2, <2>1, RejectKeeps, AnswerServes
<1>3. ASSUME NEW t \in Threads, ComputeLocally(t) PROVE Service!Next
  <2>1. pc[t] # "idle" /\ \E value, failed, made, cleared : Respond(t, value, failed, made, cleared)
    BY <1>3 DEF ComputeLocally
  <2> QED
    BY <1>3, <2>1, ComputeLocallyKeeps, AnswerServes
<1>4. ASSUME NEW t \in Threads, Decode(t) PROVE UNCHANGED Service!serviceVars
  <2>1. request' = request /\ reply' = reply
    BY <1>4 DEF Decode
  <2> QED
    BY <2>1 DEF Service!serviceVars
<1>5. ASSUME NEW t \in Threads, ProductThrows(t) PROVE Service!Next
  <2>1. pc[t] # "idle" /\ \E value, failed, made, cleared : Respond(t, value, failed, made, cleared)
    BY <1>5 DEF ProductThrows
  <2> QED
    BY <1>5, <2>1, ProductThrowsKeeps, AnswerServes
<1>6. ASSUME NEW t \in Threads, Draw(t) PROVE Service!Next \/ UNCHANGED Service!serviceVars
  <2>1. CASE request' = request /\ reply' = reply
    BY <2>1 DEF Service!serviceVars
  <2>2. CASE ~ (request' = request /\ reply' = reply)
    <3>1. pc[t] # "idle" /\ \E value, failed, made, cleared : Respond(t, value, failed, made, cleared)
      BY <1>6, <2>2 DEF Draw
    <3> QED
      BY <1>6, <2>2, <3>1, DrawKeeps, AnswerServes
  <2> QED
    BY <2>1, <2>2
<1>7. ASSUME NEW t \in Threads, RevealFirst(t) PROVE UNCHANGED Service!serviceVars
  <2>1. request' = request /\ reply' = reply
    BY <1>7 DEF RevealFirst
  <2> QED
    BY <2>1 DEF Service!serviceVars
<1>8. ASSUME NEW t \in Threads, RevealSecond(t) PROVE Service!Next
  <2>1. pc[t] # "idle" /\ \E value, failed, made, cleared : Respond(t, value, failed, made, cleared)
    BY <1>8 DEF RevealSecond
  <2> QED
    BY <1>8, <2>1, RevealSecondKeeps, AnswerServes
<1>9. ASSUME NEW t \in Threads, Decrypt(t) PROVE Service!Next
  <2>1. pc[t] # "idle" /\ \E value, failed, made, cleared : Respond(t, value, failed, made, cleared)
    BY <1>9 DEF Decrypt
  <2> QED
    BY <1>9, <2>1, DecryptKeeps, AnswerServes
<1>10. ASSUME NEW t \in Threads, RemoteFails(t) PROVE Service!Next
  <2>1. pc[t] # "idle" /\ \E value, failed, made, cleared : Respond(t, value, failed, made, cleared)
    BY <1>10 DEF RemoteFails, Remote
  <2> QED
    BY <1>10, <2>1, RemoteFailsKeeps, AnswerServes
<1>11. CASE Crash
  <2>1. request' = Idle /\ reply' = Idle
    BY <1>11 DEF Crash
  <2>2. Service!Crash
    BY <2>1 DEF Service!Crash, Idle
  <2> QED
    BY <2>2 DEF Service!Next
<1>12. CASE Restart \/ Finished \/ UNCHANGED vars
  <2>1. request' = request /\ reply' = reply
    BY <1>12 DEF Restart, Finished, vars
  <2> QED
    BY <2>1 DEF Service!serviceVars
<1> QED
  BY <1>1, <1>2, <1>3, <1>4, <1>5, <1>6, <1>7, <1>8, <1>9, <1>10, <1>11, <1>12
  DEF Next, Step

\* As long as plaintexts are numbers and vectors, the handler answers a request
\* that means something with what it means, or with an error, whatever the
\* masks and whatever other threads do meanwhile: compute_request_handler.hpp
\* implements ArithmeticService.
THEOREM HandlerImplementsService ==
  ASSUME PlaintextsAreVectors
  PROVE  Spec => ImplementsService
<1>1. Init => Service!Init
  BY InitServes
<1>2. ThreadInv /\ [Next]_vars => [Service!Next]_(Service!serviceVars)
  BY StepServes
<1> QED
  BY <1>1, <1>2, ThreadsHold, PTL DEF Spec, ImplementsService, Service!Spec

-----------------------------------------------------------------------------
(* Masks: the inductive invariant.                                         *)

Holds(t) == pc[t] \in {"first", "second"}
Counts == [a : Nat, b : Nat]

\* The triplets of a multiplication that has masked its operands.
Ids(t) == {work[t].triplets[j].id : j \in DOMAIN work[t].triplets}

MaskTypes ==
  /\ DOMAIN pc = Threads
  /\ DOMAIN request = Threads
  /\ DOMAIN work = Threads
  /\ uses \in Seq(Counts)
  /\ \A t \in Threads : pc[t] = "dispatch" => request[t] \in Requests
  /\ \A t \in Threads : pc[t] = "draw" => Size(work[t].x) \in Nat

HeldKnown ==
  \A t \in Threads : Holds(t) =>
    /\ "triplets" \in DOMAIN work[t]
    /\ Ids(t) \subseteq 1..Len(uses)
    /\ \A j, k \in DOMAIN work[t].triplets :
         work[t].triplets[j].id = work[t].triplets[k].id => j = k

HeldApart ==
  \A s, t \in Threads : Holds(s) /\ Holds(t) /\ s # t => Ids(s) \cap Ids(t) = {}

HeldUnused ==
  \A t \in Threads : Holds(t) => \A i \in Ids(t) :
    /\ uses[i].b = 0
    /\ pc[t] = "first" => uses[i].a = 0

MaskInv == MaskTypes /\ HeldKnown /\ HeldApart /\ HeldUnused /\ MasksOnce

-----------------------------------------------------------------------------
(* What masking does to the counts.                                        *)

\* Triplets that are numbered apart: each is counted at most once.
LEMMA CountOfOne ==
  ASSUME NEW triplets, NEW i,
         \A j, k \in DOMAIN triplets : triplets[j].id = triplets[k].id => j = k
  PROVE  LET marked == {j \in DOMAIN triplets : triplets[j].id = i}
         IN  Cardinality(marked) =
               IF \E j \in DOMAIN triplets : triplets[j].id = i THEN 1 ELSE 0
<1> DEFINE marked == {j \in DOMAIN triplets : triplets[j].id = i}
<1>1. CASE \E j \in DOMAIN triplets : triplets[j].id = i
  <2>1. PICK j \in DOMAIN triplets : triplets[j].id = i
    BY <1>1
  <2>2. marked = {j}
    BY <2>1
  <2>3. Cardinality(marked) = 1
    BY <2>2, FS_Singleton
  <2> QED
    BY <1>1, <2>3
<1>2. CASE ~ \E j \in DOMAIN triplets : triplets[j].id = i
  <2>1. marked = {}
    BY <1>2
  <2>2. Cardinality(marked) = 0
    BY <2>1, FS_EmptySet
  <2> QED
    BY <1>2, <2>2
<1> QED
  BY <1>1, <1>2

Counted(u, half, count) == [i \in 1..Len(u) |-> [u[i] EXCEPT ![half] = @ + count[i]]]

\* Counting on one side: a sequence of counts again, with nothing else changed.
LEMMA CountA ==
  ASSUME NEW u \in Seq(Counts), NEW count, NEW v,
         \A i \in 1..Len(u) : count[i] \in Nat,
         v = Counted(u, "a", count)
  PROVE  /\ v \in Seq(Counts)
         /\ Len(v) = Len(u)
         /\ \A i \in 1..Len(u) : v[i].a = u[i].a + count[i] /\ v[i].b = u[i].b
<1>1. \A i \in 1..Len(u) :
        v[i] \in Counts /\ v[i].a = u[i].a + count[i] /\ v[i].b = u[i].b
  <2> TAKE i \in 1..Len(u)
  <2>1. PICK x \in Nat, y \in Nat : u[i] = [a |-> x, b |-> y]
    <3>1. u[i] \in Counts
      BY ElementOfSeq
    <3> QED
      BY <3>1 DEF Counts
  <2>2. v[i] = [u[i] EXCEPT !["a"] = @ + count[i]]
    BY DEF Counted
  <2>3. v[i] = [a |-> x + count[i], b |-> y]
    BY <2>1, <2>2
  <2>4. x + count[i] \in Nat
    BY <2>1
  <2> QED
    BY <2>1, <2>3, <2>4 DEF Counts
<1>2. v \in [1..Len(u) -> Counts] /\ Len(u) \in Nat
  BY <1>1 DEF Counted
<1>3. v \in Seq(Counts) /\ Len(v) = Len(u)
  BY <1>2, SeqByElements
<1> QED
  BY <1>1, <1>3

LEMMA CountB ==
  ASSUME NEW u \in Seq(Counts), NEW count, NEW v,
         \A i \in 1..Len(u) : count[i] \in Nat,
         v = Counted(u, "b", count)
  PROVE  /\ v \in Seq(Counts)
         /\ Len(v) = Len(u)
         /\ \A i \in 1..Len(u) : v[i].a = u[i].a /\ v[i].b = u[i].b + count[i]
<1>1. \A i \in 1..Len(u) :
        v[i] \in Counts /\ v[i].a = u[i].a /\ v[i].b = u[i].b + count[i]
  <2> TAKE i \in 1..Len(u)
  <2>1. PICK x \in Nat, y \in Nat : u[i] = [a |-> x, b |-> y]
    <3>1. u[i] \in Counts
      BY ElementOfSeq
    <3> QED
      BY <3>1 DEF Counts
  <2>2. v[i] = [u[i] EXCEPT !["b"] = @ + count[i]]
    BY DEF Counted
  <2>3. v[i] = [a |-> x, b |-> y + count[i]]
    BY <2>1, <2>2
  <2>4. y + count[i] \in Nat
    BY <2>1
  <2> QED
    BY <2>1, <2>3, <2>4 DEF Counts
<1>2. v \in [1..Len(u) -> Counts] /\ Len(u) \in Nat
  BY <1>1 DEF Counted
<1>3. v \in Seq(Counts) /\ Len(v) = Len(u)
  BY <1>2, SeqByElements
<1> QED
  BY <1>1, <1>3

\* How often triplet i is among those t holds: once, or never.
Occurs(t, i) == IF i \in Ids(t) THEN 1 ELSE 0

LEMMA OccursOnce ==
  ASSUME NEW t \in Threads, HeldKnown, Holds(t), NEW i
  PROVE  Cardinality({j \in DOMAIN work[t].triplets :
                        work[t].triplets[j].id = i}) = Occurs(t, i)
<1>1. \A j, k \in DOMAIN work[t].triplets :
        work[t].triplets[j].id = work[t].triplets[k].id => j = k
  BY DEF HeldKnown
<1>2. (i \in Ids(t)) <=> \E j \in DOMAIN work[t].triplets : work[t].triplets[j].id = i
  BY DEF Ids
<1> QED
  BY <1>1, <1>2, CountOfOne DEF Occurs

\* A first reveal counts the triplets t holds once more for their a, a second
\* one for their b; all else stays.
LEMMA RevealA ==
  ASSUME MaskTypes, HeldKnown, NEW t \in Threads, Holds(t),
         Reveals(work[t].triplets, "a")
  PROVE  /\ uses' \in Seq(Counts)
         /\ Len(uses') = Len(uses)
         /\ \A i \in 1..Len(uses) :
              uses'[i].a = uses[i].a + Occurs(t, i) /\ uses'[i].b = uses[i].b
<1> DEFINE count == [i \in 1..Len(uses) |-> Occurs(t, i)]
<1>1. uses \in Seq(Counts) /\ DOMAIN uses = 1..Len(uses)
  BY DEF MaskTypes
<1>2. uses' = Counted(uses, "a", count)
  BY <1>1, OccursOnce DEF Reveals, Counted
<1>3. \A i \in 1..Len(uses) : count[i] = Occurs(t, i) /\ count[i] \in Nat
  BY DEF Occurs
<1> HIDE DEF count
<1> QED
  BY <1>1, <1>2, <1>3, CountA

LEMMA RevealB ==
  ASSUME MaskTypes, HeldKnown, NEW t \in Threads, Holds(t),
         Reveals(work[t].triplets, "b")
  PROVE  /\ uses' \in Seq(Counts)
         /\ Len(uses') = Len(uses)
         /\ \A i \in 1..Len(uses) :
              uses'[i].a = uses[i].a /\ uses'[i].b = uses[i].b + Occurs(t, i)
<1> DEFINE count == [i \in 1..Len(uses) |-> Occurs(t, i)]
<1>1. uses \in Seq(Counts) /\ DOMAIN uses = 1..Len(uses)
  BY DEF MaskTypes
<1>2. uses' = Counted(uses, "b", count)
  BY <1>1, OccursOnce DEF Reveals, Counted
<1>3. \A i \in 1..Len(uses) : count[i] = Occurs(t, i) /\ count[i] \in Nat
  BY DEF Occurs
<1> HIDE DEF count
<1> QED
  BY <1>1, <1>2, <1>3, CountB

\* Triplets that were just drawn have not masked anything.
LEMMA DrawnCounts ==
  ASSUME NEW u \in Seq(Counts), NEW n \in Nat, NEW v,
         v = u \o [i \in 1..n |-> [a |-> 0, b |-> 0]]
  PROVE  /\ v \in Seq(Counts)
         /\ Len(v) = Len(u) + n
         /\ \A i \in 1..Len(u) : v[i] = u[i]
         /\ \A i \in 1..n : v[Len(u) + i].a = 0 /\ v[Len(u) + i].b = 0
<1> DEFINE zero == [a |-> 0, b |-> 0]
           zeros == [i \in 1..n |-> zero]
<1>1. zero \in Counts
  BY DEF Counts
<1>2. \A i \in 1..n : zeros[i] = zero
  OBVIOUS
<1>3. zeros \in [1..n -> Counts]
  BY <1>1
<1> HIDE DEF zeros, zero
<1>4. zeros \in Seq(Counts) /\ Len(zeros) = n
  BY <1>3, SeqByElements
<1>5. v = u \o zeros
  BY DEF zeros, zero
<1> SUFFICES /\ v \in Seq(Counts)
             /\ Len(v) = Len(u) + n
             /\ \A i \in 1..Len(u) : v[i] = u[i]
             /\ \A i \in 1..n : v[Len(u) + i] = zero
  <2>1. zero.a = 0 /\ zero.b = 0
    BY DEF zero
  <2> QED
    BY <2>1
<1> QED
  BY <1>2, <1>4, <1>5

-----------------------------------------------------------------------------
(* The invariant is preserved.                                             *)

\* Only thread t moves.
Alone(t) == \A s \in Threads \ {t} : pc'[s] = pc[s] /\ work'[s] = work[s]

\* By a step that masks nothing, and after which no thread holds triplets it
\* did not hold before.
LEMMA Quiet ==
  ASSUME MaskInv, MaskTypes', uses' = uses,
         \A t \in Threads : Holds(t)' => pc'[t] = pc[t] /\ work'[t] = work[t]
  PROVE  MaskInv'
<1>1. \A t \in Threads : Holds(t)' => Holds(t) /\ Ids(t)' = Ids(t)
  BY DEF Holds, Ids
<1>2. HeldKnown'
  BY <1>1 DEF MaskInv, HeldKnown
<1>3. HeldApart'
  BY <1>1 DEF MaskInv, HeldApart
<1>4. HeldUnused'
  BY <1>1 DEF MaskInv, HeldUnused
<1>5. MasksOnce'
  BY DEF MaskInv, MasksOnce
<1> QED
  BY <1>2, <1>3, <1>4, <1>5 DEF MaskInv

\* By a first decryption: t has the triplets it had, or none.
LEMMA MarkedA ==
  ASSUME MaskInv, MaskTypes', NEW t \in Threads, Alone(t),
         pc[t] = "first", Reveals(work[t].triplets, "a"),
         Holds(t)' => /\ pc'[t] = "second"
                      /\ "triplets" \in DOMAIN work'[t]
                      /\ work'[t].triplets = work[t].triplets
  PROVE  MaskInv'
<1>1. Holds(t)
  BY DEF Holds
<1>2. /\ uses' \in Seq(Counts)
      /\ Len(uses') = Len(uses)
      /\ \A i \in 1..Len(uses) :
           uses'[i].a = uses[i].a + Occurs(t, i) /\ uses'[i].b = uses[i].b
  BY <1>1, RevealA DEF MaskInv
<1>3. \A s \in Threads : Holds(s)' => Holds(s) /\ Ids(s)' = Ids(s)
  BY <1>1 DEF Alone, Holds, Ids
<1>4. HeldKnown'
  <2> SUFFICES ASSUME NEW s \in Threads, Holds(s)'
               PROVE  /\ "triplets" \in DOMAIN work'[s]
                      /\ Ids(s)' \subseteq 1..Len(uses')
                      /\ work'[s].triplets = work[s].triplets
    BY <1>3 DEF MaskInv, HeldKnown
  <2> QED
    BY <1>2, <1>3 DEF MaskInv, HeldKnown, Alone
<1>5. HeldApart'
  BY <1>3 DEF MaskInv, HeldApart
<1>6. HeldUnused'
  <2> SUFFICES ASSUME NEW s \in Threads, Holds(s)', NEW i \in Ids(s)
               PROVE  /\ uses'[i].b = 0
                      /\ pc'[s] = "first" => uses'[i].a = 0
    BY <1>3 DEF HeldUnused
  <2>1. Holds(s) /\ i \in 1..Len(uses)
    BY <1>3 DEF MaskInv, HeldKnown
  <2>2. uses[i].b = 0 /\ (pc[s] = "first" => uses[i].a = 0)
    BY <2>1 DEF MaskInv, HeldUnused
  <2>3. uses'[i].b = 0
    BY <1>2, <2>1, <2>2
  <2>4. ASSUME pc'[s] = "first"
        PROVE  uses'[i].a = 0
    <3>1. s # t
      BY <2>4
    <3>2. i \notin Ids(t)
      BY <1>1, <2>1, <3>1 DEF MaskInv, HeldApart
    <3>3. pc[s] = "first"
      BY <2>4, <3>1 DEF Alone
    <3> QED
      BY <1>2, <2>1, <2>2, <3>2, <3>3 DEF Occurs
  <2> QED
    BY <2>3, <2>4
<1>7. MasksOnce'
  <2> SUFFICES ASSUME NEW i \in 1..Len(uses)
               PROVE  uses'[i].a <= 1 /\ uses'[i].b <= 1
    BY <1>2 DEF MasksOnce
  <2>1. uses[i].a <= 1 /\ uses[i].b <= 1
    BY DEF MaskInv, MasksOnce, MaskTypes
  <2>2. CASE i \in Ids(t)
    BY <1>1, <1>2, <2>1, <2>2 DEF MaskInv, HeldUnused, Occurs
  <2>3. CASE i \notin Ids(t)
    <3>1. uses[i] \in Counts
      BY ElementOfSeq DEF MaskInv, MaskTypes
    <3> QED
      BY <1>2, <2>1, <2>3, <3>1 DEF Occurs, Counts
  <2> QED
    BY <2>2, <2>3
<1> QED
  BY <1>4, <1>5, <1>6, <1>7 DEF MaskInv

\* By a second decryption, which is the thread's last use of its triplets.
LEMMA MarkedB ==
  ASSUME MaskInv, MaskTypes', NEW t \in Threads, Alone(t),
         pc[t] = "second", Reveals(work[t].triplets, "b"), ~ Holds(t)'
  PROVE  MaskInv'
<1>1. Holds(t)
  BY DEF Holds
<1>2. /\ uses' \in Seq(Counts)
      /\ Len(uses') = Len(uses)
      /\ \A i \in 1..Len(uses) :
           uses'[i].a = uses[i].a /\ uses'[i].b = uses[i].b + Occurs(t, i)
  BY <1>1, RevealB DEF MaskInv
<1>3. \A s \in Threads : Holds(s)' =>
        s # t /\ Holds(s) /\ Ids(s)' = Ids(s) /\ work'[s] = work[s]
  BY <1>1 DEF Alone, Holds, Ids
<1>4. HeldKnown'
  BY <1>2, <1>3 DEF MaskInv, HeldKnown
<1>5. HeldApart'
  BY <1>3 DEF MaskInv, HeldApart
<1>6. HeldUnused'
  <2> SUFFICES ASSUME NEW s \in Threads, Holds(s)', NEW i \in Ids(s)
               PROVE  /\ uses'[i].b = 0
                      /\ pc'[s] = "first" => uses'[i].a = 0
    BY <1>3 DEF HeldUnused
  <2>1. Holds(s) /\ i \in 1..Len(uses) /\ s # t /\ pc'[s] = pc[s]
    BY <1>3 DEF MaskInv, HeldKnown, Alone
  <2>2. uses[i].b = 0 /\ (pc[s] = "first" => uses[i].a = 0)
    BY <2>1 DEF MaskInv, HeldUnused
  <2>3. i \notin Ids(t)
    BY <1>1, <2>1 DEF MaskInv, HeldApart
  <2> QED
    BY <1>2, <2>1, <2>2, <2>3 DEF Occurs
<1>7. MasksOnce'
  <2> SUFFICES ASSUME NEW i \in 1..Len(uses)
               PROVE  uses'[i].a <= 1 /\ uses'[i].b <= 1
    BY <1>2 DEF MasksOnce
  <2>1. uses[i].a <= 1 /\ uses[i].b <= 1
    BY DEF MaskInv, MasksOnce, MaskTypes
  <2>2. CASE i \in Ids(t)
    BY <1>1, <1>2, <2>1, <2>2 DEF MaskInv, HeldUnused, Occurs
  <2>3. CASE i \notin Ids(t)
    <3>1. uses[i] \in Counts
      BY ElementOfSeq DEF MaskInv, MaskTypes
    <3> QED
      BY <1>2, <2>1, <2>3, <3>1 DEF Occurs, Counts
  <2> QED
    BY <2>2, <2>3
<1> QED
  BY <1>4, <1>5, <1>6, <1>7 DEF MaskInv

\* By a draw: t holds triplets that are new, or none.
LEMMA Drawn ==
  ASSUME MaskInv, MaskTypes', NEW t \in Threads, Alone(t), NEW n \in Nat,
         uses' = uses \o [i \in 1..n |-> [a |-> 0, b |-> 0]],
         Holds(t)' => /\ "triplets" \in DOMAIN work'[t]
                      /\ DOMAIN work'[t].triplets = 1..n
                      /\ \A j \in 1..n : work'[t].triplets[j].id = Len(uses) + j
  PROVE  MaskInv'
<1>1. /\ uses' \in Seq(Counts)
      /\ Len(uses') = Len(uses) + n
      /\ \A i \in 1..Len(uses) : uses'[i] = uses[i]
      /\ \A i \in 1..n : uses'[Len(uses) + i].a = 0 /\ uses'[Len(uses) + i].b = 0
  BY DrawnCounts DEF MaskInv, MaskTypes
<1>2. Len(uses) \in Nat
  BY DEF MaskInv, MaskTypes
<1>3. \A s \in Threads : s # t /\ Holds(s)' =>
        /\ Holds(s) /\ Ids(s)' = Ids(s)
        /\ work'[s] = work[s] /\ pc'[s] = pc[s]
        /\ Ids(s) \subseteq 1..Len(uses)
  BY DEF Alone, Holds, Ids, MaskInv, HeldKnown
<1>4. Holds(t)' => \A i \in Ids(t)' : \E j \in 1..n : i = Len(uses) + j
  BY DEF Ids
<1>5. HeldKnown'
  <2> SUFFICES ASSUME NEW s \in Threads, Holds(s)'
               PROVE  /\ "triplets" \in DOMAIN work'[s]
                      /\ Ids(s)' \subseteq 1..Len(uses')
                      /\ \A j, k \in DOMAIN work'[s].triplets :
                           work'[s].triplets[j].id = work'[s].triplets[k].id => j = k
    BY DEF HeldKnown
  <2>1. CASE s = t
    <3>1. Ids(s)' \subseteq 1..Len(uses')
      BY <1>1, <1>2, <1>4, <2>1
    <3> QED
      BY <1>2, <2>1, <3>1
  <2>2. CASE s # t
    <3>1. Ids(s)' \subseteq 1..Len(uses')
      BY <1>1, <1>2, <1>3, <2>2
    <3> QED
      BY <1>3, <2>2, <3>1 DEF MaskInv, HeldKnown
  <2> QED
    BY <2>1, <2>2
<1>6. HeldApart'
  <2> SUFFICES ASSUME NEW r \in Threads, NEW s \in Threads,
                      Holds(r)', Holds(s)', r # s
               PROVE  Ids(r)' \cap Ids(s)' = {}
    BY DEF HeldApart
  <2>1. CASE r = t
    BY <1>2, <1>3, <1>4, <2>1
  <2>2. CASE s = t
    BY <1>2, <1>3, <1>4, <2>2
  <2>3. CASE r # t /\ s # t
    BY <1>3, <2>3 DEF MaskInv, HeldApart
  <2> QED
    BY <2>1, <2>2, <2>3
<1>7. HeldUnused'
  <2> SUFFICES ASSUME NEW s \in Threads, Holds(s)', NEW i \in Ids(s)'
               PROVE  uses'[i].b = 0 /\ (pc'[s] = "first" => uses'[i].a = 0)
    BY DEF HeldUnused
  <2>1. CASE s = t
    <3>1. PICK j \in 1..n : i = Len(uses) + j
      BY <1>4, <2>1
    <3> QED
      BY <1>1, <3>1
  <2>2. CASE s # t
    <3>1. i \in 1..Len(uses) /\ uses'[i] = uses[i]
      BY <1>1, <1>3, <2>2
    <3> QED
      BY <1>3, <2>2, <3>1 DEF MaskInv, HeldUnused
  <2> QED
    BY <2>1, <2>2
<1>8. MasksOnce'
  <2> SUFFICES ASSUME NEW i \in 1..(Len(uses) + n)
               PROVE  uses'[i].a <= 1 /\ uses'[i].b <= 1
    BY <1>1 DEF MasksOnce
  <2>1. CASE i \in 1..Len(uses)
    BY <1>1, <2>1 DEF MaskInv, MaskTypes, MasksOnce
  <2>2. CASE i \notin 1..Len(uses)
    <3>1. i - Len(uses) \in 1..n /\ i = Len(uses) + (i - Len(uses))
      BY <1>2, <2>2
    <3> QED
      BY <1>1, <3>1
  <2> QED
    BY <2>1, <2>2
<1> QED
  BY <1>5, <1>6, <1>7, <1>8 DEF MaskInv

-----------------------------------------------------------------------------
(* The steps.                                                              *)

\* An answer leaves the thread idle and the other threads alone.
LEMMA Responds ==
  ASSUME MaskTypes, NEW t \in Threads, NEW value, NEW failed, NEW made, NEW cleared,
         Respond(t, value, failed, made, cleared), uses' \in Seq(Counts)
  PROVE  MaskTypes' /\ Alone(t) /\ ~ Holds(t)'
<1>1. pc' = [pc EXCEPT ![t] = "idle"] /\ request' = [request EXCEPT ![t] = Nothing]
      /\ work' = [work EXCEPT ![t] = Nothing]
  BY DEF Respond
<1>2. pc'[t] = "idle" /\ \A s \in Threads \ {t} :
        pc'[s] = pc[s] /\ work'[s] = work[s] /\ request'[s] = request[s]
  BY <1>1 DEF MaskTypes
<1>3. MaskTypes'
  <2>1. DOMAIN pc' = Threads /\ DOMAIN request' = Threads /\ DOMAIN work' = Threads
    BY <1>1 DEF MaskTypes
  <2>2. \A s \in Threads :
          /\ pc'[s] = "dispatch" => request'[s] \in Requests
          /\ pc'[s] = "draw" => Size(work'[s].x) \in Nat
    BY <1>2 DEF MaskTypes, Size
  <2> QED
    BY <2>1, <2>2 DEF MaskTypes, Size
<1> QED
  BY <1>2, <1>3 DEF Alone, Holds

\* A product has as many elements to multiply as some number says.
LEMMA ProductSizes ==
  ASSUME NEW r \in Requests, Accepted(r), ~ IsLocal(r), ~ IsDecryption(r),
         Rank(X(r)) < 3, NEW w \in Products(r)
  PROVE  Size(w.x) \in Nat
<1>1. IsRemoteProduct(r) /\ IsWork(r, w)
  BY DEF IsRemoteProduct, IsWork
<1> QED
  BY <1>1, WorkSizes

LEMMA InitMasks == Init => MaskInv
<1> SUFFICES ASSUME Init PROVE MaskInv
  OBVIOUS
<1>1. \A t \in Threads : pc[t] = "idle"
  BY DEF Init
<1>2. uses = <<>>
  BY DEF Init
<1>3. MaskTypes
  BY <1>1, <1>2 DEF Init, Idle, MaskTypes
<1>4. HeldKnown /\ HeldApart /\ HeldUnused
  BY <1>1 DEF Holds, HeldKnown, HeldApart, HeldUnused
<1>5. MasksOnce
  BY <1>2 DEF MasksOnce
<1> QED
  BY <1>3, <1>4, <1>5 DEF MaskInv

\* One step per action.
LEMMA StepMasks == MaskInv /\ [Next]_vars => MaskInv'
<1> SUFFICES ASSUME MaskInv, [Next]_vars PROVE MaskInv'
  OBVIOUS
<1> USE DEF MaskInv
<1>0. uses \in Seq(Counts)
  BY DEF MaskTypes
<1>1. ASSUME NEW t \in Threads, Receive(t) PROVE MaskInv'
  <2>1. PICK r \in Requests : request' = [request EXCEPT ![t] = r]
    BY <1>1 DEF Receive
  <2>2. /\ pc' = [pc EXCEPT ![t] = "dispatch"]
        /\ work' = work
        /\ uses' = uses
    BY <1>1 DEF Receive
  <2>3. MaskTypes'
    BY <2>1, <2>2 DEF MaskTypes, Size
  <2>4. \A s \in Threads : Holds(s)' => pc'[s] = pc[s] /\ work'[s] = work[s]
    BY <2>2 DEF Holds, MaskTypes
  <2> QED
    BY <2>2, <2>3, <2>4, Quiet
<1>2. ASSUME NEW t \in Threads, NEW value, NEW failed, NEW made, NEW cleared,
             Respond(t, value, failed, made, cleared), uses' = uses
      PROVE  MaskInv'
  <2>1. MaskTypes' /\ Alone(t) /\ ~ Holds(t)'
    BY <1>0, <1>2, Responds
  <2>2. \A s \in Threads : Holds(s)' => pc'[s] = pc[s] /\ work'[s] = work[s]
    BY <2>1 DEF Alone
  <2> QED
    BY <1>2, <2>1, <2>2, Quiet
<1>3. ASSUME NEW t \in Threads, Reject(t) PROVE MaskInv'
  BY <1>2, <1>3 DEF Reject
<1>4. ASSUME NEW t \in Threads, ComputeLocally(t) PROVE MaskInv'
  <2>1. /\ uses' = uses
        /\ \E value, made, cleared : Respond(t, value, FALSE, made, cleared)
    BY <1>4 DEF ComputeLocally
  <2> QED
    BY <1>2, <2>1
<1>5. ASSUME NEW t \in Threads, Decode(t) PROVE MaskInv'
  <2>1. /\ pc[t] = "dispatch"
        /\ Accepted(request[t]) /\ ~ IsLocal(request[t])
        /\ request' = request /\ uses' = uses
    BY <1>5 DEF Decode
  <2>2. request[t] \in Requests
    BY <2>1 DEF MaskTypes
  <2>3. \/ pc' = [pc EXCEPT ![t] = "decrypt"] /\ work' = work
        \/ /\ pc' = [pc EXCEPT ![t] = "draw"]
           /\ ~ IsDecryption(request[t]) /\ Rank(X(request[t])) < 3
           /\ \E w \in Products(request[t]) : work' = [work EXCEPT ![t] = w]
    BY <1>5 DEF Decode
  <2>4. MaskTypes' /\ Alone(t) /\ ~ Holds(t)'
    <3>1. CASE pc' = [pc EXCEPT ![t] = "decrypt"] /\ work' = work
      BY <2>1, <3>1 DEF MaskTypes, Size, Alone, Holds
    <3>2. ASSUME pc' = [pc EXCEPT ![t] = "draw"],
                 ~ IsDecryption(request[t]), Rank(X(request[t])) < 3,
                 NEW w \in Products(request[t]),
                 work' = [work EXCEPT ![t] = w]
          PROVE  MaskTypes' /\ Alone(t) /\ ~ Holds(t)'
      <4>1. Size(w.x) \in Nat
        BY <2>1, <2>2, <3>2, ProductSizes
      <4> QED
        BY <2>1, <3>2, <4>1 DEF MaskTypes, Size, Alone, Holds
    <3> QED
      BY <2>3, <3>1, <3>2
  <2>5. \A s \in Threads : Holds(s)' => pc'[s] = pc[s] /\ work'[s] = work[s]
    BY <2>4 DEF Alone
  <2> QED
    BY <2>1, <2>4, <2>5, Quiet
<1>6. ASSUME NEW t \in Threads, ProductThrows(t) PROVE MaskInv'
  BY <1>2, <1>6 DEF ProductThrows
<1>7. ASSUME NEW t \in Threads, Draw(t) PROVE MaskInv'
  <2> DEFINE n == Size(work[t].x)
  <2>1. n \in Nat
    BY <1>7 DEF Draw, MaskTypes
  <2>2. uses' = uses \o [i \in 1..n |-> [a |-> 0, b |-> 0]]
    BY <1>7 DEF Draw
  <2>3. uses' \in Seq(Counts)
    BY <1>0, <2>1, <2>2, DrawnCounts
  <2>4. \/ \E row \in MaskRows :
             /\ work' = [work EXCEPT ![t] =
                           [x |-> work[t].x, y |-> work[t].y, p |-> work[t].p,
                            triplets |-> Triplets(row, n), e |-> <<>>, f |-> <<>>]]
             /\ pc' = [pc EXCEPT ![t] = "first"]
             /\ request' = request
        \/ \E made : Respond(t, Throws, FALSE, made, {})
    BY <1>7 DEF Draw
  <2>5. CASE \E made : Respond(t, Throws, FALSE, made, {})
    <3>1. MaskTypes' /\ Alone(t) /\ ~ Holds(t)'
      BY <2>3, <2>5, Responds
    <3> QED
      BY <2>1, <2>2, <3>1, Drawn
  <2>6. ASSUME NEW row \in MaskRows,
               work' = [work EXCEPT ![t] =
                          [x |-> work[t].x, y |-> work[t].y, p |-> work[t].p,
                           triplets |-> Triplets(row, n), e |-> <<>>, f |-> <<>>]],
               pc' = [pc EXCEPT ![t] = "first"],
               request' = request
        PROVE  MaskInv'
    <3>1. MaskTypes' /\ Alone(t)
      BY <2>3, <2>6 DEF MaskTypes, Size, Alone
    <3>2. /\ "triplets" \in DOMAIN work'[t]
          /\ work'[t].triplets = Triplets(row, n)
      BY <2>6 DEF MaskTypes
    <3>3. /\ DOMAIN Triplets(row, n) = 1..n
          /\ \A j \in 1..n : Triplets(row, n)[j].id = Len(uses) + j
      BY DEF Triplets
    <3> QED
      BY <2>1, <2>2, <3>1, <3>2, <3>3, Drawn
  <2> QED
    BY <2>4, <2>5, <2>6
<1>8. ASSUME NEW t \in Threads, RevealFirst(t) PROVE MaskInv'
  <2>1. /\ pc[t] = "first"
        /\ Reveals(work[t].triplets, "a")
        /\ pc' = [pc EXCEPT ![t] = "second"]
        /\ request' = request
    BY <1>8 DEF RevealFirst
  <2>2. PICK e : work' = [work EXCEPT ![t].e = e]
    BY <1>8 DEF RevealFirst
  <2>3. Holds(t)
    BY <2>1 DEF Holds
  <2>4. /\ "triplets" \in DOMAIN work'[t]
        /\ work'[t].triplets = work[t].triplets
    BY <2>2, <2>3 DEF MaskTypes, HeldKnown
  <2>5. uses' \in Seq(Counts)
    BY <2>1, <2>3, RevealA
  <2>6. MaskTypes' /\ Alone(t)
    BY <2>1, <2>2, <2>5 DEF MaskTypes, Size, Alone
  <2> QED
    BY <2>1, <2>4, <2>6, MarkedA DEF MaskTypes
<1>9. ASSUME NEW t \in Threads, RevealSecond(t) PROVE MaskInv'
  <2>1. pc[t] = "second" /\ Reveals(work[t].triplets, "b")
    BY <1>9 DEF RevealSecond
  <2>2. \E value, made, cleared : Respond(t, value, FALSE, made, cleared)
    BY <1>9 DEF RevealSecond
  <2>3. uses' \in Seq(Counts)
    BY <2>1, RevealB DEF Holds
  <2>4. MaskTypes' /\ Alone(t) /\ ~ Holds(t)'
    BY <2>2, <2>3, Responds
  <2> QED
    BY <2>1, <2>4, MarkedB
<1>10. ASSUME NEW t \in Threads, Decrypt(t) PROVE MaskInv'
  <2>1. /\ uses' = uses
        /\ \E value, made, cleared : Respond(t, value, FALSE, made, cleared)
    BY <1>10 DEF Decrypt
  <2> QED
    BY <1>2, <2>1
<1>11. ASSUME NEW t \in Threads, RemoteFails(t) PROVE MaskInv'
  <2>1. Respond(t, Throws, TRUE, {}, {})
    BY <1>11 DEF RemoteFails
  <2>2. \/ uses' = uses
        \/ pc[t] = "first" /\ Reveals(work[t].triplets, "a")
        \/ pc[t] = "second" /\ Reveals(work[t].triplets, "b")
    BY <1>11 DEF RemoteFails
  <2>3. CASE uses' = uses
    BY <1>2, <2>1, <2>3
  <2>4. CASE pc[t] = "first" /\ Reveals(work[t].triplets, "a")
    <3>1. uses' \in Seq(Counts)
      BY <2>4, RevealA DEF Holds
    <3>2. MaskTypes' /\ Alone(t) /\ ~ Holds(t)'
      BY <2>1, <3>1, Responds
    <3> QED
      BY <2>4, <3>2, MarkedA
  <2>5. CASE pc[t] = "second" /\ Reveals(work[t].triplets, "b")
    <3>1. uses' \in Seq(Counts)
      BY <2>5, RevealB DEF Holds
    <3>2. MaskTypes' /\ Alone(t) /\ ~ Holds(t)'
      BY <2>1, <3>1, Responds
    <3> QED
      BY <2>5, <3>2, MarkedB
  <2> QED
    BY <2>2, <2>3, <2>4, <2>5
<1>12. ASSUME Crash PROVE MaskInv'
  <2>1. /\ \A t \in Threads : pc'[t] = "idle"
        /\ uses' = uses
        /\ DOMAIN pc' = Threads /\ DOMAIN request' = Threads /\ DOMAIN work' = Threads
    BY <1>12 DEF Crash, Idle
  <2>2. MaskTypes'
    BY <2>1 DEF MaskTypes
  <2> QED
    BY <2>1, <2>2, Quiet DEF Holds
<1>13. ASSUME UNCHANGED <<pc, request, work, uses>> PROVE MaskInv'
  <2>1. MaskTypes'
    BY <1>13 DEF MaskTypes, Size
  <2> QED
    BY <1>13, <2>1, Quiet
<1>14. Restart => MaskInv'
  BY <1>13 DEF Restart
<1>15. (UNCHANGED vars) => MaskInv'
  BY <1>13 DEF vars
<1> QED
  BY <1>1, <1>3, <1>4, <1>5, <1>6, <1>7, <1>8, <1>9, <1>10, <1>11, <1>12, <1>14, <1>15
     DEF Next, Step, Finished

\* No two values are ever revealed under one half of a triplet, for any
\* threads, requests, masks and modulus, whichever calls fail
\* (smpc/ciphertext_multiplications.hpp, node/compute_request_handler.hpp).
THEOREM MasksHold == Spec => []MasksOnce
<1>1. MaskInv => MasksOnce
  BY DEF MaskInv
<1> QED
  BY <1>1, InitMasks, StepMasks, PTL DEF Spec

=============================================================================
