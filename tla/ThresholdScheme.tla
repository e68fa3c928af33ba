-------------------------- MODULE ThresholdScheme --------------------------
(***************************************************************************)
(* The operators of the threshold key: combinations of parties, the share  *)
(* matrix and the reconstruction, from cpu_cryptosystem_distributed.inl,   *)
(* and the combination rank smpc_client.hpp computes.                      *)
(*                                                                         *)
(* Parties are 0..n-1.  A combination is the increasing sequence of its t  *)
(* parties.  A share is identified by the combination it was made for (its *)
(* number in the order the dealer enumerates them, from 1) and by its      *)
(* position in it; its value is a linear form in the secret and the random *)
(* elements rho, that is, a row of the distribution matrix.                *)
(***************************************************************************)
EXTENDS Integers, Sequences, FiniteSetsExt

\* nCr of common/algorithms.hpp.
nCr(n, r) ==
  LET res[i \in 0..r] == IF i = 0 THEN 1 ELSE (res[i - 1] * (n - r + i)) \div i
  IN  res[r]

\* SMPCClient::binomialCoefficient
Binomial(n, k) ==
  LET result[i \in 0..k] ==
        IF i = 0 THEN 1 ELSE (result[i - 1] * (n - i + 1)) \div i
  IN  IF k > n THEN 0 ELSE IF k = 0 \/ k = n THEN 1 ELSE result[k]

\* The combinations of k of the numbers 1..n that begin like c up to place
\* i - 1 and go on with one of the numbers after `from` and before c[i].
Skipped(n, k, c, i, from) ==
  LET sum[j \in 0..(c[i] - 1)] ==
        IF j <= from THEN 0 ELSE sum[j - 1] + Binomial(n - j, k - i)
  IN  sum[c[i] - 1]

\* Mutant: counts from the element itself, not from the one before it.
RankFromSelf(n, k, c) ==
  LET rank[i \in 0..k] ==
        IF i = 0 THEN 1
        ELSE rank[i - 1] + Skipped(n, k, c, i, IF i = 1 THEN 0 ELSE c[i - 1] - 1)
  IN  rank[k]

\* SMPCClient::combinationSequenceNumber: c holds numbers from 1 to n, and
\* the result counts from 1.
CombinationSequenceNumber(n, k, c) ==
  LET rank[i \in 0..k] ==
        IF i = 0 THEN 1
        ELSE rank[i - 1] + Skipped(n, k, c, i, IF i = 1 THEN 0 ELSE c[i - 1])
  IN  rank[k]

-----------------------------------------------------------------------------
(* Combinations.                                                           *)

FirstCombination(t) == [j \in 1..t |-> j - 1]

\* Mutant: the elements after the one incremented are left as they were.
IncrementOnly(c, n, t) ==
  LET movable == {j \in 1..t : c[j] # n - t + j - 1}
  IN  IF movable = {} THEN c ELSE [c EXCEPT ![Max(movable)] = @ + 1]

\* get_next_lexio_combination: the last element that can grow grows by one,
\* and the elements after it follow it closely.
NextCombination(c, n, t) ==
  LET movable == {j \in 1..t : c[j] # n - t + j - 1}
      last == Max(movable)
  IN  IF movable = {}
        THEN c
        ELSE [j \in 1..t |-> IF j < last THEN c[j] ELSE c[last] + 1 + j - last]

\* The order keygen's loop visits the combinations in.
Combinations(n, t) ==
  LET c[k \in 1..nCr(n, t)] ==
        IF k = 1 THEN FirstCombination(t) ELSE NextCombination(c[k - 1], n, t)
  IN  c

\* secret_key_shares[p]: the shares of the combinations party p is in, in the
\* combinations' order, each with p's position in its combination.
SharesOf(p, n, t) ==
  LET c == Combinations(n, t)
      list[k \in 0..nCr(n, t)] ==
        IF k = 0 THEN <<>>
        ELSE IF \E j \in 1..t : c[k][j] = p
               THEN Append(list[k - 1],
                           [comb |-> k, pos |-> CHOOSE j \in 1..t : c[k][j] = p])
               ELSE list[k - 1]
  IN  list[nCr(n, t)]

-----------------------------------------------------------------------------
(* The distribution matrix, a sequence of rows.                            *)

Columns(M) == Len(M[1])

\* compute_M_OR
MOr(A, B) ==
  LET da == Len(A)
      ea == Columns(A)
  IN  [i \in 1..(da + Len(B)) |->
        [j \in 1..(ea + Columns(B) - 1) |->
          IF i <= da
            THEN IF j <= ea THEN A[i][j] ELSE 0
            ELSE IF j = 1 THEN B[i - da][1]
                 ELSE IF j > ea THEN B[i - da][j - ea + 1] ELSE 0]]

\* Mutant: the second operand's first column goes to column one as well.
MAndSharedColumn(A, B) ==
  LET da == Len(A)
      ea == Columns(A)
  IN  [i \in 1..(da + Len(B)) |->
        [j \in 1..(ea + Columns(B)) |->
          IF i <= da
            THEN IF j = 1 THEN A[i][1]
                 ELSE IF j <= ea + 1 THEN A[i][j - 1] ELSE 0
            ELSE IF j <= 2 THEN B[i - da][1]
                 ELSE IF j > ea + 1 THEN B[i - da][j - ea] ELSE 0]]

\* compute_M_AND
MAnd(A, B) ==
  LET da == Len(A)
      ea == Columns(A)
  IN  [i \in 1..(da + Len(B)) |->
        [j \in 1..(ea + Columns(B)) |->
          IF i <= da
            THEN IF j = 1 THEN A[i][1]
                 ELSE IF j <= ea + 1 THEN A[i][j - 1] ELSE 0
            ELSE IF j = 2 THEN B[i - da][1]
                 ELSE IF j > ea + 1 THEN B[i - da][j - ea] ELSE 0]]

\* generate_distribution_matrix_M: t parties joined by AND, the combinations
\* joined by OR.
DistributionMatrix(n, t) ==
  LET Mu == <<<<1>>>>
      and[i \in 1..t] == IF i = 1 THEN Mu ELSE MAnd(and[i - 1], Mu)
      or[i \in 1..nCr(n, t)] == IF i = 1 THEN and[t] ELSE MOr(or[i - 1], and[t])
  IN  or[nCr(n, t)]

\* generate_isp and compute_shares: the row of M a share is computed from.
RowOf(s, t) == (s.comb - 1) * t + s.pos

\* compute_lambda
Lambda(t) == [i \in 1..(t + 1) |-> IF i = 1 THEN 1 ELSE -1]

\* compute_d: the linear combination of the shares' rows the exponents form.
Combined(M, ss) ==
  [j \in 1..Columns(M) |->
     LET d[i \in 0..Len(ss)] ==
           IF i = 0 THEN 0
           ELSE d[i - 1] + Lambda(Len(ss))[i] * M[RowOf(ss[i], Len(ss))][j]
     IN  d[Len(ss)]]

\* The combined row is the secret itself, free of every random element.
IsSecret(M, ss) ==
  Combined(M, ss) = [j \in 1..Columns(M) |-> IF j = 1 THEN 1 ELSE 0]

=============================================================================
