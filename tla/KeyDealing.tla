---------------------------- MODULE KeyDealing -----------------------------
(***************************************************************************)
(* CPUCryptoSystem::keygen(sk, threshold, num_parties)                     *)
(* (include/x86_64/cpu_cryptosystem_distributed.inl:291-309): the setup    *)
(* node enumerates the combinations of `threshold` parties and gives each  *)
(* party of each combination the share made for it; then partial           *)
(* decryptions made with some shares are combined.                         *)
(***************************************************************************)
EXTENDS ThresholdScheme

CONSTANTS
  MaxParties,   \* bound: the key is dealt to up to this many parties
  MaxCombine    \* bound: combinations are tried for up to this many parties

ASSUME DealingAssumption == MaxParties \in Nat \ {0} /\ MaxCombine \in Nat

VARIABLES
  n, t,     \* num_parties and threshold
  i,        \* the loop counter, from 1: the combination being dealt
  combo,    \* current_threshold_combination, its first t elements
  held,     \* secret_key_shares: held[p] is party p's list of shares
  dealt,    \* history: the combinations in the order they were dealt
  picked    \* the shares last combined, <<>> before that

vars == <<n, t, i, combo, held, dealt, picked>>

Parties == 0..(n - 1)
Done == i > nCr(n, t)

Init ==
  /\ n \in 1..MaxParties
  /\ t \in 1..n
  /\ i = 1
  /\ combo = FirstCombination(t)
  /\ held = [p \in Parties |-> <<>>]
  /\ dealt = <<>>
  /\ picked = <<>>

\* Mutant: shares go to the parties 0..t-1 whatever the combination.
GiveFirst ==
  [p \in Parties |->
     IF p < t THEN Append(held[p], [comb |-> i, pos |-> p + 1]) ELSE held[p]]

\* The inner loop: each party of the combination gets its share, by position.
Give ==
  [p \in Parties |->
     IF \E j \in 1..t : combo[j] = p
       THEN Append(held[p], [comb |-> i, pos |-> CHOOSE j \in 1..t : combo[j] = p])
       ELSE held[p]]

\* One turn of the outer loop.
DealCombination ==
  /\ ~Done
  /\ held' = Give
  /\ dealt' = Append(dealt, combo)
  /\ combo' = NextCombination(combo, n, t)
  /\ i' = i + 1
  /\ UNCHANGED <<n, t, picked>>

Held == UNION {{held[p][k] : k \in 1..Len(held[p])} : p \in Parties}

\* combine_part_decryption_results over partial decryptions made with any t
\* of the shares, in any order.
Combine ==
  /\ Done
  /\ n <= MaxCombine
  /\ picked' \in [1..t -> Held]
  /\ UNCHANGED <<n, t, i, combo, held, dealt>>

\* Beyond MaxCombine parties the key is dealt and nothing else is tried.
OnlyDealt == Done /\ n > MaxCombine /\ UNCHANGED vars

Next == DealCombination \/ Combine \/ OnlyDealt

Spec == Init /\ [][Next]_vars

-----------------------------------------------------------------------------
\* c comes before d in lexicographic order.
Before(c, d) ==
  \E j \in 1..t : c[j] < d[j] /\ \A k \in 1..(j - 1) : c[k] = d[k]

\* The loop visits the combinations in strictly increasing lexicographic
\* order, each an increasing sequence, and has visited every one of them when
\* its counter reaches nCr: none skipped, none twice.
EnumeratesAll ==
  /\ \A k \in 1..(Len(dealt) - 1) : Before(dealt[k], dealt[k + 1])
  /\ Done => {Range(dealt[k]) : k \in 1..Len(dealt)} = kSubset(t, Parties)

\* "in sorted order per party" (include/cofhe.hpp:22): a party's list holds
\* the shares of the combinations that contain it, and only those, in their
\* order.  So the same place in two parties' lists stands for the same
\* combination only by chance.  (SharesOf, which the network's model uses, is
\* what this loop deals.)
ListsSorted ==
  /\ Done => held = [p \in Parties |-> SharesOf(p, n, t)]
  /\ \A p \in Parties :
       /\ \A k \in 1..(Len(held[p]) - 1) : held[p][k].comb < held[p][k + 1].comb
       /\ \A k \in 1..Len(held[p]) : dealt[held[p][k].comb][held[p][k].pos] = p
       /\ Len(held[p]) = Cardinality({k \in 1..Len(dealt) : p \in Range(dealt[k])})

\* smpc_client.hpp's rank of a combination, from its parties counted from 1,
\* is its place in the dealer's order, counted from 1.
RankIsPlace ==
  \A k \in 1..Len(dealt) :
    CombinationSequenceNumber(n, t, [j \in 1..t |-> dealt[k][j] + 1]) = k

\* The t different shares of one combination, the one of its first party in
\* front (compute_lambda gives the first +1 and every other -1).
OneCombination(ss) ==
  /\ ss[1].pos = 1
  /\ \A j, k \in 1..Len(ss) :
       /\ ss[j].comb = ss[k].comb
       /\ ss[j].pos = ss[k].pos => j = k

\* Combining gives back the secret exactly when the shares are those of one
\* combination with its first party's in front.  Shares of different
\* combinations, one share twice, or another one in front give something
\* else, and nothing tells.
CombinesExactly ==
  picked # <<>> =>
    (IsSecret(DistributionMatrix(n, t), picked) <=> OneCombination(picked))

=============================================================================
