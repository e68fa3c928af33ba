------------------------- MODULE TripletDispenser -------------------------
(***************************************************************************)
(* What SMPCClient::get_beavers_triplets promises its callers, apart from  *)
(* the cache, the mutex and the call to the trusted node it is made of:    *)
(* a call for n triplets returns n triplets, all different, that no call   *)
(* has ever returned before, or it fails and returns none.                 *)
(*                                                                         *)
(* A Beaver triplet masks the operands of one multiplication; the same     *)
(* triplet used twice opens a relation between two products, so "never     *)
(* before" is the whole point of the function.                             *)
(***************************************************************************)
EXTENDS Naturals

CONSTANTS
  Threads,   \* the compute node's server threads, the callers
  Sizes      \* the numbers of triplets a call may ask for

VARIABLES
  want,      \* want[t]: what t's pending call asks for, 0 when it has none
  got,       \* got[t]: the triplets t's last successful call returned
  spent      \* every triplet any call has returned

abstractVars == <<want, got, spent>>

\* b lists n different triplets, none of them returned before.
IsFreshBatch(b, n) ==
  /\ b \in [1..n -> Nat]
  /\ \A i, j \in 1..n : i # j => b[i] # b[j]
  /\ \A i \in 1..n : b[i] \notin spent

Init ==
  /\ want = [t \in Threads |-> 0]
  /\ got = [t \in Threads |-> <<>>]
  /\ spent = {}

Ask(t, n) ==
  /\ want[t] = 0
  /\ want' = [want EXCEPT ![t] = n]
  /\ UNCHANGED <<got, spent>>

Dispense(t) ==
  /\ want[t] # 0
  /\ IsFreshBatch(got'[t], want[t])
  /\ got' = [got EXCEPT ![t] = got'[t]]
  /\ spent' = spent \cup {got'[t][i] : i \in 1..want[t]}
  /\ want' = [want EXCEPT ![t] = 0]

\* The call ends in an exception.
Abandon(t) ==
  /\ want[t] # 0
  /\ want' = [want EXCEPT ![t] = 0]
  /\ UNCHANGED <<got, spent>>

\* The compute node's process dies, and every pending call with it.
CrashAll ==
  /\ want' = [t \in Threads |-> 0]
  /\ UNCHANGED <<got, spent>>

Next ==
  \/ \E t \in Threads, n \in Sizes : Ask(t, n)
  \/ \E t \in Threads : Dispense(t) \/ Abandon(t)
  \/ CrashAll

Spec == Init /\ [][Next]_abstractVars

=============================================================================
