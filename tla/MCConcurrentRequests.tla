------------------------- MODULE MCConcurrentRequests -------------------------
(***************************************************************************)
(* A compute node with two threads.                                        *)
(***************************************************************************)
EXTENDS ConcurrentRequests, TLC

MCSymmetry == Permutations(Threads)
=============================================================================
