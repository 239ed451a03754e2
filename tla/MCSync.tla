------------------------------- MODULE MCSync -------------------------------
(***************************************************************************)
(* Sync with interchangeable threads and semaphores that start with one    *)
(* permit.                                                                 *)
(***************************************************************************)
EXTENDS Sync, TLC

OnePermit == [s \in Sems |-> 1]

Symmetry == Permutations(Threads)

=============================================================================
