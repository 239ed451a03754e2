------------------------------- MODULE MCProc -------------------------------
(* Small instances of Proc. *)
EXTENDS Proc, TLC

\* The blocks other than initproc are interchangeable.
Symmetry == Permutations(Tasks \ {initproc})

=============================================================================
