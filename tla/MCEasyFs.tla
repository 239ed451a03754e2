------------------------------ MODULE MCEasyFs ------------------------------
(* Instances of EasyFs: a file of 12 cells uses all three kinds of blocks.  *)
EXTENDS EasyFs

CONSTANTS d1, d2, n1, n2, n3

Symmetry == Permutations({n1, n2, n3})

Bytes(off, len, v) == [off |-> off, data |-> [i \in 1 .. len |-> Cell("byte", "", v)]]

\* The start of a file, an overlap of it, behind a gap, and far behind.
MCRequests == {Bytes(0, 2, 1), Bytes(1, 3, 2), Bytes(6, 2, 3), Bytes(11, 1, 4)}
=============================================================================
