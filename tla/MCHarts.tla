------------------------------- MODULE MCHarts ------------------------------
(***************************************************************************)
(* Two harts with their handlers, one lock, and a heap at an odd address   *)
(* that runs out after a few blocks of two sizes and alignments.           *)
(***************************************************************************)
EXTENDS Harts

CONSTANT L

MCLayouts == {[size |-> 1, align |-> 1], [size |-> 2, align |-> 2]}

=============================================================================
