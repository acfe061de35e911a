----------------------------- MODULE MCStaging ------------------------------
(* Staging for TLC: the client's own buffers are small; the cells of a       *)
(* surface may be swapped.                                                   *)
EXTENDS Staging, TLC

CONSTANT small
MCSizeOf == [b \in Bufs |-> small]
Symmetry == Permutations(Cells)
=============================================================================
