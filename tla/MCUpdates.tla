----------------------------- MODULE MCUpdates ------------------------------
(* Updates for TLC: every surface is the toplevel's client's.                *)
EXTENDS Updates

MCOwner == [s \in Surfaces |-> TreeClient]
=============================================================================
