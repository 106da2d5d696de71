----------------------------- MODULE MCAutoRole -----------------------------
(***************************************************************************)
(* Model checking of AutoRole on small instances.                          *)
(***************************************************************************)
EXTENDS AutoRole, TLC

NodeSymmetry == Permutations(Nodes)
=============================================================================
