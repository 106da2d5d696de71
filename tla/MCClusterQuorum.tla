-------------------------- MODULE MCClusterQuorum --------------------------
(* Small instances of ClusterQuorum for TLC.  The calls are interchangeable. *)
EXTENDS ClusterQuorum, TLC

CallSymmetry == Permutations(Calls)
=============================================================================
