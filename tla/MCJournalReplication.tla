------------------------ MODULE MCJournalReplication ------------------------
(* Instances of JournalReplication for TLC.                                *)
EXTENDS JournalReplication, TLC

(* No definition distinguishes two replicas.                               *)
NodeSymmetry == Permutations(Nodes)
=============================================================================
