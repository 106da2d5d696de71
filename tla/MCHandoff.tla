----------------------------- MODULE MCHandoff -----------------------------
(* Small instances of Handoff.                                             *)
EXTENDS Handoff, TLC

CommitSymmetry == Permutations(Commits)

(* Permits and writes change no other variable that a status poll would    *)
(* not change as well, and no property of a handoff reads them.            *)
WithoutWrites == <<quorum, controller, authority, threads, bounds, handoff>>
=============================================================================
