--------------------------- MODULE MCWorkerPrepare ---------------------------
(* Instances of WorkerPrepare for TLC.                                     *)
EXTENDS WorkerPrepare
=============================================================================
