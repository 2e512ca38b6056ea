-------------------------- MODULE MCWorkerProcess ---------------------------
(* Slots of WorkerProcess, which are alike; the runs check liveness, so no *)
(* symmetry is used.                                                       *)
EXTENDS WorkerProcess

CONSTANTS s1, s2, s3
=============================================================================
