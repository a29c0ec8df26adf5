---------------------------- MODULE MCWorkerPool ----------------------------
(* Instances of WorkerPool for TLC. *)
EXTENDS WorkerPool

CONSTANTS w1, w2

OneWorker == {w1}
TwoWorkers == {w1, w2}
SecondIsPoison == {1}
NoPoison == {}
=============================================================================
