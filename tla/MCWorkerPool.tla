---------------------------- MODULE MCWorkerPool ----------------------------
(* A small instance of WorkerPool. *)
EXTENDS WorkerPool

CONSTANTS s1, s2, c1, c2, nil
=============================================================================
