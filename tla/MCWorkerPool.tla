----------------------------- MODULE MCWorkerPool -----------------------------
(* WorkerPool for TLC: workers and inputs are model values.  No symmetry: the run
   checks liveness. *)
EXTENDS WorkerPool, TLC
===============================================================================
