--------------------------- MODULE MCWorkerLease ---------------------------
(* Instances of WorkerLease for TLC. *)
EXTENDS WorkerLease, TLC

\* Daemons and tokens are interchangeable in the safety runs.
Interchangeable == Permutations(Process) \cup Permutations(Token)
=============================================================================
