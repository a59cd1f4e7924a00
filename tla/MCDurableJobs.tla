---------------------------- MODULE MCDurableJobs ----------------------------
(* Instances of the job queue small enough for TLC. *)
EXTENDS DurableJobs, TLC

WorkerSymmetry == Permutations(Workers) \cup Permutations(Producers)
================================================================================
