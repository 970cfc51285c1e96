----------------------------- MODULE MCBatchWorker -----------------------------
(* Instances of BatchWorker for TLC. *)
EXTENDS BatchWorker, TLC

\* Tasks differ only in when they are submitted.
TaskSymmetry == Permutations(Task)
===============================================================================
