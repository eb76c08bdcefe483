---------------------------- MODULE MCTaskQueue -----------------------------
(* Small instances of TaskQueue for TLC. *)
EXTENDS TaskQueue, TLC

\* The loops are interchangeable where none of them is cancelled.
WorkerSymmetry == Permutations(Workers)
=============================================================================
