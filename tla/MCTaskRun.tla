----------------------------- MODULE MCTaskRun -----------------------------
(* TaskRun with small sets of processes for TLC.                           *)
EXTENDS TaskRun, TLC

\* Worker processes are interchangeable.
WorkerSymmetry == Permutations(Workers)

=============================================================================
