--------------------------- MODULE TaskLifecycle ---------------------------
(***************************************************************************)
(* What a task promises its owner: one run at a time, which ends in one of *)
(* three ways; a failed run is paid back as it fails; only a paused task   *)
(* is taken up again, as a new generation; only a task that rests can be   *)
(* deleted. Which process makes a step, and what it asks before, is left   *)
(* to TaskRun.                                                             *)
(***************************************************************************)
EXTENDS Naturals

VARIABLES
  status,   \* tasks.status
  gen,      \* tasks.run_generation
  refunds   \* how often the quota of the task was given back

lifecycle == <<status, gen, refunds>>

Init == status = "pending" /\ gen = 0 /\ refunds = 0

Start ==
  /\ status = "pending"
  /\ status' = "processing"
  /\ UNCHANGED <<gen, refunds>>

Complete ==
  /\ status = "processing"
  /\ status' = "completed"
  /\ UNCHANGED <<gen, refunds>>

Fail ==
  /\ status = "processing"
  /\ status' = "failed"
  /\ refunds' = refunds + 1
  /\ UNCHANGED gen

Pause ==
  /\ status = "processing"
  /\ status' = "paused"
  /\ UNCHANGED <<gen, refunds>>

Resume ==
  /\ status = "paused"
  /\ status' = "pending"
  /\ gen' = gen + 1
  /\ UNCHANGED refunds

\* A resume that could not be dispatched is taken back; its generation is
\* spent.
TakeBack ==
  /\ status = "pending" /\ gen > 0
  /\ status' = "paused"
  /\ UNCHANGED <<gen, refunds>>

Delete ==
  /\ status \in {"completed", "failed", "paused"}
  /\ status' = "deleted"
  /\ UNCHANGED <<gen, refunds>>

Next == Start \/ Complete \/ Fail \/ Pause \/ Resume \/ TakeBack \/ Delete

Spec == Init /\ [][Next]_lifecycle

=============================================================================
