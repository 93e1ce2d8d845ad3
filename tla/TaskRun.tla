------------------------------ MODULE TaskRun ------------------------------
(***************************************************************************)
(* One translation task and everything that executes it or changes it:     *)
(* the row in Postgres, the task's runtime keys in Redis, the Celery       *)
(* messages that name it, the worker processes that take those messages    *)
(* (workers/tasks.py, run_pipeline_task), the heartbeat helper of each     *)
(* worker (workers/heartbeat_helper.py), the API requests of its owner     *)
(* (services/task_service.py) and the stall reconciler                     *)
(* (services/task_runtime_service.py).                                     *)
(*                                                                         *)
(* One action is one database transaction or one Redis command: between    *)
(* two of them every other process may run.                                *)
(*                                                                         *)
(* Abstractions:                                                           *)
(*  - a stage is a number: 0 stands for uploaded/preparing, the others for *)
(*    the pipeline stages in order; what a stage computes is left out;     *)
(*  - an owner token "<generation>:<celery id>" is the id of its message,  *)
(*    since an id belongs to one generation;                               *)
(*  - a time stamp is what its readers compare it with: `quiet` says that  *)
(*    last_activity_at is older than the stall timeout, and `suspect` has  *)
(*    an age;                                                              *)
(*  - Redis and Postgres answer: an outage of either is not modelled;      *)
(*  - a message without run_generation, from before the migration, is not  *)
(*    sent by this code and is left out.                                   *)
(*                                                                         *)
(* A definition Op_Word is not part of the specification: it is Op with a  *)
(* mistake in it, that the properties are there to notice.                 *)
(***************************************************************************)
EXTENDS Integers, FiniteSets

CONSTANTS
  Workers,         \* worker processes that consume the queue
  Clients,         \* concurrent API requests of the task's owner
  Scanners,        \* reconciler scans that may overlap; {} when
                   \* PCT_ENABLE_STALL_RECONCILER is off, its default
  LastStage,       \* the mixing stage
  PauseChecked,    \* stages that call raise_if_user_paused before they start
  ExpireOnCommit,  \* the session factory expires loaded rows on commit
  MaxAutoResumes,  \* PCT_MAX_AUTO_RESUMES
  MaxGen,          \* bound: no resume or reap beyond this generation
  MaxCrashes,      \* bound: processes killed
  MaxRedeliveries, \* bound: messages restored while still unacknowledged
  MaxHelperDeaths, \* bound: heartbeat helpers killed
  MaxSendFailures, \* bound: dispatches the broker refuses
  MaxPauses        \* bound: pause requests of the owner

ASSUME TaskRunAssumption ==
  /\ LastStage \in Nat \ {0}
  /\ PauseChecked \subseteq 1..LastStage
  /\ ExpireOnCommit \in BOOLEAN
  /\ MaxAutoResumes \in Nat
  /\ MaxGen \in Nat
  /\ MaxCrashes \in Nat
  /\ MaxRedeliveries \in Nat
  /\ MaxHelperDeaths \in Nat
  /\ MaxSendFailures \in Nat
  /\ MaxPauses \in Nat

VARIABLES
  task,        \* the row of table tasks
  redis,       \* the keys task:<id>:*
  queue,       \* messages the broker may deliver
  sent,        \* how many messages were ever sent; ids are 1..sent
  wk,          \* each worker process
  cl,          \* each API request
  rec,         \* each reconciler scan
  finalObject, \* <id>/output/final_podcast.mp3 is in the object store
  sourceObject, \* the uploaded recording is in the object store
  refunds,     \* how often mark_failed has refunded this task
  faults       \* how much of each bound is used

vars == <<task, redis, queue, sent, wk, cl, rec, finalObject, sourceObject, refunds, faults>>

-----------------------------------------------------------------------------
(* Values                                                                  *)

Stage == 0..LastStage
NoStart == -1
Status == {"pending", "processing", "completed", "failed", "paused", "deleted"}
TERMINAL_STATUSES == {"completed", "failed"}
BLOCKED_STATUSES == {"completed", "failed", "paused"}

\* The arguments of run_pipeline_task.delay, and the Celery id.
Message == [id : Nat \ {0}, gen : Nat, start : Stage \cup {NoStart}, force : BOOLEAN]
NoMessage == [id |-> 0, gen |-> 0, start |-> NoStart, force |-> FALSE]
Nobody == 0

\* `resumable`: error_message holds one of RESUMABLE_FAILURE_MARKERS.
\* `source`, `output`: source_audio_url and output_audio_url are not null.
Row == [status : Status, gen : Nat, stage : Stage, resumable : BOOLEAN,
        source : BOOLEAN, output : BOOLEAN, quiet : BOOLEAN]

RuntimeKeys == [lock : Nat, heartbeat : Nat, guard : BOOLEAN,
                suspect : {"none", "fresh", "confirmed"}, reap : BOOLEAN,
                resumes : Nat, pause : BOOLEAN]

WorkerPc == {"idle", "received", "acquire", "unguard", "snapshot", "output",
             "process", "preflight", "boundary", "unflag", "own", "txn", "work",
             "complete", "fail", "pause", "clear", "clearDone", "cleanup",
             "finally", "ack"}
HookOp == {"none", "start", "report", "finish"}
WorkerState == [pc : WorkerPc, msg : Message \cup {NoMessage}, stage : Stage,
                op : HookOp, force : BOOLEAN, helper : BOOLEAN]
IdleWorker == [pc |-> "idle", msg |-> NoMessage, stage |-> 0,
               op |-> "none", force |-> FALSE, helper |-> FALSE]

ClientPc == {"idle", "flag", "clearKeys", "commit", "dispatch", "forget", "dropRow"}
ClientState == [pc : ClientPc, gen : Nat, stage : Stage, output : BOOLEAN]
IdleClient == [pc |-> "idle", gen |-> 0, stage |-> 0, output |-> FALSE]

ScannerPc == {"idle", "observe", "reap", "heartbeat", "lock", "guard",
              "advance", "setGuard", "send", "count", "giveUp", "wipe"}
ScannerState == [pc : ScannerPc, gen : Nat, stage : Stage, source : BOOLEAN]
IdleScanner == [pc |-> "idle", gen |-> 0, stage |-> 0, source |-> FALSE]

FaultCount == [crashes : 0..MaxCrashes, redeliveries : 0..MaxRedeliveries,
               helperDeaths : 0..MaxHelperDeaths, sendFailures : 0..MaxSendFailures,
               pauses : 0..MaxPauses]

TypeOK ==
  /\ task \in Row
  /\ redis \in RuntimeKeys
  /\ queue \subseteq Message
  /\ sent \in Nat
  /\ wk \in [Workers -> WorkerState]
  /\ cl \in [Clients -> ClientState]
  /\ rec \in [Scanners -> ScannerState]
  /\ finalObject \in BOOLEAN
  /\ sourceObject \in BOOLEAN
  /\ refunds \in Nat
  /\ faults \in FaultCount

\* create_task has committed the row and sent the first message.
Init ==
  /\ task = [status |-> "pending", gen |-> 0, stage |-> 0, resumable |-> FALSE,
             source |-> TRUE, output |-> FALSE, quiet |-> FALSE]
  /\ redis = [lock |-> Nobody, heartbeat |-> Nobody, guard |-> FALSE,
              suspect |-> "none", reap |-> FALSE, resumes |-> 0, pause |-> FALSE]
  /\ queue = {[id |-> 1, gen |-> 0, start |-> NoStart, force |-> FALSE]}
  /\ sent = 1
  /\ wk = [w \in Workers |-> IdleWorker]
  /\ cl = [c \in Clients |-> IdleClient]
  /\ rec = [s \in Scanners |-> IdleScanner]
  /\ finalObject = FALSE
  /\ sourceObject = TRUE
  /\ refunds = 0
  /\ faults = [crashes |-> 0, redeliveries |-> 0, helperDeaths |-> 0,
               sendFailures |-> 0, pauses |-> 0]

-----------------------------------------------------------------------------
(* Shared steps                                                            *)

At(w, pc) == wk[w].pc = pc
Goto(w, pc) == wk' = [wk EXCEPT ![w].pc = pc]

\* What a transaction finds under the row lock: the row, at the generation
\* of the message (_get_task_for_update_or_raise, _assert_generation).
Current_AnyGeneration(w) == task.status # "deleted"
Current(w) == task.status # "deleted" /\ task.gen = wk[w].msg.gen

\* ensure_ownership: the lock holds this run's owner token.
Owns(w) == redis.lock = wk[w].msg.id

\* _clear_task_runtime_keys deletes every key but the pause request, without
\* asking who owns the lock.
KeysCleared ==
  [redis EXCEPT !.lock = Nobody, !.heartbeat = Nobody, !.guard = FALSE,
                !.suspect = "none", !.reap = FALSE, !.resumes = 0]

Send_PreviousGeneration(gen, start) ==
  /\ queue' = queue \cup {[id |-> sent + 1, gen |-> gen - 1, start |-> start, force |-> TRUE]}
  /\ sent' = sent + 1

Send(gen, start) ==
  /\ queue' = queue \cup {[id |-> sent + 1, gen |-> gen, start |-> start, force |-> TRUE]}
  /\ sent' = sent + 1

-----------------------------------------------------------------------------
(* The worker: run_pipeline_task up to the first stage                     *)

\* The broker delivers a message to a free process (acks_late: the message
\* stays unacknowledged until the process is done with it).
Deliver(w) ==
  /\ At(w, "idle")
  /\ \E m \in queue :
       /\ queue' = queue \ {m}
       /\ wk' = [wk EXCEPT ![w] = [IdleWorker EXCEPT !.pc = "received", !.msg = m]]
  /\ UNCHANGED <<task, redis, sent, cl, rec, finalObject, sourceObject, refunds, faults>>

\* The first look at the row: a message of another generation is dropped.
CheckGeneration(w) ==
  /\ At(w, "received")
  /\ Goto(w, IF Current(w) THEN "acquire" ELSE "ack")
  /\ UNCHANGED <<task, redis, queue, sent, cl, rec, finalObject, sourceObject, refunds, faults>>

Acquire_IgnoresLock(w) ==
  /\ At(w, "acquire")
  /\ redis' = [redis EXCEPT !.lock = wk[w].msg.id]
  /\ wk' = [wk EXCEPT ![w].pc = "unguard", ![w].helper = TRUE]
  /\ UNCHANGED <<task, queue, sent, cl, rec, finalObject, sourceObject, refunds, faults>>

\* SET NX on the lock. A process that finds any owner there drops its message
\* (SKIPPED_DUPLICATE); one that gets the lock starts its heartbeat helper, or
\* fails to: it releases the lock and raises, and the row stays as it was.
Acquire(w) ==
  /\ At(w, "acquire")
  /\ \/ /\ redis.lock = Nobody
        /\ redis' = [redis EXCEPT !.lock = wk[w].msg.id]
        /\ wk' = [wk EXCEPT ![w].pc = "unguard", ![w].helper = TRUE]
        /\ UNCHANGED faults
     \/ /\ redis.lock = Nobody
        /\ faults.helperDeaths < MaxHelperDeaths
        /\ faults' = [faults EXCEPT !.helperDeaths = @ + 1]
        /\ redis' = [redis EXCEPT !.lock = wk[w].msg.id]
        /\ Goto(w, "finally")
     \/ /\ redis.lock # Nobody
        /\ Goto(w, "ack")
        /\ UNCHANGED <<redis, faults>>
  /\ UNCHANGED <<task, queue, sent, cl, rec, finalObject, sourceObject, refunds>>

ClearDispatchGuard(w) ==
  /\ At(w, "unguard")
  /\ redis' = [redis EXCEPT !.guard = FALSE]
  /\ Goto(w, "snapshot")
  /\ UNCHANGED <<task, queue, sent, cl, rec, finalObject, sourceObject, refunds, faults>>

\* resume_failed_task, _resolve_resume_stage and the stage a run starts at.
ResumesFailed == task.status = "failed" /\ task.resumable
ResumeStage(k) == IF k = 0 THEN 1 ELSE k
FirstStage_Next(m) == IF m.start # NoStart THEN m.start + 1 ELSE 1
FirstStage(m) ==
  IF m.start # NoStart THEN m.start
  ELSE IF ResumesFailed \/ m.force THEN ResumeStage(task.stage) ELSE 1

\* A message without a start stage does not touch a settled task, unless the
\* task failed of a resumable cause.
Skips(m) ==
  /\ m.start = NoStart
  /\ \/ task.status = "completed"
     \/ task.status = "failed" /\ ~ResumesFailed /\ ~m.force
     \/ task.status = "paused" /\ ~m.force

\* The second look at the row, under the lock: everything decided here is
\* used in later transactions.
TakeSnapshot(w) ==
  LET m == wk[w].msg IN
  /\ At(w, "snapshot")
  /\ IF Current(w) /\ ~Skips(m)
     THEN wk' = [wk EXCEPT ![w].pc = IF m.start = NoStart THEN "output" ELSE "process",
                           ![w].stage = FirstStage(m),
                           ![w].force = m.start # NoStart \/ ResumesFailed \/ m.force]
     ELSE Goto(w, "finally")
  /\ UNCHANGED <<task, redis, queue, sent, cl, rec, finalObject, sourceObject, refunds, faults>>

LookForFinalOutput_Unchecked(w) ==
  /\ At(w, "output")
  /\ Goto(w, "complete")
  /\ UNCHANGED <<task, redis, queue, sent, cl, rec, finalObject, sourceObject, refunds, faults>>

\* _complete_if_final_output_exists: the object of an earlier run completes
\* the task without running the pipeline.
LookForFinalOutput(w) ==
  /\ At(w, "output")
  /\ Goto(w, IF finalObject THEN "complete" ELSE "process")
  /\ UNCHANGED <<task, redis, queue, sent, cl, rec, finalObject, sourceObject, refunds, faults>>

\* mark_task_processing. Only `force` lets it touch a terminal row. A run
\* without a start stage that begins at separation reports preparing first.
MarkProcessing(w) ==
  LET force == wk[w].force
      next == IF wk[w].msg.start = NoStart /\ wk[w].stage = 1
              THEN [wk[w] EXCEPT !.pc = "own", !.op = "start", !.stage = 0]
              ELSE [wk[w] EXCEPT !.pc = "preflight"]
  IN
  /\ At(w, "process")
  /\ \/ /\ ~Current(w)
        /\ Goto(w, "finally")
        /\ UNCHANGED task
     \/ /\ Current(w)
        /\ wk' = [wk EXCEPT ![w] = next]
        /\ IF task.status \in TERMINAL_STATUSES /\ ~force
           THEN UNCHANGED task
           ELSE task' = [task EXCEPT !.status = "processing", !.resumable = FALSE,
                                     !.output = @ /\ ~force, !.quiet = FALSE]
  /\ UNCHANGED <<redis, queue, sent, cl, rec, finalObject, sourceObject, refunds, faults>>

\* preflight_task_sync of a run that starts at an explicit stage: it passes,
\* pauses the task for a provider problem, or raises.
Preflight(w) ==
  /\ At(w, "preflight")
  /\ \E pc \in {"boundary", "pause", "fail"} : Goto(w, pc)
  /\ UNCHANGED <<task, redis, queue, sent, cl, rec, finalObject, sourceObject, refunds, faults>>

-----------------------------------------------------------------------------
(* The worker: the stages                                                  *)

\* The stage boundary, where raise_if_user_paused reads the pause request.
Boundary(w) ==
  /\ At(w, "boundary")
  /\ IF wk[w].stage \in PauseChecked /\ redis.pause
     THEN Goto(w, "unflag")
     ELSE wk' = [wk EXCEPT ![w].pc = "own", ![w].op = "start"]
  /\ UNCHANGED <<task, redis, queue, sent, cl, rec, finalObject, sourceObject, refunds, faults>>

\* raise_if_user_paused consumes the request before it raises.
ConsumePauseRequest(w) ==
  /\ At(w, "unflag")
  /\ redis' = [redis EXCEPT !.pause = FALSE]
  /\ Goto(w, "pause")
  /\ UNCHANGED <<task, queue, sent, cl, rec, finalObject, sourceObject, refunds, faults>>

\* Every lifecycle hook asks Redis first (ensure_ownership)...
EnsureOwnership(w) ==
  /\ At(w, "own")
  /\ Goto(w, IF Owns(w) THEN "txn" ELSE "finally")
  /\ UNCHANGED <<task, redis, queue, sent, cl, rec, finalObject, sourceObject, refunds, faults>>

\* ... and then writes the row in a transaction of its own: mark_stage_started,
\* mark_stage_progress, and at the end of a stage persist_pipeline_state,
\* mark_stage_completed and the progress of 100%.
StageHook(w) ==
  LET k == wk[w].stage
      next == CASE wk[w].op # "finish" -> [wk[w] EXCEPT !.pc = "work"]
                [] wk[w].op = "finish" /\ k < LastStage ->
                     [wk[w] EXCEPT !.pc = "boundary", !.stage = k + 1]
                [] wk[w].op = "finish" /\ k = LastStage -> [wk[w] EXCEPT !.pc = "complete"]
  IN
  /\ At(w, "txn")
  /\ \/ /\ ~Current(w)
        /\ Goto(w, "finally")
        /\ UNCHANGED task
     \/ /\ Current(w)
        /\ wk' = [wk EXCEPT ![w] = next]
        /\ IF task.status \in BLOCKED_STATUSES
           THEN UNCHANGED task
           ELSE task' = [task EXCEPT !.status = "processing", !.stage = k, !.quiet = FALSE]
  /\ UNCHANGED <<redis, queue, sent, cl, rec, finalObject, sourceObject, refunds, faults>>

\* The work of a stage reports progress, ...
StageReports(w) ==
  /\ At(w, "work")
  /\ wk' = [wk EXCEPT ![w].pc = "own", ![w].op = "report"]
  /\ UNCHANGED <<task, redis, queue, sent, cl, rec, finalObject, sourceObject, refunds, faults>>

\* ... finishes, raises, pauses the task for a provider problem, or finds a
\* pause request between two chunks of a long recording. Mixing uploads the
\* final output before it reports its end.
StageEnds(w) ==
  /\ At(w, "work")
  /\ \/ /\ wk' = [wk EXCEPT ![w].pc = "own", ![w].op = "finish"]
        /\ finalObject' = (finalObject \/ wk[w].stage = LastStage)
     \/ Goto(w, "fail") /\ UNCHANGED finalObject
     \/ Goto(w, "pause") /\ UNCHANGED finalObject
     \/ /\ wk[w].stage \in PauseChecked /\ redis.pause
        /\ Goto(w, "unflag") /\ UNCHANGED finalObject
  /\ UNCHANGED <<task, redis, queue, sent, cl, rec, sourceObject, refunds, faults>>

-----------------------------------------------------------------------------
(* The worker: how a run ends                                              *)

\* mark_completed: only an already completed row stops it.
MarkCompleted(w) ==
  /\ At(w, "complete")
  /\ IF Current(w) /\ task.status # "completed"
     THEN /\ task' = [task EXCEPT !.status = "completed", !.stage = LastStage,
                                  !.resumable = FALSE, !.output = TRUE, !.quiet = FALSE]
          /\ Goto(w, "clearDone")
     ELSE UNCHANGED task /\ Goto(w, "finally")
  /\ UNCHANGED <<redis, queue, sent, cl, rec, finalObject, sourceObject, refunds, faults>>

\* mark_failed: fails the row and gives the quota back in one transaction. A
\* run that raised before its first hook has no stage of its own to report.
MarkFailed(w) ==
  /\ At(w, "fail")
  /\ IF Current(w) /\ task.status \notin TERMINAL_STATUSES
     THEN /\ \E marker \in BOOLEAN :
               task' = [task EXCEPT !.status = "failed",
                                    !.stage = IF wk[w].op = "none" THEN @ ELSE wk[w].stage,
                                    !.resumable = marker, !.quiet = FALSE]
          /\ refunds' = refunds + 1
          /\ Goto(w, "clear")
     ELSE UNCHANGED <<task, refunds>> /\ Goto(w, "finally")
  /\ UNCHANGED <<redis, queue, sent, cl, rec, finalObject, sourceObject, faults>>

\* mark_paused: pauses the row at the stage that raised, and keeps the quota.
MarkPaused(w) ==
  /\ At(w, "pause")
  /\ IF Current(w) /\ task.status \notin TERMINAL_STATUSES
     THEN /\ task' = [task EXCEPT !.status = "paused", !.stage = wk[w].stage,
                                  !.resumable = FALSE, !.quiet = FALSE]
          /\ Goto(w, "clear")
     ELSE UNCHANGED task /\ Goto(w, "finally")
  /\ UNCHANGED <<redis, queue, sent, cl, rec, finalObject, sourceObject, refunds, faults>>

ClearKeys_AlwaysCleansUp(w) ==
  /\ redis' = KeysCleared
  /\ wk[w].pc \in {"clear", "clearDone"} /\ Goto(w, "cleanup")
  /\ UNCHANGED <<task, queue, sent, cl, rec, finalObject, sourceObject, refunds, faults>>

\* The three of them delete the runtime keys after their commit.
ClearKeys(w) ==
  /\ redis' = KeysCleared
  /\ \/ At(w, "clear") /\ Goto(w, "finally")
     \/ At(w, "clearDone") /\ Goto(w, "cleanup")
  /\ UNCHANGED <<task, queue, sent, cl, rec, finalObject, sourceObject, refunds, faults>>

\* _cleanup_completed_task_artifacts deletes the source audio, under the row
\* lock, and with it the row's reference to it.
CleanupArtifacts(w) ==
  /\ At(w, "cleanup")
  /\ IF task.status = "deleted"
     THEN UNCHANGED <<task, sourceObject>>
     ELSE task' = [task EXCEPT !.source = FALSE] /\ sourceObject' = FALSE
  /\ Goto(w, "finally")
  /\ UNCHANGED <<redis, queue, sent, cl, rec, finalObject, refunds, faults>>

Release_KeepsLock(w) ==
  /\ At(w, "finally")
  /\ wk' = [wk EXCEPT ![w].pc = "ack", ![w].helper = FALSE]
  /\ UNCHANGED <<task, redis, queue, sent, cl, rec, finalObject, sourceObject, refunds, faults>>

\* The finally block: stop the helper, and release what this owner still holds.
Release(w) ==
  LET me == wk[w].msg.id IN
  /\ At(w, "finally")
  /\ redis' = [redis EXCEPT !.lock = IF @ = me THEN Nobody ELSE @,
                            !.heartbeat = IF @ = me THEN Nobody ELSE @]
  /\ wk' = [wk EXCEPT ![w].pc = "ack", ![w].helper = FALSE]
  /\ UNCHANGED <<task, queue, sent, cl, rec, finalObject, sourceObject, refunds, faults>>

\* A returned or raised task is acknowledged.
Ack(w) ==
  /\ At(w, "ack")
  /\ wk' = [wk EXCEPT ![w] = IdleWorker]
  /\ UNCHANGED <<task, redis, queue, sent, cl, rec, finalObject, sourceObject, refunds, faults>>

-----------------------------------------------------------------------------
(* The task's owner: requests of the API                                   *)

ClientGoto(c, pc) == cl' = [cl EXCEPT ![c].pc = pc]

\* request_pause: allowed while the row is pending or processing; the flag is
\* set after that row was read.
RequestPause(c) ==
  /\ cl[c].pc = "idle"
  /\ faults.pauses < MaxPauses
  /\ task.status \in {"pending", "processing"}
  /\ faults' = [faults EXCEPT !.pauses = @ + 1]
  /\ ClientGoto(c, "flag")
  /\ UNCHANGED <<task, redis, queue, sent, wk, rec, finalObject, sourceObject, refunds>>

SetPauseRequest_MarksRow(c) ==
  /\ cl[c].pc = "flag"
  /\ task' = [task EXCEPT !.status = "paused"]
  /\ ClientGoto(c, "idle")
  /\ UNCHANGED <<redis, queue, sent, wk, rec, finalObject, sourceObject, refunds, faults>>

SetPauseRequest(c) ==
  /\ cl[c].pc = "flag"
  /\ redis' = [redis EXCEPT !.pause = TRUE]
  /\ ClientGoto(c, "idle")
  /\ UNCHANGED <<task, queue, sent, wk, rec, finalObject, sourceObject, refunds, faults>>

\* resume_task reads the row without a lock: it must be paused and still have
\* its source audio.
Resumable_AnyStatus == task.source
Resumable == task.status = "paused" /\ task.source

RequestResume(c) ==
  /\ cl[c].pc = "idle"
  /\ Resumable
  /\ task.gen < MaxGen
  /\ cl' = [cl EXCEPT ![c].pc = "clearKeys", ![c].gen = task.gen, ![c].stage = task.stage]
  /\ UNCHANGED <<task, redis, queue, sent, wk, rec, finalObject, sourceObject, refunds, faults>>

NextGeneration_Same(c) == cl[c].gen
NextGeneration(c) == cl[c].gen + 1

ResumeClearKeys_SendsFirst(c) ==
  /\ cl[c].pc = "clearKeys"
  /\ redis' = [KeysCleared EXCEPT !.pause = FALSE]
  /\ Send(NextGeneration(c), cl[c].stage)
  /\ ClientGoto(c, "commit")
  /\ UNCHANGED <<task, wk, rec, finalObject, sourceObject, refunds, faults>>

\* It deletes all runtime keys and the pause request...
ResumeClearKeys(c) ==
  /\ cl[c].pc = "clearKeys"
  /\ redis' = [KeysCleared EXCEPT !.pause = FALSE]
  /\ ClientGoto(c, "commit")
  /\ UNCHANGED <<task, queue, sent, wk, rec, finalObject, sourceObject, refunds, faults>>

\* ... reads the row once more if the request also changes the configuration...
ResumeRefresh(c) ==
  /\ cl[c].pc = "commit"
  /\ task.status # "deleted" /\ task.gen < MaxGen
  /\ <<cl[c].gen, cl[c].stage>> # <<task.gen, task.stage>>
  /\ cl' = [cl EXCEPT ![c].gen = task.gen, ![c].stage = task.stage]
  /\ UNCHANGED <<task, redis, queue, sent, wk, rec, finalObject, sourceObject, refunds, faults>>

\* ... and writes the generation after the one it read, whatever the row holds
\* by now (UPDATE ... WHERE id; no row to update is an error)...
ResumeCommit(c) ==
  /\ cl[c].pc = "commit"
  /\ IF task.status = "deleted"
     THEN cl' = [cl EXCEPT ![c] = IdleClient] /\ UNCHANGED task
     ELSE /\ task' = [task EXCEPT !.status = "pending", !.gen = NextGeneration(c),
                                  !.resumable = FALSE, !.quiet = FALSE]
          /\ ClientGoto(c, "dispatch")
  /\ UNCHANGED <<redis, queue, sent, wk, rec, finalObject, sourceObject, refunds, faults>>

\* ... and sends a message that starts at the stage the task was paused at. If
\* the broker refuses, the row is paused again.
ResumeDispatch(c) ==
  /\ cl[c].pc = "dispatch"
  /\ \/ /\ Send(NextGeneration(c), cl[c].stage)
        /\ UNCHANGED <<task, faults>>
     \/ /\ faults.sendFailures < MaxSendFailures
        /\ faults' = [faults EXCEPT !.sendFailures = @ + 1]
        /\ task' = IF task.status = "deleted" THEN task
                   ELSE [task EXCEPT !.status = "paused"]
        /\ UNCHANGED <<queue, sent>>
  /\ cl' = [cl EXCEPT ![c] = IdleClient]
  /\ UNCHANGED <<redis, wk, rec, finalObject, sourceObject, refunds>>

\* delete_task is refused while the row is pending or processing...
RequestDelete(c) ==
  /\ cl[c].pc = "idle"
  /\ task.status \in BLOCKED_STATUSES
  /\ cl' = [cl EXCEPT ![c].pc = "forget", ![c].output = task.output]
  /\ UNCHANGED <<task, redis, queue, sent, wk, rec, finalObject, sourceObject, refunds, faults>>

\* ... deletes every key, the intermediates, which the final output is not one
\* of, and the objects that the row it read names: the recording, which is gone
\* already where the row names none, and the output. The row still stands...
DeleteClearKeys(c) ==
  /\ cl[c].pc = "forget"
  /\ redis' = [KeysCleared EXCEPT !.pause = FALSE]
  /\ finalObject' = (finalObject /\ ~cl[c].output)
  /\ sourceObject' = FALSE
  /\ ClientGoto(c, "dropRow")
  /\ UNCHANGED <<task, queue, sent, wk, rec, refunds, faults>>

\* ... and then the row, in whatever status it is by now.
DeleteRow(c) ==
  /\ cl[c].pc = "dropRow"
  /\ task' = [task EXCEPT !.status = "deleted"]
  /\ cl' = [cl EXCEPT ![c] = IdleClient]
  /\ UNCHANGED <<redis, queue, sent, wk, rec, finalObject, sourceObject, refunds, faults>>

-----------------------------------------------------------------------------
(* The stall reconciler: _reconcile_processing_task                        *)

ScanGoto(s, pc) == rec' = [rec EXCEPT ![s].pc = pc]
ScanEnds(s) == rec' = [rec EXCEPT ![s] = IdleScanner]
Unsuspected == [redis EXCEPT !.suspect = "none"]

\* get_stall_candidates: a processing row whose last activity is old. The
\* attributes loaded here are the ones used until the next commit: the later
\* SELECT ... FOR UPDATE returns the object the session already holds.
Scan(s) ==
  /\ rec[s].pc = "idle"
  /\ task.status = "processing" /\ task.quiet
  /\ rec' = [rec EXCEPT ![s] = [pc |-> "observe", gen |-> task.gen,
                                stage |-> task.stage, source |-> task.source]]
  /\ UNCHANGED <<task, redis, queue, sent, wk, cl, finalObject, sourceObject, refunds, faults>>

\* The observation, its reads taken together: no heartbeat, no owner and no
\* dispatch in flight make the task suspect, twice a confirmed one.
Observe(s) ==
  /\ rec[s].pc = "observe"
  /\ CASE redis.heartbeat # Nobody -> redis' = Unsuspected /\ ScanEnds(s)
       [] redis.heartbeat = Nobody /\ (redis.lock # Nobody \/ redis.guard) ->
            UNCHANGED redis /\ ScanEnds(s)
       [] redis.heartbeat = Nobody /\ redis.lock = Nobody /\ ~redis.guard ->
            CASE redis.suspect = "none" ->
                   redis' = [redis EXCEPT !.suspect = "fresh"] /\ ScanEnds(s)
              [] redis.suspect = "fresh" -> UNCHANGED redis /\ ScanEnds(s)
              [] redis.suspect = "confirmed" -> UNCHANGED redis /\ ScanGoto(s, "reap")
  /\ UNCHANGED <<task, queue, sent, wk, cl, finalObject, sourceObject, refunds, faults>>

\* SET NX on reap-lock: one scan goes on.
TakeReapLock(s) ==
  /\ rec[s].pc = "reap"
  /\ IF redis.reap
     THEN UNCHANGED redis /\ ScanEnds(s)
     ELSE redis' = [redis EXCEPT !.reap = TRUE] /\ ScanGoto(s, "heartbeat")
  /\ UNCHANGED <<task, queue, sent, wk, cl, finalObject, sourceObject, refunds, faults>>

\* The recheck reads one key at a time, in this order.
Recheck(s, pc, present, next) ==
  /\ rec[s].pc = pc
  /\ IF present
     THEN redis' = Unsuspected /\ ScanEnds(s)
     ELSE UNCHANGED redis /\ ScanGoto(s, next)
  /\ UNCHANGED <<task, queue, sent, wk, cl, finalObject, sourceObject, refunds, faults>>

RecheckHeartbeat(s) == Recheck(s, "heartbeat", redis.heartbeat # Nobody, "lock")
RecheckLock(s) == Recheck(s, "lock", redis.lock # Nobody, "guard")
RecheckGuard(s) == Recheck(s, "guard", redis.guard, "advance")

\* The next generation, written over whatever the row holds. At the cap, or
\* without a source, the task is given up; otherwise it is dispatched again.
\* (No message is of a generation beyond MaxGen, so MaxGen + 1 stands for all
\* the generations a task that is given up may reach.)
AdvanceGeneration(s) ==
  LET capped == redis.resumes >= MaxAutoResumes \/ ~rec[s].source
      next == rec[s].gen + 1
  IN
  /\ rec[s].pc = "advance"
  /\ next <= MaxGen \/ capped
  /\ IF task.status = "deleted"
     THEN UNCHANGED task /\ ScanEnds(s)
     ELSE /\ task' = [task EXCEPT !.gen = IF next <= MaxGen THEN next ELSE MaxGen + 1]
          /\ ScanGoto(s, IF capped THEN "giveUp" ELSE "setGuard")
  /\ UNCHANGED <<redis, queue, sent, wk, cl, finalObject, sourceObject, refunds, faults>>

GiveUp_LeavesRow(s) ==
  /\ rec[s].pc = "giveUp"
  /\ ScanGoto(s, "wipe")
  /\ UNCHANGED <<task, redis, queue, sent, wk, cl, finalObject, sourceObject, refunds, faults>>

\* mark_failed of the new generation. With expire_on_commit the commit before
\* it expires the row, reading locked.id again raises (MissingGreenlet), and
\* the scan ends there. Without, the row is failed as the scan remembers it.
GiveUp(s) ==
  /\ rec[s].pc = "giveUp"
  /\ IF ExpireOnCommit \/ task.status = "deleted"
     THEN UNCHANGED <<task, refunds>> /\ ScanEnds(s)
     ELSE /\ task' = [task EXCEPT !.status = "failed", !.resumable = FALSE, !.quiet = FALSE]
          /\ refunds' = refunds + 1
          /\ ScanGoto(s, "wipe")
  /\ UNCHANGED <<redis, queue, sent, wk, cl, finalObject, sourceObject, faults>>

GiveUpClearKeys(s) ==
  /\ rec[s].pc = "wipe"
  /\ redis' = KeysCleared
  /\ ScanEnds(s)
  /\ UNCHANGED <<task, queue, sent, wk, cl, finalObject, sourceObject, refunds, faults>>

\* The row is refreshed and the dispatch guard set.
SetDispatchGuard(s) ==
  /\ rec[s].pc = "setGuard"
  /\ redis' = [redis EXCEPT !.guard = TRUE]
  /\ rec' = [rec EXCEPT ![s].pc = "send", ![s].stage = task.stage]
  /\ UNCHANGED <<task, queue, sent, wk, cl, finalObject, sourceObject, refunds, faults>>

Redispatch(s) ==
  /\ rec[s].pc = "send"
  /\ \/ /\ Send(rec[s].gen + 1, rec[s].stage)
        /\ ScanGoto(s, "count")
        /\ UNCHANGED <<redis, faults>>
     \/ /\ faults.sendFailures < MaxSendFailures
        /\ faults' = [faults EXCEPT !.sendFailures = @ + 1]
        /\ redis' = [redis EXCEPT !.guard = FALSE]
        /\ ScanEnds(s)
        /\ UNCHANGED <<queue, sent>>
  /\ UNCHANGED <<task, wk, cl, finalObject, sourceObject, refunds>>

CountResume(s) ==
  /\ rec[s].pc = "count"
  /\ redis' = [redis EXCEPT !.resumes = @ + 1, !.suspect = "none"]
  /\ ScanEnds(s)
  /\ UNCHANGED <<task, queue, sent, wk, cl, finalObject, sourceObject, refunds, faults>>

-----------------------------------------------------------------------------
(* Time, and what fails                                                    *)

\* The helper's loop: it renews the lock and the heartbeat of its owner, or
\* stops once the lock is no longer its owner's.
HelperTick(w) ==
  /\ wk[w].helper
  /\ IF Owns(w)
     THEN redis' = [redis EXCEPT !.heartbeat = wk[w].msg.id] /\ UNCHANGED wk
     ELSE wk' = [wk EXCEPT ![w].helper = FALSE] /\ UNCHANGED redis
  /\ UNCHANGED <<task, queue, sent, cl, rec, finalObject, sourceObject, refunds, faults>>

Renewed(owner) == \E w \in Workers : wk[w].helper /\ wk[w].msg.id = owner

\* The keys nobody renews expire; the lock's TTL is the shorter one.
LockExpires ==
  /\ redis.lock # Nobody /\ ~Renewed(redis.lock)
  /\ redis' = [redis EXCEPT !.lock = Nobody]
  /\ UNCHANGED <<task, queue, sent, wk, cl, rec, finalObject, sourceObject, refunds, faults>>

HeartbeatExpires ==
  /\ redis.heartbeat # Nobody /\ ~Renewed(redis.heartbeat)
  /\ redis.lock # redis.heartbeat
  /\ redis' = [redis EXCEPT !.heartbeat = Nobody]
  /\ UNCHANGED <<task, queue, sent, wk, cl, rec, finalObject, sourceObject, refunds, faults>>

\* The stall timeout passes without a write; the confirmation window passes;
\* the dispatch guard and the reap lock run out.
GoesQuiet ==
  /\ Scanners # {}
  /\ task.status = "processing" /\ ~task.quiet
  /\ task' = [task EXCEPT !.quiet = TRUE]
  /\ UNCHANGED <<redis, queue, sent, wk, cl, rec, finalObject, sourceObject, refunds, faults>>

SuspicionAges ==
  /\ redis.suspect = "fresh"
  /\ redis' = [redis EXCEPT !.suspect = "confirmed"]
  /\ UNCHANGED <<task, queue, sent, wk, cl, rec, finalObject, sourceObject, refunds, faults>>

GuardExpires ==
  /\ redis.guard
  /\ redis' = [redis EXCEPT !.guard = FALSE]
  /\ UNCHANGED <<task, queue, sent, wk, cl, rec, finalObject, sourceObject, refunds, faults>>

ReapLockExpires ==
  /\ redis.reap
  /\ redis' = [redis EXCEPT !.reap = FALSE]
  /\ UNCHANGED <<task, queue, sent, wk, cl, rec, finalObject, sourceObject, refunds, faults>>

\* A pause request nobody has read runs out after a day.
PauseRequestExpires ==
  /\ redis.pause
  /\ redis' = [redis EXCEPT !.pause = FALSE]
  /\ UNCHANGED <<task, queue, sent, wk, cl, rec, finalObject, sourceObject, refunds, faults>>

\* A worker process is killed (OOM, SIGKILL); its helper follows, its message
\* returns to the queue (reject_on_worker_lost), its lock stays.
Crash(w) ==
  /\ ~At(w, "idle")
  /\ faults.crashes < MaxCrashes
  /\ faults' = [faults EXCEPT !.crashes = @ + 1]
  /\ queue' = queue \cup {wk[w].msg}
  /\ wk' = [wk EXCEPT ![w] = IdleWorker]
  /\ UNCHANGED <<task, redis, sent, cl, rec, finalObject, sourceObject, refunds>>

\* An API process dies in the middle of a request, or the beat worker in the
\* middle of a scan: the steps it has not taken are never taken.
RequestDies(c) ==
  /\ cl[c].pc # "idle"
  /\ faults.crashes < MaxCrashes
  /\ faults' = [faults EXCEPT !.crashes = @ + 1]
  /\ cl' = [cl EXCEPT ![c] = IdleClient]
  /\ UNCHANGED <<task, redis, queue, sent, wk, rec, finalObject, sourceObject, refunds>>

ScanDies(s) ==
  /\ rec[s].pc # "idle"
  /\ faults.crashes < MaxCrashes
  /\ faults' = [faults EXCEPT !.crashes = @ + 1]
  /\ ScanEnds(s)
  /\ UNCHANGED <<task, redis, queue, sent, wk, cl, finalObject, sourceObject, refunds>>

\* The broker restores a message that is unacknowledged for longer than its
\* visibility timeout (Celery's default of one hour; runs last up to two days).
Redeliver(w) ==
  /\ ~At(w, "idle")
  /\ wk[w].msg \notin queue
  /\ faults.redeliveries < MaxRedeliveries
  /\ faults' = [faults EXCEPT !.redeliveries = @ + 1]
  /\ queue' = queue \cup {wk[w].msg}
  /\ UNCHANGED <<task, redis, sent, wk, cl, rec, finalObject, sourceObject, refunds>>

\* Only the helper is killed; its worker runs on.
HelperDies(w) ==
  /\ wk[w].helper
  /\ faults.helperDeaths < MaxHelperDeaths
  /\ faults' = [faults EXCEPT !.helperDeaths = @ + 1]
  /\ wk' = [wk EXCEPT ![w].helper = FALSE]
  /\ UNCHANGED <<task, redis, queue, sent, cl, rec, finalObject, sourceObject, refunds>>

-----------------------------------------------------------------------------
(* The specification                                                       *)

WorkerStep(w) ==
  \/ CheckGeneration(w) \/ Acquire(w) \/ ClearDispatchGuard(w)
  \/ TakeSnapshot(w) \/ LookForFinalOutput(w) \/ MarkProcessing(w) \/ Preflight(w)
  \/ Boundary(w) \/ ConsumePauseRequest(w) \/ EnsureOwnership(w)
  \/ StageHook(w) \/ StageReports(w) \/ StageEnds(w)
  \/ MarkCompleted(w) \/ MarkFailed(w) \/ MarkPaused(w)
  \/ ClearKeys(w) \/ CleanupArtifacts(w) \/ Release(w) \/ Ack(w)

ClientStep(c) ==
  \/ RequestPause(c) \/ SetPauseRequest(c)
  \/ RequestResume(c) \/ ResumeClearKeys(c) \/ ResumeRefresh(c)
  \/ ResumeCommit(c) \/ ResumeDispatch(c)
  \/ RequestDelete(c) \/ DeleteClearKeys(c) \/ DeleteRow(c)

ScanStep(s) ==
  \/ Scan(s) \/ Observe(s) \/ TakeReapLock(s)
  \/ RecheckHeartbeat(s) \/ RecheckLock(s) \/ RecheckGuard(s)
  \/ AdvanceGeneration(s) \/ GiveUp(s) \/ GiveUpClearKeys(s)
  \/ SetDispatchGuard(s) \/ Redispatch(s) \/ CountResume(s)

TimePasses ==
  \/ LockExpires \/ HeartbeatExpires \/ GoesQuiet \/ SuspicionAges
  \/ GuardExpires \/ ReapLockExpires \/ PauseRequestExpires

Next ==
  \/ \E w \in Workers : Deliver(w) \/ WorkerStep(w) \/ HelperTick(w)
                        \/ Crash(w) \/ Redeliver(w) \/ HelperDies(w)
  \/ \E c \in Clients : ClientStep(c) \/ RequestDies(c)
  \/ \E s \in Scanners : ScanStep(s) \/ ScanDies(s)
  \/ TimePasses

Spec == Init /\ [][Next]_vars

\* What the deployment keeps doing: the broker delivers, a live process takes
\* its next step, scans come round, time passes. A stage reports finitely many
\* times, so it ends. Requests, crashes, redeliveries and refused dispatches
\* need not happen, and a pause request need not live a day.
Fairness ==
  /\ \A w \in Workers : /\ WF_vars(Deliver(w)) /\ WF_vars(WorkerStep(w))
                        /\ SF_vars(StageEnds(w)) /\ WF_vars(HelperTick(w))
  /\ \A s \in Scanners : WF_vars(ScanStep(s))
  /\ WF_vars(LockExpires) /\ WF_vars(HeartbeatExpires) /\ WF_vars(GoesQuiet)
  /\ WF_vars(SuspicionAges) /\ WF_vars(GuardExpires) /\ WF_vars(ReapLockExpires)

FairSpec == Spec /\ Fairness

-----------------------------------------------------------------------------
(* Properties                                                              *)

Settled == BLOCKED_STATUSES \cup {"deleted"}
Unfinished == {"pending", "processing"}

\* Worker w is between the decision to run the task and the end of that run.
Executing(w) ==
  wk[w].pc \in {"preflight", "boundary", "unflag", "own", "txn", "work",
                "complete", "fail", "pause"}

\* The messages a worker may still act on.
Outstanding == queue \cup {wk[w].msg : w \in {v \in Workers : ~At(v, "idle")}}

\* At most one worker executes the task's current generation, however often its
\* message is delivered: what the lock, the ownership checks and the generation
\* are for together.  After a resume the run that paused clears the keys of its
\* successor too (_clear_task_runtime_keys), and a second copy of the resume's
\* message finds no lock; so the property is about the first generation.
OneExecutor ==
  faults.crashes = 0 /\ task.gen = 0 =>
    \A v, w \in Workers :
      /\ Executing(v) /\ wk[v].msg.gen = task.gen
      /\ Executing(w) /\ wk[w].msg.gen = task.gen
      => v = w

\* Nobody executes a task that is settled, so that delete_task, which only
\* looks at the status, removes nothing a run still writes.
SettledQuiescent ==
  task.status \in Settled =>
    \A w \in Workers : ~(Executing(w) /\ wk[w].msg.gen = task.gen)

\* A run that gives up its request to a pause still finds its own row
\* processing: the pause raise_if_user_paused has consumed is never lost.
PauseLands ==
  \A w \in Workers : wk[w].pc \in {"unflag", "pause"} =>
    task.status = "processing" /\ wk[w].msg.gen = task.gen

\* mark_failed gives the quota back exactly when the task ends failed: once,
\* and never for a task that is still going to be worked on.
RefundedIffFailed ==
  /\ task.status = "failed" => refunds = 1
  /\ task.status \notin {"failed", "deleted"} => refunds = 0

\* A request of the owner has deleted the task's objects and not yet its row.
Dropping == \E c \in Clients : cl[c].pc = "dropRow"

\* A task that runs, will run or can be resumed has its recording, in the row
\* and in the store. Two steps delete it: the clean-up after mark_completed, of
\* a task that runs no more, and delete_task, of a paused task just before its
\* row goes. (A delete_task that dies in between leaves a paused task that can
\* be resumed without its recording.)
SourceKept ==
  /\ task.status \in Unfinished => task.source /\ sourceObject
  /\ task.status = "paused" => task.source /\ (sourceObject \/ Dropping)

\* A completed task has its output in the store until its owner deletes it.
CompletedHasOutput == task.status = "completed" => finalObject \/ Dropping

\* Without a crash no lock outlives its run: whichever way a run ends, and
\* whoever clears the keys meanwhile, the task is never locked by nobody.
LockHasRun ==
  redis.lock # Nobody /\ faults.crashes = 0 =>
    \E w \in Workers : ~At(w, "idle") /\ wk[w].msg.id = redis.lock

\* No message is ahead of the row: a run never waits for a commit.
MessagesBehind == \A m \in Outstanding : m.gen <= task.gen

\* One generation is one message, however often the broker delivers it: this
\* is what makes "<generation>:<celery id>" name a run of the task.
OneMessagePerGeneration ==
  \A m, n \in Outstanding : m.gen = n.gen => m = n

\* The fence: no step of a worker of another generation changes the row's
\* status, stage or generation, however late it comes.
FencedRow ==
  [][\A w \in Workers :
       wk'[w] # wk[w] /\ wk[w].msg # NoMessage /\ wk[w].msg.gen # task.gen =>
         /\ task'.status = task.status
         /\ task'.stage = task.stage
         /\ task'.gen = task.gen]_vars

\* Somebody will work on an unfinished task: a message of its generation that
\* the broker may deliver, a worker busy with one, or a request that is about
\* to send one.
Attended ==
  task.status \in Unfinished =>
    \/ \E m \in queue : m.gen = task.gen
    \/ \E w \in Workers : /\ wk[w].pc \notin {"idle", "finally", "ack"}
                          /\ wk[w].msg.gen = task.gen
    \/ \E c \in Clients : cl[c].pc = "dispatch"

\* With the reconciler on, a run that stops reporting does not leave its task
\* processing forever, whichever process died and at whatever step.
StalledRunEnds == task.status = "processing" ~> task.status # "processing"

\* A scan that has decided to give the task up ends its processing.
GivenUpTaskFails ==
  \A s \in Scanners : rec[s].pc = "giveUp" ~> task.status # "processing"

Lifecycle == INSTANCE TaskLifecycle WITH status <- task.status, gen <- task.gen

\* Without faults the row goes through the task's life as its owner sees it.
FollowsLifecycle == Lifecycle!Spec

=============================================================================
