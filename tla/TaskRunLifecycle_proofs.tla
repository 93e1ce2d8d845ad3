---------------------- MODULE TaskRunLifecycle_proofs ----------------------
(***************************************************************************)
(* Theorems about the life of a task in TaskRun: how a run, the requests   *)
(* of the owner and the scans take the row from one status to the next     *)
(* while no process dies and no message is delivered twice, and that       *)
(* TaskRun then implements TaskLifecycle.                                  *)
(***************************************************************************)
EXTENDS TaskRun_proofs

(* Each message is in one place.                                           *)

\* No process has died, and the broker has restored no message.
Once == faults.crashes = 0 /\ faults.redeliveries = 0

Busy(w) == wk[w].pc # "idle"

HeldOnce ==
  Once => \A w \in Workers : Busy(w) =>
    /\ wk[w].msg \notin queue
    /\ \A v \in Workers : Busy(v) /\ wk[v].msg = wk[w].msg => v = w

LEMMA OnceBefore ==
  ASSUME TypeInv, [Next]_vars, Once'
  PROVE  /\ Once
         /\ \A w \in Workers : ~Crash(w) /\ ~Redeliver(w)
         /\ \A c \in Clients : ~RequestDies(c)
         /\ \A s \in Scanners : ~ScanDies(s)
  <1>1. faults.crashes \in Nat /\ faults.redeliveries \in Nat
    BY TaskRunAssumption DEF TypeInv, TypeOK, FaultCount
  <1>2. faults.crashes = 0 /\ faults.redeliveries = 0
    BY <1>1, FaultsAdd DEF Once
  <1> QED
    BY <1>1, <1>2, FaultsAdd DEF Once

\* A worker that is not delivered a message keeps the one it has.
LEMMA WorkersKeepMessages ==
  ASSUME TypeInv, NEW w \in Workers, WorkerStep(w) \/ HelperTick(w) \/ HelperDies(w)
  PROVE  /\ UNCHANGED queue
         /\ \A v \in Workers : Busy(v)' => Busy(v) /\ wk'[v].msg = wk[v].msg
  <1>1. CASE WorkerStep(w)
    BY <1>1, WorkerMoves DEF Moves, Follows, Busy
  <1>2. CASE HelperTick(w) \/ HelperDies(w)
    <2>1. ~Deliver(w)
      <3>1. CASE Deliver(w)
        <4>1. wk[w].pc = "idle" /\ wk'[w].pc = "received"
          BY <3>1, WorkerMeets
        <4>2. wk'[w].pc = wk[w].pc
          BY <1>2 DEF HelperTick, HelperDies, TypeInv, TypeOK, WorkerState
        <4> QED
          BY <4>1, <4>2
      <3> QED
        BY <3>1
    <2>2. \A v \in Workers : wk'[v].pc = wk[v].pc /\ wk'[v].msg = wk[v].msg
      BY <1>2, <2>1, WorkerMeets
    <2> QED
      BY <1>2, <2>2 DEF HelperTick, HelperDies, Busy
  <1> QED
    BY <1>1, <1>2

\* What a request or a scan sends, nobody has seen before.
LEMMA SendsAreNew ==
  ASSUME TypeInv, GenerationInv,
         \/ \E c \in Clients : ClientStep(c)
         \/ \E s \in Scanners : ScanStep(s)
         \/ TimePasses \/ UNCHANGED vars
  PROVE  /\ wk' = wk
         /\ \A m \in queue' : m \in queue \/ (m \notin Outstanding /\ m.gen = task.gen)
  <1>1. wk' = wk
    BY OthersLeaveWorkers DEF vars
  <1>2. ASSUME NEW gen, NEW start, Send(gen, start), gen = task.gen, NewGeneration
        PROVE  \A m \in queue' : m \in queue \/ (m \notin Outstanding /\ m.gen = task.gen)
    <2>1. \A m \in Outstanding : m.gen < task.gen
      BY <1>2 DEF NewGeneration
    <2>2. task.gen \in Nat
      BY DEF TypeInv, TypeOK, Row
    <2> QED
      BY <1>2, <2>1, <2>2 DEF Send
  <1>3. ASSUME NEW c \in Clients, ClientStep(c)
        PROVE  \A m \in queue' : m \in queue \/ (m \notin Outstanding /\ m.gen = task.gen)
    <2>1. CASE ResumeDispatch(c)
      <3>1. NextGeneration(c) = task.gen /\ NewGeneration
        BY <2>1 DEF ResumeDispatch, GenerationInv, RequestUpToDate, NextGeneration
      <3> QED
        BY <1>2, <2>1, <3>1 DEF ResumeDispatch
    <2>2. CASE ~ResumeDispatch(c)
      BY <1>3, <2>2 DEF ClientStep, RequestPause, SetPauseRequest, RequestResume,
         ResumeClearKeys, ResumeRefresh, ResumeCommit, RequestDelete, DeleteClearKeys, DeleteRow
    <2> QED
      BY <2>1, <2>2
  <1>4. ASSUME NEW s \in Scanners, ScanStep(s)
        PROVE  \A m \in queue' : m \in queue \/ (m \notin Outstanding /\ m.gen = task.gen)
    <2>1. CASE Redispatch(s)
      <3>1. rec[s].gen + 1 = task.gen /\ NewGeneration
        BY <2>1 DEF Redispatch, GenerationInv, ScanUpToDate
      <3> QED
        BY <1>2, <2>1, <3>1 DEF Redispatch
    <2>2. CASE ~Redispatch(s)
      BY <1>4, <2>2 DEF ScanStep, Scan, Observe, TakeReapLock, RecheckHeartbeat, RecheckLock,
         RecheckGuard, Recheck, AdvanceGeneration, GiveUp, GiveUpClearKeys, SetDispatchGuard,
         CountResume
    <2> QED
      BY <2>1, <2>2
  <1>5. TimePasses \/ UNCHANGED vars => queue' = queue
    BY DEF TimePasses, LockExpires, HeartbeatExpires, GoesQuiet, SuspicionAges, GuardExpires,
       ReapLockExpires, PauseRequestExpires, vars
  <1> QED
    BY <1>1, <1>3, <1>4, <1>5

LEMMA HeldStep ==
  ASSUME TypeInv, GenerationInv, HeldOnce, [Next]_vars
  PROVE  HeldOnce'
  <1> SUFFICES ASSUME Once'
               PROVE  \A w \in Workers : Busy(w)' =>
                        /\ wk'[w].msg \notin queue'
                        /\ \A v \in Workers : Busy(v)' /\ wk'[v].msg = wk'[w].msg => v = w
    BY DEF HeldOnce
  <1>1. /\ \A w \in Workers : Busy(w) =>
             /\ wk[w].msg \notin queue
             /\ \A v \in Workers : Busy(v) /\ wk[v].msg = wk[w].msg => v = w
        /\ \A w \in Workers : ~Crash(w) /\ ~Redeliver(w)
        /\ \A c \in Clients : ~RequestDies(c)
        /\ \A s \in Scanners : ~ScanDies(s)
    BY OnceBefore DEF HeldOnce
  <1>2. CASE \E w \in Workers : Deliver(w)
    <2>1. PICK w \in Workers : Deliver(w)
      BY <1>2
    <2>2. /\ \A v \in Workers : v # w => wk'[v] = wk[v]
          /\ wk[w].pc = "idle" /\ wk'[w].msg \in queue /\ queue' = queue \ {wk'[w].msg}
      BY <2>1, WorkerMeets
    <2> QED
      BY <1>1, <2>2 DEF Busy
  <1>3. CASE \E w \in Workers : WorkerStep(w) \/ HelperTick(w) \/ HelperDies(w)
    BY <1>1, <1>3, WorkersKeepMessages
  <1>4. CASE \/ \E c \in Clients : ClientStep(c)
             \/ \E s \in Scanners : ScanStep(s)
             \/ TimePasses \/ UNCHANGED vars
    <2>1. /\ wk' = wk
          /\ \A m \in queue' : m \in queue \/ m \notin Outstanding
      BY <1>4, SendsAreNew
    <2>2. \A w \in Workers : Busy(w) => wk[w].msg \in Outstanding
      BY DEF Busy, Outstanding, At
    <2> QED
      BY <1>1, <2>1, <2>2 DEF Busy
  <1> QED
    BY <1>1, <1>2, <1>3, <1>4 DEF Next

LEMMA InitHeld == Init => HeldOnce
  BY DEF Init, HeldOnce, Busy, IdleWorker

-----------------------------------------------------------------------------
(* The life of a task whose owner makes one request at a time              *)

\* A message that is still to be run: of the row's generation, which waits for
\* it; and a run from the start finds no output of an earlier one.
Fresh(m) ==
  /\ m.gen = task.gen
  /\ task.status = "pending"
  /\ m.start = NoStart => ~finalObject

Starting(w) == wk[w].pc \in {"received", "acquire", "unguard", "snapshot", "output", "process"}
OnDuty(w) == Starting(w) \/ Executing(w)

InTurn(w) ==
  /\ Starting(w) => Fresh(wk[w].msg)
  /\ At(w, "output") => wk[w].msg.start = NoStart
  /\ Executing(w) => wk[w].msg.gen = task.gen /\ task.status = "processing"
  /\ wk[w].pc \in {"clearDone", "cleanup"} => task.status \in {"completed", "deleted"}

\* What a step of a run on duty does: it goes on, gives up before or after its
\* stages, starts the task, or ends it.
GoesOn(w) ==
  /\ task'.status = task.status /\ task'.source = task.source /\ refunds' = refunds
  /\ sourceObject' = sourceObject
  /\ \/ /\ Starting(w) /\ Starting(w)' /\ finalObject' = finalObject
        /\ At(w, "output")' => wk[w].msg.start = NoStart
     \/ Executing(w) /\ Executing(w)'
     \/ wk'[w].pc \in {"finally", "ack"}

Starts(w) ==
  /\ task.status = "pending" /\ task'.status = "processing"
  /\ task'.source = task.source /\ sourceObject' = sourceObject /\ refunds' = refunds
  /\ Executing(w)'

Ends(w) ==
  /\ task.status = "processing" /\ task'.source = task.source /\ sourceObject' = sourceObject
  /\ \/ task'.status = "completed" /\ refunds' = refunds /\ wk'[w].pc = "clearDone"
     \/ task'.status = "failed" /\ refunds' = refunds + 1 /\ wk'[w].pc = "clear"
     \/ task'.status = "paused" /\ refunds' = refunds /\ wk'[w].pc = "clear"

LEMMA DutyStep ==
  ASSUME TypeInv, NEW w \in Workers, WorkerStep(w), OnDuty(w), InTurn(w)
  PROVE  task'.gen = task.gen /\ (GoesOn(w) \/ Starts(w) \/ Ends(w))
  <1>1. wk \in [Workers -> WorkerState] /\ wk[w] \in WorkerState /\ task \in Row
    BY DEF TypeInv, TypeOK
  <1>2. task'.gen = task.gen
    BY WorkersSendNothing
  <1>3. CASE CheckGeneration(w) \/ Acquire(w) \/ ClearDispatchGuard(w) \/ LookForFinalOutput(w)
    <2>1. UNCHANGED <<task, refunds, finalObject, sourceObject>> /\ Starting(w)
      BY <1>3 DEF CheckGeneration, Acquire, ClearDispatchGuard, LookForFinalOutput, Starting, At
    <2>2. Fresh(wk[w].msg) /\ (wk[w].pc = "output" => wk[w].msg.start = NoStart)
      BY <2>1 DEF InTurn, At
    <2>3. wk'[w].pc \in {"acquire", "ack", "finally", "unguard", "snapshot", "process"}
      <3>1. CASE LookForFinalOutput(w)
        <4>1. ~finalObject
          BY <2>2, <3>1 DEF LookForFinalOutput, At, Fresh
        <4> QED
          BY <3>1, <4>1, GotoDoes DEF LookForFinalOutput
      <3>2. CASE ~LookForFinalOutput(w)
        BY <1>1, <1>3, <3>2, GotoDoes DEF CheckGeneration, Acquire, ClearDispatchGuard, WorkerState
      <3> QED
        BY <3>1, <3>2
    <2> QED
      BY <1>2, <2>1, <2>3 DEF GoesOn, Starting, At
  <1>4. CASE TakeSnapshot(w)
    <2> DEFINE m == wk[w].msg
    <2>1. UNCHANGED <<task, refunds, finalObject, sourceObject>> /\ Starting(w)
      BY <1>4 DEF TakeSnapshot, Starting, At
    <2>2. Fresh(m)
      BY <2>1 DEF InTurn
    <2>3. Current(w) /\ ~Skips(m)
      BY <2>2 DEF Fresh, Current, Skips
    <2>4. wk' = [wk EXCEPT ![w].pc = IF m.start = NoStart THEN "output" ELSE "process",
                           ![w].stage = FirstStage(m),
                           ![w].force = m.start # NoStart \/ ResumesFailed \/ m.force]
      BY <1>4, <2>3 DEF TakeSnapshot
    <2>5. wk'[w].pc \in {"output", "process"} /\ (wk'[w].pc = "output" => m.start = NoStart)
      BY <1>1, <2>4 DEF WorkerState
    <2> QED
      BY <1>2, <2>1, <2>5 DEF GoesOn, Starting, At
  <1>5. CASE MarkProcessing(w)
    <2>1. Starting(w) /\ UNCHANGED <<sourceObject, refunds>>
      BY <1>5 DEF MarkProcessing, Starting, At
    <2>2. Current(w) /\ task.status = "pending"
      BY <2>1 DEF InTurn, Fresh, Current
    <2>3. \E output : task' = [task EXCEPT !.status = "processing", !.resumable = FALSE,
                                           !.output = output, !.quiet = FALSE]
      BY <1>5, <2>2 DEF MarkProcessing, TERMINAL_STATUSES
    <2>4. task'.status = "processing" /\ task'.source = task.source
      BY <1>1, <2>3 DEF Row
    <2>5. \/ wk' = [wk EXCEPT ![w] = [wk[w] EXCEPT !.pc = "own", !.op = "start", !.stage = 0]]
          \/ wk' = [wk EXCEPT ![w] = [wk[w] EXCEPT !.pc = "preflight"]]
      BY <1>5, <2>2 DEF MarkProcessing
    <2>6. wk'[w].pc \in {"own", "preflight"}
      BY <1>1, <2>5 DEF WorkerState
    <2> QED
      BY <1>2, <2>1, <2>2, <2>4, <2>6 DEF Starts, Executing
  <1>6. CASE \/ Preflight(w) \/ Boundary(w) \/ ConsumePauseRequest(w) \/ EnsureOwnership(w)
             \/ StageReports(w) \/ StageEnds(w)
    <2>1. UNCHANGED <<task, refunds, sourceObject>> /\ Executing(w)
      BY <1>6 DEF Preflight, Boundary, ConsumePauseRequest, EnsureOwnership, StageReports,
         StageEnds, Executing, At
    <2>2. wk'[w].pc \in {"boundary", "pause", "fail", "unflag", "own", "txn", "finally"}
      BY <1>1, <1>6 DEF Preflight, Boundary, ConsumePauseRequest, EnsureOwnership,
         StageReports, StageEnds, Goto, WorkerState
    <2> QED
      BY <1>2, <2>1, <2>2 DEF GoesOn, Executing
  <1>7. CASE StageHook(w)
    <2>1. Executing(w) /\ UNCHANGED <<sourceObject, refunds>>
      BY <1>7 DEF StageHook, Executing, At
    <2>2. task.status = "processing"
      BY <2>1 DEF InTurn
    <2>3. task' = task \/ task' = [task EXCEPT !.status = "processing", !.stage = wk[w].stage, !.quiet = FALSE]
      BY <1>7 DEF StageHook
    <2>4. task'.status = task.status /\ task'.source = task.source
      BY <1>1, <2>2, <2>3 DEF Row
    <2> QED
      BY <1>2, <1>7, <2>1, <2>4, StageHookDoes DEF GoesOn, Executing
  <1>8. CASE MarkCompleted(w) \/ MarkFailed(w) \/ MarkPaused(w)
    <2>1. Executing(w) /\ UNCHANGED sourceObject
      BY <1>8 DEF MarkCompleted, MarkFailed, MarkPaused, Executing, At
    <2>2. Current(w) /\ task.status = "processing"
      BY <2>1 DEF InTurn, Current
    <2>3. CASE MarkCompleted(w)
      <3>1. /\ task' = [task EXCEPT !.status = "completed", !.stage = LastStage,
                                    !.resumable = FALSE, !.output = TRUE, !.quiet = FALSE]
            /\ Goto(w, "clearDone") /\ UNCHANGED refunds
        BY <2>2, <2>3 DEF MarkCompleted
      <3>2. task'.status = "completed" /\ task'.source = task.source
        BY <1>1, <3>1 DEF Row
      <3> QED
        BY <1>2, <2>1, <2>2, <3>1, <3>2, GotoDoes DEF Ends
    <2>4. CASE MarkFailed(w)
      <3>1. /\ \E k, marker : task' = [task EXCEPT !.status = "failed", !.stage = k,
                                                   !.resumable = marker, !.quiet = FALSE]
            /\ Goto(w, "clear") /\ refunds' = refunds + 1
        BY <2>2, <2>4 DEF MarkFailed, TERMINAL_STATUSES
      <3>2. task'.status = "failed" /\ task'.source = task.source
        BY <1>1, <3>1 DEF Row
      <3> QED
        BY <1>2, <2>1, <2>2, <3>1, <3>2, GotoDoes DEF Ends
    <2>5. CASE MarkPaused(w)
      <3>1. /\ task' = [task EXCEPT !.status = "paused", !.stage = wk[w].stage,
                                    !.resumable = FALSE, !.quiet = FALSE]
            /\ Goto(w, "clear") /\ UNCHANGED refunds
        BY <2>2, <2>5 DEF MarkPaused, TERMINAL_STATUSES
      <3>2. task'.status = "paused" /\ task'.source = task.source
        BY <1>1, <3>1 DEF Row
      <3> QED
        BY <1>2, <2>1, <2>2, <3>1, <3>2, GotoDoes DEF Ends
    <2> QED
      BY <1>8, <2>3, <2>4, <2>5
  <1>9. CASE ClearKeys(w) \/ CleanupArtifacts(w) \/ Release(w) \/ Ack(w)
    BY <1>9 DEF ClearKeys, CleanupArtifacts, Release, Ack, OnDuty, Starting, Executing, At
  <1> QED
    BY <1>3, <1>4, <1>5, <1>6, <1>7, <1>8, <1>9 DEF WorkerStep

OneRequest == Scanners = {} /\ \A c, d \in Clients : c = d

RequestInTurn(c) ==
  /\ cl[c].pc \in {"clearKeys", "commit"} => task.status = "paused"
  /\ cl[c].pc = "dispatch" => task.status = "pending"
  /\ cl[c].pc \in {"forget", "dropRow"} => task.status \in Settled

BooksKept ==
  /\ task.source = FALSE => task.status \in {"completed", "deleted"}
  /\ sourceObject = FALSE => task.status \in {"completed", "deleted"} \/ Dropping
  /\ task.status = "failed" => refunds = 1
  /\ task.status \notin {"failed", "deleted"} => refunds = 0

InLife ==
  /\ \A m \in queue : Fresh(m)
  /\ \A w \in Workers : InTurn(w)
  /\ \A c \in Clients : RequestInTurn(c)
  /\ BooksKept

LifeInv == Once => InLife

\* While a run is on duty there is no other run, no message, and no request
\* that could change the row.
LEMMA AloneOnDuty ==
  ASSUME TypeInv, GenerationInv, HeldOnce, Once, InLife, NEW w \in Workers, OnDuty(w)
  PROVE  /\ task.status \in Unfinished
         /\ queue = {}
         /\ \A v \in Workers : v # w => ~OnDuty(v)
         /\ \A c \in Clients : cl[c].pc \in {"idle", "flag"}
  <1>1. \A v \in Workers : OnDuty(v) =>
          v \in {u \in Workers : ~At(u, "idle")} /\ Busy(v) /\ wk[v].msg.gen = task.gen
    BY DEF InLife, InTurn, OnDuty, Starting, Executing, Fresh, Busy, At
  <1>2. task.status \in Unfinished
    BY DEF InLife, InTurn, OnDuty, Fresh, Unfinished
  <1>3. \A v \in Workers : OnDuty(v) => wk[v].msg \in Outstanding
    BY <1>1 DEF Outstanding
  <1>4. \A m \in Outstanding : m.gen = task.gen => m = wk[w].msg
    BY <1>1, <1>3 DEF GenerationInv, OneMessagePerGeneration
  <1>5. queue = {}
    <2>1. \A m \in queue : m \in Outstanding /\ m.gen = task.gen
      BY DEF InLife, Fresh, Outstanding
    <2> QED
      BY <1>1, <1>4, <2>1 DEF HeldOnce
  <1>6. \A v \in Workers : v # w => ~OnDuty(v)
    BY <1>1, <1>3, <1>4 DEF HeldOnce
  <1>7. ASSUME NEW c \in Clients
        PROVE  cl[c].pc \in {"idle", "flag"}
    <2>1. cl[c].pc \in ClientPc
      BY DEF TypeInv, TypeOK, ClientState
    <2>2. cl[c].pc # "dispatch"
      <3>1. ~NewGeneration
        <4>1. wk[w].msg \in Outstanding /\ wk[w].msg.gen = task.gen /\ task.gen \in Nat
          BY <1>1, <1>3 DEF TypeInv, TypeOK, Row
        <4> QED
          BY <4>1 DEF NewGeneration
      <3> QED
        BY <3>1 DEF GenerationInv, RequestUpToDate
    <2>3. cl[c].pc \notin {"clearKeys", "commit", "forget", "dropRow"}
      BY <1>2 DEF InLife, RequestInTurn, Unfinished, Settled, BLOCKED_STATUSES
    <2> QED
      BY <2>1, <2>2, <2>3 DEF ClientPc
  <1> QED
    BY <1>2, <1>5, <1>6, <1>7

\* A step that changes nothing the life of the task depends on.
LEMMA LifeFrame ==
  ASSUME InLife, UNCHANGED <<queue, cl, finalObject, sourceObject, refunds>>,
         task'.status = task.status, task'.gen = task.gen, task'.source = task.source,
         \A w \in Workers : wk'[w].pc = wk[w].pc /\ wk'[w].msg = wk[w].msg
  PROVE  InLife'
  <1>1. \A m : Fresh(m)' <=> Fresh(m)
    BY DEF Fresh
  <1>2. \A w \in Workers : InTurn(w)'
    BY <1>1 DEF InLife, InTurn, Starting, Executing, At, Fresh
  <1>3. \A c \in Clients : RequestInTurn(c)'
    BY DEF InLife, RequestInTurn
  <1> QED
    BY <1>1, <1>2, <1>3 DEF InLife, BooksKept, Dropping

LEMMA DeliverLife ==
  ASSUME TypeInv, InLife, NEW w \in Workers, Deliver(w)
  PROVE  InLife'
  <1>1. /\ \A v \in Workers : v # w => wk'[v] = wk[v]
        /\ wk'[w].pc = "received" /\ wk'[w].msg \in queue /\ queue' \subseteq queue
    BY WorkerMeets
  <1>2. UNCHANGED <<task, cl, finalObject, sourceObject, refunds>>
    BY DEF Deliver
  <1>3. \A m : Fresh(m)' <=> Fresh(m)
    BY <1>2 DEF Fresh
  <1>4. InTurn(w)'
    <2>1. Fresh(wk[w].msg)'
      BY <1>1, <1>2 DEF InLife, Fresh
    <2> QED
      BY <1>1, <2>1 DEF InTurn, Starting, Executing, At
  <1>5. \A v \in Workers : v # w => InTurn(v)'
    BY <1>1, <1>2 DEF InLife, InTurn, Starting, Executing, At, Fresh
  <1>6. \A c \in Clients : RequestInTurn(c)'
    BY <1>2 DEF InLife, RequestInTurn
  <1> QED
    BY <1>1, <1>2, <1>3, <1>4, <1>5, <1>6 DEF InLife, BooksKept, Dropping

\* A run on duty takes the task on, or ends it and is not on duty any more.
LEMMA DutyLife ==
  ASSUME TypeInv, GenerationInv, HeldOnce, Once, InLife,
         NEW w \in Workers, WorkerStep(w), OnDuty(w)
  PROVE  InLife'
  <1>1. /\ task'.gen = task.gen
        /\ GoesOn(w) \/ Starts(w) \/ Ends(w)
    BY DutyStep DEF InLife
  <1>2. /\ \A v \in Workers : v # w => wk'[v] = wk[v]
        /\ wk'[w].pc # "idle" => wk'[w].msg = wk[w].msg
        /\ UNCHANGED <<queue, cl>>
    BY WorkerMoves DEF Moves
  <1>3. /\ task.status \in Unfinished
        /\ queue = {}
        /\ \A v \in Workers : v # w => ~OnDuty(v)
        /\ \A c \in Clients : cl[c].pc \in {"idle", "flag"}
    BY AloneOnDuty
  <1>4. \A v \in Workers : v # w => InTurn(v)'
    <2> SUFFICES ASSUME NEW v \in Workers, v # w
                 PROVE  InTurn(v)'
      OBVIOUS
    <2>1. ~OnDuty(v) /\ wk'[v] = wk[v]
      BY <1>2, <1>3
    <2>2. wk[v].pc \notin {"clearDone", "cleanup", "output"}
      BY <1>3, <2>1 DEF InLife, InTurn, Unfinished, OnDuty, Starting
    <2> QED
      BY <2>1, <2>2 DEF InTurn, OnDuty, Starting, Executing, At
  <1>5. \A c \in Clients : RequestInTurn(c)'
    BY <1>2, <1>3 DEF RequestInTurn
  <1>6. InTurn(w) /\ BooksKept
    BY DEF InLife
  <1>10. sourceObject # FALSE
    BY <1>3, <1>6 DEF BooksKept, Dropping, Unfinished
  <1>7. CASE GoesOn(w)
    <2>1. BooksKept'
      BY <1>6, <1>7, <1>10 DEF GoesOn, BooksKept
    <2>2. InTurn(w)'
      <3>1. CASE Starting(w) /\ Starting(w)' /\ finalObject' = finalObject
        BY <1>1, <1>2, <1>6, <1>7, <3>1 DEF GoesOn, InTurn, Fresh, Starting, Executing, At
      <3>2. CASE Executing(w) /\ Executing(w)'
        BY <1>1, <1>2, <1>6, <1>7, <3>2 DEF GoesOn, InTurn, Fresh, Starting, Executing, At
      <3>3. CASE wk'[w].pc \in {"finally", "ack"}
        BY <3>3 DEF InTurn, Starting, Executing, At
      <3> QED
        BY <1>7, <3>1, <3>2, <3>3 DEF GoesOn
    <2> QED
      BY <1>2, <1>3, <1>4, <1>5, <2>1, <2>2 DEF InLife
  <1>8. CASE Starts(w)
    <2>1. BooksKept'
      BY <1>6, <1>8, <1>10 DEF Starts, BooksKept
    <2>2. InTurn(w)'
      <3>1. wk[w].msg.gen = task.gen
        BY <1>6 DEF OnDuty, InTurn, Fresh
      <3> QED
        BY <1>1, <1>2, <1>8, <3>1 DEF Starts, InTurn, Starting, Executing, At
    <2> QED
      BY <1>2, <1>3, <1>4, <1>5, <2>1, <2>2 DEF InLife
  <1>9. CASE Ends(w)
    <2>1. BooksKept'
      <3>1. /\ task.source # FALSE /\ sourceObject # FALSE /\ refunds = 0
        BY <1>6, <1>9, <1>10 DEF Ends, BooksKept
      <3>2. task'.source # FALSE /\ sourceObject' # FALSE
        BY <1>9, <3>1, Zenon DEF Ends
      <3>3. \/ task'.status = "failed" /\ refunds' = 1
            \/ task'.status \in {"completed", "paused"} /\ refunds' = 0
        BY <1>9, <3>1, SMT DEF Ends
      <3> QED
        BY <3>2, <3>3 DEF BooksKept
    <2>2. InTurn(w)'
      BY <1>9 DEF Ends, InTurn, Starting, Executing, At
    <2> QED
      BY <1>2, <1>3, <1>4, <1>5, <2>1, <2>2 DEF InLife
  <1> QED
    BY <1>1, <1>7, <1>8, <1>9

\* A run that has ended touches only the source audio of a completed task, in
\* the row and in the store.
LEMMA OffDutyStep ==
  ASSUME TypeInv, NEW w \in Workers, WorkerStep(w), ~OnDuty(w)
  PROVE  /\ UNCHANGED <<finalObject, refunds>>
         /\ task'.status = task.status /\ task'.gen = task.gen
         /\ \/ task'.source = task.source /\ sourceObject' = sourceObject
            \/ wk[w].pc = "cleanup"
         /\ wk'[w].pc \in {"finally", "cleanup", "ack", "idle"}
         /\ wk'[w].pc = "cleanup" => wk[w].pc = "clearDone"
  <1>1. wk \in [Workers -> WorkerState] /\ wk[w] \in WorkerState /\ task \in Row
    BY DEF TypeInv, TypeOK
  <1>2. ClearKeys(w) \/ CleanupArtifacts(w) \/ Release(w) \/ Ack(w)
    BY DEF WorkerStep, OnDuty, Starting, Executing, At, CheckGeneration, Acquire,
       ClearDispatchGuard, TakeSnapshot, LookForFinalOutput, MarkProcessing, Preflight,
       Boundary, ConsumePauseRequest, EnsureOwnership, StageHook, StageReports, StageEnds,
       MarkCompleted, MarkFailed, MarkPaused
  <1>3. CASE ClearKeys(w)
    BY <1>3, GotoDoes DEF ClearKeys, At
  <1>4. CASE CleanupArtifacts(w)
    <2>1. wk[w].pc = "cleanup" /\ Goto(w, "finally") /\ UNCHANGED <<finalObject, refunds>>
      BY <1>4 DEF CleanupArtifacts, At
    <2>2. task' = task \/ task' = [task EXCEPT !.source = FALSE]
      BY <1>4 DEF CleanupArtifacts
    <2>3. task'.status = task.status /\ task'.gen = task.gen
      BY <1>1, <2>2 DEF Row
    <2> QED
      BY <2>1, <2>3, GotoDoes
  <1>5. CASE Release(w) \/ Ack(w)
    BY <1>1, <1>5 DEF Release, Ack, IdleWorker, WorkerState
  <1> QED
    BY <1>2, <1>3, <1>4, <1>5

LEMMA OffDutyLife ==
  ASSUME TypeInv, InLife, NEW w \in Workers, WorkerStep(w), ~OnDuty(w)
  PROVE  InLife'
  <1>1. /\ UNCHANGED <<finalObject, refunds>>
        /\ task'.status = task.status /\ task'.gen = task.gen
        /\ \/ task'.source = task.source /\ sourceObject' = sourceObject
           \/ wk[w].pc = "cleanup"
        /\ wk'[w].pc \in {"finally", "cleanup", "ack", "idle"}
        /\ wk'[w].pc = "cleanup" => wk[w].pc = "clearDone"
    BY OffDutyStep
  <1>2. (\A v \in Workers : v # w => wk'[v] = wk[v]) /\ UNCHANGED <<queue, cl>>
    BY WorkerMoves DEF Moves
  <1>3. InTurn(w)'
    BY <1>1 DEF InLife, InTurn, Starting, Executing, At
  <1>4. \A v \in Workers : v # w => InTurn(v)'
    BY <1>1, <1>2 DEF InLife, InTurn, Starting, Executing, At, Fresh
  <1>5. (\A c \in Clients : RequestInTurn(c)') /\ \A m \in queue' : Fresh(m)'
    BY <1>1, <1>2 DEF InLife, RequestInTurn, Fresh
  <1>6. BooksKept'
    BY <1>1, <1>2 DEF InLife, InTurn, BooksKept, Dropping
  <1> QED
    BY <1>3, <1>4, <1>5, <1>6 DEF InLife

\* What a request does to the row: nothing, or a new generation of a paused
\* task, or that generation taken back, or the end of a settled task.
Takes(c) ==
  /\ task.status = "paused" /\ task'.status = "pending" /\ task'.gen = task.gen + 1
  /\ cl'[c].pc = "dispatch" /\ queue' = queue
  /\ cl[c].pc = "commit" /\ sourceObject' = sourceObject

TakesBack(c) ==
  /\ task.status = "pending" /\ task'.status = "paused"
  /\ task.gen > 0 /\ task'.gen = task.gen
  /\ cl'[c].pc = "idle" /\ queue' = queue /\ NewGeneration
  /\ cl[c].pc = "dispatch" /\ sourceObject' = sourceObject

Drops(c) ==
  /\ task.status \in Settled /\ task'.status = "deleted" /\ task'.gen = task.gen
  /\ cl'[c].pc = "idle" /\ queue' = queue

LeavesRow(c) ==
  /\ task'.status = task.status /\ task'.gen = task.gen
  /\ cl[c].pc # "dropRow" /\ (sourceObject' = sourceObject \/ cl'[c].pc = "dropRow")
  /\ finalObject' = finalObject \/ finalObject' = FALSE
  /\ \A m \in queue' : m \in queue \/ (m.gen = task.gen /\ m.start # NoStart /\ task.status = "pending")
  /\ RequestInTurn(c)'

LEMMA RequestStep ==
  ASSUME TypeInv, GenerationInv, InLife, NEW c \in Clients, ClientStep(c)
  PROVE  /\ UNCHANGED <<wk, refunds>> /\ task'.source = task.source
         /\ finalObject' = finalObject \/ finalObject' = FALSE
         /\ LeavesRow(c) \/ Takes(c) \/ TakesBack(c) \/ Drops(c)
  <1>1. task \in Row /\ cl \in [Clients -> ClientState] /\ cl[c] \in ClientState
        /\ task.gen \in Nat /\ cl[c].gen \in Nat /\ cl[c].stage \in Nat
    BY TaskRunAssumption DEF TypeInv, TypeOK, Row, ClientState, Stage
  <1>2. RequestInTurn(c) /\ RequestUpToDate(c)
    BY DEF InLife, GenerationInv
  <1>3. CASE \/ RequestPause(c) \/ SetPauseRequest(c) \/ RequestResume(c) \/ ResumeClearKeys(c)
             \/ ResumeRefresh(c) \/ RequestDelete(c)
    <2>1. UNCHANGED <<wk, refunds, task, finalObject, sourceObject, queue>> /\ cl[c].pc # "dropRow"
      BY <1>3 DEF RequestPause, SetPauseRequest, RequestResume, ResumeClearKeys, ResumeRefresh,
         RequestDelete
    <2>2. RequestInTurn(c)'
      <3>1. CASE RequestPause(c) \/ SetPauseRequest(c) \/ ResumeClearKeys(c)
        <4>1. \E pc \in {"flag", "idle", "commit"} : ClientGoto(c, pc) /\ (pc = "commit" => cl[c].pc = "clearKeys")
          BY <3>1 DEF RequestPause, SetPauseRequest, ResumeClearKeys
        <4>2. /\ cl'[c].pc \in {"flag", "idle", "commit"}
              /\ cl'[c].pc = "commit" => cl[c].pc = "clearKeys"
          BY <1>1, <4>1 DEF ClientGoto, ClientState
        <4> QED
          BY <1>2, <2>1, <4>2 DEF RequestInTurn
      <3>2. CASE RequestResume(c)
        <4>1. cl'[c].pc = "clearKeys" /\ task.status = "paused"
          BY <1>1, <3>2 DEF RequestResume, Resumable, ClientState
        <4> QED
          BY <2>1, <4>1 DEF RequestInTurn
      <3>3. CASE ResumeRefresh(c)
        <4>1. cl'[c].pc = "commit" /\ cl[c].pc = "commit"
          BY <1>1, <3>3 DEF ResumeRefresh, ClientState
        <4> QED
          BY <1>2, <2>1, <4>1 DEF RequestInTurn
      <3>4. CASE RequestDelete(c)
        <4>1. cl'[c].pc = "forget" /\ task.status \in Settled
          BY <1>1, <3>4 DEF RequestDelete, ClientState, Settled
        <4> QED
          BY <2>1, <4>1 DEF RequestInTurn
      <3> QED
        BY <1>3, <3>1, <3>2, <3>3, <3>4
    <2> QED
      BY <2>1, <2>2 DEF LeavesRow
  <1>4. CASE ResumeCommit(c)
    <2>1. task.status = "paused" /\ cl[c].gen = task.gen /\ cl[c].pc = "commit"
      BY <1>2, <1>4 DEF ResumeCommit, RequestInTurn, RequestUpToDate
    <2>2. /\ task' = [task EXCEPT !.status = "pending", !.gen = cl[c].gen + 1,
                                  !.resumable = FALSE, !.quiet = FALSE]
          /\ ClientGoto(c, "dispatch") /\ UNCHANGED <<wk, refunds, finalObject, sourceObject, queue>>
      BY <1>4, <2>1 DEF ResumeCommit, NextGeneration
    <2>3. task'.status = "pending" /\ task'.gen = task.gen + 1 /\ task'.source = task.source
      BY <1>1, <2>1, <2>2 DEF Row
    <2>4. cl'[c].pc = "dispatch"
      BY <1>1, <2>2 DEF ClientGoto, ClientState
    <2> QED
      BY <2>1, <2>2, <2>3, <2>4 DEF Takes
  <1>5. CASE ResumeDispatch(c)
    <2>1. /\ task.status = "pending" /\ cl[c].gen + 1 = task.gen /\ NewGeneration
          /\ cl[c].pc = "dispatch"
      BY <1>2, <1>5 DEF ResumeDispatch, RequestInTurn, RequestUpToDate
    <2>2. UNCHANGED <<wk, refunds, finalObject, sourceObject>> /\ cl'[c].pc = "idle"
      BY <1>1, <1>5 DEF ResumeDispatch, IdleClient
    <2>3. CASE Send(NextGeneration(c), cl[c].stage) /\ UNCHANGED task
      <3>1. \A m \in queue' : m \in queue \/ (m.gen = task.gen /\ m.start # NoStart)
        BY <1>1, <2>1, <2>3 DEF Send, NextGeneration, NoStart
      <3>2. RequestInTurn(c)'
        BY <2>2 DEF RequestInTurn
      <3> QED
        BY <2>1, <2>2, <2>3, <3>1, <3>2 DEF LeavesRow
    <2>4. CASE task' = [task EXCEPT !.status = "paused"] /\ UNCHANGED queue
      <3>1. task'.status = "paused" /\ task'.gen = task.gen /\ task'.source = task.source
        BY <1>1, <2>4 DEF Row
      <3> QED
        BY <1>1, <2>1, <2>2, <2>4, <3>1 DEF TakesBack
    <2> QED
      BY <1>5, <2>1, <2>3, <2>4 DEF ResumeDispatch
  <1>6. CASE DeleteClearKeys(c)
    <2>1. UNCHANGED <<wk, refunds, task, queue>> /\ cl[c].pc = "forget"
      BY <1>6 DEF DeleteClearKeys
    <2>2. finalObject' = finalObject \/ finalObject' = FALSE
      <3>1. finalObject \in BOOLEAN /\ cl[c].output \in BOOLEAN
        BY <1>1 DEF TypeInv, TypeOK, ClientState
      <3>2. finalObject' = (finalObject /\ ~cl[c].output)
        BY <1>6 DEF DeleteClearKeys
      <3> QED
        BY <3>1, <3>2, Zenon
    <2>3. cl'[c].pc = "dropRow"
      BY <1>1, <1>6 DEF DeleteClearKeys, ClientGoto, ClientState
    <2>4. RequestInTurn(c)'
      BY <1>2, <2>1, <2>3 DEF RequestInTurn
    <2> QED
      BY <2>1, <2>2, <2>3, <2>4 DEF LeavesRow
  <1>7. CASE DeleteRow(c)
    <2>1. /\ UNCHANGED <<wk, refunds, finalObject, queue>> /\ cl[c].pc = "dropRow"
          /\ task' = [task EXCEPT !.status = "deleted"]
      BY <1>7 DEF DeleteRow
    <2>2. task'.status = "deleted" /\ task'.gen = task.gen /\ task'.source = task.source
      BY <1>1, <2>1 DEF Row
    <2>3. cl'[c].pc = "idle"
      BY <1>1, <1>7 DEF DeleteRow, IdleClient
    <2> QED
      BY <1>2, <2>1, <2>2, <2>3 DEF Drops, RequestInTurn
  <1> QED
    BY <1>3, <1>4, <1>5, <1>6, <1>7 DEF ClientStep

LEMMA RequestLife ==
  ASSUME TypeInv, GenerationInv, OneRequest, InLife, NEW c \in Clients, ClientStep(c)
  PROVE  InLife'
  <1>1. \A d \in Clients : d = c
    BY DEF OneRequest
  <1>2. /\ UNCHANGED <<wk, refunds>> /\ task'.source = task.source
        /\ finalObject' = finalObject \/ finalObject' = FALSE
        /\ LeavesRow(c) \/ Takes(c) \/ TakesBack(c) \/ Drops(c)
    BY RequestStep
  <1>3. BooksKept /\ (\A w \in Workers : InTurn(w)) /\ \A m \in queue : Fresh(m)
    BY DEF InLife
  <1>4. CASE LeavesRow(c)
    <2>1. \A m \in queue' : Fresh(m)'
      BY <1>2, <1>3, <1>4 DEF LeavesRow, Fresh
    <2>2. \A w \in Workers : InTurn(w)'
      BY <1>2, <1>3, <1>4 DEF LeavesRow, InTurn, Starting, Executing, At, Fresh
    <2>3. BooksKept'
      BY <1>1, <1>2, <1>3, <1>4 DEF LeavesRow, BooksKept, Dropping
    <2> QED
      BY <1>1, <1>4, <2>1, <2>2, <2>3 DEF LeavesRow, InLife
  \* The other three act on a row nobody is on duty for.
  <1>5. CASE Takes(c) \/ TakesBack(c) \/ Drops(c)
    <2>1. queue' = queue /\ RequestInTurn(c)'
      BY <1>5 DEF Takes, TakesBack, Drops, RequestInTurn
    <2>2. (\A w \in Workers : ~OnDuty(w)) /\ queue = {}
      <3>1. CASE Takes(c) \/ Drops(c)
        BY <1>3, <3>1 DEF Takes, Drops, Settled, BLOCKED_STATUSES, InTurn, OnDuty, Fresh
      <3>2. CASE TakesBack(c)
        <4>1. \A m \in Outstanding : m.gen # task.gen
          <5>1. task.gen \in Nat
            BY DEF TypeInv, TypeOK, Row
          <5> QED
            BY <3>2, <5>1 DEF TakesBack, NewGeneration
        <4>2. queue = {}
          BY <1>3, <4>1 DEF Fresh, Outstanding
        <4>3. \A w \in Workers : OnDuty(w) => wk[w].msg \in Outstanding
          BY DEF OnDuty, Starting, Executing, Outstanding, At
        <4> QED
          BY <1>3, <4>1, <4>2, <4>3 DEF OnDuty, InTurn, Fresh
      <3> QED
        BY <1>5, <3>1, <3>2
    <2>3. \A w \in Workers : InTurn(w)'
      BY <1>2, <1>3, <1>5, <2>2 DEF OnDuty, InTurn, Starting, Executing, At, Takes, TakesBack, Drops
    <2>4. BooksKept'
      BY <1>1, <1>2, <1>3, <1>5 DEF Takes, TakesBack, Drops, BooksKept, Dropping
    <2> QED
      BY <1>1, <2>1, <2>2, <2>3, <2>4 DEF InLife
  <1> QED
    BY <1>2, <1>4, <1>5

\* What neither a run nor a request does leaves the life of the task alone.
LEMMA QuietStep ==
  ASSUME TypeInv, OneRequest,
         \/ \E w \in Workers : HelperTick(w) \/ HelperDies(w)
         \/ TimePasses \/ UNCHANGED vars
  PROVE  /\ UNCHANGED <<queue, cl, finalObject, sourceObject, refunds>>
         /\ task'.status = task.status /\ task'.gen = task.gen /\ task'.source = task.source
         /\ \A w \in Workers : wk'[w].pc = wk[w].pc /\ wk'[w].msg = wk[w].msg
  <1>1. wk \in [Workers -> WorkerState] /\ task \in Row /\ Scanners = {}
    BY DEF TypeInv, TypeOK, OneRequest
  <1>2. CASE \E w \in Workers : HelperTick(w) \/ HelperDies(w)
    BY <1>1, <1>2 DEF HelperTick, HelperDies, WorkerState
  <1>3. CASE TimePasses \/ UNCHANGED vars
    BY <1>1, <1>3 DEF TimePasses, LockExpires, HeartbeatExpires, GoesQuiet, SuspicionAges,
       GuardExpires, ReapLockExpires, PauseRequestExpires, vars, Row
  <1> QED
    BY <1>2, <1>3

LEMMA LifeStep ==
  ASSUME OneRequest, TypeInv, GenerationInv, HeldOnce, LifeInv, [Next]_vars
  PROVE  LifeInv'
  <1> SUFFICES ASSUME Once' PROVE InLife'
    BY DEF LifeInv
  <1>1. /\ Once
        /\ \A w \in Workers : ~Crash(w) /\ ~Redeliver(w)
        /\ \A c \in Clients : ~RequestDies(c)
    BY OnceBefore
  <1>2. InLife
    BY <1>1 DEF LifeInv
  <1>3. CASE \E w \in Workers : Deliver(w) \/ WorkerStep(w)
    BY <1>1, <1>2, <1>3, DeliverLife, DutyLife, OffDutyLife
  <1>4. CASE \E c \in Clients : ClientStep(c)
    BY <1>2, <1>4, RequestLife
  <1>5. CASE \/ \E w \in Workers : HelperTick(w) \/ HelperDies(w)
             \/ TimePasses \/ UNCHANGED vars
    BY <1>2, <1>5, QuietStep, LifeFrame
  <1> QED
    BY <1>1, <1>3, <1>4, <1>5 DEF Next, OneRequest

LEMMA InitLife == Init => LifeInv
  <1> SUFFICES ASSUME Init PROVE InLife
    BY DEF LifeInv
  <1>1. \A m \in queue : Fresh(m)
    BY DEF Init, Fresh
  <1>2. \A w \in Workers : InTurn(w)
    BY DEF Init, IdleWorker, InTurn, Starting, Executing, At
  <1>3. \A c \in Clients : RequestInTurn(c)
    BY DEF Init, IdleClient, RequestInTurn
  <1> QED
    BY <1>1, <1>2, <1>3 DEF Init, BooksKept, InLife

Orderly == TypeInv /\ GenerationInv /\ HeldOnce /\ LifeInv

LEMMA OrderlyStep == OneRequest /\ Orderly /\ [Next]_vars => Orderly'
  BY NextType, NextGenerations, HeldStep, LifeStep DEF Orderly, OneRequest, OneWriter

LEMMA SpecOrderly == ASSUME OneRequest PROVE Spec => []Orderly
  <1>1. Init => Orderly
    BY InitType, InitGeneration, InitHeld, InitLife DEF Orderly
  <1> QED
    BY <1>1, OrderlyStep, PTL DEF Spec

\* A pause the owner asked for is never lost: the run that has consumed the
\* request still finds its own row processing when it comes to pause it.
THEOREM ConsumedPauseLands == ASSUME OneRequest PROVE Spec => [](Once => PauseLands)
  <1>1. Orderly => (Once => PauseLands)
    <2> SUFFICES ASSUME Orderly, Once, NEW w \in Workers, wk[w].pc \in {"unflag", "pause"}
                 PROVE  task.status = "processing" /\ wk[w].msg.gen = task.gen
      BY DEF PauseLands
    <2> QED
      BY DEF Orderly, LifeInv, InLife, InTurn, Executing
  <1> QED
    BY <1>1, SpecOrderly, PTL

\* The quota comes back exactly once, and only for a task that ends failed.
THEOREM RefundOnce == ASSUME OneRequest PROVE Spec => [](Once => RefundedIffFailed)
  <1>1. Orderly => (Once => RefundedIffFailed)
    BY DEF Orderly, LifeInv, InLife, BooksKept, RefundedIffFailed
  <1> QED
    BY <1>1, SpecOrderly, PTL

\* A task that runs or will run has its recording, in the row and in the store,
\* and a paused one has it until a delete_task that is about to drop the row
\* has deleted it: no run and no clean-up takes it, however late. It needs one
\* request at a time, since a resume beside a delete runs without the recording,
\* and that no process dies, since a request that does may leave the row behind.
THEOREM SourceOfUnfinished == ASSUME OneRequest PROVE Spec => [](Once => SourceKept)
  <1>1. Orderly => (Once => SourceKept)
    <2> SUFFICES ASSUME TypeInv, InLife PROVE SourceKept
      BY DEF Orderly, LifeInv
    <2>1. task.source \in BOOLEAN /\ sourceObject \in BOOLEAN
      BY DEF TypeInv, TypeOK, Row
    <2>2. Dropping => task.status \in Settled
      BY DEF InLife, RequestInTurn, Dropping
    <2> QED
      BY <2>1, <2>2 DEF InLife, BooksKept, SourceKept, Unfinished, Settled, BLOCKED_STATUSES
  <1> QED
    BY <1>1, SpecOrderly, PTL

-----------------------------------------------------------------------------
(* The implementation of TaskLifecycle                                     *)

LEMMA WorkerLifecycle ==
  ASSUME Orderly, Once, NEW w \in Workers, WorkerStep(w)
  PROVE  Lifecycle!Next \/ UNCHANGED <<task.status, task.gen, refunds>>
  <1>1. TypeInv /\ InLife
    BY DEF Orderly, LifeInv
  <1>2. CASE OnDuty(w)
    <2>1. /\ task'.gen = task.gen
          /\ GoesOn(w) \/ Starts(w) \/ Ends(w)
      BY <1>1, <1>2, DutyStep DEF InLife
    <2>2. CASE GoesOn(w)
      BY <2>1, <2>2 DEF GoesOn
    <2>3. CASE Starts(w)
      BY <2>1, <2>3 DEF Starts, Lifecycle!Next, Lifecycle!Start
    <2>4. CASE Ends(w)
      BY <2>1, <2>4 DEF Ends, Lifecycle!Next, Lifecycle!Complete, Lifecycle!Fail, Lifecycle!Pause
    <2> QED
      BY <2>1, <2>2, <2>3, <2>4
  <1>3. CASE ~OnDuty(w)
    BY <1>1, <1>3, OffDutyStep
  <1> QED
    BY <1>2, <1>3

LEMMA RequestLifecycle ==
  ASSUME Orderly, Once, NEW c \in Clients, ClientStep(c)
  PROVE  Lifecycle!Next \/ UNCHANGED <<task.status, task.gen, refunds>>
  <1>1. TypeInv /\ GenerationInv /\ InLife
    BY DEF Orderly, LifeInv
  <1>2. /\ refunds' = refunds
        /\ LeavesRow(c) \/ Takes(c) \/ TakesBack(c) \/ Drops(c)
    BY <1>1, RequestStep
  <1>3. CASE LeavesRow(c)
    BY <1>2, <1>3 DEF LeavesRow
  <1>4. CASE Takes(c)
    BY <1>2, <1>4 DEF Takes, Lifecycle!Next, Lifecycle!Resume
  <1>5. CASE TakesBack(c)
    BY <1>2, <1>5 DEF TakesBack, Lifecycle!Next, Lifecycle!TakeBack
  <1>6. CASE Drops(c)
    BY <1>2, <1>6 DEF Drops, Settled, BLOCKED_STATUSES, Lifecycle!Next, Lifecycle!Delete
  <1> QED
    BY <1>2, <1>3, <1>4, <1>5, <1>6

\* While no process dies and no message comes twice, the row goes through the
\* life TaskLifecycle promises: one start for each generation, one end, one
\* refund for each failure, and nothing from an earlier run.
THEOREM ImplementsLifecycle ==
  ASSUME OneRequest, MaxCrashes = 0, MaxRedeliveries = 0
  PROVE  Spec => FollowsLifecycle
  <1>1. (TypeInv => Once) /\ (TypeInv' => Once')
    BY TaskRunAssumption DEF TypeInv, TypeOK, FaultCount, Once
  <1>2. Init => Lifecycle!Init
    BY DEF Init, Lifecycle!Init
  <1>3. Orderly /\ Orderly' /\ [Next]_vars => [Lifecycle!Next]_<<task.status, task.gen, refunds>>
    <2> SUFFICES ASSUME Orderly, Orderly', [Next]_vars
                 PROVE  Lifecycle!Next \/ UNCHANGED <<task.status, task.gen, refunds>>
      OBVIOUS
    <2>1. TypeInv /\ Once /\ Once'
      BY <1>1, NextType DEF Orderly
    <2>2. /\ \A w \in Workers : ~Crash(w) /\ ~Redeliver(w)
          /\ \A c \in Clients : ~RequestDies(c)
      BY <2>1, OnceBefore
    <2>3. CASE \E w \in Workers : Deliver(w)
      BY <2>3 DEF Deliver
    <2>4. CASE \E w \in Workers : WorkerStep(w)
      BY <2>1, <2>4, WorkerLifecycle
    <2>5. CASE \E c \in Clients : ClientStep(c)
      BY <2>1, <2>5, RequestLifecycle
    <2>6. CASE \/ \E w \in Workers : HelperTick(w) \/ HelperDies(w)
               \/ TimePasses \/ UNCHANGED vars
      BY <2>1, <2>6, QuietStep
    <2> QED
      BY <2>2, <2>3, <2>4, <2>5, <2>6 DEF Next, OneRequest
  <1> QED
    BY <1>2, <1>3, SpecOrderly, PTL DEF Spec, FollowsLifecycle, Lifecycle!Spec, Lifecycle!lifecycle

-----------------------------------------------------------------------------
(* Runs and the reconciler                                                 *)

\* With scans a run may be overtaken by another generation, so what the status
\* owes a run it owes only to a run of the row's generation.
Leading(w) == wk[w].msg.gen = task.gen

InOrder(w) ==
  /\ Starting(w) /\ Leading(w) /\ wk[w].msg.start = NoStart => task.status \in Unfinished
  /\ At(w, "output") => wk[w].msg.start = NoStart
  /\ At(w, "process") /\ ~wk[w].force => wk[w].msg.start = NoStart
  /\ Executing(w) /\ Leading(w) => task.status \in Unfinished

\* What a scan that has advanced the generation relies on: no message is of
\* that generation yet. MaxGen + 1 is never sent.
ScanInOrder(s) ==
  /\ rec[s].pc = "giveUp" => NewGeneration
  /\ rec[s].pc \in {"setGuard", "send"} => rec[s].gen + 1 <= MaxGen

InScans ==
  /\ \A m \in queue : m.gen = task.gen /\ m.start = NoStart => task.status \in Unfinished
  /\ \A m \in Outstanding : m.gen <= MaxGen
  /\ \A w \in Workers : InOrder(w)
  /\ \A s \in Scanners : ScanInOrder(s)

ScanInv == Once => InScans

OneScan == Clients = {} /\ \A s, t \in Scanners : s = t

\* No other run and no message is of the generation of a leading run.
LEMMA LeadsAlone ==
  ASSUME GenerationInv, HeldOnce, Once, NEW w \in Workers, Busy(w), Leading(w)
  PROVE  /\ \A m \in queue : m.gen # task.gen
         /\ \A v \in Workers : v # w /\ Busy(v) => ~Leading(v)
  <1>1. \A v \in Workers : Busy(v) => wk[v].msg \in Outstanding
    BY DEF Busy, Outstanding, At
  <1>2. \A m \in Outstanding : m.gen = task.gen => m = wk[w].msg
    BY <1>1 DEF GenerationInv, OneMessagePerGeneration, Leading
  <1>3. \A m \in queue : m \in Outstanding
    BY DEF Outstanding
  <1> QED
    BY <1>1, <1>2, <1>3 DEF HeldOnce, Leading

\* A step of a run of any generation.
LEMMA RunStep ==
  ASSUME TypeInv, NEW w \in Workers, WorkerStep(w), InOrder(w)
  PROVE  /\ At(w, "output")' => wk[w].msg.start = NoStart
         /\ At(w, "process")' /\ ~wk'[w].force => wk[w].msg.start = NoStart
  <1>1. wk \in [Workers -> WorkerState] /\ wk[w] \in WorkerState
    BY DEF TypeInv, TypeOK
  <1>2. Follows(wk[w].pc, wk'[w].pc)
    BY WorkerMoves DEF Moves
  <1>3. CASE TakeSnapshot(w)
    <2> DEFINE m == wk[w].msg
    <2>1. CASE Current(w) /\ ~Skips(m)
      <3> DEFINE force == m.start # NoStart \/ ResumesFailed \/ m.force
      <3>1. wk' = [wk EXCEPT ![w].pc = IF m.start = NoStart THEN "output" ELSE "process",
                             ![w].stage = FirstStage(m), ![w].force = force]
        BY <1>3, <2>1 DEF TakeSnapshot
      <3>2. /\ wk'[w].pc = IF m.start = NoStart THEN "output" ELSE "process"
            /\ wk'[w].force <=> force
        BY <1>1, <3>1 DEF WorkerState
      <3> QED
        BY <3>2 DEF At
    <2>2. CASE ~(Current(w) /\ ~Skips(m))
      <3>1. Goto(w, "finally")
        BY <1>3, <2>2 DEF TakeSnapshot
      <3> QED
        BY <3>1, GotoDoes DEF At
    <2> QED
      BY <2>1, <2>2
  <1>4. CASE ~TakeSnapshot(w) /\ wk[w].pc = "snapshot"
    BY <1>4 DEF WorkerStep, CheckGeneration, Acquire, ClearDispatchGuard, LookForFinalOutput,
       MarkProcessing, Preflight, Boundary, ConsumePauseRequest, EnsureOwnership, StageHook,
       StageReports, StageEnds, MarkCompleted, MarkFailed, MarkPaused, ClearKeys,
       CleanupArtifacts, Release, Ack, At
  <1>5. CASE wk[w].pc # "snapshot"
    <2>1. wk'[w].pc # "output" /\ (wk'[w].pc = "process" => wk[w].pc = "output")
      BY <1>2, <1>5 DEF Follows
    <2>2. wk[w].pc = "output" => wk[w].msg.start = NoStart
      BY DEF InOrder, At
    <2> QED
      BY <2>1, <2>2 DEF At
  <1> QED
    BY <1>3, <1>4, <1>5

\* A step of a leading run: it starts no settled task but one it is forced to,
\* and leaves none it goes on with settled.
LEMMA LeadingStep ==
  ASSUME TypeInv, NEW w \in Workers, WorkerStep(w), InOrder(w), Leading(w)
  PROVE  /\ Starting(w)' /\ wk[w].msg.start = NoStart => task'.status \in Unfinished
         /\ Executing(w)' => task'.status \in Unfinished
  <1>1. wk \in [Workers -> WorkerState] /\ wk[w] \in WorkerState /\ task \in Row
    BY DEF TypeInv, TypeOK
  <1>2. Follows(wk[w].pc, wk'[w].pc)
    BY WorkerMoves DEF Moves
  <1>3. CASE \/ CheckGeneration(w) \/ Acquire(w) \/ ClearDispatchGuard(w) \/ TakeSnapshot(w)
             \/ LookForFinalOutput(w)
    <2>1. UNCHANGED task /\ Starting(w)
      BY <1>3 DEF CheckGeneration, Acquire, ClearDispatchGuard, TakeSnapshot,
         LookForFinalOutput, Starting, At
    <2>2. Executing(w)' => wk[w].pc = "output"
      <3>1. wk[w].pc # "process"
        BY <1>3 DEF CheckGeneration, Acquire, ClearDispatchGuard, TakeSnapshot,
           LookForFinalOutput, At
      <3> QED
        BY <1>2, <2>1, <3>1 DEF Follows, Starting, Executing
    <2> QED
      BY <2>1, <2>2 DEF InOrder, At
  <1>4. CASE MarkProcessing(w)
    <2>1. Starting(w) /\ wk[w].pc = "process"
      BY <1>4 DEF MarkProcessing, Starting, At
    <2>2. ~Starting(w)'
      BY <1>2, <2>1 DEF Follows, Starting
    <2>3. CASE ~Current(w)
      <3>1. Goto(w, "finally")
        BY <1>4, <2>3 DEF MarkProcessing
      <3> QED
        BY <2>2, <3>1, GotoDoes DEF Executing
    <2>4. CASE Current(w)
      <3>1. ~(task.status \in TERMINAL_STATUSES /\ ~wk[w].force)
        BY <2>1 DEF InOrder, At, Unfinished, TERMINAL_STATUSES
      <3>2. \E output : task' = [task EXCEPT !.status = "processing", !.resumable = FALSE,
                                             !.output = output, !.quiet = FALSE]
        BY <1>4, <2>4, <3>1 DEF MarkProcessing
      <3> QED
        BY <1>1, <2>2, <3>2 DEF Row, Unfinished
    <2> QED
      BY <2>3, <2>4
  <1>5. CASE \/ Preflight(w) \/ Boundary(w) \/ ConsumePauseRequest(w) \/ EnsureOwnership(w)
             \/ StageReports(w) \/ StageEnds(w)
    <2>1. UNCHANGED task /\ Executing(w)
      BY <1>5 DEF Preflight, Boundary, ConsumePauseRequest, EnsureOwnership, StageReports,
         StageEnds, Executing, At
    <2> QED
      BY <2>1 DEF InOrder
  <1>6. CASE StageHook(w)
    <2>1. task.status \in Unfinished
      BY <1>6 DEF StageHook, Executing, At, InOrder
    <2>2. task' = task \/ task' = [task EXCEPT !.status = "processing", !.stage = wk[w].stage, !.quiet = FALSE]
      BY <1>6 DEF StageHook
    <2> QED
      BY <1>1, <2>1, <2>2 DEF Row, Unfinished
  <1>7. CASE \/ MarkCompleted(w) \/ MarkFailed(w) \/ MarkPaused(w)
             \/ ClearKeys(w) \/ CleanupArtifacts(w) \/ Release(w) \/ Ack(w)
    <2>1. wk[w].pc \in {"complete", "fail", "pause", "clear", "clearDone", "cleanup", "finally", "ack"}
      BY <1>7 DEF MarkCompleted, MarkFailed, MarkPaused, ClearKeys, CleanupArtifacts, Release, Ack, At
    <2> QED
      BY <1>2, <2>1 DEF Follows, Starting, Executing
  <1> QED
    BY <1>3, <1>4, <1>5, <1>6, <1>7 DEF WorkerStep

\* Workers send nothing, so a scan's new generation stays new.
LEMMA WorkersInOrder ==
  ASSUME TypeInv, GenerationInv, HeldOnce, Once, InScans,
         NEW w \in Workers, WorkerStep(w)
  PROVE  InScans'
  <1>1. Outstanding' \subseteq Outstanding /\ UNCHANGED rec /\ task'.gen = task.gen
    BY WorkersSendNothing
  <1>2. /\ \A v \in Workers : v # w => wk'[v] = wk[v]
        /\ wk'[w].pc # "idle" => wk'[w].msg = wk[w].msg
        /\ UNCHANGED queue
        /\ Busy(w)
    BY WorkerMoves DEF Moves, Follows, Busy
  <1>3. (\A m \in Outstanding' : m.gen <= MaxGen) /\ \A s \in Scanners : ScanInOrder(s)'
    BY <1>1 DEF InScans, ScanInOrder, NewGeneration
  <1>4. /\ wk'[w].pc = "output" => wk[w].msg.start = NoStart
        /\ wk'[w].pc = "process" /\ ~wk'[w].force => wk[w].msg.start = NoStart
    BY RunStep DEF InScans, At
  <1>5. CASE Leading(w)
    <2>1. /\ Starting(w)' /\ wk[w].msg.start = NoStart => task'.status \in Unfinished
          /\ Executing(w)' => task'.status \in Unfinished
      BY <1>5, LeadingStep DEF InScans
    <2>2. /\ \A m \in queue : m.gen # task.gen
          /\ \A v \in Workers : v # w /\ Busy(v) => ~Leading(v)
      BY <1>2, <1>5, LeadsAlone
    <2>3. InOrder(w)'
      BY <1>2, <1>4, <2>1 DEF InOrder, At, Starting, Executing
    <2>4. \A v \in Workers : v # w => InOrder(v)'
      BY <1>1, <1>2, <2>2 DEF InScans, InOrder, Leading, Busy, Starting, Executing, At
    <2>5. \A m \in queue' : m.gen # task'.gen
      BY <1>1, <1>2, <2>2
    <2> QED
      BY <1>3, <2>3, <2>4, <2>5 DEF InScans
  <1>6. CASE ~Leading(w)
    <2>1. task'.status = task.status
      BY <1>6, WorkerStepFenced DEF Leading, Fenced
    <2>2. InOrder(w)'
      BY <1>1, <1>2, <1>4, <1>6 DEF InOrder, Leading, At, Starting, Executing
    <2>3. \A v \in Workers : v # w => InOrder(v)'
      BY <1>1, <1>2, <2>1 DEF InScans, InOrder, Leading, Starting, Executing, At
    <2>4. \A m \in queue' : m.gen = task'.gen /\ m.start = NoStart => task'.status \in Unfinished
      BY <1>1, <1>2, <2>1 DEF InScans
    <2> QED
      BY <1>3, <2>2, <2>3, <2>4 DEF InScans
  <1> QED
    BY <1>5, <1>6

LEMMA DeliverInOrder ==
  ASSUME TypeInv, InScans, NEW w \in Workers, Deliver(w)
  PROVE  InScans'
  <1>1. Outstanding' \subseteq Outstanding /\ UNCHANGED rec /\ task'.gen = task.gen
    BY WorkersSendNothing
  <1>2. /\ \A v \in Workers : v # w => wk'[v] = wk[v]
        /\ wk'[w].pc = "received" /\ wk'[w].msg \in queue /\ queue' \subseteq queue
    BY WorkerMeets
  <1>3. UNCHANGED task
    BY DEF Deliver
  <1>4. (\A m \in Outstanding' : m.gen <= MaxGen) /\ \A s \in Scanners : ScanInOrder(s)'
    BY <1>1 DEF InScans, ScanInOrder, NewGeneration
  <1>5. InOrder(w)'
    BY <1>2, <1>3 DEF InScans, InOrder, Leading, Starting, Executing, At
  <1>6. \A v \in Workers : v # w => InOrder(v)'
    BY <1>2, <1>3 DEF InScans, InOrder, Leading, Starting, Executing, At
  <1> QED
    BY <1>2, <1>3, <1>4, <1>5, <1>6 DEF InScans

LEMMA QuietInOrder ==
  ASSUME TypeInv, InScans,
         \/ \E w \in Workers : HelperTick(w) \/ HelperDies(w)
         \/ TimePasses \/ UNCHANGED vars
  PROVE  InScans'
  <1>1. wk \in [Workers -> WorkerState] /\ task \in Row
    BY DEF TypeInv, TypeOK
  <1>2. /\ UNCHANGED <<queue, rec>> /\ task'.status = task.status /\ task'.gen = task.gen
        /\ \A w \in Workers : /\ wk'[w].pc = wk[w].pc /\ wk'[w].msg = wk[w].msg
                              /\ wk'[w].force = wk[w].force
    <2>1. CASE \E w \in Workers : HelperTick(w) \/ HelperDies(w)
      BY <1>1, <2>1 DEF HelperTick, HelperDies, WorkerState
    <2>2. CASE TimePasses \/ UNCHANGED vars
      BY <1>1, <2>2 DEF TimePasses, LockExpires, HeartbeatExpires, GoesQuiet, SuspicionAges,
         GuardExpires, ReapLockExpires, PauseRequestExpires, vars, Row
    <2> QED
      BY <2>1, <2>2
  <1>3. Outstanding' = Outstanding
    BY <1>2 DEF Outstanding, At
  <1>4. \A w \in Workers : InOrder(w)'
    BY <1>2 DEF InScans, InOrder, Leading, Starting, Executing, At
  <1>5. \A s \in Scanners : ScanInOrder(s)'
    BY <1>2, <1>3 DEF InScans, ScanInOrder, NewGeneration
  <1> QED
    BY <1>2, <1>3, <1>4, <1>5 DEF InScans

\* A step after which no message is of the row's generation.
LEMMA NewlyInOrder ==
  ASSUME TypeInv, InScans, UNCHANGED <<queue, wk>>, NewGeneration',
         \A s \in Scanners : rec'[s].pc \in {"setGuard", "send"} => rec'[s].gen + 1 <= MaxGen
  PROVE  InScans'
  <1>1. Outstanding' = Outstanding
    BY OutstandingFrame
  <1>3. \A m \in Outstanding : m.gen < task'.gen
    BY <1>1 DEF NewGeneration
  <1>4. \A m \in Outstanding : m.gen \in Nat
    BY DEF Outstanding, TypeInv, TypeOK, BusyHasMessage, At, Message
  <1>5. \A m \in Outstanding : m.gen # task'.gen
    BY <1>3, <1>4
  <1>6. \A w \in Workers : ~At(w, "idle") => ~Leading(w)'
    BY <1>5 DEF Outstanding, Leading
  <1>7. \A w \in Workers : InOrder(w)'
    BY <1>6 DEF InScans, InOrder, Leading, Starting, Executing, At
  <1>8. \A m \in queue' : m.gen # task'.gen
    BY <1>5 DEF Outstanding
  <1>9. \A s \in Scanners : ScanInOrder(s)'
    BY DEF ScanInOrder
  <1> QED
    BY <1>1, <1>7, <1>8, <1>9 DEF InScans

\* Only advancing the generation, and giving the task up in it, changes the
\* row: no run leads then.
LEMMA ScanStepInOrder ==
  ASSUME TypeInv, GenerationInv, OneScan, InScans, NEW s \in Scanners, ScanStep(s)
  PROVE  InScans'
  <1>1. /\ task \in Row /\ rec \in [Scanners -> ScannerState] /\ rec[s] \in ScannerState
        /\ rec[s].gen \in Nat /\ rec[s].stage \in Nat /\ task.gen \in Nat /\ MaxGen \in Nat
    BY TaskRunAssumption DEF TypeInv, TypeOK, Row, ScannerState, Stage
  <1>2. wk' = wk /\ \A t \in Scanners : t = s
    BY OthersLeaveWorkers DEF OneScan
  <1>3. ScanInOrder(s) /\ ScanUpToDate(s) /\ MessagesBehind
    BY DEF InScans, GenerationInv
  <1>4. \A m \in Outstanding : m.gen \in Nat /\ m.gen <= MaxGen
    BY DEF InScans, Outstanding, TypeInv, TypeOK, BusyHasMessage, At, Message
  <1>5. CASE AdvanceGeneration(s)
    <2> DEFINE capped == redis.resumes >= MaxAutoResumes \/ ~rec[s].source
               next == rec[s].gen + 1
    <2>1. UNCHANGED queue /\ rec[s].gen = task.gen /\ (next <= MaxGen \/ capped)
      BY <1>3, <1>5 DEF AdvanceGeneration, ScanUpToDate
    <2>2. CASE task.status = "deleted"
      <3>1. UNCHANGED task /\ rec'[s].pc = "idle"
        BY <1>1, <1>5, <2>2 DEF AdvanceGeneration, ScanEnds, IdleScanner
      <3>2. Outstanding' = Outstanding
        BY <1>2, <2>1, OutstandingFrame
      <3>3. \A w \in Workers : InOrder(w)'
        BY <1>2, <3>1 DEF InScans, InOrder, Leading, Starting, Executing, At
      <3> QED
        BY <1>2, <2>1, <3>1, <3>2, <3>3 DEF InScans, ScanInOrder
    <2>3. CASE task.status # "deleted"
      <3>1. task' = [task EXCEPT !.gen = IF next <= MaxGen THEN next ELSE MaxGen + 1]
        BY <1>5, <2>3 DEF AdvanceGeneration
      <3>2. task'.gen = IF next <= MaxGen THEN next ELSE MaxGen + 1
        BY <1>1, <3>1 DEF Row
      <3>3. \A m \in Outstanding : m.gen < task'.gen
        BY <1>1, <1>3, <1>4, <2>1, <3>2 DEF MessagesBehind
      <3>4. NewGeneration'
        BY <1>2, <2>1, <3>3, OutstandingFrame DEF NewGeneration
      <3>5. ScanGoto(s, IF capped THEN "giveUp" ELSE "setGuard")
        BY <1>5, <2>3 DEF AdvanceGeneration
      <3>6. rec'[s].pc \in {"setGuard", "send"} => next <= MaxGen /\ rec'[s].gen = rec[s].gen
        BY <1>1, <2>1, <3>5 DEF ScanGoto, ScannerState
      <3> QED
        BY <1>2, <2>1, <3>4, <3>6, NewlyInOrder
    <2> QED
      BY <2>2, <2>3
  <1>6. CASE GiveUp(s)
    <2>1. NewGeneration /\ UNCHANGED queue
      BY <1>3, <1>6 DEF GiveUp, ScanInOrder
    <2>2. task' = task \/ task' = [task EXCEPT !.status = "failed", !.resumable = FALSE, !.quiet = FALSE]
      BY <1>6 DEF GiveUp
    <2>3. task'.gen = task.gen
      BY <1>1, <2>2 DEF Row
    <2>4. NewGeneration'
      BY <1>2, <2>1, <2>3, OutstandingFrame DEF NewGeneration
    <2>5. rec'[s].pc \in {"idle", "wipe"}
      BY <1>1, <1>6 DEF GiveUp, ScanGoto, ScanEnds, IdleScanner, ScannerState
    <2> QED
      BY <1>2, <2>1, <2>4, <2>5, NewlyInOrder
  <1>7. CASE Redispatch(s)
    <2>1. UNCHANGED task /\ rec[s].gen + 1 <= MaxGen /\ rec'[s].pc \in {"idle", "count"}
      BY <1>1, <1>3, <1>7 DEF Redispatch, ScanInOrder, ScanGoto, ScanEnds, IdleScanner, ScannerState
    <2>2. \A m \in queue' : m \in queue \/ (m.gen <= MaxGen /\ m.start # NoStart)
      BY <1>1, <1>7, <2>1 DEF Redispatch, Send, NoStart
    <2>3. \A m \in Outstanding' : m.gen <= MaxGen
      BY <1>2, <1>4, <2>2 DEF Outstanding, At
    <2>4. \A w \in Workers : InOrder(w)'
      BY <1>2, <2>1 DEF InScans, InOrder, Leading, Starting, Executing, At
    <2> QED
      BY <1>2, <2>1, <2>2, <2>3, <2>4 DEF InScans, ScanInOrder
  <1>8. CASE ~AdvanceGeneration(s) /\ ~GiveUp(s) /\ ~Redispatch(s)
    <2>1. UNCHANGED <<task, queue>>
      BY <1>8 DEF ScanStep, Scan, Observe, TakeReapLock, RecheckHeartbeat, RecheckLock,
         RecheckGuard, Recheck, GiveUpClearKeys, SetDispatchGuard, CountResume
    <2>2. /\ rec'[s].pc # "giveUp"
          /\ rec'[s].pc \in {"setGuard", "send"} => rec[s].pc = "setGuard" /\ rec'[s].gen = rec[s].gen
      <3>1. CASE Observe(s) \/ TakeReapLock(s) \/ RecheckHeartbeat(s) \/ RecheckLock(s)
                 \/ RecheckGuard(s) \/ GiveUpClearKeys(s) \/ CountResume(s)
        <4>1. redis.suspect \in {"none", "fresh", "confirmed"}
          BY DEF TypeInv, TypeOK, RuntimeKeys
        <4>2. ScanEnds(s) \/ \E pc \in {"reap", "heartbeat", "lock", "guard", "advance"} : ScanGoto(s, pc)
          BY <3>1, <4>1 DEF Observe, TakeReapLock, RecheckHeartbeat, RecheckLock,
             RecheckGuard, Recheck, GiveUpClearKeys, CountResume
        <4> QED
          BY <1>1, <4>2 DEF ScanEnds, ScanGoto, IdleScanner, ScannerState
      <3>2. CASE Scan(s) \/ SetDispatchGuard(s)
        BY <1>1, <3>2 DEF Scan, SetDispatchGuard, ScannerState
      <3> QED
        BY <1>8, <3>1, <3>2 DEF ScanStep
    <2>3. Outstanding' = Outstanding
      BY <1>2, <2>1, OutstandingFrame
    <2>4. \A w \in Workers : InOrder(w)'
      BY <1>2, <2>1 DEF InScans, InOrder, Leading, Starting, Executing, At
    <2>5. ScanInOrder(s)'
      BY <1>3, <2>2 DEF ScanInOrder
    <2> QED
      BY <1>2, <2>1, <2>3, <2>4, <2>5 DEF InScans
  <1> QED
    BY <1>5, <1>6, <1>7, <1>8

LEMMA ScanInvStep ==
  ASSUME OneScan, TypeInv, GenerationInv, HeldOnce, ScanInv, [Next]_vars
  PROVE  ScanInv'
  <1> SUFFICES ASSUME Once' PROVE InScans'
    BY DEF ScanInv
  <1>1. /\ Once
        /\ \A w \in Workers : ~Crash(w) /\ ~Redeliver(w)
        /\ \A s \in Scanners : ~ScanDies(s)
    BY OnceBefore
  <1>2. InScans
    BY <1>1 DEF ScanInv
  <1>3. CASE \E w \in Workers : Deliver(w) \/ WorkerStep(w)
    BY <1>1, <1>2, <1>3, DeliverInOrder, WorkersInOrder
  <1>4. CASE \E s \in Scanners : ScanStep(s)
    BY <1>2, <1>4, ScanStepInOrder
  <1>5. CASE \/ \E w \in Workers : HelperTick(w) \/ HelperDies(w)
             \/ TimePasses \/ UNCHANGED vars
    BY <1>2, <1>5, QuietInOrder
  <1> QED
    BY <1>1, <1>3, <1>4, <1>5 DEF Next, OneScan

LEMMA InitScans == Init => ScanInv
  <1> SUFFICES ASSUME Init PROVE InScans
    BY DEF ScanInv
  <1>1. Outstanding = queue
    BY DEF Init, Outstanding, At, IdleWorker
  <1>2. \A m \in queue : m.gen = 0 /\ MaxGen \in Nat
    BY TaskRunAssumption DEF Init
  <1>3. \A w \in Workers : InOrder(w)
    BY DEF Init, IdleWorker, InOrder, Starting, Executing, At
  <1>4. \A s \in Scanners : ScanInOrder(s)
    BY DEF Init, IdleScanner, ScanInOrder
  <1> QED
    BY <1>1, <1>2, <1>3, <1>4 DEF Init, InScans, Unfinished

\* Nobody executes a settled task, with requests or with scans: a run ends
\* before the status says so, and what a scan gives up is a generation nobody
\* has a message of.
THEOREM SettledIsQuiet == ASSUME OneWriter PROVE Spec => [](Once => SettledQuiescent)
  <1>1. CASE OneRequest
    <2>1. Orderly => (Once => SettledQuiescent)
      <3> SUFFICES ASSUME Orderly, Once, task.status \in Settled,
                          NEW w \in Workers, Executing(w), wk[w].msg.gen = task.gen
                   PROVE  FALSE
        BY DEF SettledQuiescent
      <3> QED
        BY DEF Orderly, LifeInv, InLife, InTurn, Settled, BLOCKED_STATUSES
    <2> QED
      BY <1>1, <2>1, SpecOrderly, PTL
  <1>2. CASE OneScan
    <2>1. TypeInv /\ GenerationInv /\ HeldOnce /\ ScanInv /\ [Next]_vars
            => TypeInv' /\ GenerationInv' /\ HeldOnce' /\ ScanInv'
      BY <1>2, NextType, NextGenerations, HeldStep, ScanInvStep
    <2>2. ScanInv => (Once => SettledQuiescent)
      <3> SUFFICES ASSUME InScans, task.status \in Settled,
                          NEW w \in Workers, Executing(w), wk[w].msg.gen = task.gen
                   PROVE  FALSE
        BY DEF SettledQuiescent, ScanInv
      <3> QED
        BY DEF InScans, InOrder, Leading, Settled, BLOCKED_STATUSES, Unfinished
    <2> QED
      BY <2>1, <2>2, InitType, InitGeneration, InitHeld, InitScans, PTL DEF Spec
  <1> QED
    BY <1>1, <1>2 DEF OneWriter, OneRequest, OneScan

=============================================================================
