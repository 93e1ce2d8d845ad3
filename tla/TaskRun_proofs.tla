--------------------------- MODULE TaskRun_proofs ---------------------------
(***************************************************************************)
(* Theorems about TaskRun, for every number of workers, requests, scans,   *)
(* stages and faults: its types and generations, who executes a task and   *)
(* what that leaves (no lock without a run, no completed task without its  *)
(* output, one executor of the first generation).                          *)
(***************************************************************************)
EXTENDS TaskRun, TLAPS

(* Type correctness. TypeOK alone is not inductive: a crash returns the    *)
(* worker's message to the queue, so a busy worker must be known to have   *)
(* one.                                                                    *)
BusyHasMessage == \A w \in Workers : wk[w].pc # "idle" => wk[w].msg \in Message

TypeInv == TypeOK /\ BusyHasMessage

LEMMA InitType == Init => TypeInv
  <1> SUFFICES ASSUME Init PROVE TypeInv
    OBVIOUS
  <1>1. 0 \in Stage
    BY TaskRunAssumption DEF Stage
  <1>2. task \in Row
    BY <1>1 DEF Init, Row, Status
  <1>3. redis \in RuntimeKeys
    BY DEF Init, RuntimeKeys, Nobody
  <1>4. queue \subseteq Message /\ sent \in Nat
    BY DEF Init, Message
  <1>5. wk \in [Workers -> WorkerState]
    BY <1>1 DEF Init, WorkerState, IdleWorker, WorkerPc, HookOp
  <1>6. cl \in [Clients -> ClientState]
    BY <1>1 DEF Init, ClientState, IdleClient, ClientPc
  <1>7. rec \in [Scanners -> ScannerState]
    BY <1>1 DEF Init, ScannerState, IdleScanner, ScannerPc
  <1>8. faults \in FaultCount
    BY TaskRunAssumption DEF Init, FaultCount
  <1>9. BusyHasMessage
    BY DEF Init, BusyHasMessage, IdleWorker
  <1> QED
    BY <1>2, <1>3, <1>4, <1>5, <1>6, <1>7, <1>8, <1>9 DEF Init, TypeInv, TypeOK

-----------------------------------------------------------------------------
(* What a step does to the worker that takes it                            *)

WorkersOK == wk \in [Workers -> WorkerState] /\ BusyHasMessage

\* A worker moves on with a state of its type and its message in hand.
LEMMA MoveKeepsType ==
  ASSUME TypeInv, NEW w \in Workers, NEW state \in WorkerState,
         state.pc # "idle" => state.msg \in Message,
         wk' = [wk EXCEPT ![w] = state]
  PROVE  WorkersOK'
  BY DEF TypeInv, TypeOK, WorkersOK, BusyHasMessage

\* A busy worker that moves to another step is still well typed.
LEMMA BusyStep ==
  ASSUME TypeInv, NEW w \in Workers, ~At(w, "idle"), NEW pc \in WorkerPc
  PROVE  /\ wk[w] \in WorkerState
         /\ wk[w].msg \in Message
         /\ [wk[w] EXCEPT !.pc = pc] \in WorkerState
         /\ [wk[w] EXCEPT !.pc = pc].msg \in Message
  BY DEF TypeInv, TypeOK, BusyHasMessage, At, WorkerState

LEMMA GotoKeepsType ==
  ASSUME TypeInv, NEW w \in Workers, ~At(w, "idle"), NEW pc \in WorkerPc, Goto(w, pc)
  PROVE  WorkersOK'
  <1>1. wk' = [wk EXCEPT ![w] = [wk[w] EXCEPT !.pc = pc]]
    BY DEF Goto
  <1> QED
    BY <1>1, BusyStep, MoveKeepsType

LEMMA DeliverType == ASSUME TypeInv, NEW w \in Workers, Deliver(w) PROVE TypeInv'
  <1> DEFINE received(m) == [pc |-> "received", msg |-> m, stage |-> 0,
                             op |-> "none", force |-> FALSE, helper |-> FALSE]
  <1>1. PICK m \in queue : /\ queue' = queue \ {m}
                           /\ wk' = [wk EXCEPT ![w] = received(m)]
    BY DEF Deliver, IdleWorker
  <1>2. m \in Message
    BY DEF TypeInv, TypeOK
  <1>3. 0 \in Stage
    BY TaskRunAssumption DEF Stage
  <1>4. received(m) \in WorkerState
    BY <1>2, <1>3 DEF WorkerState, WorkerPc, HookOp
  <1>5. WorkersOK'
    BY <1>1, <1>2, <1>4, MoveKeepsType
  <1> QED
    BY <1>1, <1>5 DEF TypeInv, TypeOK, WorkersOK, Deliver

\* Steps that only move the worker on.
LEMMA PlainMoveType ==
  ASSUME TypeInv, NEW w \in Workers,
         CheckGeneration(w) \/ LookForFinalOutput(w) \/ Preflight(w) \/ EnsureOwnership(w)
  PROVE  TypeInv'
  <1>1. ~At(w, "idle")
    BY DEF CheckGeneration, LookForFinalOutput, Preflight, EnsureOwnership, At
  <1>2. PICK pc \in WorkerPc : Goto(w, pc)
    BY DEF CheckGeneration, LookForFinalOutput, Preflight, EnsureOwnership, WorkerPc
  <1>3. WorkersOK'
    BY <1>1, <1>2, GotoKeepsType
  <1>4. UNCHANGED <<task, redis, queue, sent, cl, rec, finalObject, sourceObject, refunds, faults>>
    BY DEF CheckGeneration, LookForFinalOutput, Preflight, EnsureOwnership
  <1> QED
    BY <1>3, <1>4 DEF TypeInv, TypeOK, WorkersOK

\* The only fault of a step of a worker: its helper does not start.
HelperFault ==
  \/ UNCHANGED faults
  \/ /\ faults.helperDeaths < MaxHelperDeaths
     /\ faults' = [faults EXCEPT !.helperDeaths = @ + 1]

LEMMA AcquireType == ASSUME TypeInv, NEW w \in Workers, Acquire(w) PROVE TypeInv'
  <1>1. ~At(w, "idle") /\ wk[w] \in WorkerState /\ wk[w].msg \in Message
    BY DEF TypeInv, TypeOK, BusyHasMessage, Acquire, At
  <1>2. UNCHANGED <<task, queue, sent, cl, rec, finalObject, sourceObject, refunds>>
    BY DEF Acquire
  <1>3. CASE redis.lock = Nobody /\ ~Goto(w, "finally")
    <2>1. redis' \in RuntimeKeys /\ UNCHANGED faults
      BY <1>1, <1>3 DEF Acquire, TypeInv, TypeOK, RuntimeKeys, Message
    <2>2. [wk[w] EXCEPT !.pc = "unguard", !.helper = TRUE] \in WorkerState
      BY <1>1 DEF WorkerState, WorkerPc
    <2>3. [wk[w] EXCEPT !.pc = "unguard", !.helper = TRUE].msg \in Message
      BY <1>1 DEF WorkerState
    <2>4. wk' = [wk EXCEPT ![w] = [wk[w] EXCEPT !.pc = "unguard", !.helper = TRUE]]
      BY <1>3 DEF Acquire
    <2>5. WorkersOK'
      BY <2>2, <2>3, <2>4, MoveKeepsType
    <2> QED
      BY <1>2, <2>1, <2>5 DEF TypeInv, TypeOK, WorkersOK
  <1>4. CASE redis.lock # Nobody
    <2>1. Goto(w, "ack") /\ UNCHANGED <<redis, faults>>
      BY <1>4 DEF Acquire
    <2>2. WorkersOK'
      BY <1>1, <2>1, GotoKeepsType DEF WorkerPc
    <2> QED
      BY <1>2, <2>1, <2>2 DEF TypeInv, TypeOK, WorkersOK
  <1>5. CASE redis.lock = Nobody /\ Goto(w, "finally")
    <2>1. redis' = [redis EXCEPT !.lock = wk[w].msg.id] /\ HelperFault
      BY <1>5 DEF Acquire, HelperFault
    <2>2. redis' \in RuntimeKeys
      BY <1>1, <2>1 DEF TypeInv, TypeOK, RuntimeKeys, Message
    <2>3. faults' \in FaultCount
      BY <2>1, TaskRunAssumption DEF HelperFault, TypeInv, TypeOK, FaultCount
    <2>4. WorkersOK'
      BY <1>1, <1>5, GotoKeepsType DEF WorkerPc
    <2> QED
      BY <1>2, <2>2, <2>3, <2>4 DEF TypeInv, TypeOK, WorkersOK
  <1> QED
    BY <1>3, <1>4, <1>5

LEMMA KeysClearedType ==
  ASSUME TypeInv
  PROVE  /\ KeysCleared \in RuntimeKeys
         /\ [KeysCleared EXCEPT !.pause = FALSE] \in RuntimeKeys
  BY DEF KeysCleared, TypeInv, TypeOK, RuntimeKeys, Nobody

\* Steps that change one runtime key and move the worker on.
LEMMA RedisMoveType ==
  ASSUME TypeInv, NEW w \in Workers,
         ClearDispatchGuard(w) \/ ConsumePauseRequest(w) \/ ClearKeys(w)
  PROVE  TypeInv'
  <1>1. ~At(w, "idle")
    BY DEF ClearDispatchGuard, ConsumePauseRequest, ClearKeys, At
  <1>2. PICK pc \in WorkerPc : Goto(w, pc)
    BY DEF ClearDispatchGuard, ConsumePauseRequest, ClearKeys, WorkerPc
  <1>3. WorkersOK'
    BY <1>1, <1>2, GotoKeepsType
  <1>4. redis' \in RuntimeKeys
    <2>1. CASE ClearDispatchGuard(w)
      BY <2>1 DEF ClearDispatchGuard, TypeInv, TypeOK, RuntimeKeys
    <2>2. CASE ConsumePauseRequest(w)
      BY <2>2 DEF ConsumePauseRequest, TypeInv, TypeOK, RuntimeKeys
    <2>3. CASE ClearKeys(w)
      BY <2>3, KeysClearedType DEF ClearKeys
    <2> QED
      BY <2>1, <2>2, <2>3
  <1>5. UNCHANGED <<task, queue, sent, cl, rec, finalObject, sourceObject, refunds, faults>>
    BY DEF ClearDispatchGuard, ConsumePauseRequest, ClearKeys
  <1> QED
    BY <1>3, <1>4, <1>5 DEF TypeInv, TypeOK, WorkersOK

LEMMA FirstStageType == ASSUME TypeInv, NEW m \in Message PROVE FirstStage(m) \in Stage
  <1>1. task.stage \in Stage
    BY DEF TypeInv, TypeOK, Row
  <1> QED
    BY <1>1, TaskRunAssumption DEF FirstStage, ResumeStage, Message, Stage, NoStart

LEMMA TakeSnapshotType == ASSUME TypeInv, NEW w \in Workers, TakeSnapshot(w) PROVE TypeInv'
  <1> DEFINE m == wk[w].msg
             runs == Current(w) /\ ~Skips(m)
             pc == IF m.start = NoStart THEN "output" ELSE "process"
             force == m.start # NoStart \/ ResumesFailed \/ m.force
             state == [wk[w] EXCEPT !.pc = pc, !.stage = FirstStage(m), !.force = force]
  <1>1. ~At(w, "idle") /\ wk[w] \in WorkerState /\ m \in Message
    BY DEF TypeInv, TypeOK, BusyHasMessage, TakeSnapshot, At
  <1>2. UNCHANGED <<task, redis, queue, sent, cl, rec, finalObject, sourceObject, refunds, faults>>
    BY DEF TakeSnapshot
  <1>3. CASE runs
    <2>1. wk' = [wk EXCEPT ![w] = state]
      BY <1>3 DEF TakeSnapshot
    <2>2. FirstStage(m) \in Stage /\ pc \in WorkerPc /\ force \in BOOLEAN
      BY <1>1, FirstStageType DEF WorkerPc
    <2> HIDE DEF pc, force
    <2>3. state \in WorkerState /\ state.msg \in Message
      BY <1>1, <2>2 DEF WorkerState
    <2>4. WorkersOK'
      BY <2>1, <2>3, MoveKeepsType
    <2> QED
      BY <1>2, <2>4 DEF TypeInv, TypeOK, WorkersOK
  <1>4. CASE ~runs
    <2>1. Goto(w, "finally")
      BY <1>4 DEF TakeSnapshot
    <2>2. WorkersOK'
      BY <1>1, <2>1, GotoKeepsType DEF WorkerPc
    <2> QED
      BY <1>2, <2>2 DEF TypeInv, TypeOK, WorkersOK
  <1> QED
    BY <1>3, <1>4

\* The hook moves the worker on, at the end of a stage but the last to the
\* next stage.
LEMMA StageHookMoves ==
  ASSUME TypeInv, NEW w \in Workers, StageHook(w)
  PROVE  \/ \E pc \in WorkerPc \ {"idle"} : Goto(w, pc)
         \/ /\ wk[w].stage < LastStage
            /\ wk' = [wk EXCEPT ![w] = [wk[w] EXCEPT !.pc = "boundary", !.stage = wk[w].stage + 1]]
  <1>1. wk[w].stage \in Stage
    BY DEF TypeInv, TypeOK, WorkerState
  <1>2. CASE ~Current(w)
    BY <1>2 DEF StageHook, WorkerPc
  <1>3. CASE Current(w)
    <2>1. CASE wk[w].op # "finish"
      BY <1>3, <2>1 DEF StageHook, WorkerPc, Goto
    <2>2. CASE wk[w].op = "finish" /\ wk[w].stage < LastStage
      BY <1>3, <2>2 DEF StageHook, WorkerPc, Goto
    <2>3. CASE wk[w].op = "finish" /\ wk[w].stage = LastStage
      BY <1>3, <2>3, TaskRunAssumption DEF StageHook, WorkerPc, Goto
    <2> QED
      BY <1>1, <2>1, <2>2, <2>3, TaskRunAssumption DEF Stage
  <1> QED
    BY <1>2, <1>3

LEMMA StageHookType == ASSUME TypeInv, NEW w \in Workers, StageHook(w) PROVE TypeInv'
  <1>1. ~At(w, "idle") /\ wk[w] \in WorkerState /\ wk[w].msg \in Message /\ wk[w].stage \in Stage
    BY DEF TypeInv, TypeOK, BusyHasMessage, StageHook, At, WorkerState
  <1>2. task' = task \/ task' = [task EXCEPT !.status = "processing", !.stage = wk[w].stage, !.quiet = FALSE]
    BY DEF StageHook
  <1>3. task' \in Row
    BY <1>1, <1>2 DEF TypeInv, TypeOK, Row, Status
  <1>5. CASE \E pc \in WorkerPc : Goto(w, pc)
    <2>1. WorkersOK'
      BY <1>1, <1>5, GotoKeepsType
    <2> QED
      BY <1>3, <2>1 DEF TypeInv, TypeOK, WorkersOK, StageHook
  <1>6. CASE wk[w].stage < LastStage /\ wk' = [wk EXCEPT ![w] = [wk[w] EXCEPT !.pc = "boundary", !.stage = wk[w].stage + 1]]
    <2>0. wk[w].stage + 1 \in Stage
      BY <1>1, <1>6, TaskRunAssumption DEF Stage
    <2>1. [wk[w] EXCEPT !.pc = "boundary", !.stage = wk[w].stage + 1] \in WorkerState
      BY <1>1, <2>0 DEF WorkerState, WorkerPc
    <2>2. [wk[w] EXCEPT !.pc = "boundary", !.stage = wk[w].stage + 1].msg \in Message
      BY <1>1 DEF WorkerState
    <2>3. WorkersOK'
      BY <1>6, <2>1, <2>2, MoveKeepsType
    <2> QED
      BY <1>3, <2>3 DEF TypeInv, TypeOK, WorkersOK, StageHook
  <1> QED
    BY <1>5, <1>6, StageHookMoves

\* A worker at step `from` that takes up a hook of stage k.
LEMMA HookMoveType ==
  ASSUME TypeInv, NEW w \in Workers, ~At(w, "idle"), NEW k \in Stage, NEW op \in HookOp,
         wk' = [wk EXCEPT ![w] = [wk[w] EXCEPT !.pc = "own", !.op = op, !.stage = k]]
  PROVE  WorkersOK'
  <1>1. wk[w] \in WorkerState /\ wk[w].msg \in Message
    BY DEF TypeInv, TypeOK, BusyHasMessage, At
  <1>2. [wk[w] EXCEPT !.pc = "own", !.op = op, !.stage = k] \in WorkerState
    BY <1>1 DEF WorkerState, WorkerPc
  <1>3. [wk[w] EXCEPT !.pc = "own", !.op = op, !.stage = k].msg \in Message
    BY <1>1 DEF WorkerState
  <1> QED
    BY <1>2, <1>3, MoveKeepsType

LEMMA MarkProcessingType == ASSUME TypeInv, NEW w \in Workers, MarkProcessing(w) PROVE TypeInv'
  <1>1. ~At(w, "idle") /\ wk[w] \in WorkerState
    BY DEF TypeInv, TypeOK, MarkProcessing, At
  <1>2. UNCHANGED <<redis, queue, sent, cl, rec, finalObject, sourceObject, refunds, faults>>
    BY DEF MarkProcessing
  <1>3. task' \in Row
    <2>1. CASE task' = task
      BY <2>1 DEF TypeInv, TypeOK
    <2>2. CASE task' # task
      <3>1. task' = [task EXCEPT !.status = "processing", !.resumable = FALSE,
                                 !.output = @ /\ ~wk[w].force, !.quiet = FALSE]
        BY <2>2 DEF MarkProcessing
      <3>2. (task.output /\ ~wk[w].force) \in BOOLEAN
        OBVIOUS
      <3> QED
        BY <3>1, <3>2 DEF TypeInv, TypeOK, Row, Status
    <2> QED
      BY <2>1, <2>2
  <1>4. WorkersOK'
    <2>1. CASE \E pc \in WorkerPc : Goto(w, pc)
      BY <1>1, <2>1, GotoKeepsType
    <2>2. CASE wk' = [wk EXCEPT ![w] = [wk[w] EXCEPT !.pc = "own", !.op = "start", !.stage = 0]]
      <3>1. 0 \in Stage
        BY TaskRunAssumption DEF Stage
      <3>2. "start" \in HookOp
        BY DEF HookOp
      <3> QED
        BY <1>1, <2>2, <3>1, <3>2, HookMoveType
    <2> QED
      BY <2>1, <2>2 DEF MarkProcessing, Goto, WorkerPc
  <1> QED
    BY <1>2, <1>3, <1>4 DEF TypeInv, TypeOK, WorkersOK

LEMMA BoundaryType == ASSUME TypeInv, NEW w \in Workers, Boundary(w) PROVE TypeInv'
  <1>1. ~At(w, "idle") /\ wk[w] \in WorkerState /\ wk[w].msg \in Message
    BY DEF TypeInv, TypeOK, BusyHasMessage, Boundary, At
  <1>2. UNCHANGED <<task, redis, queue, sent, cl, rec, finalObject, sourceObject, refunds, faults>>
    BY DEF Boundary
  <1>3. CASE Goto(w, "unflag")
    <2>1. WorkersOK'
      BY <1>1, <1>3, GotoKeepsType DEF WorkerPc
    <2> QED
      BY <1>2, <2>1 DEF TypeInv, TypeOK, WorkersOK
  <1>4. CASE wk' = [wk EXCEPT ![w] = [wk[w] EXCEPT !.pc = "own", !.op = "start"]]
    <2>1. [wk[w] EXCEPT !.pc = "own", !.op = "start"] \in WorkerState
      BY <1>1 DEF WorkerState, WorkerPc, HookOp
    <2>2. [wk[w] EXCEPT !.pc = "own", !.op = "start"].msg \in Message
      BY <1>1 DEF WorkerState
    <2>3. WorkersOK'
      BY <1>4, <2>1, <2>2, MoveKeepsType
    <2> QED
      BY <1>2, <2>3 DEF TypeInv, TypeOK, WorkersOK
  <1> QED
    BY <1>3, <1>4 DEF Boundary

LEMMA StageWorkType ==
  ASSUME TypeInv, NEW w \in Workers, StageReports(w) \/ StageEnds(w)
  PROVE  TypeInv'
  <1>1. ~At(w, "idle") /\ wk[w] \in WorkerState /\ wk[w].msg \in Message
    BY DEF TypeInv, TypeOK, BusyHasMessage, StageReports, StageEnds, At
  <1>2. UNCHANGED <<task, redis, queue, sent, cl, rec, sourceObject, refunds, faults>>
    BY DEF StageReports, StageEnds
  <1>3. finalObject' \in BOOLEAN
    BY DEF TypeInv, TypeOK, StageReports, StageEnds
  <1>4. WorkersOK'
    <2>1. CASE \E pc \in WorkerPc : Goto(w, pc)
      BY <1>1, <2>1, GotoKeepsType
    <2>2. CASE \E op \in HookOp : wk' = [wk EXCEPT ![w] = [wk[w] EXCEPT !.pc = "own", !.op = op]]
      <3>1. PICK op \in HookOp : wk' = [wk EXCEPT ![w] = [wk[w] EXCEPT !.pc = "own", !.op = op]]
        BY <2>2
      <3>2. [wk[w] EXCEPT !.pc = "own", !.op = op] \in WorkerState
        BY <1>1 DEF WorkerState, WorkerPc
      <3>3. [wk[w] EXCEPT !.pc = "own", !.op = op].msg \in Message
        BY <1>1 DEF WorkerState
      <3> QED
        BY <3>1, <3>2, <3>3, MoveKeepsType
    <2> QED
      BY <2>1, <2>2 DEF StageReports, StageEnds, HookOp, WorkerPc
  <1> QED
    BY <1>2, <1>3, <1>4 DEF TypeInv, TypeOK, WorkersOK
-----------------------------------------------------------------------------
(* How a run ends                                                          *)

LEMMA MarkCompletedType == ASSUME TypeInv, NEW w \in Workers, MarkCompleted(w) PROVE TypeInv'
  <1>1. ~At(w, "idle")
    BY DEF MarkCompleted, At
  <1>2. UNCHANGED <<redis, queue, sent, cl, rec, finalObject, sourceObject, refunds, faults>>
    BY DEF MarkCompleted
  <1>3. PICK pc \in WorkerPc : Goto(w, pc)
    BY DEF MarkCompleted, WorkerPc
  <1>4. WorkersOK'
    BY <1>1, <1>3, GotoKeepsType
  <1>5. LastStage \in Stage
    BY TaskRunAssumption DEF Stage
  <1>6. task' \in Row
    BY <1>5 DEF MarkCompleted, TypeInv, TypeOK, Row, Status
  <1> QED
    BY <1>2, <1>4, <1>6 DEF TypeInv, TypeOK, WorkersOK

LEMMA MarkFailedType == ASSUME TypeInv, NEW w \in Workers, MarkFailed(w) PROVE TypeInv'
  <1>1. ~At(w, "idle") /\ wk[w].stage \in Stage
    BY DEF TypeInv, TypeOK, WorkerState, MarkFailed, At
  <1>2. UNCHANGED <<redis, queue, sent, cl, rec, finalObject, sourceObject, faults>>
    BY DEF MarkFailed
  <1>3. PICK pc \in WorkerPc : Goto(w, pc)
    BY DEF MarkFailed, WorkerPc
  <1>4. WorkersOK'
    BY <1>1, <1>3, GotoKeepsType
  <1>5. refunds' \in Nat
    <2>1. refunds' = refunds \/ refunds' = refunds + 1
      BY DEF MarkFailed
    <2> QED
      BY <2>1 DEF TypeInv, TypeOK
  <1>6. task' \in Row
    <2>1. CASE task' = task
      BY <2>1 DEF TypeInv, TypeOK
    <2>2. CASE task' # task
      <3>1. PICK marker \in BOOLEAN :
              task' = [task EXCEPT !.status = "failed",
                                   !.stage = IF wk[w].op = "none" THEN @ ELSE wk[w].stage,
                                   !.resumable = marker, !.quiet = FALSE]
        BY <2>2 DEF MarkFailed
      <3> QED
        BY <1>1, <3>1 DEF TypeInv, TypeOK, Row, Status
    <2> QED
      BY <2>1, <2>2
  <1> QED
    BY <1>2, <1>4, <1>5, <1>6 DEF TypeInv, TypeOK, WorkersOK

LEMMA MarkPausedType == ASSUME TypeInv, NEW w \in Workers, MarkPaused(w) PROVE TypeInv'
  <1>1. ~At(w, "idle") /\ wk[w].stage \in Stage
    BY DEF TypeInv, TypeOK, WorkerState, MarkPaused, At
  <1>2. UNCHANGED <<redis, queue, sent, cl, rec, finalObject, sourceObject, refunds, faults>>
    BY DEF MarkPaused
  <1>3. PICK pc \in WorkerPc : Goto(w, pc)
    BY DEF MarkPaused, WorkerPc
  <1>4. WorkersOK'
    BY <1>1, <1>3, GotoKeepsType
  <1>5. task' \in Row
    BY <1>1 DEF MarkPaused, TypeInv, TypeOK, Row, Status
  <1> QED
    BY <1>2, <1>4, <1>5 DEF TypeInv, TypeOK, WorkersOK

LEMMA CleanupArtifactsType ==
  ASSUME TypeInv, NEW w \in Workers, CleanupArtifacts(w)
  PROVE  TypeInv'
  <1>1. ~At(w, "idle") /\ Goto(w, "finally")
    BY DEF CleanupArtifacts, At
  <1>2. /\ UNCHANGED <<redis, queue, sent, cl, rec, finalObject, refunds, faults>>
        /\ sourceObject' \in BOOLEAN
    BY DEF CleanupArtifacts, TypeInv, TypeOK
  <1>3. WorkersOK'
    BY <1>1, GotoKeepsType DEF WorkerPc
  <1>4. task' \in Row
    BY DEF CleanupArtifacts, TypeInv, TypeOK, Row
  <1> QED
    BY <1>2, <1>3, <1>4 DEF TypeInv, TypeOK, WorkersOK

LEMMA ReleaseType == ASSUME TypeInv, NEW w \in Workers, Release(w) PROVE TypeInv'
  <1>1. wk[w] \in WorkerState /\ wk[w].msg \in Message
    BY DEF TypeInv, TypeOK, BusyHasMessage, Release, At
  <1>2. UNCHANGED <<task, queue, sent, cl, rec, finalObject, sourceObject, refunds, faults>>
    BY DEF Release
  <1>3. redis' \in RuntimeKeys
    BY DEF Release, TypeInv, TypeOK, RuntimeKeys, Nobody
  <1>4. wk' = [wk EXCEPT ![w] = [wk[w] EXCEPT !.pc = "ack", !.helper = FALSE]]
    BY DEF Release
  <1>5. [wk[w] EXCEPT !.pc = "ack", !.helper = FALSE] \in WorkerState
    BY <1>1 DEF WorkerState, WorkerPc
  <1>6. [wk[w] EXCEPT !.pc = "ack", !.helper = FALSE].msg \in Message
    BY <1>1 DEF WorkerState
  <1>7. WorkersOK'
    BY <1>4, <1>5, <1>6, MoveKeepsType
  <1> QED
    BY <1>2, <1>3, <1>7 DEF TypeInv, TypeOK, WorkersOK

LEMMA IdleType == IdleWorker \in WorkerState /\ IdleWorker.pc = "idle"
  <1>1. 0 \in Stage
    BY TaskRunAssumption DEF Stage
  <1> QED
    BY <1>1 DEF IdleWorker, WorkerState, WorkerPc, HookOp

LEMMA AckType == ASSUME TypeInv, NEW w \in Workers, Ack(w) PROVE TypeInv'
  <1>1. UNCHANGED <<task, redis, queue, sent, cl, rec, finalObject, sourceObject, refunds, faults>>
    BY DEF Ack
  <1>2. WorkersOK'
    BY IdleType, MoveKeepsType DEF Ack
  <1> QED
    BY <1>1, <1>2 DEF TypeInv, TypeOK, WorkersOK

\* The lemmas above, one for each disjunct of WorkerStep.
LEMMA WorkerStepType == ASSUME TypeInv, NEW w \in Workers, WorkerStep(w) PROVE TypeInv'
  BY PlainMoveType, AcquireType, RedisMoveType, TakeSnapshotType, MarkProcessingType,
     BoundaryType, StageHookType, StageWorkType, MarkCompletedType, MarkFailedType,
     MarkPausedType, CleanupArtifactsType, ReleaseType, AckType
  DEF WorkerStep
-----------------------------------------------------------------------------
(* Requests                                                                *)

LEMMA SendType ==
  ASSUME TypeInv, NEW gen \in Nat, NEW start \in Stage, Send(gen, start)
  PROVE  queue' \subseteq Message /\ sent' \in Nat
  <1> DEFINE m == [id |-> sent + 1, gen |-> gen, start |-> start, force |-> TRUE]
  <1>1. queue \subseteq Message /\ sent \in Nat
    BY DEF TypeInv, TypeOK
  <1>2. m \in Message
    BY <1>1 DEF Message
  <1>3. queue' = queue \cup {m} /\ sent' = sent + 1
    BY DEF Send
  <1> HIDE DEF m
  <1> QED
    BY <1>1, <1>2, <1>3

\* A request moves on with a state of its type.
LEMMA ClientMoveType ==
  ASSUME TypeInv, NEW c \in Clients,
         \/ \E pc \in ClientPc : ClientGoto(c, pc)
         \/ \E state \in ClientState : cl' = [cl EXCEPT ![c] = state]
  PROVE  cl' \in [Clients -> ClientState]
  <1>1. cl[c] \in ClientState
    BY DEF TypeInv, TypeOK
  <1>2. CASE \E pc \in ClientPc : ClientGoto(c, pc)
    <2>1. PICK pc \in ClientPc : cl' = [cl EXCEPT ![c].pc = pc]
      BY <1>2 DEF ClientGoto
    <2>2. [cl[c] EXCEPT !.pc = pc] \in ClientState
      BY <1>1 DEF ClientState
    <2> QED
      BY <2>1, <2>2 DEF TypeInv, TypeOK
  <1>3. CASE \E state \in ClientState : cl' = [cl EXCEPT ![c] = state]
    BY <1>3 DEF TypeInv, TypeOK
  <1> QED
    BY <1>2, <1>3

LEMMA IdleClientType == IdleClient \in ClientState
  <1>1. 0 \in Stage
    BY TaskRunAssumption DEF Stage
  <1> QED
    BY <1>1 DEF IdleClient, ClientState, ClientPc

LEMMA RequestsType ==
  ASSUME TypeInv, NEW c \in Clients,
         RequestPause(c) \/ RequestResume(c) \/ RequestDelete(c)
  PROVE  TypeInv'
  <1>1. UNCHANGED <<task, redis, queue, sent, wk, rec, finalObject, sourceObject, refunds>>
    BY DEF RequestPause, RequestResume, RequestDelete
  <1>2. faults' \in FaultCount
    <2>1. faults' = faults \/ (faults.pauses < MaxPauses /\ faults' = [faults EXCEPT !.pauses = @ + 1])
      BY DEF RequestPause, RequestResume, RequestDelete
    <2> QED
      BY <2>1, TaskRunAssumption DEF TypeInv, TypeOK, FaultCount
  <1>3. cl' \in [Clients -> ClientState]
    <2>1. cl \in [Clients -> ClientState] /\ cl[c] \in ClientState /\ task \in Row
      BY DEF TypeInv, TypeOK
    <2>2. CASE RequestResume(c)
      BY <2>1, <2>2 DEF RequestResume, Row, ClientState, ClientPc
    <2>3. CASE RequestPause(c)
      BY <2>3, ClientMoveType DEF RequestPause, ClientPc
    <2>4. CASE RequestDelete(c)
      BY <2>1, <2>4 DEF RequestDelete, Row, ClientState, ClientPc
    <2> QED
      BY <2>2, <2>3, <2>4
  <1> QED
    BY <1>1, <1>2, <1>3 DEF TypeInv, TypeOK, BusyHasMessage

LEMMA ClientKeysType ==
  ASSUME TypeInv, NEW c \in Clients,
         SetPauseRequest(c) \/ ResumeClearKeys(c) \/ DeleteClearKeys(c)
  PROVE  TypeInv'
  <1>1. /\ UNCHANGED <<task, queue, sent, wk, rec, refunds, faults>>
        /\ finalObject' \in BOOLEAN /\ sourceObject' \in BOOLEAN
    BY DEF SetPauseRequest, ResumeClearKeys, DeleteClearKeys, TypeInv, TypeOK
  <1>2. PICK pc \in ClientPc : ClientGoto(c, pc)
    BY DEF SetPauseRequest, ResumeClearKeys, DeleteClearKeys, ClientPc
  <1>3. cl' \in [Clients -> ClientState]
    BY <1>2, ClientMoveType
  <1>4. redis' \in RuntimeKeys
    <2>1. CASE SetPauseRequest(c)
      BY <2>1 DEF SetPauseRequest, TypeInv, TypeOK, RuntimeKeys
    <2>2. CASE ResumeClearKeys(c) \/ DeleteClearKeys(c)
      BY <2>2, KeysClearedType DEF ResumeClearKeys, DeleteClearKeys
    <2> QED
      BY <2>1, <2>2
  <1> QED
    BY <1>1, <1>3, <1>4 DEF TypeInv, TypeOK, BusyHasMessage

LEMMA ResumeRefreshType == ASSUME TypeInv, NEW c \in Clients, ResumeRefresh(c) PROVE TypeInv'
  <1>1. UNCHANGED <<task, redis, queue, sent, wk, rec, finalObject, sourceObject, refunds, faults>>
    BY DEF ResumeRefresh
  <1>2. cl[c] \in ClientState /\ task.gen \in Nat /\ task.stage \in Stage
    BY DEF TypeInv, TypeOK, Row
  <1>3. [cl[c] EXCEPT !.gen = task.gen, !.stage = task.stage] \in ClientState
    BY <1>2 DEF ClientState
  <1>4. cl' = [cl EXCEPT ![c] = [cl[c] EXCEPT !.gen = task.gen, !.stage = task.stage]]
    BY DEF ResumeRefresh
  <1>5. cl' \in [Clients -> ClientState]
    BY <1>3, <1>4, ClientMoveType
  <1> QED
    BY <1>1, <1>5 DEF TypeInv, TypeOK, BusyHasMessage

LEMMA ResumeCommitType == ASSUME TypeInv, NEW c \in Clients, ResumeCommit(c) PROVE TypeInv'
  <1>1. UNCHANGED <<redis, queue, sent, wk, rec, finalObject, sourceObject, refunds, faults>>
    BY DEF ResumeCommit
  <1>2. cl[c].gen \in Nat
    BY DEF TypeInv, TypeOK, ClientState
  <1>3. task' \in Row
    <2>1. CASE task' = task
      BY <2>1 DEF TypeInv, TypeOK
    <2>2. CASE task' # task
      <3> DEFINE g == cl[c].gen + 1
      <3>1. task' = [task EXCEPT !.status = "pending", !.gen = g,
                                 !.resumable = FALSE, !.quiet = FALSE]
        BY <2>2 DEF ResumeCommit, NextGeneration
      <3>2. g \in Nat
        BY <1>2
      <3> HIDE DEF g
      <3> QED
        BY <3>1, <3>2 DEF TypeInv, TypeOK, Row, Status
    <2> QED
      BY <2>1, <2>2
  <1>4. cl' \in [Clients -> ClientState]
    BY IdleClientType, ClientMoveType DEF ResumeCommit, ClientPc
  <1> QED
    BY <1>1, <1>3, <1>4 DEF TypeInv, TypeOK, BusyHasMessage

LEMMA ResumeDispatchType == ASSUME TypeInv, NEW c \in Clients, ResumeDispatch(c) PROVE TypeInv'
  <1>1. UNCHANGED <<redis, wk, rec, finalObject, sourceObject, refunds>> /\ cl' = [cl EXCEPT ![c] = IdleClient]
    BY DEF ResumeDispatch
  <1>2. cl' \in [Clients -> ClientState]
    BY <1>1, IdleClientType, ClientMoveType
  <1>3. CASE Send(NextGeneration(c), cl[c].stage) /\ UNCHANGED <<task, faults>>
    <2>1. NextGeneration(c) \in Nat /\ cl[c].stage \in Stage
      BY DEF TypeInv, TypeOK, ClientState, NextGeneration
    <2>2. queue' \subseteq Message /\ sent' \in Nat
      BY <1>3, <2>1, SendType
    <2> QED
      BY <1>1, <1>2, <1>3, <2>2 DEF TypeInv, TypeOK, BusyHasMessage
  <1>4. CASE ~(Send(NextGeneration(c), cl[c].stage) /\ UNCHANGED <<task, faults>>)
    <2>1. /\ faults.sendFailures < MaxSendFailures
          /\ faults' = [faults EXCEPT !.sendFailures = @ + 1]
          /\ task' = IF task.status = "deleted" THEN task ELSE [task EXCEPT !.status = "paused"]
          /\ UNCHANGED <<queue, sent>>
      BY <1>4 DEF ResumeDispatch
    <2>2. faults' \in FaultCount
      BY <2>1, TaskRunAssumption DEF TypeInv, TypeOK, FaultCount
    <2>3. task' \in Row
      BY <2>1 DEF TypeInv, TypeOK, Row, Status
    <2> QED
      BY <1>1, <1>2, <2>1, <2>2, <2>3 DEF TypeInv, TypeOK, BusyHasMessage
  <1> QED
    BY <1>3, <1>4

LEMMA DeleteRowType == ASSUME TypeInv, NEW c \in Clients, DeleteRow(c) PROVE TypeInv'
  <1>1. UNCHANGED <<redis, queue, sent, wk, rec, finalObject, sourceObject, refunds, faults>>
    BY DEF DeleteRow
  <1>2. task' \in Row
    BY DEF DeleteRow, TypeInv, TypeOK, Row, Status
  <1>3. cl' \in [Clients -> ClientState]
    BY IdleClientType, ClientMoveType DEF DeleteRow
  <1> QED
    BY <1>1, <1>2, <1>3 DEF TypeInv, TypeOK, BusyHasMessage

LEMMA ClientStepType == ASSUME TypeInv, NEW c \in Clients, ClientStep(c) PROVE TypeInv'
  BY RequestsType, ClientKeysType, ResumeRefreshType, ResumeCommitType,
     ResumeDispatchType, DeleteRowType
  DEF ClientStep
-----------------------------------------------------------------------------
(* Scans                                                                   *)

LEMMA ScanMoveType ==
  ASSUME TypeInv, NEW s \in Scanners,
         \/ \E pc \in ScannerPc : ScanGoto(s, pc)
         \/ \E state \in ScannerState : rec' = [rec EXCEPT ![s] = state]
         \/ ScanEnds(s)
  PROVE  rec' \in [Scanners -> ScannerState]
  <1>1. rec[s] \in ScannerState
    BY DEF TypeInv, TypeOK
  <1>2. CASE \E pc \in ScannerPc : ScanGoto(s, pc)
    <2>1. PICK pc \in ScannerPc : rec' = [rec EXCEPT ![s].pc = pc]
      BY <1>2 DEF ScanGoto
    <2>2. [rec[s] EXCEPT !.pc = pc] \in ScannerState
      BY <1>1 DEF ScannerState
    <2> QED
      BY <2>1, <2>2 DEF TypeInv, TypeOK
  <1>3. CASE \E state \in ScannerState : rec' = [rec EXCEPT ![s] = state]
    BY <1>3 DEF TypeInv, TypeOK
  <1>4. CASE ScanEnds(s)
    <2>1. 0 \in Stage
      BY TaskRunAssumption DEF Stage
    <2>2. IdleScanner \in ScannerState
      BY <2>1 DEF IdleScanner, ScannerState, ScannerPc
    <2> QED
      BY <1>4, <2>2 DEF ScanEnds, TypeInv, TypeOK
  <1> QED
    BY <1>2, <1>3, <1>4

LEMMA ScanType == ASSUME TypeInv, NEW s \in Scanners, Scan(s) PROVE TypeInv'
  <1>1. UNCHANGED <<task, redis, queue, sent, wk, cl, finalObject, sourceObject, refunds, faults>>
    BY DEF Scan
  <1>2. [pc |-> "observe", gen |-> task.gen, stage |-> task.stage, source |-> task.source]
          \in ScannerState
    BY DEF TypeInv, TypeOK, Row, ScannerState, ScannerPc
  <1>3. rec' \in [Scanners -> ScannerState]
    BY <1>2, ScanMoveType DEF Scan
  <1> QED
    BY <1>1, <1>3 DEF TypeInv, TypeOK, BusyHasMessage

\* The scan's steps on the runtime keys.
LEMMA ObserveType == ASSUME TypeInv, NEW s \in Scanners, Observe(s) PROVE TypeInv'
  <1>1. UNCHANGED <<task, queue, sent, wk, cl, finalObject, sourceObject, refunds, faults>>
    BY DEF Observe
  <1>2. /\ redis' \in {redis, Unsuspected, [redis EXCEPT !.suspect = "fresh"]}
        /\ ScanEnds(s) \/ ScanGoto(s, "reap")
    <2>1. CASE redis.heartbeat # Nobody
      BY <2>1 DEF Observe
    <2>2. CASE redis.heartbeat = Nobody /\ (redis.lock # Nobody \/ redis.guard)
      BY <2>2 DEF Observe
    <2>3. CASE redis.heartbeat = Nobody /\ redis.lock = Nobody /\ ~redis.guard
      <3>1. redis.suspect \in {"none", "fresh", "confirmed"}
        BY DEF TypeInv, TypeOK, RuntimeKeys
      <3>2. CASE redis.suspect = "none"
        BY <2>3, <3>2 DEF Observe
      <3>3. CASE redis.suspect = "fresh"
        BY <2>3, <3>3 DEF Observe
      <3>4. CASE redis.suspect = "confirmed"
        BY <2>3, <3>4 DEF Observe
      <3> QED
        BY <3>1, <3>2, <3>3, <3>4
    <2> QED
      BY <2>1, <2>2, <2>3
  <1>3. redis' \in RuntimeKeys
    BY <1>2 DEF Unsuspected, TypeInv, TypeOK, RuntimeKeys
  <1>5. rec' \in [Scanners -> ScannerState]
    BY <1>2, ScanMoveType DEF ScannerPc
  <1> QED
    BY <1>1, <1>3, <1>5 DEF TypeInv, TypeOK, BusyHasMessage

LEMMA RecheckType ==
  ASSUME TypeInv, NEW s \in Scanners,
         RecheckHeartbeat(s) \/ RecheckLock(s) \/ RecheckGuard(s)
  PROVE  TypeInv'
  <1>1. UNCHANGED <<task, queue, sent, wk, cl, finalObject, sourceObject, refunds, faults>>
    BY DEF RecheckHeartbeat, RecheckLock, RecheckGuard, Recheck
  <1>2. redis' \in {redis, Unsuspected}
    BY DEF RecheckHeartbeat, RecheckLock, RecheckGuard, Recheck
  <1>3. redis' \in RuntimeKeys
    BY <1>2 DEF Unsuspected, TypeInv, TypeOK, RuntimeKeys
  <1>4. ScanEnds(s) \/ \E pc \in ScannerPc : ScanGoto(s, pc)
    BY DEF RecheckHeartbeat, RecheckLock, RecheckGuard, Recheck, ScannerPc
  <1>5. rec' \in [Scanners -> ScannerState]
    BY <1>4, ScanMoveType
  <1> QED
    BY <1>1, <1>3, <1>5 DEF TypeInv, TypeOK, BusyHasMessage

LEMMA ScanKeysType ==
  ASSUME TypeInv, NEW s \in Scanners,
         TakeReapLock(s) \/ GiveUpClearKeys(s) \/ CountResume(s)
  PROVE  TypeInv'
  <1>1. UNCHANGED <<task, queue, sent, wk, cl, finalObject, sourceObject, refunds, faults>>
    BY DEF TakeReapLock, GiveUpClearKeys, CountResume
  <1>2. redis' \in RuntimeKeys
    <2>1. CASE TakeReapLock(s)
      BY <2>1 DEF TakeReapLock, TypeInv, TypeOK, RuntimeKeys
    <2>2. CASE GiveUpClearKeys(s)
      BY <2>2, KeysClearedType DEF GiveUpClearKeys
    <2>3. CASE CountResume(s)
      <3> DEFINE n == redis.resumes + 1
      <3>1. redis' = [redis EXCEPT !.resumes = n, !.suspect = "none"]
        BY <2>3 DEF CountResume
      <3>2. n \in Nat
        BY DEF TypeInv, TypeOK, RuntimeKeys
      <3> HIDE DEF n
      <3> QED
        BY <3>1, <3>2 DEF TypeInv, TypeOK, RuntimeKeys
    <2> QED
      BY <2>1, <2>2, <2>3
  <1>3. ScanEnds(s) \/ ScanGoto(s, "heartbeat")
    BY DEF TakeReapLock, GiveUpClearKeys, CountResume
  <1>4. rec' \in [Scanners -> ScannerState]
    BY <1>3, ScanMoveType DEF ScannerPc
  <1> QED
    BY <1>1, <1>2, <1>4 DEF TypeInv, TypeOK, BusyHasMessage

LEMMA AdvanceGenerationType ==
  ASSUME TypeInv, NEW s \in Scanners, AdvanceGeneration(s)
  PROVE  TypeInv'
  <1>1. UNCHANGED <<redis, queue, sent, wk, cl, finalObject, sourceObject, refunds, faults>>
    BY DEF AdvanceGeneration
  <1>2. rec[s].gen \in Nat
    BY DEF TypeInv, TypeOK, ScannerState
  <1> DEFINE next == rec[s].gen + 1
  <1>3. \/ task' = task
        \/ \E g \in Nat : task' = [task EXCEPT !.gen = g]
    <2>1. \/ task' = task
          \/ task' = [task EXCEPT !.gen = IF next <= MaxGen THEN next ELSE MaxGen + 1]
      BY DEF AdvanceGeneration
    <2>2. (IF next <= MaxGen THEN next ELSE MaxGen + 1) \in Nat
      BY <1>2, TaskRunAssumption
    <2> QED
      BY <2>1, <2>2
  <1>4. task' \in Row
    BY <1>3 DEF TypeInv, TypeOK, Row
  <1>5. ScanEnds(s) \/ \E pc \in ScannerPc : ScanGoto(s, pc)
    BY DEF AdvanceGeneration, ScannerPc
  <1>6. rec' \in [Scanners -> ScannerState]
    BY <1>5, ScanMoveType
  <1> QED
    BY <1>1, <1>4, <1>6 DEF TypeInv, TypeOK, BusyHasMessage

LEMMA GiveUpType == ASSUME TypeInv, NEW s \in Scanners, GiveUp(s) PROVE TypeInv'
  <1>1. UNCHANGED <<redis, queue, sent, wk, cl, finalObject, sourceObject, faults>>
    BY DEF GiveUp
  <1>2. task' \in Row /\ refunds' \in Nat
    <2>1. CASE UNCHANGED <<task, refunds>>
      BY <2>1 DEF TypeInv, TypeOK
    <2>2. CASE ~UNCHANGED <<task, refunds>>
      <3>1. /\ task' = [task EXCEPT !.status = "failed", !.resumable = FALSE, !.quiet = FALSE]
            /\ refunds' = refunds + 1
        BY <2>2 DEF GiveUp
      <3>2. task' \in Row
        BY <3>1 DEF TypeInv, TypeOK, Row, Status
      <3>3. refunds' \in Nat
        BY <3>1 DEF TypeInv, TypeOK
      <3> QED
        BY <3>2, <3>3
    <2> QED
      BY <2>1, <2>2
  <1>3. ScanEnds(s) \/ ScanGoto(s, "wipe")
    BY DEF GiveUp
  <1>4. rec' \in [Scanners -> ScannerState]
    BY <1>3, ScanMoveType DEF ScannerPc
  <1> QED
    BY <1>1, <1>2, <1>4 DEF TypeInv, TypeOK, BusyHasMessage

LEMMA SetDispatchGuardType ==
  ASSUME TypeInv, NEW s \in Scanners, SetDispatchGuard(s)
  PROVE  TypeInv'
  <1>1. UNCHANGED <<task, queue, sent, wk, cl, finalObject, sourceObject, refunds, faults>>
    BY DEF SetDispatchGuard
  <1>2. redis' \in RuntimeKeys
    BY DEF SetDispatchGuard, TypeInv, TypeOK, RuntimeKeys
  <1>3. rec[s] \in ScannerState /\ task.stage \in Stage
    BY DEF TypeInv, TypeOK, Row
  <1>4. [rec[s] EXCEPT !.pc = "send", !.stage = task.stage] \in ScannerState
    BY <1>3 DEF ScannerState, ScannerPc
  <1>5. rec' = [rec EXCEPT ![s] = [rec[s] EXCEPT !.pc = "send", !.stage = task.stage]]
    BY DEF SetDispatchGuard
  <1>6. rec' \in [Scanners -> ScannerState]
    BY <1>4, <1>5, ScanMoveType
  <1> QED
    BY <1>1, <1>2, <1>6 DEF TypeInv, TypeOK, BusyHasMessage

LEMMA RedispatchType == ASSUME TypeInv, NEW s \in Scanners, Redispatch(s) PROVE TypeInv'
  <1>1. UNCHANGED <<task, wk, cl, finalObject, sourceObject, refunds>>
    BY DEF Redispatch
  <1>2. ScanEnds(s) \/ ScanGoto(s, "count")
    BY DEF Redispatch
  <1>3. rec' \in [Scanners -> ScannerState]
    BY <1>2, ScanMoveType DEF ScannerPc
  <1>4. CASE Send(rec[s].gen + 1, rec[s].stage) /\ UNCHANGED <<redis, faults>>
    <2>1. rec[s].gen + 1 \in Nat /\ rec[s].stage \in Stage
      BY DEF TypeInv, TypeOK, ScannerState
    <2>2. queue' \subseteq Message /\ sent' \in Nat
      BY <1>4, <2>1, SendType
    <2> QED
      BY <1>1, <1>3, <1>4, <2>2 DEF TypeInv, TypeOK, BusyHasMessage
  <1>5. CASE ~(Send(rec[s].gen + 1, rec[s].stage) /\ UNCHANGED <<redis, faults>>)
    <2>1. /\ faults.sendFailures < MaxSendFailures
          /\ faults' = [faults EXCEPT !.sendFailures = @ + 1]
          /\ redis' = [redis EXCEPT !.guard = FALSE]
          /\ UNCHANGED <<queue, sent>>
      BY <1>5 DEF Redispatch
    <2>2. faults' \in FaultCount
      BY <2>1, TaskRunAssumption DEF TypeInv, TypeOK, FaultCount
    <2>3. redis' \in RuntimeKeys
      BY <2>1 DEF TypeInv, TypeOK, RuntimeKeys
    <2> QED
      BY <1>1, <1>3, <2>1, <2>2, <2>3 DEF TypeInv, TypeOK, BusyHasMessage
  <1> QED
    BY <1>4, <1>5

LEMMA ScanStepType == ASSUME TypeInv, NEW s \in Scanners, ScanStep(s) PROVE TypeInv'
  BY ScanType, ObserveType, RecheckType, ScanKeysType, AdvanceGenerationType,
     GiveUpType, SetDispatchGuardType, RedispatchType
  DEF ScanStep
-----------------------------------------------------------------------------
(* Time and faults, and the theorem                                        *)

LEMMA HelperType ==
  ASSUME TypeInv, NEW w \in Workers, HelperTick(w) \/ HelperDies(w)
  PROVE  TypeInv'
  <1>1. UNCHANGED <<task, queue, sent, cl, rec, finalObject, sourceObject, refunds>>
    BY DEF HelperTick, HelperDies
  <1>2. wk[w] \in WorkerState /\ wk[w].msg.id \in Nat
    BY DEF TypeInv, TypeOK, WorkerState, Message, NoMessage
  <1>3. redis' \in RuntimeKeys
    BY <1>2 DEF HelperTick, HelperDies, TypeInv, TypeOK, RuntimeKeys
  <1>4. faults' \in FaultCount
    <2>1. \/ faults' = faults
          \/ /\ faults.helperDeaths < MaxHelperDeaths
             /\ faults' = [faults EXCEPT !.helperDeaths = @ + 1]
      BY DEF HelperTick, HelperDies
    <2> QED
      BY <2>1, TaskRunAssumption DEF TypeInv, TypeOK, FaultCount
  <1>5. WorkersOK'
    <2>1. CASE wk' = wk
      BY <2>1 DEF TypeInv, TypeOK, WorkersOK, BusyHasMessage
    <2>2. CASE wk' = [wk EXCEPT ![w] = [wk[w] EXCEPT !.helper = FALSE]]
      <3>1. [wk[w] EXCEPT !.helper = FALSE] \in WorkerState
        BY <1>2 DEF WorkerState
      <3>2. [wk[w] EXCEPT !.helper = FALSE].pc # "idle" => [wk[w] EXCEPT !.helper = FALSE].msg \in Message
        BY <1>2 DEF WorkerState, TypeInv, BusyHasMessage
      <3> QED
        BY <2>2, <3>1, <3>2, MoveKeepsType
    <2> QED
      BY <2>1, <2>2 DEF HelperTick, HelperDies
  <1> QED
    BY <1>1, <1>3, <1>4, <1>5 DEF TypeInv, TypeOK, WorkersOK

LEMMA TimePassesType == ASSUME TypeInv, TimePasses PROVE TypeInv'
  <1>1. UNCHANGED <<queue, sent, wk, cl, rec, finalObject, sourceObject, refunds, faults>>
    BY DEF TimePasses, LockExpires, HeartbeatExpires, GoesQuiet, SuspicionAges,
           GuardExpires, ReapLockExpires, PauseRequestExpires
  <1>2. task' \in Row
    BY DEF TypeInv, TypeOK, Row, TimePasses, LockExpires, HeartbeatExpires, GoesQuiet,
           SuspicionAges, GuardExpires, ReapLockExpires, PauseRequestExpires
  <1>3. redis' \in RuntimeKeys
    <2>1. redis' \in {redis, [redis EXCEPT !.lock = Nobody], [redis EXCEPT !.heartbeat = Nobody],
                      [redis EXCEPT !.suspect = "confirmed"], [redis EXCEPT !.guard = FALSE],
                      [redis EXCEPT !.reap = FALSE], [redis EXCEPT !.pause = FALSE]}
      BY DEF TimePasses, LockExpires, HeartbeatExpires, GoesQuiet, SuspicionAges,
             GuardExpires, ReapLockExpires, PauseRequestExpires
    <2>2. redis \in RuntimeKeys
      BY DEF TypeInv, TypeOK
    <2>3. [redis EXCEPT !.lock = Nobody] \in RuntimeKeys /\ [redis EXCEPT !.heartbeat = Nobody] \in RuntimeKeys
      BY <2>2 DEF RuntimeKeys, Nobody
    <2>4. [redis EXCEPT !.suspect = "confirmed"] \in RuntimeKeys
      BY <2>2 DEF RuntimeKeys
    <2>5. /\ [redis EXCEPT !.guard = FALSE] \in RuntimeKeys
          /\ [redis EXCEPT !.reap = FALSE] \in RuntimeKeys
          /\ [redis EXCEPT !.pause = FALSE] \in RuntimeKeys
      BY <2>2 DEF RuntimeKeys
    <2> QED
      BY <2>1, <2>2, <2>3, <2>4, <2>5
  <1> QED
    BY <1>1, <1>2, <1>3 DEF TypeInv, TypeOK, BusyHasMessage

\* The step that makes BusyHasMessage necessary.
LEMMA CrashType == ASSUME TypeInv, NEW w \in Workers, Crash(w) PROVE TypeInv'
  <1>1. UNCHANGED <<task, redis, sent, cl, rec, finalObject, sourceObject, refunds>>
    BY DEF Crash
  <1>2. queue' \subseteq Message
    BY DEF Crash, At, TypeInv, TypeOK, BusyHasMessage
  <1>3. WorkersOK'
    BY IdleType, MoveKeepsType DEF Crash
  <1>4. faults' \in FaultCount
    <2>1. faults.crashes < MaxCrashes /\ faults' = [faults EXCEPT !.crashes = @ + 1]
      BY DEF Crash
    <2> QED
      BY <2>1, TaskRunAssumption DEF TypeInv, TypeOK, FaultCount
  <1> QED
    BY <1>1, <1>2, <1>3, <1>4 DEF TypeInv, TypeOK, WorkersOK

LEMMA RedeliverType == ASSUME TypeInv, NEW w \in Workers, Redeliver(w) PROVE TypeInv'
  <1>1. UNCHANGED <<task, redis, sent, wk, cl, rec, finalObject, sourceObject, refunds>>
    BY DEF Redeliver
  <1>2. queue' \subseteq Message
    BY DEF Redeliver, At, TypeInv, TypeOK, BusyHasMessage
  <1>3. faults' \in FaultCount
    <2>1. faults.redeliveries < MaxRedeliveries /\ faults' = [faults EXCEPT !.redeliveries = @ + 1]
      BY DEF Redeliver
    <2> QED
      BY <2>1, TaskRunAssumption DEF TypeInv, TypeOK, FaultCount
  <1> QED
    BY <1>1, <1>2, <1>3 DEF TypeInv, TypeOK, BusyHasMessage

LEMMA RequestDiesType == ASSUME TypeInv, NEW c \in Clients, RequestDies(c) PROVE TypeInv'
  <1>1. UNCHANGED <<task, redis, queue, sent, wk, rec, finalObject, sourceObject, refunds>>
    BY DEF RequestDies
  <1>2. cl' \in [Clients -> ClientState]
    BY IdleClientType, ClientMoveType DEF RequestDies
  <1>3. faults' \in FaultCount
    <2>1. faults.crashes < MaxCrashes /\ faults' = [faults EXCEPT !.crashes = @ + 1]
      BY DEF RequestDies
    <2> QED
      BY <2>1, TaskRunAssumption DEF TypeInv, TypeOK, FaultCount
  <1> QED
    BY <1>1, <1>2, <1>3 DEF TypeInv, TypeOK, BusyHasMessage

LEMMA ScanDiesType == ASSUME TypeInv, NEW s \in Scanners, ScanDies(s) PROVE TypeInv'
  <1>1. UNCHANGED <<task, redis, queue, sent, wk, cl, finalObject, sourceObject, refunds>>
    BY DEF ScanDies
  <1>2. rec' \in [Scanners -> ScannerState]
    BY ScanMoveType DEF ScanDies
  <1>3. faults' \in FaultCount
    <2>1. faults.crashes < MaxCrashes /\ faults' = [faults EXCEPT !.crashes = @ + 1]
      BY DEF ScanDies
    <2> QED
      BY <2>1, TaskRunAssumption DEF TypeInv, TypeOK, FaultCount
  <1> QED
    BY <1>1, <1>2, <1>3 DEF TypeInv, TypeOK, BusyHasMessage

LEMMA StutterType == ASSUME TypeInv, UNCHANGED vars PROVE TypeInv'
  BY DEF TypeInv, TypeOK, BusyHasMessage, vars

LEMMA NextType == TypeInv /\ [Next]_vars => TypeInv'
  <1> SUFFICES ASSUME TypeInv, [Next]_vars PROVE TypeInv'
    OBVIOUS
  <1>1. CASE \E w \in Workers : Deliver(w) \/ WorkerStep(w) \/ HelperTick(w)
                               \/ Crash(w) \/ Redeliver(w) \/ HelperDies(w)
    BY <1>1, DeliverType, WorkerStepType, HelperType, CrashType, RedeliverType
  <1>2. CASE \E c \in Clients : ClientStep(c) \/ RequestDies(c)
    BY <1>2, ClientStepType, RequestDiesType
  <1>3. CASE \E s \in Scanners : ScanStep(s) \/ ScanDies(s)
    BY <1>3, ScanStepType, ScanDiesType
  <1>4. CASE TimePasses
    BY <1>4, TimePassesType
  <1>5. CASE UNCHANGED vars
    BY <1>5, StutterType
  <1> QED
    BY <1>1, <1>2, <1>3, <1>4, <1>5 DEF Next

\* Every variable keeps its type: in particular a message that comes back from
\* a dead worker is a real message, and a run never reaches a stage after the
\* last, for any number of workers, requests, scans, stages and faults.
THEOREM TypeCorrect == Spec => []TypeOK
  <1>1. TypeInv => TypeOK
    BY DEF TypeInv
  <1> QED
    BY <1>1, InitType, NextType, PTL DEF Spec
-----------------------------------------------------------------------------
(* The fence                                                               *)

\* Whatever a worker does, it leaves the other workers alone.
LEMMA OtherWorkersStay ==
  ASSUME TypeInv, NEW v \in Workers, NEW w \in Workers, v # w,
         Deliver(v) \/ WorkerStep(v) \/ HelperTick(v) \/ Crash(v) \/ Redeliver(v) \/ HelperDies(v)
  PROVE  wk'[w] = wk[w]
  <1>1. wk \in [Workers -> WorkerState]
    BY DEF TypeInv, TypeOK
  <1>2. CASE Deliver(v) \/ HelperTick(v) \/ Crash(v) \/ Redeliver(v) \/ HelperDies(v)
    BY <1>1, <1>2 DEF Deliver, HelperTick, Crash, Redeliver, HelperDies
  <1>3. CASE WorkerStep(v)
    BY <1>1, <1>3 DEF WorkerStep, Goto, CheckGeneration, Acquire, ClearDispatchGuard,
       TakeSnapshot, LookForFinalOutput, MarkProcessing, Preflight, Boundary,
       ConsumePauseRequest, EnsureOwnership, StageHook, StageReports, StageEnds,
       MarkCompleted, MarkFailed, MarkPaused, ClearKeys, CleanupArtifacts, Release, Ack
  <1> QED
    BY <1>2, <1>3

Fenced == /\ task'.status = task.status
          /\ task'.stage = task.stage
          /\ task'.gen = task.gen

\* The six transactions of a run that write the row, and the one that only
\* forgets the source audio: none gets past the check of the generation.
LEMMA WorkerStepFenced ==
  ASSUME TypeInv, NEW w \in Workers, WorkerStep(w), wk[w].msg.gen # task.gen
  PROVE  Fenced
  <1>1. ~Current(w)
    BY DEF Current
  <1>2. CASE MarkProcessing(w) \/ StageHook(w)
    BY <1>1, <1>2 DEF MarkProcessing, StageHook, Fenced
  <1>3. CASE MarkCompleted(w) \/ MarkFailed(w) \/ MarkPaused(w)
    BY <1>1, <1>3 DEF MarkCompleted, MarkFailed, MarkPaused, Fenced
  <1>4. CASE CleanupArtifacts(w)
    BY <1>4 DEF CleanupArtifacts, Fenced, TypeInv, TypeOK, Row
  <1>5. CASE UNCHANGED task
    BY <1>5 DEF Fenced
  <1> QED
    BY <1>2, <1>3, <1>4, <1>5
    DEF WorkerStep, CheckGeneration, Acquire, ClearDispatchGuard, TakeSnapshot,
        LookForFinalOutput, Preflight, Boundary, ConsumePauseRequest, EnsureOwnership,
        StageReports, StageEnds, ClearKeys, Release, Ack

\* Requests, scans and the passing of time do not move workers.
LEMMA OthersLeaveWorkers ==
  ASSUME \/ \E c \in Clients : ClientStep(c) \/ RequestDies(c)
         \/ \E s \in Scanners : ScanStep(s) \/ ScanDies(s)
         \/ TimePasses
  PROVE  wk' = wk
  <1>1. CASE \E c \in Clients : ClientStep(c) \/ RequestDies(c)
    BY <1>1 DEF ClientStep, RequestDies, RequestPause, SetPauseRequest, RequestResume,
       ResumeClearKeys, ResumeRefresh, ResumeCommit, ResumeDispatch, RequestDelete,
       DeleteClearKeys, DeleteRow
  <1>2. CASE \E s \in Scanners : ScanStep(s) \/ ScanDies(s)
    BY <1>2 DEF ScanStep, ScanDies, Scan, Observe, TakeReapLock, RecheckHeartbeat,
       RecheckLock, RecheckGuard, Recheck, AdvanceGeneration, GiveUp, GiveUpClearKeys,
       SetDispatchGuard, Redispatch, CountResume
  <1>3. CASE TimePasses
    BY <1>3 DEF TimePasses, LockExpires, HeartbeatExpires, GoesQuiet, SuspicionAges,
       GuardExpires, ReapLockExpires, PauseRequestExpires
  <1> QED
    BY <1>1, <1>2, <1>3

\* The fence of run_generation: a worker of another generation never changes
\* status, stage or generation, however many workers, requests and scans there
\* are and whatever crashes, comes twice or comes late.
THEOREM Fence == Spec => FencedRow
  <1>1. TypeInv /\ [Next]_vars =>
          [\A w \in Workers :
             wk'[w] # wk[w] /\ wk[w].msg # NoMessage /\ wk[w].msg.gen # task.gen =>
               Fenced]_vars
    <2> SUFFICES ASSUME TypeInv, Next, NEW w \in Workers, wk'[w] # wk[w],
                        wk[w].msg.gen # task.gen
                 PROVE  Fenced
      OBVIOUS
    <2>1. PICK v \in Workers : \/ Deliver(v) \/ WorkerStep(v) \/ HelperTick(v)
                               \/ Crash(v) \/ Redeliver(v) \/ HelperDies(v)
      BY OthersLeaveWorkers DEF Next
    <2>2. v = w
      BY <2>1, OtherWorkersStay
    <2>3. CASE WorkerStep(w)
      BY <2>3, WorkerStepFenced
    <2>4. CASE Deliver(w) \/ HelperTick(w) \/ Crash(w) \/ Redeliver(w) \/ HelperDies(w)
      BY <2>4 DEF Deliver, HelperTick, Crash, Redeliver, HelperDies, Fenced
    <2> QED
      BY <2>1, <2>2, <2>3, <2>4
  <1> QED
    BY <1>1, InitType, NextType, PTL DEF Spec, FencedRow, Fenced
-----------------------------------------------------------------------------
(* Generations, when one request at a time, or one scan at a time, changes *)
(* them                                                                    *)

OneWriter ==
  \/ Scanners = {} /\ \A c, d \in Clients : c = d
  \/ Clients = {} /\ \A s, t \in Scanners : s = t

\* A request that has read the row is up to date until it commits; then no
\* message is of the new generation until it sends one.
NewGeneration == \A m \in Outstanding : m.gen < task.gen

RequestUpToDate(c) ==
  /\ cl[c].pc \in {"clearKeys", "commit"} => cl[c].gen = task.gen /\ task.gen < MaxGen
  /\ cl[c].pc = "dispatch" => cl[c].gen + 1 = task.gen /\ NewGeneration

ScanUpToDate(s) ==
  /\ rec[s].pc \in {"observe", "reap", "heartbeat", "lock", "guard", "advance"} =>
       rec[s].gen = task.gen
  /\ rec[s].pc \in {"setGuard", "send"} => rec[s].gen + 1 = task.gen /\ NewGeneration

GenerationInv ==
  /\ MessagesBehind
  /\ OneMessagePerGeneration
  /\ task.gen <= MaxGen + 1
  /\ \A c \in Clients : RequestUpToDate(c)
  /\ \A s \in Scanners : ScanUpToDate(s)

LEMMA InitGeneration == Init => GenerationInv
  <1> SUFFICES ASSUME Init PROVE GenerationInv
    OBVIOUS
  <1>1. Outstanding = {[id |-> 1, gen |-> 0, start |-> NoStart, force |-> FALSE]}
    BY DEF Init, Outstanding, At, IdleWorker
  <1>2. task.gen = 0
    BY DEF Init
  <1>3. MessagesBehind /\ OneMessagePerGeneration
    BY <1>1, <1>2 DEF MessagesBehind, OneMessagePerGeneration
  <1>4. task.gen <= MaxGen + 1
    BY <1>2, TaskRunAssumption
  <1>5. \A c \in Clients : RequestUpToDate(c)
    BY DEF Init, IdleClient, RequestUpToDate
  <1>6. \A s \in Scanners : ScanUpToDate(s)
    BY DEF Init, IdleScanner, ScanUpToDate
  <1> QED
    BY <1>3, <1>4, <1>5, <1>6 DEF GenerationInv

LEMMA GotoKeepsMessage ==
  ASSUME TypeInv, NEW w \in Workers, NEW pc, Goto(w, pc)
  PROVE  wk'[w].msg = wk[w].msg
  BY DEF TypeInv, TypeOK, WorkerState, Goto

\* Workers and the broker only hand messages around.
LEMMA WorkersSendNothing ==
  ASSUME TypeInv, NEW w \in Workers,
         Deliver(w) \/ WorkerStep(w) \/ HelperTick(w) \/ Crash(w) \/ Redeliver(w) \/ HelperDies(w)
  PROVE  Outstanding' \subseteq Outstanding /\ UNCHANGED <<cl, rec>> /\ task'.gen = task.gen
  <1>1. wk \in [Workers -> WorkerState]
    BY DEF TypeInv, TypeOK
  <1>2. \A v \in Workers : v # w => wk'[v] = wk[v]
    BY OtherWorkersStay
  <1>3. CASE Deliver(w)
    <2>1. PICK m \in queue : queue' = queue \ {m} /\ wk'[w].msg = m
      BY <1>1, <1>3 DEF Deliver, IdleWorker
    <2> QED
      BY <1>2, <1>3, <2>1 DEF Deliver, Outstanding, At
  <1>4. CASE Crash(w) \/ Redeliver(w)
    <2>1. queue' = queue \cup {wk[w].msg} /\ ~At(w, "idle") /\ UNCHANGED <<cl, rec, task>>
      BY <1>4 DEF Crash, Redeliver
    <2>2. wk'[w] = wk[w] \/ wk'[w].pc = "idle"
      BY <1>1, <1>4 DEF Crash, Redeliver, IdleWorker
    <2> QED
      BY <1>2, <2>1, <2>2 DEF Outstanding, At
  <1>5. CASE WorkerStep(w) \/ HelperTick(w) \/ HelperDies(w)
    <2>1. UNCHANGED <<queue, cl, rec>>
      BY <1>5 DEF WorkerStep, HelperTick, HelperDies, CheckGeneration, Acquire, ClearDispatchGuard,
         TakeSnapshot, LookForFinalOutput, MarkProcessing, Preflight, Boundary,
         ConsumePauseRequest, EnsureOwnership, StageHook, StageReports, StageEnds,
         MarkCompleted, MarkFailed, MarkPaused, ClearKeys, CleanupArtifacts, Release, Ack
    <2>2. /\ wk'[w].pc = "idle" \/ wk'[w].msg = wk[w].msg
          /\ wk[w].pc = "idle" => wk'[w].pc = "idle"
      <3>1. wk[w] \in WorkerState
        BY <1>1
      <3>2. CASE StageHook(w)
        <4>1. wk[w].pc # "idle"
          BY <3>2 DEF StageHook, At
        <4>2. CASE \E pc \in WorkerPc \ {"idle"} : Goto(w, pc)
          BY <4>1, <4>2, GotoKeepsMessage
        <4>3. CASE wk' = [wk EXCEPT ![w] = [wk[w] EXCEPT !.pc = "boundary", !.stage = wk[w].stage + 1]]
          BY <1>1, <3>1, <4>1, <4>3 DEF WorkerState
        <4> QED
          BY <3>2, <4>2, <4>3, StageHookMoves
      <3>3. CASE Acquire(w) \/ TakeSnapshot(w) \/ MarkProcessing(w)
        <4>1. wk[w].pc # "idle"
          BY <3>3 DEF Acquire, TakeSnapshot, MarkProcessing, At
        <4>2. CASE \E pc : Goto(w, pc)
          BY <4>1, <4>2, GotoKeepsMessage
        <4>3. CASE wk' = [wk EXCEPT ![w].pc = "unguard", ![w].helper = TRUE]
          BY <1>1, <3>1, <4>1, <4>3 DEF WorkerState
        <4>4. CASE \E pc, k, force : wk' = [wk EXCEPT ![w].pc = pc, ![w].stage = k, ![w].force = force]
          BY <1>1, <3>1, <4>1, <4>4 DEF WorkerState
        <4>5. CASE wk' = [wk EXCEPT ![w] = [wk[w] EXCEPT !.pc = "own", !.op = "start", !.stage = 0]]
          BY <1>1, <3>1, <4>1, <4>5 DEF WorkerState
        <4>6. CASE Acquire(w)
          BY <4>2, <4>3, <4>6 DEF Acquire
        <4>7. CASE TakeSnapshot(w)
          <5>1. CASE Current(w) /\ ~Skips(wk[w].msg)
            <6> DEFINE m == wk[w].msg
            <6>1. wk' = [wk EXCEPT ![w].pc = IF m.start = NoStart THEN "output" ELSE "process",
                                   ![w].stage = FirstStage(m),
                                   ![w].force = m.start # NoStart \/ ResumesFailed \/ m.force]
              BY <4>7, <5>1 DEF TakeSnapshot
            <6> QED
              BY <4>4, <6>1
          <5>2. CASE ~(Current(w) /\ ~Skips(wk[w].msg))
            BY <4>2, <4>7, <5>2 DEF TakeSnapshot
          <5> QED
            BY <5>1, <5>2
        <4>8. CASE MarkProcessing(w)
          BY <4>2, <4>5, <4>8 DEF MarkProcessing, Goto
        <4> QED
          BY <3>3, <4>6, <4>7, <4>8
      <3>4. CASE HelperTick(w) \/ HelperDies(w) \/ Release(w) \/ Ack(w)
        BY <1>1, <3>1, <3>4 DEF HelperTick, HelperDies, Release, Ack, At, IdleWorker, WorkerState
      <3>5. CASE Boundary(w) \/ StageReports(w) \/ StageEnds(w)
        BY <1>1, <3>1, <3>5 DEF Boundary, StageReports, StageEnds, At, Goto, WorkerState
      <3>6. CASE \/ CheckGeneration(w) \/ ClearDispatchGuard(w) \/ LookForFinalOutput(w)
                 \/ Preflight(w) \/ ConsumePauseRequest(w) \/ EnsureOwnership(w)
                 \/ MarkCompleted(w) \/ MarkFailed(w) \/ MarkPaused(w)
                 \/ ClearKeys(w) \/ CleanupArtifacts(w)
        <4>1. wk[w].pc # "idle"
          BY <3>6 DEF CheckGeneration, ClearDispatchGuard, LookForFinalOutput, Preflight,
             ConsumePauseRequest, EnsureOwnership, MarkCompleted, MarkFailed, MarkPaused,
             ClearKeys, CleanupArtifacts, At
        <4>2. \E pc : Goto(w, pc)
          BY <3>6 DEF CheckGeneration, ClearDispatchGuard, LookForFinalOutput, Preflight,
             ConsumePauseRequest, EnsureOwnership, MarkCompleted, MarkFailed, MarkPaused,
             ClearKeys, CleanupArtifacts
        <4> QED
          BY <4>1, <4>2, GotoKeepsMessage
      <3> QED
        BY <1>5, <3>2, <3>3, <3>4, <3>5, <3>6 DEF WorkerStep
    <2>3. task'.gen = task.gen
      BY <1>5 DEF WorkerStep, HelperTick, HelperDies, CheckGeneration, Acquire, ClearDispatchGuard,
         TakeSnapshot, LookForFinalOutput, MarkProcessing, Preflight, Boundary,
         ConsumePauseRequest, EnsureOwnership, StageHook, StageReports, StageEnds,
         MarkCompleted, MarkFailed, MarkPaused, ClearKeys, CleanupArtifacts, Release, Ack,
         TypeInv, TypeOK, Row
    <2> QED
      BY <1>2, <2>1, <2>2, <2>3 DEF Outstanding, At
  <1> QED
    BY <1>3, <1>4, <1>5

\* Messages that are handed around, and a row of the same generation, keep
\* what is known about generations.
LEMMA GenerationFrame ==
  ASSUME GenerationInv, Outstanding' \subseteq Outstanding, UNCHANGED <<cl, rec>>,
         task'.gen = task.gen
  PROVE  GenerationInv'
  <1>1. MessagesBehind' /\ OneMessagePerGeneration' /\ task'.gen <= MaxGen + 1
    BY DEF GenerationInv, MessagesBehind, OneMessagePerGeneration
  <1>2. NewGeneration => NewGeneration'
    BY DEF NewGeneration
  <1>3. \A c \in Clients : RequestUpToDate(c)'
    BY <1>2 DEF GenerationInv, RequestUpToDate
  <1>4. \A s \in Scanners : ScanUpToDate(s)'
    BY <1>2 DEF GenerationInv, ScanUpToDate
  <1> QED
    BY <1>1, <1>3, <1>4 DEF GenerationInv

\* A new message of the row's new generation.
LEMMA SendGeneration ==
  ASSUME TypeInv, GenerationInv, NEW start, Send(task.gen, start), UNCHANGED <<wk, task>>,
         NewGeneration
  PROVE  MessagesBehind' /\ OneMessagePerGeneration'
  <1> DEFINE m == [id |-> sent + 1, gen |-> task.gen, start |-> start, force |-> TRUE]
  <1>1. Outstanding' = Outstanding \cup {m}
    BY DEF Send, Outstanding, At
  <1>2. m.gen = task.gen /\ task.gen \in Nat
    BY DEF TypeInv, TypeOK, Row
  <1>3. \A n \in Outstanding : n.gen \in Nat
    BY DEF Outstanding, TypeInv, TypeOK, BusyHasMessage, At, Message
  <1> HIDE DEF m
  <1>4. MessagesBehind'
    BY <1>1, <1>2 DEF MessagesBehind, GenerationInv
  <1>5. OneMessagePerGeneration'
    BY <1>1, <1>2, <1>3 DEF OneMessagePerGeneration, GenerationInv, NewGeneration
  <1> QED
    BY <1>4, <1>5

LEMMA OutstandingFrame ==
  ASSUME UNCHANGED <<queue, wk>>
  PROVE  Outstanding' = Outstanding
  BY DEF Outstanding, At

\* With one request at a time, every step of it keeps the generations in order.
LEMMA ClientGeneration ==
  ASSUME TypeInv, GenerationInv, OneWriter, NEW c \in Clients, ClientStep(c) \/ RequestDies(c)
  PROVE  GenerationInv' /\ task'.gen >= task.gen
  <1>1. Scanners = {} /\ \A d \in Clients : d = c
    BY DEF OneWriter
  <1>2. /\ cl \in [Clients -> ClientState] /\ task \in Row
        /\ cl[c].gen \in Nat /\ task.gen \in Nat /\ MaxGen \in Nat
    BY TaskRunAssumption DEF TypeInv, TypeOK, ClientState, Row
  <1>3. RequestUpToDate(c) /\ MessagesBehind /\ OneMessagePerGeneration /\ task.gen <= MaxGen + 1
    BY DEF GenerationInv
  <1>4. ASSUME MessagesBehind', OneMessagePerGeneration', task'.gen <= MaxGen + 1, RequestUpToDate(c)'
        PROVE  GenerationInv'
    BY <1>1, <1>4 DEF GenerationInv
  <1>5. ASSUME UNCHANGED <<queue, wk>>, task'.gen = task.gen
        PROVE  /\ Outstanding' = Outstanding /\ MessagesBehind' /\ OneMessagePerGeneration'
               /\ task'.gen <= MaxGen + 1 /\ task'.gen >= task.gen
    BY <1>2, <1>3, <1>5, OutstandingFrame DEF MessagesBehind, OneMessagePerGeneration
  <1>6. CASE \/ RequestPause(c) \/ SetPauseRequest(c) \/ RequestDelete(c)
             \/ DeleteClearKeys(c) \/ DeleteRow(c) \/ RequestDies(c)
    <2>1. UNCHANGED <<queue, wk>>
      BY <1>6 DEF RequestPause, SetPauseRequest, RequestDelete, DeleteClearKeys, DeleteRow, RequestDies
    <2>2. task'.gen = task.gen
      BY <1>2, <1>6 DEF RequestPause, SetPauseRequest, RequestDelete, DeleteClearKeys, DeleteRow,
                        RequestDies, Row
    <2>3. cl'[c].pc \in {"idle", "flag", "forget", "dropRow"}
      BY <1>2, <1>6 DEF RequestPause, SetPauseRequest, RequestDelete, DeleteClearKeys, DeleteRow,
                        RequestDies, ClientGoto, IdleClient, ClientState
    <2>4. RequestUpToDate(c)'
      BY <2>3 DEF RequestUpToDate
    <2> QED
      BY <1>4, <1>5, <2>1, <2>2, <2>4
  <1>7. CASE RequestResume(c) \/ ResumeClearKeys(c) \/ ResumeRefresh(c)
    <2>1. UNCHANGED <<queue, wk, task>>
      BY <1>7 DEF RequestResume, ResumeClearKeys, ResumeRefresh
    <2>2. cl'[c].pc \in {"clearKeys", "commit"} /\ cl'[c].gen = task.gen /\ task.gen < MaxGen
      <3>1. CASE RequestResume(c)
        BY <1>2, <3>1 DEF RequestResume, ClientState
      <3>2. CASE ResumeClearKeys(c)
        BY <1>2, <1>3, <3>2 DEF ResumeClearKeys, ClientGoto, RequestUpToDate, ClientState
      <3>3. CASE ResumeRefresh(c)
        BY <1>2, <3>3 DEF ResumeRefresh, ClientState
      <3> QED
        BY <1>7, <3>1, <3>2, <3>3
    <2>3. RequestUpToDate(c)'
      BY <2>1, <2>2 DEF RequestUpToDate
    <2> QED
      BY <1>4, <1>5, <2>1, <2>3
  <1>8. CASE ResumeCommit(c)
    <2>1. UNCHANGED <<queue, wk>> /\ cl[c].gen = task.gen /\ task.gen < MaxGen
      BY <1>3, <1>8 DEF ResumeCommit, RequestUpToDate
    <2>2. CASE task.status = "deleted"
      <3>1. UNCHANGED task /\ cl'[c].pc = "idle"
        BY <1>2, <1>8, <2>2 DEF ResumeCommit, IdleClient
      <3>2. RequestUpToDate(c)'
        BY <3>1 DEF RequestUpToDate
      <3> QED
        BY <1>4, <1>5, <2>1, <3>1, <3>2
    <2>3. CASE task.status # "deleted"
      <3>1. task'.gen = task.gen + 1
        BY <1>2, <1>8, <2>1, <2>3 DEF ResumeCommit, NextGeneration, Row
      <3>2. cl'[c].pc = "dispatch" /\ cl'[c].gen = cl[c].gen
        BY <1>2, <1>8, <2>3 DEF ResumeCommit, ClientGoto, ClientState
      <3>3. Outstanding' = Outstanding
        BY <2>1, OutstandingFrame
      <3>4. \A m \in Outstanding : m.gen \in Nat
        BY DEF Outstanding, TypeInv, TypeOK, BusyHasMessage, At, Message
      <3>5. NewGeneration' /\ MessagesBehind' /\ OneMessagePerGeneration'
        BY <1>2, <1>3, <3>1, <3>3, <3>4 DEF NewGeneration, MessagesBehind, OneMessagePerGeneration
      <3>6. RequestUpToDate(c)'
        BY <2>1, <3>1, <3>2, <3>5 DEF RequestUpToDate
      <3>7. task'.gen <= MaxGen + 1 /\ task'.gen >= task.gen
        BY <1>2, <2>1, <3>1
      <3> QED
        BY <1>4, <3>5, <3>6, <3>7
    <2> QED
      BY <2>2, <2>3
  <1>9. CASE ResumeDispatch(c)
    <2>1. cl'[c].pc = "idle" /\ UNCHANGED wk
      BY <1>2, <1>9 DEF ResumeDispatch, IdleClient
    <2>2. RequestUpToDate(c)'
      BY <2>1 DEF RequestUpToDate
    <2>3. CASE UNCHANGED <<queue, sent>>
      <3>1. task'.gen = task.gen
        BY <1>2, <1>9, <2>3 DEF ResumeDispatch, Row
      <3> QED
        BY <1>4, <1>5, <2>1, <2>2, <2>3, <3>1
    <2>4. CASE Send(NextGeneration(c), cl[c].stage) /\ UNCHANGED task
      <3>1. NextGeneration(c) = task.gen /\ NewGeneration
        BY <1>3, <1>9 DEF ResumeDispatch, RequestUpToDate, NextGeneration
      <3>2. MessagesBehind' /\ OneMessagePerGeneration'
        BY <2>1, <2>4, <3>1, SendGeneration
      <3> QED
        BY <1>2, <1>3, <1>4, <2>2, <2>4, <3>2
    <2> QED
      BY <1>9, <2>3, <2>4 DEF ResumeDispatch
  <1> QED
    BY <1>6, <1>7, <1>8, <1>9 DEF ClientStep


\* What a scan that reads on, or ends, knows of generations.
LEMMA ScanGotoGeneration ==
  ASSUME TypeInv, NEW s \in Scanners, NEW pc, ScanGoto(s, pc)
  PROVE  rec'[s].pc = pc /\ rec'[s].gen = rec[s].gen
  BY DEF ScanGoto, TypeInv, TypeOK, ScannerState

LEMMA ScanEndsGeneration ==
  ASSUME TypeInv, NEW s \in Scanners, ScanEnds(s)
  PROVE  rec'[s].pc = "idle"
  BY DEF ScanEnds, IdleScanner, TypeInv, TypeOK

\* With one scan at a time, every step of it keeps the generations in order.
LEMMA ScanGeneration ==
  ASSUME TypeInv, GenerationInv, OneWriter, NEW s \in Scanners, ScanStep(s) \/ ScanDies(s)
  PROVE  GenerationInv' /\ task'.gen >= task.gen
  <1>1. Clients = {} /\ \A t \in Scanners : t = s
    BY DEF OneWriter
  <1>2. /\ rec \in [Scanners -> ScannerState] /\ task \in Row
        /\ rec[s].gen \in Nat /\ task.gen \in Nat /\ MaxGen \in Nat
    BY TaskRunAssumption DEF TypeInv, TypeOK, ScannerState, Row
  <1>3. ScanUpToDate(s) /\ MessagesBehind /\ OneMessagePerGeneration /\ task.gen <= MaxGen + 1
    BY DEF GenerationInv
  <1>4. ASSUME MessagesBehind', OneMessagePerGeneration', task'.gen <= MaxGen + 1, ScanUpToDate(s)'
        PROVE  GenerationInv'
    BY <1>1, <1>4 DEF GenerationInv
  <1>5. ASSUME UNCHANGED <<queue, wk>>, task'.gen = task.gen
        PROVE  /\ Outstanding' = Outstanding /\ MessagesBehind' /\ OneMessagePerGeneration'
               /\ task'.gen <= MaxGen + 1 /\ task'.gen >= task.gen
    BY <1>2, <1>3, <1>5, OutstandingFrame DEF MessagesBehind, OneMessagePerGeneration
  <1>6. CASE \/ Observe(s) \/ TakeReapLock(s) \/ RecheckHeartbeat(s) \/ RecheckLock(s)
             \/ RecheckGuard(s) \/ GiveUp(s) \/ GiveUpClearKeys(s) \/ CountResume(s) \/ ScanDies(s)
    <2>1. UNCHANGED <<queue, wk>>
      BY <1>6 DEF Observe, TakeReapLock, RecheckHeartbeat, RecheckLock, RecheckGuard, Recheck,
         GiveUp, GiveUpClearKeys, CountResume, ScanDies
    <2>2. task'.gen = task.gen
      BY <1>2, <1>6 DEF Observe, TakeReapLock, RecheckHeartbeat, RecheckLock, RecheckGuard,
         Recheck, GiveUp, GiveUpClearKeys, CountResume, ScanDies, Row
    <2>3. \/ ScanEnds(s) \/ ScanGoto(s, "wipe")
          \/ /\ rec[s].pc \in {"observe", "reap", "heartbeat", "lock", "guard"}
             /\ \E pc \in {"reap", "heartbeat", "lock", "guard", "advance"} : ScanGoto(s, pc)
      <3>1. CASE GiveUp(s) \/ GiveUpClearKeys(s) \/ CountResume(s) \/ ScanDies(s)
        BY <3>1 DEF GiveUp, GiveUpClearKeys, CountResume, ScanDies
      <3>2. CASE TakeReapLock(s) \/ RecheckHeartbeat(s) \/ RecheckLock(s) \/ RecheckGuard(s)
        BY <3>2 DEF TakeReapLock, RecheckHeartbeat, RecheckLock, RecheckGuard, Recheck
      <3>3. CASE Observe(s)
        <4>1. rec[s].pc = "observe" /\ redis.suspect \in {"none", "fresh", "confirmed"}
          BY <3>3 DEF Observe, TypeInv, TypeOK, RuntimeKeys
        <4>2. ScanEnds(s) \/ ScanGoto(s, "reap")
          <5>1. CASE redis.heartbeat # Nobody
            BY <3>3, <5>1 DEF Observe
          <5>2. CASE redis.heartbeat = Nobody /\ (redis.lock # Nobody \/ redis.guard)
            BY <3>3, <5>2 DEF Observe
          <5>3. CASE redis.heartbeat = Nobody /\ redis.lock = Nobody /\ ~redis.guard
            BY <3>3, <4>1, <5>3 DEF Observe
          <5> QED
            BY <5>1, <5>2, <5>3
        <4> QED
          BY <4>1, <4>2
      <3> QED
        BY <1>6, <3>1, <3>2, <3>3
    <2>4. ScanUpToDate(s)'
      BY <1>3, <2>2, <2>3, ScanEndsGeneration, ScanGotoGeneration DEF ScanUpToDate
    <2> QED
      BY <1>4, <1>5, <2>1, <2>2, <2>4
  <1>7. CASE Scan(s)
    <2>1. UNCHANGED <<queue, wk, task>> /\ rec'[s].pc = "observe" /\ rec'[s].gen = task.gen
      BY <1>2, <1>7 DEF Scan
    <2> QED
      BY <1>4, <1>5, <2>1 DEF ScanUpToDate
  <1>8. CASE AdvanceGeneration(s)
    <2>1. UNCHANGED <<queue, wk>> /\ rec[s].gen = task.gen
      BY <1>3, <1>8 DEF AdvanceGeneration, ScanUpToDate
    <2>2. CASE task.status = "deleted"
      <3>1. UNCHANGED task /\ ScanEnds(s)
        BY <1>8, <2>2 DEF AdvanceGeneration
      <3>2. ScanUpToDate(s)'
        BY <3>1, ScanEndsGeneration DEF ScanUpToDate
      <3> QED
        BY <1>4, <1>5, <2>1, <3>1, <3>2
    <2>3. CASE task.status # "deleted"
      <3>1. PICK pc \in {"giveUp", "setGuard"} :
              /\ ScanGoto(s, pc)
              /\ pc = "setGuard" => task.gen + 1 <= MaxGen
        BY <1>8, <2>1, <2>3 DEF AdvanceGeneration
      <3>2. task'.gen = IF task.gen + 1 <= MaxGen THEN task.gen + 1 ELSE MaxGen + 1
        BY <1>2, <1>8, <2>1, <2>3 DEF AdvanceGeneration, Row
      <3>3. task'.gen >= task.gen /\ task'.gen <= MaxGen + 1 /\ task'.gen \in Nat
        BY <1>2, <1>3, <3>2
      <3>4. Outstanding' = Outstanding /\ \A m \in Outstanding : m.gen \in Nat
        BY <2>1, OutstandingFrame DEF Outstanding, TypeInv, TypeOK, BusyHasMessage, At, Message
      <3>5. MessagesBehind' /\ OneMessagePerGeneration'
        BY <1>2, <1>3, <3>3, <3>4 DEF MessagesBehind, OneMessagePerGeneration
      <3>6. rec'[s].pc = pc /\ rec'[s].gen = rec[s].gen
        BY <3>1, ScanGotoGeneration
      <3>7. CASE pc = "giveUp"
        BY <1>4, <3>3, <3>5, <3>6, <3>7 DEF ScanUpToDate
      <3>8. CASE pc = "setGuard"
        <4>1. task'.gen = task.gen + 1
          BY <3>1, <3>2, <3>8
        <4>2. NewGeneration'
          BY <1>2, <1>3, <3>4, <4>1 DEF NewGeneration, MessagesBehind
        <4>3. ScanUpToDate(s)'
          BY <2>1, <3>6, <3>8, <4>1, <4>2 DEF ScanUpToDate
        <4> QED
          BY <1>4, <3>3, <3>5, <4>3
      <3> QED
        BY <3>1, <3>7, <3>8
    <2> QED
      BY <2>2, <2>3
  <1>9. CASE SetDispatchGuard(s)
    <2>1. UNCHANGED <<queue, wk, task>> /\ rec[s].gen + 1 = task.gen /\ NewGeneration
      BY <1>3, <1>9 DEF SetDispatchGuard, ScanUpToDate
    <2>2. rec'[s].pc = "send" /\ rec'[s].gen = rec[s].gen
      BY <1>2, <1>9 DEF SetDispatchGuard, ScannerState
    <2>3. Outstanding' = Outstanding
      BY <2>1, OutstandingFrame
    <2>4. ScanUpToDate(s)'
      BY <2>1, <2>2, <2>3 DEF ScanUpToDate, NewGeneration
    <2> QED
      BY <1>4, <1>5, <2>1, <2>4
  <1>10. CASE Redispatch(s)
    <2>1. UNCHANGED <<wk, task>> /\ rec[s].gen + 1 = task.gen /\ NewGeneration
      BY <1>3, <1>10 DEF Redispatch, ScanUpToDate
    <2>2. ScanUpToDate(s)'
      BY <1>10, ScanEndsGeneration, ScanGotoGeneration DEF Redispatch, ScanUpToDate
    <2>3. CASE UNCHANGED <<queue, sent>>
      BY <1>4, <1>5, <2>1, <2>2, <2>3
    <2>4. CASE Send(rec[s].gen + 1, rec[s].stage)
      <3>1. MessagesBehind' /\ OneMessagePerGeneration'
        BY <2>1, <2>4, SendGeneration
      <3> QED
        BY <1>2, <1>3, <1>4, <2>1, <2>2, <3>1
    <2> QED
      BY <1>10, <2>3, <2>4 DEF Redispatch
  <1> QED
    BY <1>6, <1>7, <1>8, <1>9, <1>10 DEF ScanStep

\* The passing of time sends nothing and changes no generation.
LEMMA TimeGeneration ==
  ASSUME TypeInv, GenerationInv, TimePasses \/ UNCHANGED vars
  PROVE  GenerationInv' /\ task'.gen >= task.gen
  <1>1. UNCHANGED <<queue, wk, cl, rec>>
    BY DEF TimePasses, LockExpires, HeartbeatExpires, GoesQuiet, SuspicionAges, GuardExpires,
           ReapLockExpires, PauseRequestExpires, vars
  <1>2. task \in Row /\ task'.gen = task.gen
    BY DEF TypeInv, TypeOK, Row, TimePasses, LockExpires, HeartbeatExpires, GoesQuiet,
           SuspicionAges, GuardExpires, ReapLockExpires, PauseRequestExpires, vars
  <1>3. GenerationInv'
    BY <1>1, <1>2, OutstandingFrame, GenerationFrame
  <1>4. task.gen \in Nat
    BY <1>2 DEF Row
  <1> QED
    BY <1>2, <1>3, <1>4

LEMMA NextGenerations ==
  OneWriter /\ TypeInv /\ GenerationInv /\ [Next]_vars => GenerationInv' /\ task'.gen >= task.gen
  <1> SUFFICES ASSUME OneWriter, TypeInv, GenerationInv, [Next]_vars
               PROVE  GenerationInv' /\ task'.gen >= task.gen
    OBVIOUS
  <1>1. CASE \E w \in Workers : \/ Deliver(w) \/ WorkerStep(w) \/ HelperTick(w)
                                \/ Crash(w) \/ Redeliver(w) \/ HelperDies(w)
    <2>1. Outstanding' \subseteq Outstanding /\ UNCHANGED <<cl, rec>> /\ task'.gen = task.gen
      BY <1>1, WorkersSendNothing
    <2>2. task.gen \in Nat
      BY DEF TypeInv, TypeOK, Row
    <2> QED
      BY <2>1, <2>2, GenerationFrame
  <1>2. CASE \E c \in Clients : ClientStep(c) \/ RequestDies(c)
    BY <1>2, ClientGeneration
  <1>3. CASE \E s \in Scanners : ScanStep(s) \/ ScanDies(s)
    BY <1>3, ScanGeneration
  <1>4. CASE TimePasses \/ UNCHANGED vars
    BY <1>4, TimeGeneration
  <1> QED
    BY <1>1, <1>2, <1>3, <1>4 DEF Next

LEMMA SpecGenerations == ASSUME OneWriter PROVE Spec => [](TypeInv /\ GenerationInv)
  <1>1. TypeInv /\ GenerationInv /\ [Next]_vars => TypeInv' /\ GenerationInv'
    BY NextType, NextGenerations
  <1> QED
    BY <1>1, InitType, InitGeneration, PTL DEF Spec

\* resume_task and the reconciler commit the new generation before they send
\* its message, so no message is ever ahead of the row: a run that finds
\* another generation there is always late, never early.
THEOREM NeverAhead == ASSUME OneWriter PROVE Spec => []MessagesBehind
  <1>1. GenerationInv => MessagesBehind
    BY DEF GenerationInv
  <1> QED
    BY <1>1, SpecGenerations, PTL

\* As long as only one request or one scan at a time changes the generation,
\* a generation has one message, and the owner token names one run.
THEOREM OneRunPerGeneration == ASSUME OneWriter PROVE Spec => []OneMessagePerGeneration
  <1>1. GenerationInv => OneMessagePerGeneration
    BY DEF GenerationInv
  <1> QED
    BY <1>1, SpecGenerations, PTL

\* Under the same assumption the generation of the row never goes back, so a
\* message that is late once stays late.
THEOREM GenerationGrows == ASSUME OneWriter PROVE Spec => [][task'.gen >= task.gen]_vars
  <1>1. TypeInv /\ GenerationInv /\ [Next]_vars => [task'.gen >= task.gen]_vars
    BY NextGenerations
  <1> QED
    BY <1>1, SpecGenerations, PTL DEF Spec

-----------------------------------------------------------------------------
(* Who executes.  Nothing is assumed of generations, so this holds for any *)
(* number of workers, requests and scans at once.                          *)

(* How a worker moves.                                                     *)

\* The control flow of run_pipeline_task.
Follows(pc, next) ==
  \/ pc = "received" /\ next \in {"acquire", "ack"}
  \/ pc = "acquire" /\ next \in {"unguard", "finally", "ack"}
  \/ pc = "unguard" /\ next = "snapshot"
  \/ pc = "snapshot" /\ next \in {"output", "process", "finally"}
  \/ pc = "output" /\ next \in {"complete", "process"}
  \/ pc = "process" /\ next \in {"own", "preflight", "finally"}
  \/ pc = "preflight" /\ next \in {"boundary", "pause", "fail"}
  \/ pc = "boundary" /\ next \in {"unflag", "own"}
  \/ pc = "unflag" /\ next = "pause"
  \/ pc = "own" /\ next \in {"txn", "finally"}
  \/ pc = "txn" /\ next \in {"work", "boundary", "complete", "finally"}
  \/ pc = "work" /\ next \in {"own", "fail", "pause", "unflag"}
  \/ pc = "complete" /\ next \in {"clearDone", "finally"}
  \/ pc = "fail" /\ next \in {"clear", "finally"}
  \/ pc = "pause" /\ next \in {"clear", "finally"}
  \/ pc = "clear" /\ next = "finally"
  \/ pc = "clearDone" /\ next = "cleanup"
  \/ pc = "cleanup" /\ next = "finally"
  \/ pc = "finally" /\ next = "ack"
  \/ pc = "ack" /\ next = "idle"

\* A worker that goes to another step changes nothing else of itself.
LEMMA GotoDoes ==
  ASSUME TypeInv, NEW w \in Workers, NEW pc, Goto(w, pc)
  PROVE  /\ wk'[w].pc = pc /\ wk'[w].msg = wk[w].msg /\ wk'[w].stage = wk[w].stage
         /\ wk'[w].op = wk[w].op /\ wk'[w].force = wk[w].force /\ wk'[w].helper = wk[w].helper
  BY DEF TypeInv, TypeOK, WorkerState, Goto

\* Every step of a worker follows the control flow with its message in hand.
Moves(w) ==
  /\ \A v \in Workers : v # w => wk'[v] = wk[v]
  /\ Follows(wk[w].pc, wk'[w].pc)
  /\ wk'[w].pc # "idle" => wk'[w].msg = wk[w].msg
  /\ UNCHANGED <<queue, sent, cl, rec>>
  /\ HelperFault

LEMMA StageHookDoes ==
  ASSUME TypeInv, NEW w \in Workers, StageHook(w)
  PROVE  /\ wk'[w].pc \in {"work", "boundary", "complete", "finally"}
         /\ wk'[w].msg = wk[w].msg /\ wk'[w].op = wk[w].op /\ wk'[w].helper = wk[w].helper
         /\ wk'[w].pc = "complete" => wk[w].op = "finish" /\ wk[w].stage = LastStage
         /\ wk'[w].pc # "finally" => Current(w)
  <1> DEFINE k == wk[w].stage
             op == wk[w].op
  <1>1. wk \in [Workers -> WorkerState] /\ wk[w] \in WorkerState
    BY DEF TypeInv, TypeOK
  <1>2. k \in 0 .. LastStage /\ LastStage \in Nat
    BY <1>1, TaskRunAssumption DEF WorkerState, Stage
  <1>3. CASE ~Current(w)
    <2>1. Goto(w, "finally")
      BY <1>3 DEF StageHook
    <2> QED
      BY <2>1, GotoDoes
  <1>4. CASE Current(w) /\ op # "finish"
    <2>1. wk' = [wk EXCEPT ![w] = [wk[w] EXCEPT !.pc = "work"]]
      BY <1>4 DEF StageHook
    <2> QED
      BY <1>1, <1>4, <2>1 DEF WorkerState
  <1>5. CASE Current(w) /\ op = "finish" /\ k < LastStage
    <2>1. wk' = [wk EXCEPT ![w] = [wk[w] EXCEPT !.pc = "boundary", !.stage = k + 1]]
      BY <1>2, <1>5 DEF StageHook
    <2> QED
      BY <1>1, <1>5, <2>1 DEF WorkerState
  <1>6. CASE Current(w) /\ op = "finish" /\ k = LastStage
    <2>1. wk' = [wk EXCEPT ![w] = [wk[w] EXCEPT !.pc = "complete"]]
      BY <1>2, <1>6 DEF StageHook
    <2> QED
      BY <1>1, <1>6, <2>1 DEF WorkerState
  <1> QED
    BY <1>2, <1>3, <1>4, <1>5, <1>6

LEMMA WorkerMoves ==
  ASSUME TypeInv, NEW w \in Workers, WorkerStep(w)
  PROVE  Moves(w)
  <1>1. wk \in [Workers -> WorkerState] /\ wk[w] \in WorkerState
    BY DEF TypeInv, TypeOK
  <1>2. \A v \in Workers : v # w => wk'[v] = wk[v]
    BY OtherWorkersStay
  <1>3. UNCHANGED <<queue, sent, cl, rec>> /\ HelperFault
    BY DEF WorkerStep, CheckGeneration, Acquire, ClearDispatchGuard,
       TakeSnapshot, LookForFinalOutput, MarkProcessing, Preflight, Boundary,
       ConsumePauseRequest, EnsureOwnership, StageHook, StageReports, StageEnds,
       MarkCompleted, MarkFailed, MarkPaused, ClearKeys, CleanupArtifacts, Release, Ack,
       HelperFault
  <1> DEFINE Does == /\ Follows(wk[w].pc, wk'[w].pc)
                     /\ wk'[w].pc # "idle" => wk'[w].msg = wk[w].msg
  <1>4. Does
    <2>1. CASE CheckGeneration(w) \/ ClearDispatchGuard(w) \/ LookForFinalOutput(w) \/ Preflight(w)
      BY <2>1, GotoDoes DEF CheckGeneration, ClearDispatchGuard, LookForFinalOutput, Preflight, At, Follows
    <2>2. CASE ConsumePauseRequest(w) \/ EnsureOwnership(w) \/ CleanupArtifacts(w) \/ ClearKeys(w)
      BY <2>2, GotoDoes DEF ConsumePauseRequest, EnsureOwnership, CleanupArtifacts, ClearKeys, At, Follows
    <2>3. CASE MarkCompleted(w) \/ MarkFailed(w) \/ MarkPaused(w)
      BY <2>3, GotoDoes DEF MarkCompleted, MarkFailed, MarkPaused, At, Follows
    <2>4. CASE Acquire(w) \/ Release(w) \/ Ack(w)
      BY <1>1, <2>4 DEF Acquire, Release, Ack, At, Goto, IdleWorker, WorkerState, Follows
    <2>5. CASE Boundary(w) \/ StageReports(w) \/ StageEnds(w)
      BY <1>1, <2>5 DEF Boundary, StageReports, StageEnds, At, Goto, WorkerState, Follows
    <2>6. CASE TakeSnapshot(w)
      <3> DEFINE m == wk[w].msg
      <3>1. CASE Current(w) /\ ~Skips(m)
        <4>1. wk' = [wk EXCEPT ![w].pc = IF m.start = NoStart THEN "output" ELSE "process",
                               ![w].stage = FirstStage(m),
                               ![w].force = m.start # NoStart \/ ResumesFailed \/ m.force]
          BY <2>6, <3>1 DEF TakeSnapshot
        <4>2. wk'[w].pc \in {"output", "process"} /\ wk'[w].msg = wk[w].msg
          BY <1>1, <4>1 DEF WorkerState
        <4> QED
          BY <2>6, <4>2 DEF TakeSnapshot, At, Follows
      <3>2. CASE ~(Current(w) /\ ~Skips(m))
        <4>1. Goto(w, "finally") /\ wk[w].pc = "snapshot"
          BY <2>6, <3>2 DEF TakeSnapshot, At
        <4> QED
          BY <4>1, GotoDoes DEF Follows
      <3> QED
        BY <3>1, <3>2
    <2>7. CASE MarkProcessing(w)
      <3>1. \/ Goto(w, "finally")
            \/ wk' = [wk EXCEPT ![w] = [wk[w] EXCEPT !.pc = "own", !.op = "start", !.stage = 0]]
            \/ wk' = [wk EXCEPT ![w] = [wk[w] EXCEPT !.pc = "preflight"]]
        BY <2>7 DEF MarkProcessing
      <3>2. wk'[w].pc \in {"finally", "own", "preflight"} /\ wk'[w].msg = wk[w].msg
        <4>1. CASE Goto(w, "finally")
          BY <4>1, GotoDoes
        <4>2. CASE ~Goto(w, "finally")
          BY <1>1, <3>1, <4>2 DEF WorkerState
        <4> QED
          BY <4>1, <4>2
      <3> QED
        BY <2>7, <3>2 DEF MarkProcessing, At, Follows
    <2>8. CASE StageHook(w)
      <3>1. wk[w].pc = "txn"
        BY <2>8 DEF StageHook, At
      <3> QED
        BY <2>8, <3>1, StageHookDoes DEF Follows
    <2> QED
      BY <2>1, <2>2, <2>3, <2>4, <2>5, <2>6, <2>7, <2>8 DEF WorkerStep
  <1> QED
    BY <1>2, <1>3, <1>4 DEF Moves

\* What the broker, a worker's helper and the faults do to a worker.
LEMMA WorkerMeets ==
  ASSUME TypeInv, NEW w \in Workers,
         Deliver(w) \/ HelperTick(w) \/ Redeliver(w) \/ HelperDies(w)
  PROVE  /\ \A v \in Workers : v # w => wk'[v] = wk[v]
         /\ Deliver(w) => /\ wk[w].pc = "idle" /\ wk'[w].pc = "received"
                          /\ wk'[w].msg \in queue /\ queue' = queue \ {wk'[w].msg}
         /\ ~Deliver(w) => /\ wk'[w].pc = wk[w].pc /\ wk'[w].msg = wk[w].msg
                           /\ wk'[w].stage = wk[w].stage /\ wk'[w].op = wk[w].op
                           /\ wk'[w].force = wk[w].force
  <1>1. wk \in [Workers -> WorkerState] /\ wk[w] \in WorkerState
    BY DEF TypeInv, TypeOK
  <1>2. \A v \in Workers : v # w => wk'[v] = wk[v]
    BY OtherWorkersStay
  <1>3. CASE Deliver(w)
    BY <1>1, <1>2, <1>3 DEF Deliver, At, IdleWorker
  <1>4. CASE ~Deliver(w)
    BY <1>1, <1>2, <1>4 DEF HelperTick, Redeliver, HelperDies, WorkerState
  <1> QED
    BY <1>3, <1>4

\* Faults are counted and never forgotten; what a process does by itself is
\* no fault.
LEMMA FaultsAdd ==
  ASSUME TypeInv, [Next]_vars
  PROVE  /\ faults'.crashes >= faults.crashes
         /\ faults'.redeliveries >= faults.redeliveries
         /\ faults'.helperDeaths >= faults.helperDeaths
         /\ (\E w \in Workers : Crash(w)) => faults'.crashes > 0
         /\ (\E c \in Clients : RequestDies(c)) => faults'.crashes > 0
         /\ (\E s \in Scanners : ScanDies(s)) => faults'.crashes > 0
         /\ (\E w \in Workers : HelperDies(w)) => faults'.helperDeaths > 0
         /\ (\E w \in Workers : Redeliver(w)) => faults'.redeliveries = faults.redeliveries + 1
  <1>1. /\ faults \in FaultCount
        /\ faults.crashes \in Nat /\ faults.redeliveries \in Nat /\ faults.helperDeaths \in Nat
    BY TaskRunAssumption DEF TypeInv, TypeOK, FaultCount
  <1>2. ASSUME NEW w \in Workers, Deliver(w) \/ WorkerStep(w) \/ HelperTick(w)
        PROVE  /\ faults'.crashes = faults.crashes /\ faults'.redeliveries = faults.redeliveries
               /\ faults'.helperDeaths >= faults.helperDeaths
    <2>1. CASE WorkerStep(w)
      BY <1>1, <2>1, WorkerMoves DEF Moves, HelperFault, FaultCount
    <2>2. CASE Deliver(w) \/ HelperTick(w)
      <3>1. UNCHANGED faults
        BY <2>2 DEF Deliver, HelperTick
      <3> QED
        BY <1>1, <3>1
    <2> QED
      BY <1>2, <2>1, <2>2
  <1>3. ASSUME NEW c \in Clients, ClientStep(c)
        PROVE  /\ faults'.crashes = faults.crashes /\ faults'.redeliveries = faults.redeliveries
               /\ faults'.helperDeaths = faults.helperDeaths
    BY <1>1, <1>3 DEF ClientStep, RequestPause, SetPauseRequest, RequestResume, ResumeClearKeys,
       ResumeRefresh, ResumeCommit, ResumeDispatch, RequestDelete, DeleteClearKeys, DeleteRow,
       FaultCount
  <1>4. ASSUME NEW s \in Scanners, ScanStep(s)
        PROVE  /\ faults'.crashes = faults.crashes /\ faults'.redeliveries = faults.redeliveries
               /\ faults'.helperDeaths = faults.helperDeaths
    BY <1>1, <1>4 DEF ScanStep, Scan, Observe, TakeReapLock, RecheckHeartbeat, RecheckLock,
       RecheckGuard, Recheck, AdvanceGeneration, GiveUp, GiveUpClearKeys, SetDispatchGuard,
       Redispatch, CountResume, FaultCount
  <1>5. TimePasses \/ UNCHANGED vars => UNCHANGED faults
    BY DEF TimePasses, LockExpires, HeartbeatExpires, GoesQuiet, SuspicionAges, GuardExpires,
       ReapLockExpires, PauseRequestExpires, vars
  <1>6. ASSUME NEW w \in Workers, Crash(w)
        PROVE  /\ faults'.crashes = faults.crashes + 1 /\ faults'.redeliveries = faults.redeliveries
               /\ faults'.helperDeaths = faults.helperDeaths
    BY <1>1, <1>6 DEF Crash, FaultCount
  <1>7. ASSUME NEW w \in Workers, Redeliver(w)
        PROVE  /\ faults'.crashes = faults.crashes /\ faults'.redeliveries = faults.redeliveries + 1
               /\ faults'.helperDeaths = faults.helperDeaths
    BY <1>1, <1>7 DEF Redeliver, FaultCount
  <1>8. ASSUME NEW w \in Workers, HelperDies(w)
        PROVE  /\ faults'.crashes = faults.crashes /\ faults'.redeliveries = faults.redeliveries
               /\ faults'.helperDeaths = faults.helperDeaths + 1
    BY <1>1, <1>8 DEF HelperDies, FaultCount
  <1>9. ASSUME NEW c \in Clients, RequestDies(c)
        PROVE  /\ faults'.crashes = faults.crashes + 1 /\ faults'.redeliveries = faults.redeliveries
               /\ faults'.helperDeaths = faults.helperDeaths
    BY <1>1, <1>9 DEF RequestDies, FaultCount
  <1>10. ASSUME NEW s \in Scanners, ScanDies(s)
         PROVE  /\ faults'.crashes = faults.crashes + 1 /\ faults'.redeliveries = faults.redeliveries
                /\ faults'.helperDeaths = faults.helperDeaths
    BY <1>1, <1>10 DEF ScanDies, FaultCount
  <1>11. /\ faults'.crashes >= faults.crashes /\ faults'.redeliveries >= faults.redeliveries
         /\ faults'.helperDeaths >= faults.helperDeaths
    BY <1>1, <1>2, <1>3, <1>4, <1>5, <1>6, <1>7, <1>8, <1>9, <1>10 DEF Next
  <1> QED
    BY <1>1, <1>6, <1>7, <1>8, <1>9, <1>10, <1>11

-----------------------------------------------------------------------------
(* The lock                                                                *)

\* Between its SET NX on the lock and the end of its finally block.
Holding(w) == wk[w].pc \notin {"idle", "received", "acquire", "ack"}

LockHeld ==
  redis.lock # Nobody /\ faults.crashes = 0 =>
    \E w \in Workers : Holding(w) /\ wk[w].msg.id = redis.lock

\* Only a run that acquires the lock puts an owner there.
LEMMA OnlyRunsLock ==
  ASSUME TypeInv, [Next]_vars, redis'.lock \notin {redis.lock, Nobody}
  PROVE  \E w \in Workers : Acquire(w) /\ redis'.lock = wk[w].msg.id
  <1>1. redis \in RuntimeKeys
    BY DEF TypeInv, TypeOK
  <1>2. ASSUME NEW w \in Workers, WorkerStep(w), ~Acquire(w)
        PROVE  FALSE
    BY <1>1, <1>2 DEF WorkerStep, CheckGeneration, ClearDispatchGuard, TakeSnapshot,
       LookForFinalOutput, MarkProcessing, Preflight, Boundary, ConsumePauseRequest,
       EnsureOwnership, StageHook, StageReports, StageEnds, MarkCompleted, MarkFailed,
       MarkPaused, ClearKeys, CleanupArtifacts, Release, Ack, KeysCleared, RuntimeKeys
  <1>3. ASSUME NEW w \in Workers,
               Deliver(w) \/ HelperTick(w) \/ Crash(w) \/ Redeliver(w) \/ HelperDies(w)
        PROVE  FALSE
    BY <1>1, <1>3 DEF Deliver, HelperTick, Crash, Redeliver, HelperDies, RuntimeKeys
  <1>4. ASSUME NEW c \in Clients, ClientStep(c) \/ RequestDies(c)
        PROVE  FALSE
    BY <1>1, <1>4 DEF ClientStep, RequestPause, SetPauseRequest, RequestResume, ResumeClearKeys,
       ResumeRefresh, ResumeCommit, ResumeDispatch, RequestDelete, DeleteClearKeys, DeleteRow,
       RequestDies, KeysCleared, RuntimeKeys
  <1>5. ASSUME NEW s \in Scanners, ScanStep(s) \/ ScanDies(s)
        PROVE  FALSE
    <2>1. CASE Observe(s)
      <3>1. redis.suspect \in {"none", "fresh", "confirmed"}
        BY <1>1 DEF RuntimeKeys
      <3>2. redis' = redis \/ redis' = Unsuspected \/ redis' = [redis EXCEPT !.suspect = "fresh"]
        BY <2>1, <3>1 DEF Observe
      <3> QED
        BY <1>1, <3>2 DEF Unsuspected, RuntimeKeys
    <2>2. CASE ~Observe(s)
      BY <1>1, <1>5, <2>2 DEF ScanStep, ScanDies, Scan, TakeReapLock, RecheckHeartbeat,
         RecheckLock, RecheckGuard, Recheck, AdvanceGeneration, GiveUp, GiveUpClearKeys,
         SetDispatchGuard, Redispatch, CountResume, KeysCleared, Unsuspected, RuntimeKeys
    <2> QED
      BY <2>1, <2>2
  <1>6. TimePasses \/ UNCHANGED vars => FALSE
    BY <1>1 DEF TimePasses, LockExpires, HeartbeatExpires, GoesQuiet, SuspicionAges,
       GuardExpires, ReapLockExpires, PauseRequestExpires, vars, RuntimeKeys
  <1>7. PICK w \in Workers : Acquire(w)
    BY <1>2, <1>3, <1>4, <1>5, <1>6 DEF Next, WorkerStep
  <1> QED
    BY <1>1, <1>7 DEF Acquire, RuntimeKeys

\* A run that holds the lock goes on holding it unless it ends or dies.
LEMMA HolderStays ==
  ASSUME TypeInv, [Next]_vars, NEW w \in Workers, Holding(w),
         ~Crash(w), ~Release(w)
  PROVE  Holding(w)' /\ wk'[w].msg = wk[w].msg
  <1>1. CASE UNCHANGED wk
    BY <1>1 DEF Holding
  <1>2. CASE wk' # wk
    <2>1. PICK v \in Workers : \/ Deliver(v) \/ WorkerStep(v) \/ HelperTick(v)
                               \/ Crash(v) \/ Redeliver(v) \/ HelperDies(v)
      BY <1>2, OthersLeaveWorkers DEF Next, vars
    <2>2. CASE v # w
      BY <2>1, <2>2, OtherWorkersStay DEF Holding
    <2>3. CASE v = w /\ WorkerStep(w)
      <3>1. Moves(w)
        BY <2>3, WorkerMoves
      <3>2. wk[w].pc # "finally"
        BY <2>3 DEF WorkerStep, CheckGeneration, Acquire, ClearDispatchGuard, TakeSnapshot,
           LookForFinalOutput, MarkProcessing, Preflight, Boundary, ConsumePauseRequest,
           EnsureOwnership, StageHook, StageReports, StageEnds, MarkCompleted, MarkFailed,
           MarkPaused, ClearKeys, CleanupArtifacts, Ack, At
      <3> QED
        BY <3>1, <3>2 DEF Moves, Follows, Holding
    <2>4. CASE v = w /\ ~WorkerStep(w)
      BY <2>1, <2>4, WorkerMeets DEF Holding
    <2> QED
      BY <2>2, <2>3, <2>4
  <1> QED
    BY <1>1, <1>2

LEMMA LockStep == TypeInv /\ LockHeld /\ [Next]_vars => LockHeld'
  <1> SUFFICES ASSUME TypeInv, LockHeld, [Next]_vars, redis'.lock # Nobody, faults'.crashes = 0
               PROVE  \E w \in Workers : Holding(w)' /\ wk'[w].msg.id = redis'.lock
    BY DEF LockHeld
  <1>1. faults.crashes = 0 /\ \A w \in Workers : ~Crash(w)
    BY FaultsAdd, TaskRunAssumption DEF TypeInv, TypeOK, FaultCount
  <1>2. CASE redis'.lock = redis.lock
    <2>1. PICK w \in Workers : Holding(w) /\ wk[w].msg.id = redis.lock
      BY <1>1, <1>2 DEF LockHeld
    <2>2. ~Release(w)
      BY <1>2, <2>1 DEF Release, TypeInv, TypeOK, RuntimeKeys
    <2> QED
      BY <1>1, <1>2, <2>1, <2>2, HolderStays
  <1>3. CASE redis'.lock # redis.lock
    <2>1. PICK w \in Workers : Acquire(w) /\ redis'.lock = wk[w].msg.id
      BY <1>3, OnlyRunsLock
    <2>2. wk'[w].pc \in {"unguard", "finally"} /\ wk'[w].msg = wk[w].msg
      BY <1>3, <2>1 DEF Acquire, Goto, TypeInv, TypeOK, WorkerState
    <2> QED
      BY <2>1, <2>2 DEF Holding
  <1> QED
    BY <1>2, <1>3

\* Whichever way a run ends, and whoever clears the keys, restores messages,
\* kills helpers or resumes the task meanwhile: while no process has died, a
\* lock in Redis names a message that a busy worker holds, so nothing waits
\* for a lock of nobody.
THEOREM NoLockOfNobody == Spec => []LockHasRun
  <1>1. Init => LockHeld
    BY DEF Init, LockHeld
  <1>2. LockHeld => LockHasRun
    BY DEF LockHeld, LockHasRun, Holding, At
  <1> QED
    BY <1>1, <1>2, LockStep, InitType, NextType, PTL DEF Spec

-----------------------------------------------------------------------------
(* The output of a completed task                                          *)

\* The final output is in the store, or its owner has deleted it with the
\* task: the row is gone, or the request is about to remove it.
OutputMade ==
  \/ finalObject
  \/ task.status = "deleted"
  \/ \E c \in Clients : cl[c].pc = "dropRow"

\* The end of mixing, after its upload and before mark_completed.
Finishing(w) ==
  \/ wk[w].pc = "complete"
  \/ wk[w].pc \in {"own", "txn"} /\ wk[w].op = "finish" /\ wk[w].stage = LastStage

OutputInv ==
  faults.crashes = 0 =>
    /\ task.status = "completed" => OutputMade
    /\ \A w \in Workers : Finishing(w) => OutputMade

\* A deleted row stays deleted.
LEMMA DeletedStays ==
  ASSUME TypeInv, [Next]_vars, task.status = "deleted"
  PROVE  task'.status = "deleted"
  <1>1. task \in Row
    BY DEF TypeInv, TypeOK
  <1>2. ASSUME NEW w \in Workers, WorkerStep(w)
        PROVE  task' = task
    <2>1. ~Current(w)
      BY DEF Current
    <2> QED
      BY <1>2, <2>1 DEF WorkerStep, CheckGeneration, Acquire, ClearDispatchGuard, TakeSnapshot,
         LookForFinalOutput, MarkProcessing, Preflight, Boundary, ConsumePauseRequest,
         EnsureOwnership, StageHook, StageReports, StageEnds, MarkCompleted, MarkFailed,
         MarkPaused, ClearKeys, CleanupArtifacts, Release, Ack
  <1>3. ASSUME NEW w \in Workers,
               Deliver(w) \/ HelperTick(w) \/ Crash(w) \/ Redeliver(w) \/ HelperDies(w)
        PROVE  task' = task
    BY <1>3 DEF Deliver, HelperTick, Crash, Redeliver, HelperDies
  <1>4. ASSUME NEW c \in Clients, ClientStep(c) \/ RequestDies(c)
        PROVE  task'.status = "deleted"
    BY <1>1, <1>4 DEF ClientStep, RequestPause, SetPauseRequest, RequestResume, ResumeClearKeys,
       ResumeRefresh, ResumeCommit, ResumeDispatch, RequestDelete, DeleteClearKeys, DeleteRow,
       RequestDies, Row
  <1>5. ASSUME NEW s \in Scanners, ScanStep(s) \/ ScanDies(s)
        PROVE  task' = task
    BY <1>5 DEF ScanStep, ScanDies, Scan, Observe, TakeReapLock, RecheckHeartbeat, RecheckLock,
       RecheckGuard, Recheck, AdvanceGeneration, GiveUp, GiveUpClearKeys, SetDispatchGuard,
       Redispatch, CountResume
  <1>6. TimePasses \/ UNCHANGED vars => task' = task
    BY DEF TimePasses, LockExpires, HeartbeatExpires, GoesQuiet, SuspicionAges, GuardExpires,
       ReapLockExpires, PauseRequestExpires, vars
  <1> QED
    BY <1>2, <1>3, <1>4, <1>5, <1>6 DEF Next

\* Requests take the output away only with the task.
LEMMA OutputStays ==
  ASSUME TypeInv, [Next]_vars, OutputMade, \A c \in Clients : ~RequestDies(c)
  PROVE  OutputMade'
  <1>1. cl \in [Clients -> ClientState] /\ task \in Row
    BY DEF TypeInv, TypeOK
  <1>2. ASSUME NEW c \in Clients, ClientStep(c)
        PROVE  OutputMade'
    <2>1. \A d \in Clients : d # c => cl'[d] = cl[d]
      BY <1>1, <1>2 DEF ClientStep, RequestPause, SetPauseRequest, RequestResume,
         ResumeClearKeys, ResumeRefresh, ResumeCommit, ResumeDispatch, RequestDelete,
         DeleteClearKeys, DeleteRow, ClientGoto
    <2>2. CASE DeleteClearKeys(c)
      <3>1. cl'[c].pc = "dropRow"
        BY <1>1, <2>2 DEF DeleteClearKeys, ClientGoto, ClientState
      <3> QED
        BY <3>1 DEF OutputMade
    <2>3. CASE DeleteRow(c)
      BY <1>1, <2>3 DEF DeleteRow, OutputMade, Row
    <2>4. CASE ~DeleteClearKeys(c) /\ ~DeleteRow(c)
      <3>1. cl[c].pc # "dropRow" /\ UNCHANGED finalObject
        BY <1>2, <2>4 DEF ClientStep, RequestPause, SetPauseRequest, RequestResume,
           ResumeClearKeys, ResumeRefresh, ResumeCommit, ResumeDispatch, RequestDelete
      <3> QED
        BY <2>1, <3>1, DeletedStays DEF OutputMade
    <2> QED
      BY <2>2, <2>3, <2>4
  <1>3. CASE UNCHANGED cl /\ (finalObject => finalObject')
    BY <1>3, DeletedStays DEF OutputMade
  <1>4. ASSUME NEW w \in Workers,
               \/ Deliver(w) \/ WorkerStep(w) \/ HelperTick(w)
               \/ Crash(w) \/ Redeliver(w) \/ HelperDies(w)
        PROVE  UNCHANGED cl /\ (finalObject => finalObject')
    <2>1. CASE StageEnds(w)
      <3>1. UNCHANGED cl
        BY <2>1 DEF StageEnds
      <3>2. \/ finalObject' = (finalObject \/ wk[w].stage = LastStage)
            \/ finalObject' = finalObject
        BY <2>1, Zenon DEF StageEnds
      <3>3. finalObject => finalObject'
        BY <3>2, Zenon
      <3> QED
        BY <3>1, <3>3
    <2>2. CASE WorkerStep(w) /\ ~StageEnds(w)
      <3>1. UNCHANGED <<cl, finalObject>>
        BY <2>2 DEF WorkerStep, CheckGeneration, Acquire, ClearDispatchGuard, TakeSnapshot,
           LookForFinalOutput, MarkProcessing, Preflight, Boundary, ConsumePauseRequest,
           EnsureOwnership, StageHook, StageReports, MarkCompleted, MarkFailed, MarkPaused,
           ClearKeys, CleanupArtifacts, Release, Ack
      <3> QED
        BY <3>1
    <2>3. CASE ~WorkerStep(w)
      <3>1. UNCHANGED <<cl, finalObject>>
        BY <1>4, <2>3 DEF Deliver, HelperTick, Crash, Redeliver, HelperDies
      <3> QED
        BY <3>1
    <2> QED
      BY <2>1, <2>2, <2>3
  <1>5. ASSUME NEW s \in Scanners, ScanStep(s) \/ ScanDies(s)
        PROVE  UNCHANGED <<cl, finalObject>>
    BY <1>5 DEF ScanStep, ScanDies, Scan, Observe, TakeReapLock, RecheckHeartbeat, RecheckLock,
       RecheckGuard, Recheck, AdvanceGeneration, GiveUp, GiveUpClearKeys, SetDispatchGuard,
       Redispatch, CountResume
  <1>6. TimePasses \/ UNCHANGED vars => UNCHANGED <<cl, finalObject>>
    BY DEF TimePasses, LockExpires, HeartbeatExpires, GoesQuiet, SuspicionAges, GuardExpires,
       ReapLockExpires, PauseRequestExpires, vars
  <1> QED
    BY <1>2, <1>3, <1>4, <1>5, <1>6 DEF Next

\* A run comes to the end of mixing with its output uploaded, or found.
LEMMA FinishingHasOutput ==
  ASSUME TypeInv, NEW w \in Workers, WorkerStep(w), Finishing(w)'
  PROVE  Finishing(w) \/ finalObject'
  <1>1. wk \in [Workers -> WorkerState] /\ wk[w] \in WorkerState
    BY DEF TypeInv, TypeOK
  <1>2. Moves(w)
    BY WorkerMoves
  <1>3. wk'[w].pc \in {"own", "txn", "complete"}
    BY DEF Finishing
  <1>4. CASE wk[w].pc = "output"
    <2>1. LookForFinalOutput(w)
      BY <1>4 DEF WorkerStep, CheckGeneration, Acquire, ClearDispatchGuard, TakeSnapshot,
         MarkProcessing, Preflight, Boundary, ConsumePauseRequest, EnsureOwnership, StageHook,
         StageReports, StageEnds, MarkCompleted, MarkFailed, MarkPaused, ClearKeys,
         CleanupArtifacts, Release, Ack, At
    <2>2. Goto(w, IF finalObject THEN "complete" ELSE "process") /\ UNCHANGED finalObject
      BY <2>1 DEF LookForFinalOutput
    <2> QED
      BY <1>3, <2>2, GotoDoes
  <1>5. CASE wk[w].pc \in {"process", "boundary"}
    <2>1. MarkProcessing(w) \/ Boundary(w)
      BY <1>5 DEF WorkerStep, CheckGeneration, Acquire, ClearDispatchGuard, TakeSnapshot,
         LookForFinalOutput, Preflight, ConsumePauseRequest, EnsureOwnership, StageHook,
         StageReports, StageEnds, MarkCompleted, MarkFailed, MarkPaused, ClearKeys,
         CleanupArtifacts, Release, Ack, At
    <2>2. wk'[w].pc = "own"
      BY <1>2, <1>3, <1>5 DEF Moves, Follows
    <2>3. wk'[w].op = "start"
      <3>1. CASE \E pc : Goto(w, pc) /\ pc \in {"unflag", "finally"}
        BY <2>2, <3>1, GotoDoes
      <3>2. CASE MarkProcessing(w) /\ ~Goto(w, "finally")
        <4>1. \/ wk' = [wk EXCEPT ![w] = [wk[w] EXCEPT !.pc = "own", !.op = "start", !.stage = 0]]
              \/ wk' = [wk EXCEPT ![w] = [wk[w] EXCEPT !.pc = "preflight"]]
          BY <3>2 DEF MarkProcessing
        <4> QED
          BY <1>1, <2>2, <4>1 DEF WorkerState
      <3>3. CASE Boundary(w) /\ ~Goto(w, "unflag")
        <4>1. wk' = [wk EXCEPT ![w] = [wk[w] EXCEPT !.pc = "own", !.op = "start"]]
          BY <3>3 DEF Boundary
        <4> QED
          BY <1>1, <4>1 DEF WorkerState
      <3> QED
        BY <2>1, <3>1, <3>2, <3>3
    <2> QED
      BY <2>2, <2>3 DEF Finishing
  <1>6. CASE wk[w].pc = "own"
    <2>1. EnsureOwnership(w)
      BY <1>6 DEF WorkerStep, CheckGeneration, Acquire, ClearDispatchGuard, TakeSnapshot,
         LookForFinalOutput, MarkProcessing, Preflight, Boundary, ConsumePauseRequest, StageHook,
         StageReports, StageEnds, MarkCompleted, MarkFailed, MarkPaused, ClearKeys,
         CleanupArtifacts, Release, Ack, At
    <2>2. Goto(w, IF Owns(w) THEN "txn" ELSE "finally")
      BY <2>1 DEF EnsureOwnership
    <2> QED
      BY <1>3, <1>6, <2>2, GotoDoes DEF Finishing
  <1>7. CASE wk[w].pc = "txn"
    <2>1. StageHook(w)
      BY <1>7 DEF WorkerStep, CheckGeneration, Acquire, ClearDispatchGuard, TakeSnapshot,
         LookForFinalOutput, MarkProcessing, Preflight, Boundary, ConsumePauseRequest,
         EnsureOwnership, StageReports, StageEnds, MarkCompleted, MarkFailed, MarkPaused,
         ClearKeys, CleanupArtifacts, Release, Ack, At
    <2> QED
      BY <1>3, <1>7, <2>1, StageHookDoes DEF Finishing
  <1>8. CASE wk[w].pc = "work"
    <2>1. StageReports(w) \/ StageEnds(w)
      BY <1>8 DEF WorkerStep, CheckGeneration, Acquire, ClearDispatchGuard, TakeSnapshot,
         LookForFinalOutput, MarkProcessing, Preflight, Boundary, ConsumePauseRequest,
         EnsureOwnership, StageHook, MarkCompleted, MarkFailed, MarkPaused,
         ClearKeys, CleanupArtifacts, Release, Ack, At
    <2>2. CASE StageReports(w)
      <3>1. wk'[w].pc = "own" /\ wk'[w].op = "report"
        BY <1>1, <2>2 DEF StageReports, WorkerState
      <3> QED
        BY <3>1 DEF Finishing
    <2>3. CASE \E pc \in {"fail", "pause", "unflag"} : Goto(w, pc)
      BY <1>3, <2>3, GotoDoes
    <2>4. CASE /\ wk' = [wk EXCEPT ![w].pc = "own", ![w].op = "finish"]
               /\ finalObject' = (finalObject \/ wk[w].stage = LastStage)
      <3>1. wk'[w].pc = "own" /\ wk'[w].stage = wk[w].stage
        BY <1>1, <2>4 DEF WorkerState
      <3> QED
        BY <2>4, <3>1 DEF Finishing
    <2> QED
      BY <2>1, <2>2, <2>3, <2>4 DEF StageEnds
  <1> QED
    BY <1>2, <1>3, <1>4, <1>5, <1>6, <1>7, <1>8 DEF Moves, Follows

\* Only mark_completed completes a row.
LEMMA OnlyCompletes ==
  ASSUME TypeInv, [Next]_vars, task.status # "completed", task'.status = "completed"
  PROVE  \E w \in Workers : MarkCompleted(w) /\ wk[w].pc = "complete"
  <1>1. task \in Row
    BY DEF TypeInv, TypeOK
  <1>2. ASSUME NEW w \in Workers, WorkerStep(w), ~MarkCompleted(w)
        PROVE  FALSE
    BY <1>1, <1>2 DEF WorkerStep, CheckGeneration, Acquire, ClearDispatchGuard, TakeSnapshot,
       LookForFinalOutput, MarkProcessing, Preflight, Boundary, ConsumePauseRequest,
       EnsureOwnership, StageHook, StageReports, StageEnds, MarkFailed, MarkPaused, ClearKeys,
       CleanupArtifacts, Release, Ack, Row
  <1>3. ASSUME NEW w \in Workers,
               Deliver(w) \/ HelperTick(w) \/ Crash(w) \/ Redeliver(w) \/ HelperDies(w)
        PROVE  FALSE
    BY <1>3 DEF Deliver, HelperTick, Crash, Redeliver, HelperDies
  <1>4. ASSUME NEW c \in Clients, ClientStep(c) \/ RequestDies(c)
        PROVE  FALSE
    BY <1>1, <1>4 DEF ClientStep, RequestPause, SetPauseRequest, RequestResume, ResumeClearKeys,
       ResumeRefresh, ResumeCommit, ResumeDispatch, RequestDelete, DeleteClearKeys, DeleteRow,
       RequestDies, Row
  <1>5. ASSUME NEW s \in Scanners, ScanStep(s) \/ ScanDies(s)
        PROVE  FALSE
    BY <1>1, <1>5 DEF ScanStep, ScanDies, Scan, Observe, TakeReapLock, RecheckHeartbeat,
       RecheckLock, RecheckGuard, Recheck, AdvanceGeneration, GiveUp, GiveUpClearKeys,
       SetDispatchGuard, Redispatch, CountResume, Row
  <1>6. TimePasses \/ UNCHANGED vars => FALSE
    BY <1>1 DEF TimePasses, LockExpires, HeartbeatExpires, GoesQuiet, SuspicionAges,
       GuardExpires, ReapLockExpires, PauseRequestExpires, vars, Row
  <1>7. PICK w \in Workers : MarkCompleted(w)
    BY <1>2, <1>3, <1>4, <1>5, <1>6 DEF Next
  <1> QED
    BY <1>7 DEF MarkCompleted, At

LEMMA OutputStep == TypeInv /\ OutputInv /\ [Next]_vars => OutputInv'
  <1> SUFFICES ASSUME TypeInv, OutputInv, [Next]_vars, faults'.crashes = 0
               PROVE  /\ task'.status = "completed" => OutputMade'
                      /\ \A w \in Workers : Finishing(w)' => OutputMade'
    BY DEF OutputInv
  <1>1. /\ faults.crashes = 0 /\ \A w \in Workers : ~Crash(w)
        /\ \A c \in Clients : ~RequestDies(c)
    BY FaultsAdd, TaskRunAssumption DEF TypeInv, TypeOK, FaultCount
  <1>2. OutputMade => OutputMade'
    BY <1>1, OutputStays
  <1>3. task'.status = "completed" => OutputMade'
    <2>1. CASE task.status = "completed"
      BY <1>1, <1>2, <2>1 DEF OutputInv
    <2>2. CASE task.status # "completed"
      BY <1>1, <1>2, <2>2, OnlyCompletes DEF OutputInv, Finishing
    <2> QED
      BY <2>1, <2>2
  <1>4. ASSUME NEW w \in Workers, Finishing(w)'
        PROVE  OutputMade'
    <2>1. CASE Finishing(w)
      BY <1>1, <1>2, <2>1 DEF OutputInv
    <2>2. CASE ~Finishing(w)
      <3>1. PICK v \in Workers : \/ Deliver(v) \/ WorkerStep(v) \/ HelperTick(v)
                                 \/ Crash(v) \/ Redeliver(v) \/ HelperDies(v)
        BY <1>4, <2>2, OthersLeaveWorkers DEF Next, vars, Finishing
      <3>2. v = w
        BY <1>4, <2>2, <3>1, OtherWorkersStay DEF Finishing
      <3>3. WorkerStep(w)
        BY <1>1, <1>4, <2>2, <3>1, <3>2, WorkerMeets DEF Finishing
      <3> QED
        BY <1>4, <2>2, <3>3, FinishingHasOutput DEF OutputMade
    <2> QED
      BY <2>1, <2>2
  <1> QED
    BY <1>3, <1>4

\* A completed task has its output, with any number of runs, requests and
\* scans and whatever is delivered twice, unless a process died: a request
\* that dies between the store and the row leaves the row without its output.
THEOREM OutputOfCompleted == Spec => [](faults.crashes = 0 => CompletedHasOutput)
  <1>1. Init => OutputInv
    BY DEF Init, OutputInv, Finishing, IdleWorker
  <1>2. TypeInv /\ OutputInv => (faults.crashes = 0 => CompletedHasOutput)
    BY DEF OutputInv, OutputMade, CompletedHasOutput, Dropping
  <1> QED
    BY <1>1, <1>2, OutputStep, InitType, NextType, PTL DEF Spec

-----------------------------------------------------------------------------
(* The first generation                                                    *)

FirstMessage == [id |-> 1, gen |-> 0, start |-> NoStart, force |-> FALSE]

\* While the row is of generation 0, whoever would clear keys or send messages
\* for a later one has not come so far, and the message of create_task is the
\* only one.
FirstGeneration ==
  /\ \A c \in Clients : cl[c].pc = "dispatch" => task.gen > 0
  /\ \A s \in Scanners :
       rec[s].pc \in {"setGuard", "send", "count", "giveUp", "wipe"} => task.gen > 0
  /\ task.gen = 0 => Outstanding \subseteq {FirstMessage}

\* Generation 0 is left once and for all, by the two that advance it.
LEMMA FirstGenerationEnds ==
  ASSUME TypeInv, [Next]_vars
  PROVE  /\ task'.gen = task.gen \/ task'.gen > 0
         /\ \/ task'.gen = task.gen
            \/ \E c \in Clients : ResumeCommit(c)
            \/ \E s \in Scanners : AdvanceGeneration(s)
  <1>1. task \in Row /\ task.gen \in Nat /\ MaxGen \in Nat
    BY TaskRunAssumption DEF TypeInv, TypeOK, Row
  <1>2. ASSUME NEW w \in Workers,
               \/ Deliver(w) \/ WorkerStep(w) \/ HelperTick(w)
               \/ Crash(w) \/ Redeliver(w) \/ HelperDies(w)
        PROVE  task'.gen = task.gen
    BY <1>2, WorkersSendNothing
  <1>3. ASSUME NEW c \in Clients, ClientStep(c) \/ RequestDies(c)
        PROVE  task'.gen = task.gen \/ (ResumeCommit(c) /\ task'.gen > 0)
    <2>1. CASE ResumeCommit(c)
      <3>1. cl[c].gen \in Nat
        BY DEF TypeInv, TypeOK, ClientState
      <3>2. \/ task' = task
            \/ task' = [task EXCEPT !.status = "pending", !.gen = cl[c].gen + 1,
                                    !.resumable = FALSE, !.quiet = FALSE]
        BY <2>1 DEF ResumeCommit, NextGeneration
      <3>3. task' = task \/ task'.gen = cl[c].gen + 1
        BY <1>1, <3>2 DEF Row
      <3> QED
        BY <2>1, <3>1, <3>3
    <2>2. CASE ~ResumeCommit(c)
      BY <1>1, <1>3, <2>2 DEF ClientStep, RequestPause, SetPauseRequest, RequestResume,
         ResumeClearKeys, ResumeRefresh, ResumeDispatch, RequestDelete, DeleteClearKeys,
         DeleteRow, RequestDies, Row
    <2> QED
      BY <2>1, <2>2
  <1>4. ASSUME NEW s \in Scanners, ScanStep(s) \/ ScanDies(s)
        PROVE  task'.gen = task.gen \/ (AdvanceGeneration(s) /\ task'.gen > 0)
    <2>1. CASE AdvanceGeneration(s)
      <3>1. rec[s].gen \in Nat
        BY DEF TypeInv, TypeOK, ScannerState
      <3>2. \/ task' = task
            \/ \E gen \in {rec[s].gen + 1, MaxGen + 1} : task' = [task EXCEPT !.gen = gen]
        BY <2>1 DEF AdvanceGeneration
      <3> QED
        BY <1>1, <2>1, <3>1, <3>2 DEF Row
    <2>2. CASE ~AdvanceGeneration(s)
      BY <1>1, <1>4, <2>2 DEF ScanStep, ScanDies, Scan, Observe, TakeReapLock, RecheckHeartbeat,
         RecheckLock, RecheckGuard, Recheck, GiveUp, GiveUpClearKeys, SetDispatchGuard,
         Redispatch, CountResume, Row
    <2> QED
      BY <2>1, <2>2
  <1>5. TimePasses \/ UNCHANGED vars => task'.gen = task.gen
    BY <1>1 DEF TimePasses, LockExpires, HeartbeatExpires, GoesQuiet, SuspicionAges,
       GuardExpires, ReapLockExpires, PauseRequestExpires, vars, Row
  <1> QED
    BY <1>2, <1>3, <1>4, <1>5 DEF Next

\* A message is sent by a request that has committed a generation, or by a
\* scan that has advanced one.
LEMMA OnlyTheySend ==
  ASSUME TypeInv, [Next]_vars, ~(Outstanding' \subseteq Outstanding)
  PROVE  \/ \E c \in Clients : cl[c].pc = "dispatch"
         \/ \E s \in Scanners : rec[s].pc = "send"
  <1>1. ASSUME NEW w \in Workers,
               \/ Deliver(w) \/ WorkerStep(w) \/ HelperTick(w)
               \/ Crash(w) \/ Redeliver(w) \/ HelperDies(w)
        PROVE  FALSE
    BY <1>1, WorkersSendNothing
  <1>2. ~UNCHANGED <<queue, wk>>
    BY OutstandingFrame
  <1>3. ASSUME NEW c \in Clients, ClientStep(c) \/ RequestDies(c)
        PROVE  cl[c].pc = "dispatch"
    BY <1>2, <1>3 DEF ClientStep, RequestPause, SetPauseRequest, RequestResume,
       ResumeClearKeys, ResumeRefresh, ResumeCommit, ResumeDispatch, RequestDelete,
       DeleteClearKeys, DeleteRow, RequestDies
  <1>4. ASSUME NEW s \in Scanners, ScanStep(s) \/ ScanDies(s)
        PROVE  rec[s].pc = "send"
    BY <1>2, <1>4 DEF ScanStep, ScanDies, Scan, Observe, TakeReapLock, RecheckHeartbeat,
       RecheckLock, RecheckGuard, Recheck, AdvanceGeneration, GiveUp, GiveUpClearKeys,
       SetDispatchGuard, Redispatch, CountResume
  <1>5. TimePasses \/ UNCHANGED vars => FALSE
    BY <1>2 DEF TimePasses, LockExpires, HeartbeatExpires, GoesQuiet, SuspicionAges,
       GuardExpires, ReapLockExpires, PauseRequestExpires, vars
  <1> QED
    BY <1>1, <1>3, <1>4, <1>5 DEF Next

LEMMA FirstGenerationStep == TypeInv /\ FirstGeneration /\ [Next]_vars => FirstGeneration'
  <1> SUFFICES ASSUME TypeInv, FirstGeneration, [Next]_vars
               PROVE  FirstGeneration'
    OBVIOUS
  <1>1. cl \in [Clients -> ClientState] /\ rec \in [Scanners -> ScannerState] /\ task.gen \in Nat
    BY DEF TypeInv, TypeOK, Row
  <1>2. task.gen > 0 => task'.gen > 0
    BY FirstGenerationEnds
  <1>3. ASSUME NEW c \in Clients, cl'[c].pc = "dispatch", cl[c].pc # "dispatch"
        PROVE  task'.gen > 0
    <2>1. \E d \in Clients : ResumeCommit(d) /\ task.status # "deleted"
      <3>1. PICK d \in Clients : ClientStep(d) \/ RequestDies(d)
        <4>1. cl' # cl
          BY <1>3
        <4>2. ASSUME NEW w \in Workers,
                     \/ Deliver(w) \/ WorkerStep(w) \/ HelperTick(w)
                     \/ Crash(w) \/ Redeliver(w) \/ HelperDies(w)
              PROVE  FALSE
          BY <4>1, <4>2, WorkersSendNothing
        <4>3. ASSUME NEW s \in Scanners, ScanStep(s) \/ ScanDies(s)
              PROVE  FALSE
          BY <4>1, <4>3 DEF ScanStep, ScanDies, Scan, Observe, TakeReapLock, RecheckHeartbeat,
             RecheckLock, RecheckGuard, Recheck, AdvanceGeneration, GiveUp, GiveUpClearKeys,
             SetDispatchGuard, Redispatch, CountResume
        <4>4. ~TimePasses /\ ~UNCHANGED vars
          BY <4>1 DEF TimePasses, LockExpires, HeartbeatExpires, GoesQuiet, SuspicionAges,
             GuardExpires, ReapLockExpires, PauseRequestExpires, vars
        <4> QED
          BY <4>2, <4>3, <4>4 DEF Next
      <3>2. ResumeCommit(d) /\ task.status # "deleted"
        BY <1>1, <1>3, <3>1 DEF ClientStep, RequestPause, SetPauseRequest, RequestResume,
           ResumeClearKeys, ResumeRefresh, ResumeCommit, ResumeDispatch, RequestDelete,
           DeleteClearKeys, DeleteRow, RequestDies, ClientGoto, IdleClient, ClientState
      <3> QED
        BY <3>2
    <2>2. PICK d \in Clients : task' = [task EXCEPT !.status = "pending", !.gen = cl[d].gen + 1,
                                                    !.resumable = FALSE, !.quiet = FALSE]
      BY <2>1 DEF ResumeCommit, NextGeneration
    <2>3. cl[d].gen \in Nat
      BY <1>1 DEF ClientState
    <2> QED
      BY <2>2, <2>3 DEF TypeInv, TypeOK, Row
  <1> DEFINE Late == {"setGuard", "send", "count", "giveUp", "wipe"}
  <1>4. ASSUME NEW s \in Scanners, rec'[s].pc \in Late, rec[s].pc \notin Late
        PROVE  task'.gen > 0
    <2>1. PICK t \in Scanners : ScanStep(t) \/ ScanDies(t)
      <3>1. rec' # rec
        BY <1>4
      <3>2. ASSUME NEW w \in Workers,
                   \/ Deliver(w) \/ WorkerStep(w) \/ HelperTick(w)
                   \/ Crash(w) \/ Redeliver(w) \/ HelperDies(w)
            PROVE  FALSE
        BY <3>1, <3>2, WorkersSendNothing
      <3>3. ASSUME NEW c \in Clients, ClientStep(c) \/ RequestDies(c)
            PROVE  FALSE
        BY <3>1, <3>3 DEF ClientStep, RequestPause, SetPauseRequest, RequestResume,
           ResumeClearKeys, ResumeRefresh, ResumeCommit, ResumeDispatch, RequestDelete,
           DeleteClearKeys, DeleteRow, RequestDies
      <3>4. ~TimePasses /\ ~UNCHANGED vars
        BY <3>1 DEF TimePasses, LockExpires, HeartbeatExpires, GoesQuiet, SuspicionAges,
           GuardExpires, ReapLockExpires, PauseRequestExpires, vars
      <3> QED
        BY <3>2, <3>3, <3>4 DEF Next
    <2>2. CASE AdvanceGeneration(t)
      <3>1. rec[t].gen \in Nat /\ MaxGen \in Nat /\ task \in Row
        BY <1>1, TaskRunAssumption DEF ScannerState, TypeInv, TypeOK
      <3>2. CASE task.status = "deleted"
        BY <1>1, <1>4, <2>2, <3>2 DEF AdvanceGeneration, ScanEnds, IdleScanner
      <3>3. CASE task.status # "deleted"
        <4>1. \E gen \in {rec[t].gen + 1, MaxGen + 1} : task' = [task EXCEPT !.gen = gen]
          BY <2>2, <3>3 DEF AdvanceGeneration
        <4> QED
          BY <3>1, <4>1 DEF Row
      <3> QED
        BY <3>2, <3>3
    <2>3. CASE Observe(t)
      <3>1. redis.suspect \in {"none", "fresh", "confirmed"}
        BY DEF TypeInv, TypeOK, RuntimeKeys
      <3>2. ScanEnds(t) \/ ScanGoto(t, "reap")
        BY <2>3, <3>1 DEF Observe
      <3> QED
        BY <1>1, <1>4, <3>2 DEF ScanEnds, ScanGoto, IdleScanner, ScannerState
    <2>4. CASE ~AdvanceGeneration(t) /\ ~Observe(t)
      BY <1>1, <1>4, <2>1, <2>4 DEF ScanStep, ScanDies, Scan, TakeReapLock, RecheckHeartbeat,
         RecheckLock, RecheckGuard, Recheck, GiveUp, GiveUpClearKeys, SetDispatchGuard,
         Redispatch, CountResume, ScanEnds, ScanGoto, IdleScanner, ScannerState
    <2> QED
      BY <2>2, <2>3, <2>4
  <1>5. ASSUME task'.gen = 0
        PROVE  Outstanding' \subseteq {FirstMessage}
    <2>1. task.gen = 0
      BY <1>5, FirstGenerationEnds
    <2>2. Outstanding' \subseteq Outstanding
      BY <2>1, OnlyTheySend DEF FirstGeneration
    <2> QED
      BY <2>1, <2>2 DEF FirstGeneration
  <1> QED
    BY <1>2, <1>3, <1>4, <1>5 DEF FirstGeneration

LEMMA InitFirstGeneration == Init => FirstGeneration
  BY DEF Init, FirstGeneration, IdleClient, IdleScanner, Outstanding, At, IdleWorker, FirstMessage

-----------------------------------------------------------------------------
(* Copies of the first message                                             *)

\* A copy of the message is spent when the worker that took it has dropped it
\* or has come to the end of its run; a worker with the lock is live until then.
EndPc == {"clear", "clearDone", "cleanup", "finally", "ack"}
Unspent(w) == wk[w].pc \notin EndPc \cup {"idle"}
Live(w) == Unspent(w) /\ wk[w].pc \notin {"received", "acquire"}

\* How many copies of the message somebody may still act on, at most.
NoCopy == queue = {} /\ \A w \in Workers : ~Unspent(w)
OneCopy ==
  \A v \in Workers : Unspent(v) => queue = {} /\ \A w \in Workers : Unspent(w) => w = v
TwoCopies ==
  \A v, w \in Workers : Unspent(v) /\ Unspent(w) /\ v # w =>
    queue = {} /\ \A u \in Workers : Unspent(u) => u = v \/ u = w

\* Traces of a copy that was spent: a row that has come to rest, a request that
\* has seen it rest, a worker at its end.
SomeSpent ==
  \/ task.status \notin Unfinished
  \/ \E c \in Clients : cl[c].pc \in {"clearKeys", "commit", "forget", "dropRow"}
  \/ \E w \in Workers : wk[w].pc \in EndPc

\* Each redelivery adds a copy, each end of a run takes one away.
CopiesCounted ==
  /\ faults.redeliveries = 0 => OneCopy
  /\ faults.redeliveries = 1 => TwoCopies
  /\ SomeSpent /\ faults.redeliveries = 0 => NoCopy
  /\ SomeSpent /\ faults.redeliveries = 1 => OneCopy

\* The live run has the lock, and a helper that renews it, as long as another
\* copy is about, or may yet be made.
Contended(v) ==
  \/ faults.redeliveries = 0
  \/ queue # {}
  \/ \E w \in Workers : w # v /\ Unspent(w)
LiveHasLock == \A v \in Workers : Live(v) /\ Contended(v) => redis.lock = 1 /\ wk[v].helper = TRUE
OneLive == \A v, w \in Workers : Live(v) /\ Live(w) => v = w

\* No process and no helper has died, one copy was made at most, and the task
\* was not resumed or reaped.
Calm ==
  /\ faults.crashes = 0 /\ faults.helperDeaths = 0 /\ faults.redeliveries \in {0, 1}
  /\ task.gen = 0

ExecutorInv == Calm => CopiesCounted /\ LiveHasLock /\ OneLive

\* Once a copy was spent nobody contends with the live run.
LEMMA SpentLeavesOne ==
  ASSUME CopiesCounted, SomeSpent, faults.redeliveries \in {0, 1}, NEW v \in Workers, Live(v)
  PROVE  ~Contended(v)
  BY DEF CopiesCounted, NoCopy, OneCopy, Contended, Live

LEMMA CalmBefore ==
  ASSUME TypeInv, [Next]_vars, Calm'
  PROVE  /\ Calm
         /\ \A w \in Workers : ~Crash(w) /\ ~HelperDies(w)
         /\ \A c \in Clients : ~RequestDies(c)
         /\ \A s \in Scanners : ~ScanDies(s)
  <1>1. faults \in FaultCount
    BY DEF TypeInv, TypeOK
  <1>2. faults.crashes \in Nat /\ faults.redeliveries \in Nat /\ faults.helperDeaths \in Nat
    BY <1>1, TaskRunAssumption DEF FaultCount
  <1>3. task.gen = 0
    BY FirstGenerationEnds DEF Calm
  <1>4. faults.crashes = 0 /\ faults.helperDeaths = 0 /\ faults.redeliveries \in {0, 1}
    BY <1>2, FaultsAdd DEF Calm
  <1> QED
    BY <1>3, <1>4, FaultsAdd DEF Calm

\* A step that leaves copies and live runs as they are, and spends nothing.
LEMMA ExecutorFrame ==
  ASSUME ExecutorInv, Calm, UNCHANGED queue,
         \A w \in Workers : (Unspent(w)' <=> Unspent(w)) /\ (Live(w)' <=> Live(w)),
         SomeSpent' => SomeSpent, faults'.redeliveries = faults.redeliveries,
         \A v \in Workers : Live(v) /\ Contended(v) /\ redis.lock = 1 /\ wk[v].helper = TRUE
                              => redis'.lock = 1 /\ wk'[v].helper = TRUE
  PROVE  ExecutorInv'
  <1>1. CopiesCounted'
    BY DEF ExecutorInv, CopiesCounted, NoCopy, OneCopy, TwoCopies
  <1>2. \A v \in Workers : Contended(v)' <=> Contended(v)
    BY DEF Contended
  <1>3. LiveHasLock' /\ OneLive'
    BY <1>2 DEF ExecutorInv, LiveHasLock, OneLive
  <1> QED
    BY <1>1, <1>3 DEF ExecutorInv

\* A copy is spent.
LEMMA ExecutorSpends ==
  ASSUME ExecutorInv, Calm, UNCHANGED <<queue, faults>>, NEW w \in Workers,
         Unspent(w), ~Unspent(w)',
         \A v \in Workers : v # w => wk'[v] = wk[v]
  PROVE  ExecutorInv'
  <1>1. \A v \in Workers : v # w => (Unspent(v)' <=> Unspent(v)) /\ (Live(v)' <=> Live(v))
    BY DEF Unspent, Live
  <1>2. ~Live(w)'
    BY DEF Live
  <1>3. CASE faults.redeliveries = 0
    <2>1. NoCopy'
      BY <1>1, <1>3 DEF ExecutorInv, CopiesCounted, OneCopy, NoCopy
    <2>2. CopiesCounted'
      BY <1>3, <2>1 DEF CopiesCounted, NoCopy, OneCopy
    <2> QED
      BY <2>1, <2>2 DEF ExecutorInv, LiveHasLock, OneLive, Live, NoCopy
  <1>4. CASE faults.redeliveries = 1
    <2>1. OneCopy'
      BY <1>1, <1>4 DEF ExecutorInv, CopiesCounted, OneCopy, TwoCopies
    <2>2. CopiesCounted'
      BY <1>4, <2>1 DEF CopiesCounted, OneCopy, TwoCopies
    <2>3. \A v \in Workers : Live(v)' => ~Contended(v)'
      <3>1. SUFFICES ASSUME NEW v \in Workers, Live(v)' PROVE ~Contended(v)'
        OBVIOUS
      <3>2. v # w /\ Unspent(v)
        BY <1>1, <1>2, <3>1 DEF Live
      <3>3. queue = {} /\ \A u \in Workers : Unspent(u) => u = v \/ u = w
        BY <1>4, <3>2 DEF ExecutorInv, CopiesCounted, TwoCopies
      <3> QED
        BY <1>1, <1>4, <3>3 DEF Contended
    <2>4. OneLive'
      BY <1>1, <1>2 DEF ExecutorInv, OneLive
    <2> QED
      BY <2>2, <2>3, <2>4 DEF ExecutorInv, LiveHasLock
  <1> QED
    BY <1>3, <1>4 DEF Calm

LEMMA DeliverExecutor ==
  ASSUME TypeInv, ExecutorInv, Calm, FirstGeneration, NEW w \in Workers, Deliver(w)
  PROVE  ExecutorInv'
  <1>1. /\ \A v \in Workers : v # w => wk'[v] = wk[v]
        /\ wk[w].pc = "idle" /\ wk'[w].pc = "received"
        /\ wk'[w].msg \in queue /\ queue' = queue \ {wk'[w].msg}
    BY WorkerMeets
  <1>2. UNCHANGED <<task, redis, cl, rec, faults>>
    BY DEF Deliver
  <1>3. queue \subseteq {FirstMessage}
    BY DEF FirstGeneration, Calm, Outstanding
  <1>4. queue # {} /\ queue' = {}
    BY <1>1, <1>3
  <1>5. ~Unspent(w) /\ ~Live(w) /\ Unspent(w)' /\ ~Live(w)'
    BY <1>1 DEF Unspent, Live, EndPc
  <1>6. \A v \in Workers : v # w => (Unspent(v)' <=> Unspent(v)) /\ (Live(v)' <=> Live(v))
    BY <1>1 DEF Unspent, Live
  <1>7. SomeSpent' => SomeSpent
    BY <1>1, <1>2 DEF SomeSpent, EndPc
  <1>8. CopiesCounted'
    <2>1. ~NoCopy
      BY <1>4 DEF NoCopy
    <2>2. OneCopy => OneCopy'
      BY <1>4, <1>5, <1>6 DEF OneCopy
    <2>3. TwoCopies => TwoCopies'
      BY <1>4, <1>5, <1>6 DEF TwoCopies
    <2> QED
      BY <1>2, <1>7, <2>1, <2>2, <2>3 DEF ExecutorInv, CopiesCounted
  <1>9. LiveHasLock'
    <2>1. \A v \in Workers : Live(v)' => Live(v) /\ Contended(v) /\ v # w
      BY <1>4, <1>5, <1>6 DEF Contended
    <2> QED
      BY <1>1, <1>2, <2>1 DEF ExecutorInv, LiveHasLock
  <1>10. OneLive'
    BY <1>5, <1>6 DEF ExecutorInv, OneLive
  <1> QED
    BY <1>8, <1>9, <1>10 DEF ExecutorInv

LEMMA RedeliverExecutor ==
  ASSUME TypeInv, ExecutorInv, Calm, Calm', FirstGeneration, NEW w \in Workers, Redeliver(w)
  PROVE  ExecutorInv'
  <1>1. UNCHANGED <<task, redis, wk, cl>>
    BY DEF Redeliver
  <1>2. faults.redeliveries = 0 /\ faults'.redeliveries = 1
    BY TaskRunAssumption DEF Calm, Redeliver, TypeInv, TypeOK, FaultCount
  <1>3. wk[w].msg \in Outstanding
    BY DEF Redeliver, Outstanding
  <1>4. queue = {}
    BY <1>3 DEF FirstGeneration, Calm, Redeliver, Outstanding
  <1>5. \A v \in Workers : (Unspent(v)' <=> Unspent(v)) /\ (Live(v)' <=> Live(v))
    BY <1>1 DEF Unspent, Live
  <1>6. SomeSpent' => SomeSpent
    BY <1>1 DEF SomeSpent
  <1>7. OneCopy => TwoCopies'
    BY <1>5 DEF OneCopy, TwoCopies
  <1>8. NoCopy => OneCopy'
    BY <1>5 DEF OneCopy, NoCopy
  <1>9. CopiesCounted'
    BY <1>2, <1>6, <1>7, <1>8 DEF ExecutorInv, CopiesCounted
  <1>10. LiveHasLock' /\ OneLive'
    BY <1>1, <1>2, <1>5 DEF ExecutorInv, LiveHasLock, OneLive, Contended
  <1> QED
    BY <1>9, <1>10 DEF ExecutorInv

\* What a live run does to the lock and the row before its end.
LEMMA LiveStep ==
  ASSUME TypeInv, NEW w \in Workers, WorkerStep(w), Live(w), Live(w)'
  PROVE  /\ redis'.lock = redis.lock
         /\ wk'[w].helper = wk[w].helper
         /\ task'.status \in Unfinished \cup {task.status}
         /\ UNCHANGED cl
  <1>1. wk \in [Workers -> WorkerState] /\ wk[w] \in WorkerState /\ task \in Row /\ redis \in RuntimeKeys
    BY DEF TypeInv, TypeOK
  <1>2. UNCHANGED cl
    BY WorkerMoves DEF Moves
  <1>3. wk[w].pc \notin EndPc \cup {"idle", "received", "acquire"}
    BY DEF Live, Unspent
  <1>4. wk'[w].pc \notin EndPc
    BY DEF Live, Unspent
  <1>5. CASE ClearDispatchGuard(w) \/ ConsumePauseRequest(w)
    <2>1. redis'.lock = redis.lock /\ UNCHANGED task /\ \E pc : Goto(w, pc)
      BY <1>1, <1>5 DEF ClearDispatchGuard, ConsumePauseRequest, RuntimeKeys
    <2> QED
      BY <1>2, <2>1, GotoDoes
  <1>6. CASE LookForFinalOutput(w) \/ Preflight(w) \/ EnsureOwnership(w)
    <2>1. UNCHANGED <<redis, task>> /\ \E pc : Goto(w, pc)
      BY <1>6 DEF LookForFinalOutput, Preflight, EnsureOwnership
    <2> QED
      BY <1>2, <2>1, GotoDoes
  <1>7. CASE TakeSnapshot(w)
    <2>1. UNCHANGED <<redis, task>>
      BY <1>7 DEF TakeSnapshot
    <2>2. CASE \E pc : Goto(w, pc)
      BY <1>2, <2>1, <2>2, GotoDoes
    <2>3. CASE \E pc, k, force : wk' = [wk EXCEPT ![w].pc = pc, ![w].stage = k, ![w].force = force]
      BY <1>1, <1>2, <2>1, <2>3 DEF WorkerState
    <2> QED
      BY <1>7, <2>2, <2>3 DEF TakeSnapshot
  <1>8. CASE MarkProcessing(w)
    <2>1. UNCHANGED redis
      BY <1>8 DEF MarkProcessing
    <2>2. task' = task \/ \E output : task' = [task EXCEPT !.status = "processing", !.resumable = FALSE,
                                                         !.output = output, !.quiet = FALSE]
      BY <1>8 DEF MarkProcessing
    <2>3. task'.status \in Unfinished \cup {task.status}
      BY <1>1, <2>2 DEF Row, Unfinished
    <2>4. \/ Goto(w, "finally")
          \/ wk' = [wk EXCEPT ![w] = [wk[w] EXCEPT !.pc = "own", !.op = "start", !.stage = 0]]
          \/ wk' = [wk EXCEPT ![w] = [wk[w] EXCEPT !.pc = "preflight"]]
      BY <1>8 DEF MarkProcessing
    <2>5. ~Goto(w, "finally")
      BY <1>4, GotoDoes DEF EndPc
    <2>6. wk'[w].helper = wk[w].helper
      BY <1>1, <2>4, <2>5 DEF WorkerState
    <2> QED
      BY <1>2, <2>1, <2>3, <2>6
  <1>9. CASE Boundary(w) \/ StageReports(w) \/ StageEnds(w)
    <2>1. UNCHANGED <<redis, task>>
      BY <1>9 DEF Boundary, StageReports, StageEnds
    <2>2. wk'[w].helper = wk[w].helper
      BY <1>1, <1>9 DEF Boundary, StageReports, StageEnds, Goto, WorkerState
    <2> QED
      BY <1>2, <2>1, <2>2
  <1>10. CASE StageHook(w)
    <2>1. UNCHANGED redis
      BY <1>10 DEF StageHook
    <2>2. task' = task \/ task' = [task EXCEPT !.status = "processing", !.stage = wk[w].stage,
                                               !.quiet = FALSE]
      BY <1>10 DEF StageHook
    <2>3. task'.status \in Unfinished \cup {task.status}
      BY <1>1, <2>2 DEF Row, Unfinished
    <2> QED
      BY <1>2, <1>10, <2>1, <2>3, StageHookDoes
  <1>11. CASE MarkCompleted(w) \/ MarkFailed(w) \/ MarkPaused(w)
    <2>1. \E pc \in EndPc : Goto(w, pc)
      BY <1>11 DEF MarkCompleted, MarkFailed, MarkPaused, EndPc
    <2> QED
      BY <1>4, <2>1, GotoDoes
  <1>12. CASE CheckGeneration(w) \/ Acquire(w) \/ ClearKeys(w) \/ CleanupArtifacts(w) \/ Release(w) \/ Ack(w)
    BY <1>3, <1>12 DEF CheckGeneration, Acquire, ClearKeys, CleanupArtifacts, Release, Ack, At, EndPc
  <1> QED
    BY <1>5, <1>6, <1>7, <1>8, <1>9, <1>10, <1>11, <1>12 DEF WorkerStep

\* In the first generation everybody's message is the first.
LEMMA FirstHeld ==
  ASSUME FirstGeneration, Calm, NEW w \in Workers, wk[w].pc # "idle"
  PROVE  wk[w].msg.id = 1
  <1>1. wk[w].msg \in Outstanding
    BY DEF Outstanding, At
  <1> QED
    BY <1>1 DEF FirstGeneration, Calm, FirstMessage

LEMMA AcquireExecutor ==
  ASSUME TypeInv, ExecutorInv, Calm, FirstGeneration, NEW w \in Workers, Acquire(w),
         UNCHANGED faults
  PROVE  ExecutorInv'
  <1>1. wk \in [Workers -> WorkerState] /\ wk[w] \in WorkerState /\ redis \in RuntimeKeys
    BY DEF TypeInv, TypeOK
  <1>2. wk[w].pc = "acquire" /\ UNCHANGED <<task, queue, cl, faults>>
    BY DEF Acquire, At
  <1>3. \A v \in Workers : v # w => wk'[v] = wk[v]
    BY OtherWorkersStay DEF WorkerStep
  <1>7. faults' # [faults EXCEPT !.helperDeaths = @ + 1]
    BY DEF TypeInv, TypeOK, FaultCount, Calm
  <1>4. Unspent(w) /\ ~Live(w)
    BY <1>2 DEF Unspent, Live, EndPc
  <1>5. CASE Goto(w, "ack")
    <2>1. ~Unspent(w)'
      BY <1>5, GotoDoes DEF Unspent, EndPc
    <2> QED
      BY <1>2, <1>3, <1>4, <2>1, ExecutorSpends
  <1>6. CASE ~Goto(w, "ack")
    <2>1. redis.lock = Nobody /\ redis'.lock = wk[w].msg.id
          /\ wk'[w].pc = "unguard" /\ wk'[w].helper = TRUE
      BY <1>1, <1>6, <1>7 DEF Acquire, RuntimeKeys, WorkerState
    <2>2. redis'.lock = 1
      BY <1>2, <2>1, FirstHeld
    <2>3. Unspent(w)' /\ Live(w)'
      BY <2>1 DEF Unspent, Live, EndPc
    <2>4. \A v \in Workers : v # w => (Unspent(v)' <=> Unspent(v)) /\ (Live(v)' <=> Live(v))
      BY <1>3 DEF Unspent, Live
    <2>5. \A v \in Workers : ~Live(v)
      BY <1>4, <2>1 DEF ExecutorInv, LiveHasLock, Contended, Nobody
    <2>6. SomeSpent' => SomeSpent
      BY <1>2, <1>3, <2>1 DEF SomeSpent, EndPc
    <2>7. \A v \in Workers : Unspent(v)' <=> Unspent(v)
      BY <1>4, <2>3, <2>4
    <2>8. CopiesCounted'
      BY <1>2, <2>6, <2>7 DEF ExecutorInv, CopiesCounted, NoCopy, OneCopy, TwoCopies
    <2>9. LiveHasLock' /\ OneLive'
      BY <2>1, <2>2, <2>4, <2>5 DEF LiveHasLock, OneLive
    <2> QED
      BY <2>8, <2>9 DEF ExecutorInv
  <1> QED
    BY <1>5, <1>6

LEMMA WorkerExecutor ==
  ASSUME TypeInv, ExecutorInv, Calm, Calm', FirstGeneration, NEW w \in Workers, WorkerStep(w)
  PROVE  ExecutorInv'
  <1>1. Moves(w)
    BY WorkerMoves
  <1>2. \A v \in Workers : v # w => (Unspent(v)' <=> Unspent(v)) /\ (Live(v)' <=> Live(v))
    BY <1>1 DEF Moves, Unspent, Live
  <1>3. UNCHANGED <<queue, cl, faults>>
    <2>1. faults \in FaultCount
      BY DEF TypeInv, TypeOK
    <2> QED
      BY <1>1, <2>1 DEF Moves, HelperFault, FaultCount, Calm
  <1>4. CASE Unspent(w) /\ ~Unspent(w)'
    BY <1>1, <1>3, <1>4, ExecutorSpends DEF Moves
  <1>5. CASE Unspent(w) /\ Unspent(w)' /\ ~Live(w)
    <2>1. wk[w].pc \in {"received", "acquire"}
      BY <1>5 DEF Live
    <2>2. CheckGeneration(w) \/ Acquire(w)
      BY <2>1 DEF WorkerStep, ClearDispatchGuard, TakeSnapshot, LookForFinalOutput,
         MarkProcessing, Preflight, Boundary, ConsumePauseRequest, EnsureOwnership, StageHook,
         StageReports, StageEnds, MarkCompleted, MarkFailed, MarkPaused, ClearKeys,
         CleanupArtifacts, Release, Ack, At
    <2>3. CASE CheckGeneration(w)
      <3>1. wk'[w].pc \in {"acquire", "ack"} /\ wk[w].pc = "received" /\ UNCHANGED <<task, redis>>
        BY <2>3, GotoDoes DEF CheckGeneration, At
      <3>2. wk'[w].pc = "acquire" /\ ~Live(w)'
        BY <1>5, <3>1 DEF Unspent, Live, EndPc
      <3>3. SomeSpent' => SomeSpent
        BY <1>1, <1>3, <3>1, <3>2 DEF Moves, SomeSpent, EndPc
      <3>4. \A v \in Workers : Live(v) => wk'[v] = wk[v]
        BY <1>1, <1>5 DEF Moves
      <3>5. \A v \in Workers : (Unspent(v)' <=> Unspent(v)) /\ (Live(v)' <=> Live(v))
        BY <1>2, <1>5, <3>2
      <3> QED
        BY <1>3, <3>1, <3>3, <3>4, <3>5, ExecutorFrame
    <2> QED
      BY <1>3, <2>2, <2>3, AcquireExecutor
  <1>6. CASE Unspent(w)' /\ Live(w)
    <2>1. Live(w)'
      <3>1. wk[w].pc \notin EndPc \cup {"idle", "received", "acquire"}
        BY <1>6 DEF Live, Unspent
      <3>2. wk'[w].pc \notin {"received", "acquire"}
        BY <1>1, <3>1 DEF Moves, Follows, EndPc
      <3> QED
        BY <1>6, <3>2 DEF Live
    <2>2. /\ redis'.lock = redis.lock /\ wk'[w].helper = wk[w].helper
          /\ task'.status \in Unfinished \cup {task.status}
      BY <1>6, <2>1, LiveStep
    <2>3. SomeSpent' => SomeSpent
      BY <1>1, <1>3, <1>6, <2>2 DEF Moves, SomeSpent, Unspent
    <2>4. \A v \in Workers : wk'[v].helper = wk[v].helper
      BY <1>1, <2>2 DEF Moves
    <2>5. \A v \in Workers : (Unspent(v)' <=> Unspent(v)) /\ (Live(v)' <=> Live(v))
      BY <1>2, <1>6, <2>1 DEF Live
    <2> QED
      BY <1>3, <2>2, <2>3, <2>4, <2>5, ExecutorFrame
  <1>7. CASE ~Unspent(w)
    <2>1. wk[w].pc \in EndPc
      BY <1>1, <1>7 DEF Moves, Follows, Unspent
    <2>2. ~Unspent(w)'
      BY <1>1, <2>1 DEF Moves, Follows, Unspent, EndPc
    <2>3. SomeSpent
      BY <2>1 DEF SomeSpent
    <2>4. \A v \in Workers : Live(v) => ~Contended(v)
      BY <2>3, SpentLeavesOne DEF ExecutorInv, Calm
    <2>5. \A v \in Workers : (Unspent(v)' <=> Unspent(v)) /\ (Live(v)' <=> Live(v))
      BY <1>2, <1>7, <2>2 DEF Live
    <2> QED
      BY <1>3, <2>3, <2>4, <2>5, ExecutorFrame
  <1> QED
    BY <1>4, <1>5, <1>6, <1>7 DEF Live

LEMMA HelperExecutor ==
  ASSUME TypeInv, ExecutorInv, Calm, FirstGeneration, NEW w \in Workers, HelperTick(w)
  PROVE  ExecutorInv'
  <1>1. wk \in [Workers -> WorkerState] /\ wk[w] \in WorkerState /\ redis \in RuntimeKeys
    BY DEF TypeInv, TypeOK
  <1>2. UNCHANGED <<task, queue, cl, faults>>
    BY DEF HelperTick
  <1>3. \A v \in Workers : wk'[v].pc = wk[v].pc
    BY WorkerMeets DEF Deliver, HelperTick
  <1>4. \A v \in Workers : (Unspent(v)' <=> Unspent(v)) /\ (Live(v)' <=> Live(v))
    BY <1>3 DEF Unspent, Live
  <1>5. SomeSpent' => SomeSpent
    BY <1>2, <1>3 DEF SomeSpent
  <1>6. ASSUME NEW v \in Workers, Live(v), redis.lock = 1, wk[v].helper = TRUE
        PROVE  redis'.lock = 1 /\ wk'[v].helper = TRUE
    <2>1. CASE UNCHANGED wk
      BY <1>1, <1>6, <2>1 DEF HelperTick, RuntimeKeys
    <2>2. CASE wk' # wk
      <3>1. UNCHANGED redis /\ ~Owns(w) /\ wk' = [wk EXCEPT ![w].helper = FALSE]
        BY <2>2 DEF HelperTick
      <3>2. v # w
        BY <1>6, <3>1, FirstHeld DEF Owns, Live, Unspent
      <3> QED
        BY <1>1, <1>6, <3>1, <3>2
    <2> QED
      BY <2>1, <2>2
  <1> QED
    BY <1>2, <1>4, <1>5, <1>6, ExecutorFrame

\* Requests, scans and the expiry of keys take the lock from no live run that
\* others contend with.
LEMMA OthersExecutor ==
  ASSUME TypeInv, ExecutorInv, Calm, Calm', FirstGeneration,
         \/ \E c \in Clients : ClientStep(c)
         \/ \E s \in Scanners : ScanStep(s)
         \/ TimePasses
  PROVE  ExecutorInv'
  <1>1. task \in Row /\ redis \in RuntimeKeys /\ cl \in [Clients -> ClientState]
    BY DEF TypeInv, TypeOK
  <1>2. UNCHANGED wk
    BY OthersLeaveWorkers
  <1>3. \A v \in Workers : (Unspent(v)' <=> Unspent(v)) /\ (Live(v)' <=> Live(v))
    BY <1>2 DEF Unspent, Live
  <1>4. task.gen = 0 /\ task'.gen = 0
    BY DEF Calm
  <1>5. /\ \A c \in Clients : cl[c].pc # "dispatch"
        /\ \A s \in Scanners : rec[s].pc \notin {"setGuard", "send", "count", "giveUp", "wipe"}
    BY <1>4 DEF FirstGeneration
  <1>6. ASSUME NEW c \in Clients, ClientStep(c)
        PROVE  ExecutorInv'
    <2>1. \A d \in Clients : d # c => cl'[d] = cl[d]
      BY <1>1, <1>6 DEF ClientStep, RequestPause, SetPauseRequest, RequestResume,
         ResumeClearKeys, ResumeRefresh, ResumeCommit, ResumeDispatch, RequestDelete,
         DeleteClearKeys, DeleteRow, ClientGoto
    <2>2. UNCHANGED queue /\ faults'.redeliveries = faults.redeliveries
      <3>1. UNCHANGED queue
        BY <1>5, <1>6 DEF ClientStep, RequestPause, SetPauseRequest, RequestResume,
           ResumeClearKeys, ResumeRefresh, ResumeCommit, ResumeDispatch, RequestDelete,
           DeleteClearKeys, DeleteRow
      <3>2. CASE RequestPause(c)
        BY <3>1, <3>2 DEF RequestPause, TypeInv, TypeOK, FaultCount
      <3>3. CASE ~RequestPause(c)
        BY <1>5, <1>6, <3>1, <3>3 DEF ClientStep, SetPauseRequest, RequestResume,
           ResumeClearKeys, ResumeRefresh, ResumeCommit, ResumeDispatch, RequestDelete,
           DeleteClearKeys, DeleteRow
      <3> QED
        BY <3>2, <3>3
    <2>3. CASE RequestPause(c) \/ SetPauseRequest(c)
      <3>1. UNCHANGED task /\ redis'.lock = redis.lock
        BY <1>1, <2>3 DEF RequestPause, SetPauseRequest, RuntimeKeys
      <3>2. cl'[c].pc \in {"flag", "idle"}
        BY <1>1, <2>3 DEF RequestPause, SetPauseRequest, ClientGoto, ClientState
      <3>3. SomeSpent' => SomeSpent
        BY <1>2, <2>1, <3>1, <3>2 DEF SomeSpent
      <3> QED
        BY <1>2, <1>3, <2>2, <3>1, <3>3, ExecutorFrame
    <2>4. CASE ~RequestPause(c) /\ ~SetPauseRequest(c)
      <3>1. SomeSpent
        <4>1. CASE RequestResume(c) \/ RequestDelete(c)
          BY <4>1 DEF RequestResume, RequestDelete, Resumable, BLOCKED_STATUSES, SomeSpent, Unfinished
        <4>2. CASE ~RequestResume(c) /\ ~RequestDelete(c)
          BY <1>5, <1>6, <2>4, <4>2 DEF ClientStep, ResumeClearKeys, ResumeRefresh, ResumeCommit,
             ResumeDispatch, DeleteClearKeys, DeleteRow, SomeSpent
        <4> QED
          BY <4>1, <4>2
      <3>2. \A v \in Workers : Live(v) => ~Contended(v)
        BY <3>1, SpentLeavesOne DEF ExecutorInv, Calm
      <3> QED
        BY <1>3, <2>2, <3>1, <3>2, ExecutorFrame
    <2> QED
      BY <2>3, <2>4
  <1>7. ASSUME NEW s \in Scanners, ScanStep(s)
        PROVE  ExecutorInv'
    <2>1. UNCHANGED <<queue, cl, faults>>
      BY <1>5, <1>7 DEF ScanStep, Scan, Observe, TakeReapLock, RecheckHeartbeat, RecheckLock,
         RecheckGuard, Recheck, AdvanceGeneration, GiveUp, GiveUpClearKeys, SetDispatchGuard,
         Redispatch, CountResume
    <2>2. redis'.lock = redis.lock
      <3>1. CASE Observe(s)
        <4>1. redis.suspect \in {"none", "fresh", "confirmed"}
          BY <1>1 DEF RuntimeKeys
        <4>2. redis' = redis \/ redis' = Unsuspected \/ redis' = [redis EXCEPT !.suspect = "fresh"]
          BY <3>1, <4>1 DEF Observe
        <4> QED
          BY <1>1, <4>2 DEF Unsuspected, RuntimeKeys
      <3>2. CASE ~Observe(s)
        BY <1>1, <1>5, <1>7, <3>2 DEF ScanStep, Scan, TakeReapLock, RecheckHeartbeat,
           RecheckLock, RecheckGuard, Recheck, AdvanceGeneration, GiveUp, GiveUpClearKeys,
           SetDispatchGuard, Redispatch, CountResume, Unsuspected, RuntimeKeys
      <3> QED
        BY <3>1, <3>2
    <2>3. task'.status = task.status
      BY <1>1, <1>5, <1>7 DEF ScanStep, Scan, Observe, TakeReapLock, RecheckHeartbeat,
         RecheckLock, RecheckGuard, Recheck, AdvanceGeneration, GiveUp, GiveUpClearKeys,
         SetDispatchGuard, Redispatch, CountResume, Row
    <2>4. SomeSpent' => SomeSpent
      BY <1>2, <2>1, <2>3 DEF SomeSpent
    <2> QED
      BY <1>2, <1>3, <2>1, <2>2, <2>4, ExecutorFrame
  <1>8. CASE TimePasses
    <2>1. UNCHANGED <<queue, cl, faults>>
      BY <1>8 DEF TimePasses, LockExpires, HeartbeatExpires, GoesQuiet, SuspicionAges,
         GuardExpires, ReapLockExpires, PauseRequestExpires
    <2>2. task'.status = task.status
      BY <1>1, <1>8 DEF TimePasses, LockExpires, HeartbeatExpires, GoesQuiet, SuspicionAges,
         GuardExpires, ReapLockExpires, PauseRequestExpires, Row
    <2>3. SomeSpent' => SomeSpent
      BY <1>2, <2>1, <2>2 DEF SomeSpent
    <2>4. CASE LockExpires
      <3>1. ASSUME NEW v \in Workers, Live(v), redis.lock = 1, wk[v].helper = TRUE
            PROVE  FALSE
        <4>1. wk[v].msg.id = 1
          BY <3>1, FirstHeld DEF Live, Unspent
        <4> QED
          BY <2>4, <3>1, <4>1 DEF LockExpires, Renewed
      <3> QED
        BY <1>3, <2>1, <2>3, <3>1, ExecutorFrame
    <2>5. CASE ~LockExpires
      <3>1. redis'.lock = redis.lock
        BY <1>1, <1>8, <2>5 DEF TimePasses, HeartbeatExpires, GoesQuiet, SuspicionAges,
           GuardExpires, ReapLockExpires, PauseRequestExpires, RuntimeKeys
      <3> QED
        BY <1>2, <1>3, <2>1, <2>3, <3>1, ExecutorFrame
    <2> QED
      BY <2>4, <2>5
  <1> QED
    BY <1>6, <1>7, <1>8

LEMMA ExecutorStep == TypeInv /\ FirstGeneration /\ ExecutorInv /\ [Next]_vars => ExecutorInv'
  <1> SUFFICES ASSUME TypeInv, FirstGeneration, ExecutorInv, [Next]_vars, Calm'
               PROVE  ExecutorInv'
    BY DEF ExecutorInv
  <1>1. /\ Calm
        /\ \A w \in Workers : ~Crash(w) /\ ~HelperDies(w)
        /\ \A c \in Clients : ~RequestDies(c)
        /\ \A s \in Scanners : ~ScanDies(s)
    BY CalmBefore
  <1>2. CASE UNCHANGED vars
    <2>1. UNCHANGED <<task, redis, queue, wk, cl, faults>>
      BY <1>2 DEF vars
    <2>2. SomeSpent' => SomeSpent
      BY <2>1 DEF SomeSpent
    <2>3. \A v \in Workers : (Unspent(v)' <=> Unspent(v)) /\ (Live(v)' <=> Live(v))
      BY <2>1 DEF Unspent, Live
    <2> QED
      BY <1>1, <2>1, <2>2, <2>3, ExecutorFrame
  <1>3. CASE Next
    BY <1>1, <1>3, DeliverExecutor, RedeliverExecutor, WorkerExecutor, HelperExecutor,
       OthersExecutor DEF Next
  <1> QED
    BY <1>2, <1>3

LEMMA InitExecutor == Init => ExecutorInv
  <1> SUFFICES ASSUME Init PROVE CopiesCounted /\ LiveHasLock /\ OneLive
    BY DEF ExecutorInv
  <1>1. \A w \in Workers : ~Unspent(w) /\ ~Live(w)
    BY DEF Init, Unspent, Live, IdleWorker
  <1>2. ~SomeSpent
    BY DEF Init, SomeSpent, Unfinished, IdleWorker, IdleClient, EndPc
  <1> QED
    BY <1>1, <1>2 DEF CopiesCounted, OneCopy, TwoCopies, LiveHasLock, OneLive

\* One worker at a time executes the first generation, for any number of
\* workers, requests and scans: the lock and its heartbeat tell two copies of
\* the message apart although both carry the same owner token. With a third
\* copy they do not: the first run releases the lock of the second, and the
\* third takes it. A helper that dies lets the lock expire under its run.
THEOREM OneExecutorOfTwoCopies ==
  ASSUME MaxRedeliveries <= 1, MaxHelperDeaths = 0
  PROVE  Spec => []OneExecutor
  <1>1. TypeInv /\ ExecutorInv => OneExecutor
    <2> SUFFICES ASSUME TypeInv, ExecutorInv, faults.crashes = 0, task.gen = 0,
                        NEW v \in Workers, NEW w \in Workers, Executing(v), Executing(w)
                 PROVE  v = w
      BY DEF OneExecutor
    <2>1. Calm
      BY TaskRunAssumption DEF Calm, TypeInv, TypeOK, FaultCount
    <2>2. Live(v) /\ Live(w)
      BY DEF Executing, Live, Unspent, EndPc
    <2> QED
      BY <2>1, <2>2 DEF ExecutorInv, OneLive
  <1> QED
    BY <1>1, InitType, NextType, InitFirstGeneration, FirstGenerationStep, InitExecutor,
       ExecutorStep, PTL DEF Spec

=============================================================================
