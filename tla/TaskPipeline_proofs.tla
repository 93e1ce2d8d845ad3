------------------------ MODULE TaskPipeline_proofs ------------------------
(***************************************************************************)
(* Proofs about TaskPipeline: its types (and with them how many runs a     *)
(* task can have), that no thread of the front half outlives it, that the  *)
(* chunks in flight are bounded, and that a run pays for a translation at  *)
(* most once.                                                              *)
(***************************************************************************)
EXTENDS TaskPipeline, FiniteSetTheorems, TLAPS

Statuses == {"pending", "processing", "paused", "completed", "failed"}
RowType == [status : Statuses, stage : Stages, segs : [Segs -> Segment]]
MsgType == [start : Stages \cup {NoStage}, force : BOOLEAN]
StoreType ==
    [tracks : BOOLEAN, sep : SUBSET Segs, dia : SUBSET Segs,
     tra : [Segs -> {0} \cup Runs], clip : [Segs -> Translation],
     saved : SUBSET Chain, ckpt : [Chain -> Context],
     mixed : [Segs -> Translation], made : BOOLEAN, bg : BOOLEAN,
     out : [Segs -> Translation]]
RunType ==
    [no : {0} \cup Runs, step : Step, at : Stages, first : Stages,
     mixed : 0 .. NSegs, seen : Stages \cup {NoStage}, paid : [Segs -> 0 .. 2]]
JobType == [Job -> [Segs -> JobState]]
PoolType ==
    [job : JobType, next : 1 .. NSegs + 1, started : Stages,
     redo : SUBSET Job, text : [Segs -> {0} \cup Runs],
     trans : [Segs -> Translation], error : {"none", "failed", "paused"},
     stage : Stages]
LeftType ==
    [crash : 0 .. MaxCrashes, pause : 0 .. MaxPauses,
     unsaved : 0 .. MaxUnsaved, error : 0 .. MaxErrors]

\* A run has begun for the first time, or because a crash or a pause ended the one before; a pause
\* that a thread has been told of will end the run it is in.
Spent == (MaxCrashes - left.crash) + (MaxPauses - left.pause)
PauseKnown ==
    pool.error = "paused" \/ \E k \in Job, c \in Segs : pool.job[k][c] = "paused"

RunsCounted ==
    /\ run.no <= 1 + Spent
    /\ Alive => row.status = "processing"
    /\ ~Alive /\ row.status \in {"pending", "processing", "paused"} => run.no <= Spent
    /\ Alive /\ PauseKnown => run.no <= Spent

\* A run that is past its preflight has a stage before it.
AtAStage == run.step \notin {"idle", "preflight"} => run.at \in Chain

TypeInv == TypeOK /\ RunsCounted /\ AtAStage

-----------------------------------------------------------------------------
(* What the small steps do.                                                *)

\* TypeOK by its parts.
LEMMA Parts ==
  TypeOK <=> /\ setting \in [long : BOOLEAN, overlap : BOOLEAN]
             /\ row \in RowType /\ msg \in MsgType /\ store \in StoreType /\ run \in RunType
             /\ ctx \in Context /\ pool \in PoolType /\ stale \in BOOLEAN /\ left \in LeftType
BY DEF TypeOK, RowType, Statuses, MsgType, StoreType, RunType, PoolType, JobType, LeftType

\* The same of the next state.
LEMMA PartsNext ==
  ASSUME /\ setting' \in [long : BOOLEAN, overlap : BOOLEAN]
         /\ row' \in RowType /\ msg' \in MsgType /\ store' \in StoreType /\ run' \in RunType
         /\ ctx' \in Context /\ pool' \in PoolType /\ stale' \in BOOLEAN /\ left' \in LeftType
  PROVE  TypeOK'
BY DEF TypeOK, RowType, Statuses, MsgType, StoreType, RunType, PoolType, JobType, LeftType

\* The constants that stand for nothing have the types of what they stand for.
LEMMA Nothings ==
  /\ NoTranslation \in Translation
  /\ NoSegments \in [Segs -> Segment]
  /\ NoContext \in Context
  /\ NoPool \in PoolType
  /\ \A no \in {0} \cup Runs : NoRun(no) \in RunType
<1> USE PipelineAssumption
<1>1. NoTranslation \in Translation
  BY DEF NoTranslation, Translation
<1>2. NoSegments \in [Segs -> Segment]
  BY <1>1 DEF NoSegments, Segment
<1>3. NoContext \in Context
  BY <1>2 DEF NoContext, Context
<1>4. NoPool \in PoolType
  <2>1. [k \in Job |-> [c \in Segs |-> "none"]] \in JobType
    BY DEF JobType, JobState
  <2>2. 1 \in 1 .. NSegs + 1 /\ Separating \in Stages /\ Preparing \in Stages
    BY DEF Separating, Preparing, Stages
  <2>3. [c \in Segs |-> Textless] \in [Segs -> {0} \cup Runs]
    BY DEF Textless
  <2> QED
    BY <1>1, <2>1, <2>2, <2>3 DEF NoPool, PoolType
<1>5. \A no \in {0} \cup Runs : NoRun(no) \in RunType
  BY DEF NoRun, RunType, Step, Preparing, Stages, NoStage
<1> QED
  BY <1>1, <1>2, <1>3, <1>4, <1>5

\* New segments are segments.
LEMMA NewSegmentsType ==
  ASSUME NEW text \in {Absent, Textless} \cup Runs
  PROVE  NewSegments(text) \in [Segs -> Segment]
BY Nothings DEF NewSegments, Segment

\* A run that goes on is the same run, at the same stage.
LEMMA GoesOn ==
  ASSUME run \in RunType, NEW step \in Step, Goes(step)
  PROVE  /\ run' \in RunType
         /\ run'.step = step /\ run'.no = run.no /\ run'.at = run.at
BY DEF Goes, RunType

\* The next stage is a stage of the chain.
LEMMA NextStageType ==
  ASSUME run \in RunType, run.at \in Chain, NextStage
  PROVE  /\ run' \in RunType
         /\ run'.step \in {"boundary", "done"} /\ run'.no = run.no /\ run'.at \in Chain
<1>1. CASE run.at = Mixing
  BY <1>1 DEF NextStage, RunType, Step, Chain
<1>2. CASE run.at # Mixing
  <2>1. run.at + 1 \in Chain /\ run.at + 1 \in Stages
    BY <1>2 DEF Chain, Mixing, Stages
  <2> QED
    BY <1>2, <2>1 DEF NextStage, RunType, Step
<1> QED
  BY <1>1, <1>2

\* A row may be given another status, stage or segments.
LEMMA RowParts ==
  ASSUME row \in RowType
  PROVE  /\ \A status \in Statuses : [row EXCEPT !.status = status] \in RowType
         /\ \A stage \in Stages : [row EXCEPT !.stage = stage] \in RowType
         /\ \A segs \in [Segs -> Segment] : [row EXCEPT !.segs = segs] \in RowType
         /\ \A status \in Statuses, stage \in Stages :
               [row EXCEPT !.status = status, !.stage = stage] \in RowType
BY DEF RowType

\* A context may be given other segments.
LEMMA ContextParts ==
  ASSUME ctx \in Context
  PROVE  /\ \A segs \in [Segs -> Segment] : [ctx EXCEPT !.segs = segs] \in Context
         /\ \A inv \in SUBSET Stages : [ctx EXCEPT !.inv = inv] \in Context
         /\ \A segs \in [Segs -> Segment], inv \in SUBSET Stages :
               [ctx EXCEPT !.segs = segs, !.inv = inv] \in Context
         /\ ctx.segs \in [Segs -> Segment] /\ ctx.inv \subseteq Stages
BY DEF Context

\* What a run leaves when it is abandoned.
LEMMA AbandonsType ==
  ASSUME TypeInv, Abandons
  PROVE  run' \in RunType /\ ctx' \in Context /\ stale' \in BOOLEAN
         /\ run'.no = run.no /\ run'.step = "idle"
<1>1. run' = NoRun(run.no) /\ ctx' = NoContext
  BY DEF Abandons, Ends
<1>2. stale' \in BOOLEAN
  BY Zenon DEF Abandons, TypeInv, TypeOK
<1>3. run.no \in {0} \cup Runs
  BY DEF TypeInv, TypeOK
<1>4. NoRun(run.no).no = run.no /\ NoRun(run.no).step = "idle"
  BY DEF NoRun
<1> QED
  BY <1>1, <1>2, <1>3, <1>4, Nothings

\* A pause or an error that is spent leaves the others.
LEMMA Spends ==
  ASSUME left \in LeftType
  PROVE  /\ SpendPause => left' \in LeftType /\ Spent' = Spent + 1
         /\ SpendError => left' \in LeftType /\ Spent' = Spent
BY PipelineAssumption DEF LeftType, SpendPause, SpendError, Spent

\* Spent is a number.
LEMMA SpentType ==
  ASSUME left \in LeftType
  PROVE  Spent \in 0 .. MaxCrashes + MaxPauses
BY PipelineAssumption DEF LeftType, Spent

\* A run that goes on keeps the count of runs, if the pauses it learns of are spent.
LEMMA StaysCounted ==
  ASSUME TypeInv, left' \in LeftType, Alive, run'.no = run.no, run'.step # "idle",
         row'.status = row.status, Spent' >= Spent,
         PauseKnown' => PauseKnown \/ Spent' > Spent
  PROVE  RunsCounted'
<1>1. Spent \in Nat /\ Spent' \in Nat /\ run.no \in Nat
  BY SpentType, Parts, PipelineAssumption DEF TypeInv, RunType, Runs, LeftType, Spent
<1>2. run.no <= 1 + Spent /\ row.status = "processing" /\ (PauseKnown => run.no <= Spent)
  BY DEF TypeInv, RunsCounted
<1>3. Alive'
  BY DEF Alive
<1>4. run'.no <= 1 + Spent'
  BY <1>1, <1>2
<1>5. PauseKnown' => run'.no <= Spent'
  BY <1>1, <1>2
<1> QED
  BY <1>2, <1>3, <1>4, <1>5 DEF RunsCounted

\* A run that ends keeps it, if the task is settled or the pause or crash is spent.
LEMMA EndsCounted ==
  ASSUME TypeInv, left' \in LeftType, Alive, run'.no = run.no, run'.step = "idle",
         Spent' >= Spent,
         row'.status \in {"completed", "failed"} \/ PauseKnown \/ Spent' > Spent
  PROVE  RunsCounted'
<1>1. Spent \in Nat /\ Spent' \in Nat /\ run.no \in Nat
  BY SpentType, Parts, PipelineAssumption DEF TypeInv, RunType, Runs, LeftType, Spent
<1>2. run.no <= 1 + Spent /\ (PauseKnown => run.no <= Spent)
  BY DEF TypeInv, RunsCounted
<1>3. ~Alive'
  BY DEF Alive
<1>4. run'.no <= 1 + Spent'
  BY <1>1, <1>2
<1>5. row'.status \in {"pending", "processing", "paused"} => run'.no <= Spent'
  BY <1>1, <1>2
<1> QED
  BY <1>3, <1>4, <1>5 DEF RunsCounted

-----------------------------------------------------------------------------
(* How a run begins and ends.                                              *)

\* A run begins with types.
LEMMA BeginTypes ==
  ASSUME TypeInv, ~Alive, row.status \in {"pending", "processing"}, FindsOutput \/ Begins,
         UNCHANGED <<setting, msg, store, stale, left>>
  PROVE  TypeInv'
<1> USE DEF TypeInv
<1>0. row \in RowType /\ msg \in MsgType /\ run \in RunType /\ left \in LeftType
  BY Parts
<1>1. CASE FindsOutput
  <2>1. row' \in RowType /\ row'.status = "completed"
    BY <1>0, <1>1 DEF FindsOutput, RowType, Statuses
  <2>2. TypeOK'
    BY <1>1, <2>1, Parts, PartsNext DEF FindsOutput
  <2>3. RunsCounted' /\ AtAStage'
    BY <1>1, <2>1 DEF FindsOutput, RunsCounted, Alive, AtAStage, Spent, PauseKnown
  <2> QED
    BY <2>2, <2>3
<1>2. CASE Begins
  <2>1. FirstStage \in Stages
    BY <1>0 DEF FirstStage, ResumeStage, MsgType, RowType, Stages, Separating, NoStage
  <2>2. run.no \in Nat /\ run.no <= Spent /\ Spent <= MaxCrashes + MaxPauses /\ Spent \in Nat
    BY <1>0, SpentType, PipelineAssumption DEF RunsCounted, RunType, Runs
  <2>3. run.no + 1 \in Runs
    BY <2>2, PipelineAssumption DEF Runs
  <2>4. NoRun(run.no + 1) \in RunType /\ NoRun(run.no + 1).no = run.no + 1
    BY <2>3, Nothings DEF NoRun
  <2>5. run' \in RunType /\ run'.step = "preflight" /\ run'.no = run.no + 1
    BY <1>2, <2>1, <2>4 DEF Begins, RunType, Step
  <2>6. row' \in RowType /\ row'.status = "processing"
    BY <1>0, <1>2 DEF Begins, RowType, Statuses
  <2>7. ctx' \in Context
    <3>1. NoContext \in Context /\ row.segs \in [Segs -> Segment]
      BY <1>0, Nothings DEF RowType
    <3>2. (IF msg.start # NoStage \/ msg.force THEN {FirstStage} ELSE {}) \in SUBSET Stages
      BY <2>1
    <3> QED
      BY <1>2, <3>1, <3>2 DEF Begins, RebuiltContext, Context
  <2>8. pool' \in PoolType /\ pool' = NoPool
    BY <1>2, Nothings DEF Begins
  <2>9. TypeOK'
    BY <2>5, <2>6, <2>7, <2>8, Parts, PartsNext
  <2>10. ~PauseKnown'
    BY <2>8 DEF PauseKnown, NoPool
  <2>11. RunsCounted'
    <3>1. Spent' = Spent
      BY DEF Spent
    <3>2. Alive' /\ run'.no <= 1 + Spent'
      BY <2>2, <2>5, <3>1 DEF Alive
    <3> QED
      BY <2>6, <2>10, <3>2 DEF RunsCounted
  <2> QED
    BY <2>5, <2>9, <2>11 DEF AtAStage
<1> QED
  BY <1>1, <1>2

\* Whoever sends the message of a task keeps the types.
LEMMA MessageTypes ==
  ASSUME TypeInv, Reconcile \/ Resume
  PROVE  TypeInv'
<1> USE DEF TypeInv
<1>0. row \in RowType /\ msg \in MsgType
  BY Parts
<1>1. CASE Reconcile
  <2>1. msg' \in MsgType
    BY <1>1 DEF Reconcile, MsgType
  <2>2. TypeOK'
    BY <1>1, <2>1, Parts, PartsNext DEF Reconcile
  <2> QED
    BY <1>1, <2>2 DEF Reconcile, RunsCounted, Alive, AtAStage, Spent, PauseKnown
<1>2. CASE Resume
  <2>1. msg' \in MsgType /\ row' \in RowType /\ row'.status = "pending"
    BY <1>0, <1>2 DEF Resume, MsgType, RowType, Statuses
  <2>2. TypeOK'
    BY <1>2, <2>1, Parts, PartsNext DEF Resume
  <2>3. ~Alive
    BY <1>2 DEF Resume, RunsCounted
  <2> QED
    BY <1>2, <2>1, <2>2, <2>3 DEF Resume, RunsCounted, Alive, AtAStage, Spent, PauseKnown
<1> QED
  BY <1>1, <1>2

\* What is not told otherwise stays; a run that is abandoned leaves the types.
LEMMA PausesTypes ==
  ASSUME TypeInv, Alive, NEW stage \in Stages, Pauses(stage), left' \in LeftType,
         Spent' >= Spent, PauseKnown \/ Spent' > Spent, store' \in StoreType,
         UNCHANGED <<setting, msg, pool>>
  PROVE  TypeInv'
<1>1. row' \in RowType
  BY Parts, RowParts DEF TypeInv, Pauses, Statuses
<1>2. run' \in RunType /\ ctx' \in Context /\ stale' \in BOOLEAN /\ run'.no = run.no
      /\ run'.step = "idle"
  BY AbandonsType DEF Pauses
<1>3. TypeOK'
  BY <1>1, <1>2, Parts, PartsNext DEF TypeInv
<1>4. RunsCounted'
  BY <1>2, EndsCounted
<1> QED
  BY <1>2, <1>3, <1>4 DEF TypeInv, AtAStage

\* The same of a run that fails.
LEMMA FailsTypes ==
  ASSUME TypeInv, Alive, Fails, left' \in LeftType, Spent' >= Spent, store' \in StoreType,
         UNCHANGED <<setting, msg, pool>>
  PROVE  TypeInv'
<1>1. row' \in RowType /\ row'.status = "failed"
  BY Parts DEF TypeInv, Fails, RowType, Statuses
<1>2. run' \in RunType /\ ctx' \in Context /\ stale' \in BOOLEAN /\ run'.no = run.no
      /\ run'.step = "idle"
  BY AbandonsType DEF Fails
<1>3. TypeOK'
  BY <1>1, <1>2, Parts, PartsNext DEF TypeInv
<1>4. RunsCounted'
  BY <1>1, <1>2, EndsCounted
<1> QED
  BY <1>2, <1>3, <1>4 DEF TypeInv, AtAStage

\* A step of a run that goes on keeps everything if it keeps the types of what it writes.
LEMMA StepTypes ==
  ASSUME TypeInv, Alive, row' \in RowType, row'.status = row.status, store' \in StoreType,
         run' \in RunType, run'.no = run.no, run'.step # "idle", AtAStage', ctx' \in Context,
         pool' \in PoolType, PauseKnown' => PauseKnown \/ Spent' > Spent, left' \in LeftType,
         Spent' >= Spent, UNCHANGED <<setting, msg, stale>>
  PROVE  TypeInv'
<1>1. TypeOK'
  BY Parts, PartsNext DEF TypeInv
<1> QED
  BY <1>1, StaysCounted DEF TypeInv

\* Spent does not change with anything but left.
LEMMA SpentStays == UNCHANGED left /\ left \in LeftType => Spent' = Spent /\ Spent' >= Spent /\ left' \in LeftType
BY PipelineAssumption DEF Spent, LeftType

\* Completion, a crash and the preflight keep the types.
LEMMA EndTypes ==
  ASSUME TypeInv, Complete \/ Crash \/ Preflight
  PROVE  TypeInv'
<1>0. /\ row \in RowType /\ run \in RunType /\ ctx \in Context /\ store \in StoreType
      /\ pool \in PoolType /\ left \in LeftType
  BY Parts DEF TypeInv
<1>1. CASE Complete
  <2>1. row' \in RowType /\ row'.status = "completed"
    BY <1>0, <1>1 DEF Complete, RowType, Statuses
  <2>2. run' = NoRun(run.no) /\ ctx' = NoContext /\ Alive
    BY <1>1 DEF Complete, Ends, Alive
  <2>3. run' \in RunType /\ ctx' \in Context /\ run'.no = run.no /\ run'.step = "idle"
    BY <1>0, <2>2, Nothings DEF NoRun, RunType
  <2>4. TypeOK'
    BY <1>1, <2>1, <2>3, Parts, PartsNext DEF Complete, TypeInv
  <2>5. RunsCounted'
    BY <1>0, <1>1, <2>1, <2>2, <2>3, EndsCounted, SpentStays DEF Complete
  <2> QED
    BY <2>3, <2>4, <2>5 DEF TypeInv, AtAStage
<1>2. CASE Crash
  <2>1. left' \in LeftType /\ Spent' = Spent + 1 /\ Spent \in Nat
    BY <1>0, <1>2, PipelineAssumption DEF Crash, LeftType, Spent
  <2>2. run' \in RunType /\ ctx' \in Context /\ stale' \in BOOLEAN /\ run'.no = run.no
        /\ run'.step = "idle"
    BY <1>2, AbandonsType DEF Crash
  <2>3. TypeOK'
    BY <1>2, <2>1, <2>2, Parts, PartsNext, Nothings DEF Crash, TypeInv
  <2>4. RunsCounted'
    BY <1>2, <2>1, <2>2, EndsCounted DEF Crash
  <2> QED
    BY <2>2, <2>3, <2>4 DEF TypeInv, AtAStage
<1>3. CASE Preflight
  <2> DEFINE reported == [row EXCEPT !.stage = IF PreflightStage = Preparing THEN Preparing ELSE @]
  <2>1. reported \in RowType /\ reported.status = row.status
    BY <1>0 DEF RowType, Preparing, Stages
  <2>2. Alive /\ UNCHANGED <<setting, msg, store, pool>>
    BY <1>3 DEF Preflight, Alive
  <2>3. CASE /\ SpendPause
             /\ row' = [reported EXCEPT !.status = "paused", !.stage = PreflightStage]
             /\ Abandons
    <3>1. PreflightStage \in Stages
      BY <1>0 DEF PreflightStage, RunType, Preparing, Stages
    <3>2. row' \in RowType
      BY <2>1, <2>3, <3>1 DEF RowType, Statuses
    <3>3. run' \in RunType /\ ctx' \in Context /\ stale' \in BOOLEAN /\ run'.no = run.no
          /\ run'.step = "idle"
      BY <2>3, AbandonsType
    <3>4. left' \in LeftType /\ Spent' = Spent + 1 /\ Spent \in Nat
      BY <1>0, <2>3, Spends, SpentType, PipelineAssumption
    <3>5. TypeOK'
      BY <2>2, <3>2, <3>3, <3>4, Parts, PartsNext DEF TypeInv
    <3>6. RunsCounted'
      BY <2>2, <3>3, <3>4, EndsCounted
    <3> QED
      BY <3>3, <3>5, <3>6 DEF TypeInv, AtAStage
  <2>4. CASE /\ row' = reported
             /\ run' = [run EXCEPT
                   !.step = IF setting.long /\ run.first <= Transcribing
                            THEN "front" ELSE "boundary",
                   !.at = EntryStage]
             /\ UNCHANGED <<ctx, stale, left>>
    <3>1. EntryStage \in Chain /\ EntryStage \in Stages
      BY <1>0 DEF EntryStage, RunType, Chain, Stages, Preparing, Separating, Translating, Synthesizing
    <3>2. run' \in RunType /\ run'.no = run.no /\ run'.step # "idle" /\ run'.at \in Chain
      BY <1>0, <2>4, <3>1 DEF RunType, Step
    <3> QED
      BY <1>0, <2>1, <2>2, <2>4, <3>2, StepTypes, SpentStays DEF AtAStage, PauseKnown
  <2> QED
    BY <1>3, <2>3, <2>4 DEF Preflight
<1> QED
  BY <1>1, <1>2, <1>3

-----------------------------------------------------------------------------
(* The stages.                                                             *)

\* A step of a stage leaves the pools and, but for a checkpoint, what may still go wrong.
LEMMA StageStepTypes ==
  ASSUME TypeInv, Alive, row' \in RowType, row'.status = row.status, store' \in StoreType,
         run' \in RunType, run'.no = run.no, run'.step # "idle", run'.at \in Chain,
         ctx' \in Context, left' \in LeftType, Spent' = Spent,
         UNCHANGED <<setting, msg, pool, stale>>
  PROVE  TypeInv'
<1>1. Spent \in Nat
  BY SpentType, Parts, PipelineAssumption DEF TypeInv
<1>2. Spent' >= Spent
  BY <1>1
<1>3. pool' \in PoolType /\ (PauseKnown' => PauseKnown)
  BY Parts DEF TypeInv, PauseKnown
<1> QED
  BY <1>2, <1>3, StepTypes DEF AtAStage

\* Where a run stands when it takes a step of a stage.
LEMMA Standing ==
  ASSUME TypeInv
  PROVE  /\ row \in RowType /\ msg \in MsgType /\ run \in RunType /\ ctx \in Context
         /\ store \in StoreType /\ pool \in PoolType /\ left \in LeftType
         /\ ctx.segs \in [Segs -> Segment] /\ ctx.inv \subseteq Stages /\ ctx.clips \subseteq Segs
         /\ row.segs \in [Segs -> Segment]
         /\ store.clip \in [Segs -> Translation] /\ store.mixed \in [Segs -> Translation]
         /\ \A step \in Step \ {"idle", "preflight"} :
               At(step) => Alive /\ run.at \in Chain
         /\ \A stage : Processing(stage) => Alive /\ run.at \in Chain /\ At("process")
<1>1. /\ row \in RowType /\ msg \in MsgType /\ run \in RunType /\ ctx \in Context
      /\ store \in StoreType /\ pool \in PoolType /\ left \in LeftType
  BY Parts DEF TypeInv
<1>2. /\ ctx.segs \in [Segs -> Segment] /\ ctx.inv \subseteq Stages /\ ctx.clips \subseteq Segs
      /\ row.segs \in [Segs -> Segment]
      /\ store.clip \in [Segs -> Translation] /\ store.mixed \in [Segs -> Translation]
  BY <1>1 DEF Context, RowType, StoreType
<1>3. \A step \in Step \ {"idle", "preflight"} : At(step) => Alive /\ run.at \in Chain
  BY DEF TypeInv, AtAStage, At, Alive
<1>4. \A stage : Processing(stage) => Alive /\ run.at \in Chain /\ At("process")
  BY <1>3 DEF Processing, Step
<1> QED
  BY <1>1, <1>2, <1>3, <1>4

\* A pause that is spent ends the run.
LEMMA SpendsAndPauses ==
  ASSUME TypeInv, Alive, SpendPause, NEW stage \in Stages, Pauses(stage), store' \in StoreType,
         UNCHANGED <<setting, msg, pool>>
  PROVE  TypeInv'
<1>1. left' \in LeftType /\ Spent' = Spent + 1 /\ Spent \in Nat
  BY Standing, Spends, SpentType, PipelineAssumption
<1>2. Spent' >= Spent /\ Spent' > Spent
  BY <1>1
<1> QED
  BY <1>1, <1>2, PausesTypes

\* An error or nothing that is spent, and the run fails.
LEMMA SpendsAndFails ==
  ASSUME TypeInv, Alive, SpendError \/ UNCHANGED left, Fails, store' \in StoreType,
         UNCHANGED <<setting, msg, pool>>
  PROVE  TypeInv'
<1>1. left' \in LeftType /\ Spent' = Spent /\ Spent \in Nat
  BY Standing, Spends, SpentStays, SpentType, PipelineAssumption
<1>2. Spent' >= Spent
  BY <1>1
<1> QED
  BY <1>1, <1>2, FailsTypes

\* The stages of the chain are stages.
LEMMA ChainStages == Chain \subseteq Stages
BY DEF Chain, Stages

\* A stage begins with a context of its type.
LEMMA BeginStageTypes ==
  ASSUME TypeInv, BeginStage PROVE TypeInv'
<1>1. Alive /\ run.at \in Chain /\ run.at \in Stages
  BY Standing, ChainStages DEF BeginStage, Step
<1>2. CASE SpendPause /\ Pauses(run.at)
  BY <1>1, <1>2, Standing, SpendsAndPauses DEF BeginStage
<1>3. row' = [row EXCEPT !.stage = run.at] => row' \in RowType /\ row'.status = row.status
  BY <1>1, Standing DEF RowType
<1>4. ContextAfterRestore \in Context
  <2>1. Loaded \in Context
    BY <1>1, Standing DEF Loaded, StoreType
  <2>2. WithArtifacts \in Context
    BY Standing DEF WithArtifacts, Context
  <2> QED
    BY <2>1, <2>2, Standing DEF ContextAfterRestore
<1>5. CASE /\ row' = [row EXCEPT !.stage = run.at]
           /\ ctx' = ContextAfterRestore
           /\ Goes(IF Restores THEN "persist" ELSE "process")
           /\ UNCHANGED <<stale, left>>
  <2>1. (IF Restores THEN "persist" ELSE "process") \in Step \ {"idle"}
    BY DEF Step
  <2>2. run' \in RunType /\ run'.step # "idle" /\ run'.no = run.no /\ run'.at = run.at
    BY <1>5, <2>1, Standing, GoesOn
  <2> QED
    BY <1>1, <1>3, <1>4, <1>5, <2>2, Standing, StageStepTypes, SpentStays DEF BeginStage
<1>6. CASE /\ row' = [row EXCEPT !.stage = run.at]
           /\ Goes("process")
           /\ UNCHANGED <<ctx, stale, left>>
  <2>1. run' \in RunType /\ run'.step # "idle" /\ run'.no = run.no /\ run'.at = run.at
    BY <1>6, Standing, GoesOn DEF Step
  <2> QED
    BY <1>1, <1>3, <1>6, <2>1, Standing, StageStepTypes, SpentStays DEF BeginStage
<1> QED
  BY <1>2, <1>5, <1>6 DEF BeginStage

\* The stages that make segments.
LEMMA TextTypes ==
  ASSUME TypeInv, Separate \/ Diarize \/ Transcribe PROVE TypeInv'
<1>1. Alive /\ run.at \in Chain
  BY Standing DEF Separate, Diarize, Transcribe
<1>2. CASE Separate
  <2>1. store' \in StoreType /\ ctx' \in Context
    BY <1>2, Standing DEF Separate, StoreType, Context
  <2>2. run' \in RunType /\ run'.step # "idle" /\ run'.no = run.no /\ run'.at = run.at
    BY <1>2, Standing, GoesOn DEF Separate, Step
  <2> QED
    BY <1>1, <1>2, <2>1, <2>2, Standing, StageStepTypes, SpentStays DEF Separate
<1>3. CASE Diarize
  <2>1. CASE SpendPause /\ Pauses(Diarizing)
    <3>1. Diarizing \in Stages
      BY DEF Diarizing, Stages
    <3> QED
      BY <1>1, <1>3, <2>1, <3>1, Standing, SpendsAndPauses DEF Diarize
  <2>2. CASE /\ ctx' = [ctx EXCEPT !.segs = NewSegments(Textless)]
             /\ Goes("persist")
             /\ UNCHANGED <<row, stale, left>>
    <3>1. ctx' \in Context
      BY <2>2, Standing, ContextParts, NewSegmentsType
    <3>2. run' \in RunType /\ run'.step # "idle" /\ run'.no = run.no /\ run'.at = run.at
      BY <2>2, Standing, GoesOn DEF Step
    <3> QED
      BY <1>1, <1>3, <2>2, <3>1, <3>2, Standing, StageStepTypes, SpentStays DEF Diarize
  <2> QED
    BY <1>3, <2>1, <2>2 DEF Diarize
<1>4. CASE Transcribe
  <2>1. run.no \in {Absent, Textless} \cup Runs
    BY Standing DEF RunType, Textless
  <2>2. ctx' \in Context
    BY <1>4, <2>1, Standing, ContextParts, NewSegmentsType DEF Transcribe
  <2>3. run' \in RunType /\ run'.step # "idle" /\ run'.no = run.no /\ run'.at = run.at
    BY <1>4, Standing, GoesOn DEF Transcribe, Step
  <2> QED
    BY <1>1, <1>4, <2>2, <2>3, Standing, StageStepTypes, SpentStays DEF Transcribe
<1> QED
  BY <1>2, <1>3, <1>4

\* What is paid is counted up to twice.
LEMMA PayType ==
  ASSUME run \in RunType, NEW who \in SUBSET Segs PROVE Pay(who) \in [Segs -> 0 .. 2]
BY DEF Pay, RunType

\* Translation keeps the types.
LEMMA TranslateTypes ==
  ASSUME TypeInv, Translate PROVE TypeInv'
<1> DEFINE pending == Translatable(ctx.segs)
<1>1. Alive /\ run.at \in Chain
  BY Standing DEF Translate
<1>2. CASE SpendPause /\ Pauses(Translating)
  <2>1. Translating \in Stages
    BY DEF Translating, Stages
  <2> QED
    BY <1>1, <1>2, <2>1, Standing, SpendsAndPauses DEF Translate
<1>3. CASE SpendError /\ Fails
  BY <1>1, <1>3, Standing, SpendsAndFails DEF Translate
<1>4. CASE ~(SpendPause /\ Pauses(Translating)) /\ ~(SpendError /\ Fails)
  <2>1. run' = [run EXCEPT !.step = "persist", !.paid = Pay(pending)] /\ UNCHANGED <<row, stale, left>>
    BY <1>4 DEF Translate
  <2>2. Pay(pending) \in [Segs -> 0 .. 2]
    BY Standing, PayType DEF Translatable
  <2>3. run' \in RunType /\ run'.step # "idle" /\ run'.no = run.no /\ run'.at = run.at
    BY <2>1, <2>2, Standing DEF RunType, Step
  <2>4. ctx' \in Context
    <3>1. CASE pending = {}
      BY <1>4, <3>1, Standing DEF Translate
    <3>2. CASE pending # {}
      <4> DEFINE segs == [s \in Segs |->
                           IF s \in pending
                           THEN [ctx.segs[s] EXCEPT
                                    !.trans = [of |-> ctx.segs[s].text, by |-> run.no],
                                    !.url = FALSE]
                           ELSE ctx.segs[s]]
      <4>1. segs \in [Segs -> Segment]
        <5> SUFFICES ASSUME NEW s \in Segs PROVE segs[s] \in Segment
          BY DEF segs
        <5>1. CASE s \notin pending
          BY <5>1, Standing
        <5>2. CASE s \in pending
          <6>1. ctx.segs[s] \in Segment /\ ctx.segs[s].text > Textless
            BY <5>2, Standing DEF Translatable
          <6>2. ctx.segs[s].text \in Runs
            BY <6>1 DEF Segment, Absent, Textless
          <6>3. [of |-> ctx.segs[s].text, by |-> run.no] \in Translation
            BY <6>2, Standing DEF Translation, RunType
          <6> HIDE DEF pending
          <6> QED
            BY <5>2, <6>1, <6>3 DEF Segment
        <5> QED
          BY <5>1, <5>2
      <4>2. ctx.inv \cup {Synthesizing, Aligning, Mixing} \subseteq Stages
        BY Standing DEF Synthesizing, Aligning, Mixing, Stages
      <4>3. ctx' = [ctx EXCEPT !.segs = segs, !.clips = {}, !.out = FALSE,
                               !.inv = @ \cup {Synthesizing, Aligning, Mixing}]
        BY <1>4, <3>2 DEF Translate
      <4> HIDE DEF segs
      <4> QED
        BY <4>1, <4>2, <4>3, Standing DEF Context
    <3> QED
      BY <3>1, <3>2
  <2> HIDE DEF pending
  <2> QED
    BY <1>1, <2>1, <2>3, <2>4, Standing, StageStepTypes, SpentStays DEF Translate
<1> QED
  BY <1>2, <1>3, <1>4

\* Segments that are given their clips are segments.
LEMMA WithUrlsType ==
  ASSUME TypeInv, NEW who PROVE WithUrls(who) \in [Segs -> Segment]
BY Standing DEF WithUrls, Segment

\* A clip says the translation of its segment.
LEMMA SpokenByType ==
  ASSUME TypeInv, NEW who PROVE [store EXCEPT !.clip = SpokenBy(who)] \in StoreType
<1>1. SpokenBy(who) \in [Segs -> Translation]
  BY Standing DEF SpokenBy, Segment
<1> QED
  BY <1>1, Standing DEF StoreType

\* Synthesis keeps the types.
LEMMA SynthesisTypes ==
  ASSUME TypeInv,
         \/ Synthesize \/ SynthesisStops \/ SynthesisEnds
         \/ \E s \in Segs : SpeakSegment(s) \/ CollectClip(s)
  PROVE  TypeInv'
<1>1. Alive /\ run.at \in Chain
  BY Standing DEF Synthesize, SynthesisStops, SynthesisEnds, SpeakSegment, CollectClip, Step
<1>2. CASE Synthesize
  <2>0. UNCHANGED <<setting, msg, store, pool, left>>
    BY <1>2 DEF Synthesize
  <2>1. CASE Goes("persist") /\ UNCHANGED <<row, ctx, stale>>
    <3>1. run' \in RunType /\ run'.step # "idle" /\ run'.no = run.no /\ run'.at = run.at
      BY <2>1, Standing, GoesOn DEF Step
    <3> QED
      BY <1>1, <2>0, <2>1, <3>1, Standing, StageStepTypes, SpentStays
  <2>2. CASE Fails
    BY <1>1, <2>0, <2>2, Standing, SpendsAndFails
  <2>3. CASE /\ ctx' = [ctx EXCEPT !.clips = Reusable, !.aligned = FALSE,
                                   !.segs = WithUrls(Reusable)]
             /\ row' = IF Reusable = Translated(ctx.segs) THEN row
                       ELSE [row EXCEPT !.segs = WithUrls(Reusable)]
             /\ Goes("synth")
             /\ UNCHANGED stale
    <3>1. WithUrls(Reusable) \in [Segs -> Segment] /\ Reusable \subseteq Segs
      BY WithUrlsType DEF Reusable, Translated
    <3>2. ctx' \in Context
      BY <2>3, <3>1, Standing DEF Context
    <3>3. row' \in RowType /\ row'.status = row.status
      BY <2>3, <3>1, Standing DEF RowType
    <3>4. run' \in RunType /\ run'.step # "idle" /\ run'.no = run.no /\ run'.at = run.at
      BY <2>3, Standing, GoesOn DEF Step
    <3> QED
      BY <1>1, <2>0, <2>3, <3>2, <3>3, <3>4, Standing, StageStepTypes, SpentStays
  <2> QED
    BY <1>2, <2>1, <2>2, <2>3 DEF Synthesize
<1>3. CASE SynthesisStops
  <2>1. PICK done \in SUBSET Unspoken : store' = [store EXCEPT !.clip = SpokenBy(done)]
    BY <1>3 DEF SynthesisStops
  <2>2. store' \in StoreType /\ UNCHANGED <<setting, msg, pool>>
    BY <1>3, <2>1, SpokenByType DEF SynthesisStops
  <2>3. Synthesizing \in Stages
    BY DEF Synthesizing, Stages
  <2> QED
    BY <1>1, <1>3, <2>2, <2>3, SpendsAndPauses, SpendsAndFails DEF SynthesisStops
<1>4. CASE SynthesisEnds
  <2>1. run' \in RunType /\ run'.step # "idle" /\ run'.no = run.no /\ run'.at = run.at
    BY <1>4, Standing, GoesOn DEF SynthesisEnds, Step
  <2> QED
    BY <1>1, <1>4, <2>1, Standing, StageStepTypes, SpentStays DEF SynthesisEnds
<1>5. ASSUME NEW s \in Segs, SpeakSegment(s) PROVE TypeInv'
  <2>1. store' \in StoreType /\ ctx' \in Context
    BY <1>5, SpokenByType, WithUrlsType, Standing, ContextParts DEF SpeakSegment
  <2>2. At("synth")
    BY <1>5 DEF SpeakSegment
  <2> QED
    BY <1>1, <1>5, <2>1, <2>2, Standing, StageStepTypes, SpentStays DEF SpeakSegment, At
<1>6. ASSUME NEW s \in Segs, CollectClip(s) PROVE TypeInv'
  <2>1. ctx' \in Context
    BY <1>6, Standing DEF CollectClip, Context
  <2>2. row' \in RowType /\ row'.status = row.status
    BY <1>6, Standing DEF CollectClip, RowType
  <2>3. At("synth")
    BY <1>6 DEF CollectClip
  <2> QED
    BY <1>1, <1>6, <2>1, <2>2, <2>3, Standing, StageStepTypes, SpentStays DEF CollectClip, At
<1> QED
  BY <1>2, <1>3, <1>4, <1>5, <1>6

\* Alignment and mixing keep the types.
LEMMA MixTypes ==
  ASSUME TypeInv, Align \/ MixShort \/ MixChunk \/ JoinChunks PROVE TypeInv'
<1>1. Alive /\ run.at \in Chain
  BY Standing DEF Align, MixShort, MixChunk, JoinChunks
<1>2. Heard \in [Segs -> Translation]
  BY Standing, Nothings DEF Heard
<1>3. UNCHANGED <<setting, msg, pool, left>>
  BY DEF Align, MixShort, MixChunk, JoinChunks
<1>4. Goes("persist") => /\ run' \in RunType /\ run'.step # "idle" /\ run'.no = run.no
                         /\ run'.at = run.at
  BY Standing, GoesOn DEF Step
<1>5. CASE Fails /\ UNCHANGED store
  BY <1>1, <1>3, <1>5, Standing, SpendsAndFails
<1>6. CASE Align
  <2>1. CASE Fails
    BY <1>5, <1>6, <2>1 DEF Align
  <2>2. CASE /\ ctx' = [ctx EXCEPT !.aligned = TRUE]
             /\ Goes("persist")
             /\ UNCHANGED <<row, stale>>
    <3>1. ctx' \in Context
      BY <2>2, Standing DEF Context
    <3> QED
      BY <1>1, <1>3, <1>4, <1>6, <2>2, <3>1, Standing, StageStepTypes, SpentStays DEF Align
  <2> QED
    BY <1>6, <2>1, <2>2 DEF Align
<1>7. CASE MixShort
  <2>1. CASE /\ store' = [store EXCEPT !.made = TRUE, !.bg = ctx.tracks, !.out = Heard]
             /\ ctx' = [ctx EXCEPT !.out = TRUE]
             /\ Goes("persist")
             /\ UNCHANGED <<row, stale>>
    <3>1. ctx' \in Context /\ store' \in StoreType
      BY <1>2, <2>1, Standing DEF Context, StoreType
    <3> QED
      BY <1>1, <1>3, <1>4, <2>1, <3>1, Standing, StageStepTypes, SpentStays
  <2> QED
    BY <1>5, <1>7, <2>1 DEF MixShort
<1>8. CASE MixChunk
  <2>1. run.mixed + 1 \in Segs /\ run.mixed + 1 \in 0 .. NSegs
    BY <1>8, Standing, PipelineAssumption DEF MixChunk, RunType, Segs
  <2>2. CASE /\ store' = IF Mixing \notin ctx.inv /\ store.mixed[run.mixed + 1] # NoTranslation
                         THEN store
                         ELSE [store EXCEPT !.mixed[run.mixed + 1] = Heard[run.mixed + 1]]
             /\ run' = [run EXCEPT !.mixed = run.mixed + 1]
             /\ UNCHANGED <<row, ctx, stale>>
    <3>1. store' \in StoreType
      BY <1>2, <2>1, <2>2, Standing DEF StoreType
    <3>2. run' \in RunType /\ run'.step = run.step /\ run'.no = run.no /\ run'.at = run.at
      BY <2>1, <2>2, Standing DEF RunType
    <3> QED
      BY <1>1, <1>3, <2>2, <3>1, <3>2, Standing, StageStepTypes, SpentStays DEF Alive
  <2> QED
    BY <1>5, <1>8, <2>2 DEF MixChunk
<1>9. CASE JoinChunks
  <2>1. ctx' \in Context /\ store' \in StoreType
    BY <1>9, Standing DEF JoinChunks, Context, StoreType
  <2> QED
    BY <1>1, <1>3, <1>4, <1>9, <2>1, Standing, StageStepTypes, SpentStays DEF JoinChunks
<1> QED
  BY <1>5, <1>6, <1>7, <1>8, <1>9 DEF Align, MixShort, MixChunk

\* What follows a stage keeps the types.
LEMMA AfterStageTypes ==
  ASSUME TypeInv, PersistStage \/ SaveCheckpoint PROVE TypeInv'
<1>1. Alive /\ run.at \in Chain
  BY Standing DEF PersistStage, SaveCheckpoint, Step
<1>2. NextStage => run' \in RunType /\ run'.step # "idle" /\ run'.no = run.no /\ run'.at \in Chain
  BY <1>1, Standing, NextStageType
<1>3. CASE PersistStage
  <2>1. ctx' \in Context
    BY <1>3, Standing DEF PersistStage, Context
  <2>2. row' \in RowType /\ row'.status = row.status
    BY <1>3, Standing DEF PersistStage, WritesRows, RowType
  <2>3. run' \in RunType /\ run'.step # "idle" /\ run'.no = run.no /\ run'.at \in Chain
    <3>1. Goes("save") => /\ run' \in RunType /\ run'.step # "idle" /\ run'.no = run.no
                          /\ run'.at = run.at
      BY Standing, GoesOn DEF Step
    <3> QED
      BY <1>1, <1>2, <1>3, <3>1 DEF PersistStage
  <2> QED
    BY <1>1, <1>3, <2>1, <2>2, <2>3, Standing, StageStepTypes, SpentStays DEF PersistStage
<1>4. CASE SaveCheckpoint
  <2>1. store' \in StoreType
    <3>1. CASE store' = [store EXCEPT !.saved = @ \cup {run.at}, !.ckpt[run.at] = ctx]
      <4>1. store.saved \cup {run.at} \in SUBSET Chain
        BY <1>1, Standing DEF StoreType
      <4>2. [store.ckpt EXCEPT ![run.at] = ctx] \in [Chain -> Context]
        BY Standing DEF StoreType
      <4>3. store' = [store EXCEPT !.saved = store.saved \cup {run.at},
                                   !.ckpt = [store.ckpt EXCEPT ![run.at] = ctx]]
        BY <3>1
      <4> HIDE <3>1
      <4> QED
        BY <4>1, <4>2, <4>3, Standing DEF StoreType
    <3>2. CASE UNCHANGED store
      BY <3>2, Standing
    <3> QED
      BY <1>4, <3>1, <3>2 DEF SaveCheckpoint
  <2>2. left' \in LeftType /\ Spent' = Spent
    BY <1>4, Standing, PipelineAssumption DEF SaveCheckpoint, LeftType, Spent
  <2> QED
    BY <1>1, <1>2, <1>4, <2>1, <2>2, Standing, StageStepTypes DEF SaveCheckpoint
<1> QED
  BY <1>3, <1>4

\* The estimator keeps the types.
LEMMA EstimatorTypes ==
  ASSUME TypeInv, Estimator PROVE TypeInv'
<1>1. CASE EstimatorReads
  <2>1. Alive /\ run.at \in Chain /\ run.at \in Stages
    BY <1>1, Standing, ChainStages DEF EstimatorReads, At, Step
  <2>2. run' \in RunType /\ run'.step = run.step /\ run'.no = run.no /\ run'.at = run.at
    BY <1>1, <2>1, Standing DEF EstimatorReads, RunType
  <2> QED
    BY <1>1, <2>1, <2>2, Standing, StageStepTypes, SpentStays DEF EstimatorReads, Alive
<1>2. CASE EstimatorWrites
  <2>1. Alive /\ row' \in RowType /\ row'.status = row.status
    BY <1>2, Standing DEF EstimatorWrites, RowType, RunType
  <2>2. run' \in RunType /\ run'.step = run.step /\ run'.no = run.no /\ run'.at = run.at
    BY <1>2, Standing DEF EstimatorWrites, RunType
  <2>3. AtAStage' /\ PauseKnown' = PauseKnown
    BY <1>2, <2>2 DEF EstimatorWrites, TypeInv, AtAStage, PauseKnown
  <2> QED
    BY <1>2, <2>1, <2>2, <2>3, Standing, StepTypes, SpentStays DEF EstimatorWrites, Alive
<1> QED
  BY <1>1, <1>2 DEF Estimator

-----------------------------------------------------------------------------
(* The front half of a long recording.                                     *)

\* One job moves to a state, and the others stay where they are.
LEMMA NowMoves ==
  ASSUME NEW job \in JobType, NEW k \in Job, NEW c \in Segs, NEW state \in JobState
  PROVE  /\ Now(job, k, c, state) \in JobType
         /\ \A j \in Job, d \in Segs :
               Now(job, k, c, state)[j][d] = IF j = k /\ d = c THEN state ELSE job[j][d]
BY DEF Now, JobType

\* Taking one job and submitting the next one, in one step.
LEMMA NowTwice ==
  ASSUME NEW job \in JobType, NEW k \in Job, NEW j \in Job, NEW c \in Segs
  PROVE  /\ Now(Now(job, k, c, "taken"), j, c, "queued") \in JobType
         /\ \A i \in Job, d \in Segs :
               Now(Now(job, k, c, "taken"), j, c, "queued")[i][d] \in {"taken", "queued", job[i][d]}
<1> DEFINE inner == Now(job, k, c, "taken")
<1>1. "taken" \in JobState /\ "queued" \in JobState
  BY DEF JobState
<1>2. /\ inner \in JobType
      /\ \A i \in Job, d \in Segs : inner[i][d] = IF i = k /\ d = c THEN "taken" ELSE job[i][d]
  BY <1>1, NowMoves
<1> HIDE DEF inner
<1>3. /\ Now(inner, j, c, "queued") \in JobType
      /\ \A i \in Job, d \in Segs :
            Now(inner, j, c, "queued")[i][d] = IF i = j /\ d = c THEN "queued" ELSE inner[i][d]
  BY <1>1, <1>2, NowMoves
<1>4. \A i \in Job, d \in Segs :
         Now(inner, j, c, "queued")[i][d] \in {"taken", "queued", job[i][d]}
  BY <1>2, <1>3
<1> QED
  BY <1>3, <1>4 DEF inner

\* The same, job by job.
LEMMA TakenAndQueued ==
  ASSUME NEW job \in JobType, NEW k \in Job, NEW j \in Job, k # j, NEW c \in Segs
  PROVE  /\ \A i \in Job, d \in Segs :
               i \notin {k, j} \/ d # c => Now(Now(job, k, c, "taken"), j, c, "queued")[i][d] = job[i][d]
         /\ Now(Now(job, k, c, "taken"), j, c, "queued")[k][c] = "taken"
         /\ Now(Now(job, k, c, "taken"), j, c, "queued")[j][c] = "queued"
<1> DEFINE inner == Now(job, k, c, "taken")
<1>1. "taken" \in JobState /\ "queued" \in JobState
  BY DEF JobState
<1>2. /\ inner \in JobType
      /\ \A i \in Job, d \in Segs : inner[i][d] = IF i = k /\ d = c THEN "taken" ELSE job[i][d]
  BY <1>1, NowMoves
<1> HIDE DEF inner
<1>3. \A i \in Job, d \in Segs :
         Now(inner, j, c, "queued")[i][d] = IF i = j /\ d = c THEN "queued" ELSE inner[i][d]
  BY <1>1, <1>2, NowMoves
<1>4. /\ \A i \in Job, d \in Segs :
            i \notin {k, j} \/ d # c => Now(inner, j, c, "queued")[i][d] = job[i][d]
      /\ Now(inner, j, c, "queued")[k][c] = "taken"
      /\ Now(inner, j, c, "queued")[j][c] = "queued"
  BY <1>2, <1>3
<1> QED
  BY <1>4 DEF inner

\* A job that moves, but not to a pause, makes no pause known.
LEMMA PauseStays ==
  ASSUME pool.job \in JobType, NEW k \in Job, NEW c \in Segs, NEW state \in JobState \ {"paused"},
         pool'.job = Now(pool.job, k, c, state), pool'.error = pool.error
  PROVE  PauseKnown' => PauseKnown
<1>1. ASSUME NEW j \in Job, NEW d \in Segs, pool'.job[j][d] = "paused" PROVE PauseKnown
  <2>1. pool'.job[j][d] = IF j = k /\ d = c THEN state ELSE pool.job[j][d]
    BY NowMoves
  <2>2. pool.job[j][d] = "paused"
    BY <1>1, <2>1
  <2> QED
    BY <2>2 DEF PauseKnown
<1>2. pool'.error = "paused" => PauseKnown
  BY DEF PauseKnown
<1> QED
  BY <1>1, <1>2 DEF PauseKnown

\* Cancelling touches what is queued only.
LEMMA CancelledMoves ==
  ASSUME NEW job \in JobType, NEW pools \in SUBSET Job
  PROVE  /\ Cancelled(job, pools) \in JobType
         /\ \A j \in Job, d \in Segs :
               \/ Cancelled(job, pools)[j][d] = job[j][d]
               \/ job[j][d] = "queued" /\ Cancelled(job, pools)[j][d] = "cancelled"
BY DEF Cancelled, JobType, JobState

\* The pools by their parts.
LEMMA PoolParts ==
  ASSUME pool \in PoolType
  PROVE  /\ pool.job \in JobType /\ pool.next \in 1 .. NSegs + 1 /\ pool.started \in Stages
         /\ pool.text \in [Segs -> {0} \cup Runs] /\ pool.trans \in [Segs -> Translation]
         /\ pool.error \in {"none", "failed", "paused"} /\ pool.stage \in Stages
         /\ \A job \in JobType : [pool EXCEPT !.job = job] \in PoolType
BY DEF PoolType

\* The names of the jobs.
LEMMA JobNames ==
  /\ Separation \in Job /\ Diarization \in Job /\ Transcription \in Job /\ Overlapped \in Job
  /\ FrontJob \subseteq Job /\ Job \subseteq Stages /\ IsFiniteSet(Segs)
<1>1. IsFiniteSet(Segs)
  BY FS_Interval, PipelineAssumption DEF Segs
<1> QED
  BY <1>1 DEF Separation, Diarization, Transcription, Overlapped, Job, FrontJob, Stages

\* The first chunks are as many as may be in flight, or all there are.
LEMMA FirstChunksSize ==
  /\ FirstChunks \subseteq Segs
  /\ Cardinality(FirstChunks) \in 0 .. NSegs /\ Cardinality(FirstChunks) <= MaxInFlight
<1> DEFINE m == IF MaxInFlight < NSegs THEN MaxInFlight ELSE NSegs
<1>1. m \in Nat /\ m <= NSegs /\ m <= MaxInFlight /\ m >= 1
  BY PipelineAssumption
<1>2. FirstChunks = 1 .. m
  BY DEF FirstChunks
<1> HIDE DEF m
<1>3. Cardinality(1 .. m) = m
  BY <1>1, FS_Interval
<1> QED
  BY <1>1, <1>2, <1>3, PipelineAssumption DEF Segs

\* They are the first ones.
LEMMA FirstChunksAre == FirstChunks = 1 .. Cardinality(FirstChunks)
<1> DEFINE m == IF MaxInFlight < NSegs THEN MaxInFlight ELSE NSegs
<1>1. m \in Nat
  BY PipelineAssumption
<1>2. FirstChunks = 1 .. m
  BY DEF FirstChunks
<1> HIDE DEF m
<1>3. Cardinality(1 .. m) = m
  BY <1>1, FS_Interval
<1> QED
  BY <1>2, <1>3

\* One element more is at most one more.
LEMMA OneMore ==
  ASSUME NEW S, NEW x, IsFiniteSet(S)
  PROVE  /\ IsFiniteSet(S \cup {x})
         /\ Cardinality(S \cup {x}) \in Nat
         /\ Cardinality(S \cup {x}) <= Cardinality(S) + 1
<1>1. IsFiniteSet(S \cup {x}) /\ Cardinality(S) \in Nat
  BY FS_AddElement, FS_CardinalityType
<1>2. Cardinality(S \cup {x}) \in Nat
  BY <1>1, FS_CardinalityType
<1>3. Cardinality(S \cup {x}) = Cardinality(S) \/ Cardinality(S \cup {x}) = Cardinality(S) + 1
  BY FS_AddElement
<1> QED
  BY <1>1, <1>2, <1>3

\* A step of the front half, of a run that stays in it or goes on.
LEMMA FrontStepTypes ==
  ASSUME TypeInv, Alive, row' \in RowType, row'.status = row.status, store' \in StoreType,
         run' \in RunType, run'.no = run.no, run'.step # "idle", run'.at = run.at,
         run.at \in Chain, ctx' \in Context, pool' \in PoolType, UNCHANGED left,
         PauseKnown' => PauseKnown,
         UNCHANGED <<setting, msg, stale>>
  PROVE  TypeInv'
BY Standing, StepTypes, SpentStays DEF AtAStage

\* The front half starts with types.
LEMMA FrontStartTypes ==
  ASSUME TypeInv, FrontStart PROVE TypeInv'
<1>1. Alive /\ run.at \in Chain
  BY Standing DEF FrontStart, Step
<1>2. row' \in RowType /\ row'.status = row.status
  BY Standing DEF FrontStart, RowType, Separating, Stages
<1>3. run' \in RunType /\ run'.step # "idle" /\ run'.no = run.no /\ run'.at = run.at
  BY Standing, GoesOn DEF FrontStart, Step
<1>4. Cascade(ctx.inv) \in SUBSET Stages
  BY Standing, ChainStages DEF Cascade
<1>5. ctx' \in Context
  BY <1>4, Standing, ContextParts DEF FrontStart
<1> DEFINE first == [c \in Segs |-> IF c \in FirstChunks THEN "queued" ELSE "none"]
<1>6. /\ pool' = [NoPool EXCEPT !.job[Separation] = first,
                                !.next = Cardinality(FirstChunks) + 1,
                                !.redo = Cascade(ctx.inv) \cap FrontJob]
  BY DEF FrontStart
<1>7. pool' = [NoPool EXCEPT !.job = [NoPool.job EXCEPT ![Separation] = first],
                            !.next = Cardinality(FirstChunks) + 1,
                            !.redo = Cascade(ctx.inv) \cap FrontJob]
  BY <1>6, Nothings DEF PoolType
<1>8. /\ [NoPool.job EXCEPT ![Separation] = first] \in JobType
      /\ \A k \in Job, c \in Segs :
            [NoPool.job EXCEPT ![Separation] = first][k][c] \in {"queued", "none"}
  BY JobNames DEF NoPool, JobType, JobState
<1>9. Cardinality(FirstChunks) + 1 \in 1 .. NSegs + 1
  BY FirstChunksSize, PipelineAssumption
<1>10. Cascade(ctx.inv) \cap FrontJob \in SUBSET Job
  BY JobNames
<1> HIDE DEF first
<1>11. pool' \in PoolType /\ pool'.error = "none"
       /\ pool'.job = [NoPool.job EXCEPT ![Separation] = first]
  <2>1. NoPool \in PoolType /\ NoPool.error = "none"
    BY Nothings DEF NoPool
  <2> QED
    BY <1>7, <1>8, <1>9, <1>10, <2>1 DEF PoolType
<1>12. ~PauseKnown'
  BY <1>8, <1>11 DEF PauseKnown
<1> QED
  BY <1>1, <1>2, <1>3, <1>5, <1>11, <1>12, Standing, FrontStepTypes DEF FrontStart

\* What the threads do keeps the types.
LEMMA ThreadTypes ==
  ASSUME TypeInv, ThreadStep PROVE TypeInv'
<1> USE JobNames
<1>1. Alive /\ run.at \in Chain
  <2>1. InPools
    BY DEF ThreadStep, StartJob, JobStops, SeparateChunk, DiarizeChunk, TranscribeChunk, TranslateChunk
  <2> QED
    BY <2>1 DEF InPools, Alive, TypeInv, AtAStage
<1>2. pool.job \in JobType /\ pool \in PoolType
  BY Standing, PoolParts
<1>3. ASSUME NEW k \in Job, NEW c \in Segs, NEW state \in JobState \ {"paused"},
             pool' = [pool EXCEPT !.job = Now(@, k, c, state)]
      PROVE  pool' \in PoolType /\ (PauseKnown' => PauseKnown)
  <2>1. pool' \in PoolType /\ pool'.error = pool.error /\ pool'.job = Now(pool.job, k, c, state)
    BY <1>2, <1>3, NowMoves DEF PoolType
  <2> QED
    BY <1>2, <2>1, PauseStays
<1>4. ASSUME NEW k \in Job, NEW c \in Segs, StartJob(k, c) PROVE TypeInv'
  BY <1>1, <1>3, <1>4, Standing, FrontStepTypes DEF StartJob, JobState, Alive
<1>5. ASSUME NEW k \in Job, NEW c \in Segs, JobStops(k, c) PROVE TypeInv'
  <2>1. CASE SpendPause /\ pool' = [pool EXCEPT !.job = Now(@, k, c, "paused")]
    <3>1. pool' \in PoolType
      BY <1>2, <2>1, NowMoves, PoolParts DEF JobState
    <3>2. left' \in LeftType /\ Spent' = Spent + 1 /\ Spent \in Nat
      BY <2>1, Standing, Spends, SpentType, PipelineAssumption
    <3>3. Spent' >= Spent /\ Spent' > Spent
      BY <3>2
    <3> QED
      BY <1>1, <1>5, <3>1, <3>2, <3>3, Standing, StepTypes DEF JobStops, AtAStage, Alive
  <2>2. CASE SpendError /\ pool' = [pool EXCEPT !.job = Now(@, k, c, "failed")]
    <3>1. pool' \in PoolType /\ (PauseKnown' => PauseKnown)
      BY <1>3, <2>2 DEF JobState
    <3>2. left' \in LeftType /\ Spent' = Spent /\ Spent \in Nat
      BY <2>2, Standing, Spends, SpentType, PipelineAssumption
    <3>3. Spent' >= Spent
      BY <3>2
    <3> QED
      BY <1>1, <1>5, <3>1, <3>2, <3>3, Standing, StepTypes DEF JobStops, AtAStage, Alive
  <2> QED
    BY <1>5, <2>1, <2>2 DEF JobStops
<1>6. ASSUME NEW c \in Segs, SeparateChunk(c) PROVE TypeInv'
  <2>1. store' \in StoreType
    BY <1>6, Standing DEF SeparateChunk, StoreType
  <2>2. pool' \in PoolType /\ (PauseKnown' => PauseKnown)
    BY <1>3, <1>6 DEF SeparateChunk, JobState
  <2> QED
    BY <1>1, <1>6, <2>1, <2>2, Standing, FrontStepTypes DEF SeparateChunk, Alive
<1>7. ASSUME NEW c \in Segs, DiarizeChunk(c) PROVE TypeInv'
  <2>1. store' \in StoreType
    BY <1>7, Standing DEF DiarizeChunk, StoreType
  <2>2. pool' \in PoolType /\ (PauseKnown' => PauseKnown)
    BY <1>3, <1>7 DEF DiarizeChunk, JobState
  <2> QED
    BY <1>1, <1>7, <2>1, <2>2, Standing, FrontStepTypes DEF DiarizeChunk, Alive
<1>8. ASSUME NEW c \in Segs, TranscribeChunk(c) PROVE TypeInv'
  <2> DEFINE text == IF Reuses(Transcription, c) THEN store.tra[c] ELSE run.no
  <2>1. text \in {0} \cup Runs
    BY Standing DEF StoreType, RunType
  <2> HIDE DEF text
  <2>2. /\ store' = [store EXCEPT !.tra = [store.tra EXCEPT ![c] = text]]
        /\ pool' = [pool EXCEPT !.job = Now(pool.job, Transcription, c, "ok"),
                                !.text = [pool.text EXCEPT ![c] = text]]
    BY <1>8 DEF TranscribeChunk, text
  <2>3. store' \in StoreType
    BY <2>1, <2>2, Standing DEF StoreType
  <2>4. /\ Now(pool.job, Transcription, c, "ok") \in JobType
        /\ [pool.text EXCEPT ![c] = text] \in [Segs -> {0} \cup Runs]
    BY <1>2, <2>1, NowMoves, PoolParts DEF JobState
  <2>5. pool' \in PoolType /\ pool'.error = pool.error
        /\ pool'.job = Now(pool.job, Transcription, c, "ok")
    BY <1>2, <2>2, <2>4 DEF PoolType
  <2>6. PauseKnown' => PauseKnown
    BY <1>2, <2>5, PauseStays DEF JobState
  <2> QED
    BY <1>1, <1>8, <2>3, <2>5, <2>6, Standing, FrontStepTypes DEF TranscribeChunk, Alive
<1>9. ASSUME NEW c \in Segs, TranslateChunk(c) PROVE TypeInv'
  <2>1. [of |-> pool.text[c], by |-> run.no] \in Translation
    BY Standing, PoolParts DEF Translation, RunType
  <2>2. pool' = [pool EXCEPT !.job = Now(pool.job, Overlapped, c, "ok"),
                  !.trans = [pool.trans EXCEPT ![c] = [of |-> pool.text[c], by |-> run.no]]]
    BY <1>9 DEF TranslateChunk
  <2>3. /\ Now(pool.job, Overlapped, c, "ok") \in JobType
        /\ [pool.trans EXCEPT ![c] = [of |-> pool.text[c], by |-> run.no]] \in [Segs -> Translation]
    BY <1>2, <2>1, NowMoves, PoolParts DEF JobState
  <2>4. pool' \in PoolType /\ pool'.error = pool.error
        /\ pool'.job = Now(pool.job, Overlapped, c, "ok")
    BY <1>2, <2>2, <2>3 DEF PoolType
  <2>5. PauseKnown' => PauseKnown
    BY <1>2, <2>4, PauseStays DEF JobState
  <2>6. run' \in RunType /\ run'.step = run.step /\ run'.no = run.no /\ run'.at = run.at
    <3>1. Pay({c}) \in [Segs -> 0 .. 2]
      BY Standing, PayType
    <3> QED
      BY <1>9, <3>1, Standing DEF TranslateChunk, RunType
  <2> QED
    BY <1>1, <1>9, <2>4, <2>5, <2>6, Standing, FrontStepTypes DEF TranslateChunk, Alive
<1> QED
  BY <1>4, <1>5, <1>6, <1>7, <1>8, <1>9 DEF ThreadStep

\* What the main thread does with a result keeps the types.
LEMMA TakeTypes ==
  ASSUME TypeInv, NEW c \in Segs, TakeSeparated(c) \/ TakeDiarized(c) \/ TakeTranscribed(c)
  PROVE  TypeInv'
<1> USE JobNames
<1>1. Alive /\ run.at \in Chain /\ UNCHANGED <<setting, msg, store, run, stale, left>>
  BY Standing DEF TakeSeparated, TakeDiarized, TakeTranscribed, Step
<1>2. pool.job \in JobType /\ pool \in PoolType
  BY Standing, PoolParts
<1>3. ASSUME NEW stage \in Stages PROVE Reported(stage) \in Stages
  BY Standing DEF Reported, RowType
<1>4. {Separating, Diarizing, Transcribing} \subseteq Stages
  BY DEF Separating, Diarizing, Transcribing, Stages
<1>5. ASSUME NEW k \in Job, NEW j \in Job
      PROVE  /\ Now(Now(pool.job, k, c, "taken"), j, c, "queued") \in JobType
             /\ \A i \in Job, d \in Segs :
                   Now(Now(pool.job, k, c, "taken"), j, c, "queued")[i][d]
                     \in {"taken", "queued", pool.job[i][d]}
  BY <1>2, NowTwice, Zenon
<1>6. ASSUME row' \in RowType, row'.status = row.status, ctx' \in Context, pool' \in PoolType,
             pool'.error = pool.error,
             \A i \in Job, d \in Segs : pool'.job[i][d] \in {"taken", "queued", pool.job[i][d]}
      PROVE  TypeInv'
  <2>1. PauseKnown' => PauseKnown
    BY <1>6 DEF PauseKnown
  <2> QED
    BY <1>1, <1>6, <2>1, Standing, FrontStepTypes DEF Alive
<1>7. CASE TakeSeparated(c)
  <2>1. row' \in RowType /\ row'.status = row.status
    BY <1>3, <1>4, <1>7, Standing DEF TakeSeparated, RowType
  <2>2. ctx' \in Context
    BY <1>7, Standing DEF TakeSeparated, Context
  <2>3. pool' \in PoolType /\ pool'.error = pool.error
        /\ pool'.job = Now(Now(pool.job, Separation, c, "taken"), Diarization, c, "queued")
    BY <1>2, <1>4, <1>5, <1>7 DEF TakeSeparated, PoolType
  <2> QED
    BY <1>5, <1>6, <2>1, <2>2, <2>3
<1>8. CASE TakeDiarized(c)
  <2>1. NewSegments(Textless) \in [Segs -> Segment]
    BY NewSegmentsType
  <2>2. row' \in RowType /\ row'.status = row.status
    BY <1>3, <1>4, <1>8, <2>1, Standing DEF TakeDiarized, RowType
  <2>3. ctx' \in Context
    BY <1>8, Standing DEF TakeDiarized, Context
  <2>4. pool' \in PoolType /\ pool'.error = pool.error
        /\ pool'.job = Now(Now(pool.job, Diarization, c, "taken"), Transcription, c, "queued")
    BY <1>2, <1>4, <1>5, <1>8 DEF TakeDiarized, PoolType
  <2> QED
    BY <1>5, <1>6, <2>2, <2>3, <2>4
<1>9. CASE TakeTranscribed(c)
  <2>1. row' \in RowType /\ row'.status = row.status /\ ctx' \in Context
    BY <1>4, <1>9, Standing DEF TakeTranscribed, RowType
  <2> DEFINE job == [k \in Job |-> [d \in Segs |->
                IF k = Transcription /\ d = c THEN "taken"
                ELSE IF k = Overlapped /\ d = c /\ setting.overlap THEN "queued"
                ELSE IF k = Separation /\ d = pool.next /\ MoreChunks THEN "queued"
                ELSE pool.job[k][d]]]
  <2>2. job \in JobType /\ \A i \in Job, d \in Segs : job[i][d] \in {"taken", "queued", pool.job[i][d]}
    BY <1>2 DEF JobType, JobState
  <2>3. pool' = [pool EXCEPT !.job = job, !.next = IF MoreChunks THEN pool.next + 1 ELSE pool.next]
    BY <1>9 DEF TakeTranscribed
  <2>4. (IF MoreChunks THEN pool.next + 1 ELSE pool.next) \in 1 .. NSegs + 1
    BY Standing, PoolParts, PipelineAssumption DEF MoreChunks
  <2> HIDE DEF job
  <2>5. pool' \in PoolType /\ pool'.error = pool.error /\ pool'.job = job
    BY <1>2, <2>2, <2>3, <2>4 DEF PoolType
  <2> QED
    BY <1>6, <2>1, <2>2, <2>5
<1> QED
  BY <1>7, <1>8, <1>9

\* How the front half ends keeps the types.
LEMMA FrontEndTypes ==
  ASSUME TypeInv,
         \/ \E k \in Job, c \in Segs : FrontJobRaises(k, c)
         \/ \E c \in Segs : TranslationRaises(c)
         \/ FrontStops \/ FrontEnds
  PROVE  TypeInv'
<1> USE JobNames
<1>1. Alive /\ run.at \in Chain
  BY Standing DEF FrontJobRaises, TranslationRaises, FrontStops, FrontEnds, Step
<1>2. pool.job \in JobType /\ pool \in PoolType
  BY Standing, PoolParts
<1>3. ASSUME NEW pools \in SUBSET Job, NEW k \in Job, NEW c \in Segs, NEW stage \in Stages,
             pool.job[k][c] \in {"failed", "paused"}, Raises(pools, pool.job[k][c], stage)
      PROVE  TypeInv'
  <2>1. run' \in RunType /\ run'.step # "idle" /\ run'.no = run.no /\ run'.at = run.at
    BY <1>3, Standing, GoesOn DEF Raises, Step
  <2>2. pool' \in PoolType /\ pool'.job = Cancelled(pool.job, pools) /\ pool'.error = pool.job[k][c]
    BY <1>2, <1>3, CancelledMoves DEF Raises, PoolType
  <2>3. PauseKnown' => PauseKnown
    <3>1. pool'.error = "paused" => PauseKnown
      BY <2>2 DEF PauseKnown
    <3>2. ASSUME NEW j \in Job, NEW d \in Segs, pool'.job[j][d] = "paused" PROVE PauseKnown
      BY <1>2, <2>2, <3>2, CancelledMoves DEF PauseKnown
    <3> QED
      BY <3>1, <3>2 DEF PauseKnown
  <2> QED
    BY <1>1, <1>3, <2>1, <2>2, <2>3, Standing, FrontStepTypes DEF Raises
<1>4. ASSUME NEW k \in Job, NEW c \in Segs, FrontJobRaises(k, c) PROVE TypeInv'
  <2>1. FrontJob \in SUBSET Job /\ k \in Stages
    OBVIOUS
  <2>2. pool.job[k][c] \in {"failed", "paused"} /\ Raises(FrontJob, pool.job[k][c], k)
    BY <1>4 DEF FrontJobRaises
  <2> QED
    BY <1>3, <2>1, <2>2
<1>5. ASSUME NEW c \in Segs, TranslationRaises(c) PROVE TypeInv'
  <2>1. Job \in SUBSET Job /\ Translating \in Stages
    BY DEF Translating, Stages
  <2>2. pool.job[Overlapped][c] \in {"failed", "paused"}
        /\ Raises(Job, pool.job[Overlapped][c], Translating)
    BY <1>5 DEF TranslationRaises
  <2> QED
    BY <1>3, <2>1, <2>2
<1>6. CASE FrontStops
  <2>1. left' \in LeftType /\ Spent' >= Spent /\ store' \in StoreType
    BY <1>6, Standing, SpentStays DEF FrontStops
  <2>2. UNCHANGED <<setting, msg, pool>> /\ pool.stage \in Stages
    BY <1>6, Standing, PoolParts DEF FrontStops
  <2>3. CASE pool.error = "paused" /\ Pauses(pool.stage)
    BY <1>1, <2>1, <2>2, <2>3, PausesTypes DEF PauseKnown
  <2>4. CASE Fails
    BY <1>1, <2>1, <2>2, <2>4, FailsTypes
  <2> QED
    BY <1>6, <2>3, <2>4 DEF FrontStops
<1>7. CASE FrontEnds
  <2>1. Merged \in [Segs -> Segment]
    <3> SUFFICES ASSUME NEW s \in Segs
                 PROVE  [text |-> pool.text[s],
                         trans |-> IF pool.trans[s] # NoTranslation THEN pool.trans[s] ELSE ctx.segs[s].trans,
                         url |-> ctx.segs[s].url] \in Segment
      BY DEF Merged
    <3>1. pool.text[s] \in {Absent, Textless} \cup Runs
      BY Standing, PoolParts DEF Textless
    <3>2. pool.trans[s] \in Translation /\ ctx.segs[s] \in Segment
      BY Standing, PoolParts
    <3>3. ctx.segs[s].trans \in Translation /\ ctx.segs[s].url \in BOOLEAN
      BY <3>2 DEF Segment
    <3> QED
      BY <3>1, <3>2, <3>3 DEF Segment
  <2>2. ctx' \in Context /\ row' \in RowType /\ row'.status = row.status
    <3>1. /\ ctx' = [ctx EXCEPT !.segs = Merged, !.inv = ctx.inv \ {Transcribing}]
          /\ row' = [row EXCEPT !.stage = Transcribing, !.segs = Merged]
      BY <1>7 DEF FrontEnds
    <3>2. ctx.inv \ {Transcribing} \in SUBSET Stages /\ Transcribing \in Stages
      BY Standing DEF Transcribing, Stages
    <3>3. ctx' \in Context
      BY <2>1, <3>1, <3>2, Standing, ContextParts
    <3> QED
      BY <2>1, <3>1, <3>2, <3>3, Standing DEF RowType
  <2>3. run' \in RunType /\ run'.step # "idle" /\ run'.no = run.no /\ run'.at = run.at
    BY <1>7, Standing, GoesOn DEF FrontEnds, Step
  <2> QED
    BY <1>1, <1>7, <2>2, <2>3, Standing, StageStepTypes, SpentStays DEF FrontEnds
<1> QED
  BY <1>4, <1>5, <1>6, <1>7

-----------------------------------------------------------------------------
\* The types with what makes them inductive.
LEMMA TypeInvariant == Spec => []TypeInv
<1>1. Init => TypeInv
  <2> SUFFICES ASSUME Init PROVE TypeInv
    OBVIOUS
  <2> USE PipelineAssumption
  <2>1. setting \in [long : BOOLEAN, overlap : BOOLEAN]
    BY DEF Init
  <2>2. row \in RowType /\ msg \in MsgType
    BY Nothings DEF Init, RowType, Statuses, MsgType, Stages, Preparing
  <2>3. store \in StoreType
    BY Nothings DEF Init, StoreType
  <2>4. run \in RunType /\ ctx \in Context /\ pool \in PoolType
    BY Nothings DEF Init
  <2>5. left \in LeftType /\ Spent = 0
    BY DEF Init, LeftType, Spent
  <2>6. stale \in BOOLEAN
    BY Zenon DEF Init
  <2>7. run.no = 0 /\ run.step = "idle"
    BY DEF Init, NoRun
  <2>8. TypeOK
    BY <2>1, <2>2, <2>3, <2>4, <2>5, <2>6, Parts
  <2> QED
    BY <2>5, <2>7, <2>8 DEF TypeInv, RunsCounted, Alive, AtAStage
<1>2. TypeInv /\ [Next]_vars => TypeInv'
  <2> SUFFICES ASSUME TypeInv, [Next]_vars PROVE TypeInv'
    OBVIOUS
  <2>1. CASE Deliver \/ Redeliver
    BY <2>1, BeginTypes DEF Deliver, Redeliver
  <2>2. CASE StageStep
    BY <2>2, BeginStageTypes, TextTypes, TranslateTypes, SynthesisTypes, MixTypes, AfterStageTypes
       DEF StageStep
  <2>3. CASE MainStep
    BY <2>3, FrontStartTypes, TakeTypes, FrontEndTypes DEF MainStep
  <2>4. CASE UNCHANGED vars
    BY <2>4 DEF vars, TypeInv, TypeOK, RunsCounted, Alive, AtAStage, Spent, PauseKnown
  <2> QED
    BY <2>1, <2>2, <2>3, <2>4, MessageTypes, EndTypes, ThreadTypes, EstimatorTypes
       DEF Next, RunStep
<1> QED
  BY <1>1, <1>2, PTL DEF Spec

\* The types are an invariant; with them, a task has at most one run more than crashes and pauses.
THEOREM TypeCorrect == Spec => []TypeOK
BY TypeInvariant, PTL DEF TypeInv

-----------------------------------------------------------------------------
(* The front half of a long recording.                                     *)

InFlight ==
    {c \in Segs : pool.job[Separation][c] # "none" /\ pool.job[Transcription][c] # "taken"}

\* A chunk enters a pool when the result of the one before was taken, and the chunks enter in
\* order: without this a chunk could enter twice, and the bound would not be kept.
InOrder ==
    \A c \in Segs :
        /\ c >= pool.next => pool.job[Separation][c] = "none"
        /\ pool.job[Diarization][c] # "none" => pool.job[Separation][c] = "taken"
        /\ pool.job[Transcription][c] # "none" => pool.job[Diarization][c] = "taken"

FrontInv == PoolsDrained /\ InFlightBounded /\ InOrder

\* What the bound is about.
LEMMA InFlightIs == InFlightBounded <=> Cardinality(InFlight) <= MaxInFlight
BY DEF InFlightBounded, InFlight

\* The same of the next state.
LEMMA InFlightNext == Cardinality(InFlight') <= MaxInFlight => InFlightBounded'
BY DEF InFlightBounded, InFlight

\* The chunks in flight are finitely many.
LEMMA InFlightFinite ==
  /\ InFlight \subseteq Segs /\ IsFiniteSet(InFlight) /\ Cardinality(InFlight) \in Nat
  /\ InFlight' \subseteq Segs
<1>1. InFlight \subseteq Segs /\ InFlight' \subseteq Segs
  BY DEF InFlight
<1> QED
  BY <1>1, JobNames, FS_Subset, FS_CardinalityType

\* An empty pool has nothing in flight.
LEMMA NoPoolFront == ASSUME pool' = NoPool PROVE FrontInv'
<1> USE JobNames
<1>1. \A k \in Job, c \in Segs : pool'.job[k][c] = "none"
  BY DEF NoPool
<1>2. Drained'
  BY <1>1 DEF Drained, Jobs, Busy
<1>3. InFlight' = {}
  BY <1>1 DEF InFlight
<1>4. Cardinality(InFlight') <= MaxInFlight
  BY <1>3, FS_EmptySet, PipelineAssumption
<1>5. InOrder'
  BY <1>1 DEF InOrder
<1> QED
  BY <1>2, <1>4, <1>5, InFlightNext DEF FrontInv, PoolsDrained

\* A step that leaves the pools alone keeps everything, unless it leaves the front half too early.
LEMMA PoolStays ==
  ASSUME FrontInv, UNCHANGED pool, InPools => InPools' \/ Drained
  PROVE  FrontInv'
<1>1. InFlight' = InFlight /\ (InOrder => InOrder') /\ (Drained => Drained')
  BY DEF InFlight, InOrder, Drained, Jobs
<1>2. Cardinality(InFlight') <= MaxInFlight
  BY <1>1, InFlightIs DEF FrontInv
<1>3. ~InPools => Drained
  BY DEF FrontInv, PoolsDrained
<1> QED
  BY <1>1, <1>2, <1>3, InFlightNext DEF FrontInv, PoolsDrained

\* So does a step that moves jobs within the pools.
LEMMA JobsMove ==
  ASSUME FrontInv, InPools', pool'.next = pool.next,
         \A k \in Job, c \in Segs :
            /\ pool'.job[k][c] = "none" <=> pool.job[k][c] = "none"
            /\ pool'.job[k][c] = "taken" <=> pool.job[k][c] = "taken"
  PROVE  FrontInv'
<1> USE JobNames
<1>1. InFlight' = InFlight
  BY DEF InFlight
<1>2. Cardinality(InFlight') <= MaxInFlight
  BY <1>1, InFlightIs DEF FrontInv
<1>3. InOrder'
  BY DEF FrontInv, InOrder
<1> QED
  BY <1>2, <1>3, InFlightNext DEF FrontInv, PoolsDrained

\* One job that is under way and stays so, or is finished.
LEMMA OneJobMoves ==
  ASSUME TypeInv, FrontInv, InPools', pool'.next = pool.next,
         NEW k \in Job, NEW c \in Segs, NEW state \in JobState \ {"none", "taken"},
         pool.job[k][c] \notin {"none", "taken"}, pool'.job = Now(pool.job, k, c, state)
  PROVE  FrontInv'
<1>1. pool.job \in JobType
  BY Standing, PoolParts
<1>2. \A j \in Job, d \in Segs :
         pool'.job[j][d] = IF j = k /\ d = c THEN state ELSE pool.job[j][d]
  BY <1>1, NowMoves
<1>3. \A j \in Job, d \in Segs :
         /\ pool'.job[j][d] = "none" <=> pool.job[j][d] = "none"
         /\ pool'.job[j][d] = "taken" <=> pool.job[j][d] = "taken"
  BY <1>2
<1> QED
  BY <1>3, JobsMove

\* What the threads do.
LEMMA ThreadsKeepFront == ASSUME TypeInv, FrontInv, ThreadStep PROVE FrontInv'
<1> USE JobNames
<1>1. pool \in PoolType
  BY Standing
<1>2. ASSUME NEW k \in Job, NEW c \in Segs, StartJob(k, c) PROVE FrontInv'
  <2>1. /\ InPools' /\ pool'.next = pool.next /\ pool.job[k][c] = "queued"
        /\ pool'.job = Now(pool.job, k, c, "running")
    BY <1>1, <1>2 DEF StartJob, InPools, PoolType
  <2> QED
    BY <2>1, OneJobMoves DEF JobState
<1>3. ASSUME NEW k \in Job, NEW c \in Segs, JobStops(k, c) PROVE FrontInv'
  <2>1. /\ InPools' /\ pool'.next = pool.next /\ pool.job[k][c] = "running"
        /\ \E state \in {"paused", "failed"} : pool'.job = Now(pool.job, k, c, state)
    BY <1>1, <1>3 DEF JobStops, InPools, PoolType
  <2> QED
    BY <2>1, OneJobMoves DEF JobState
<1>4. ASSUME NEW k \in Job, NEW c \in Segs, pool.job[k][c] = "running", InPools,
             run'.step = run.step, pool'.next = pool.next,
             pool'.job = Now(pool.job, k, c, "ok")
      PROVE  FrontInv'
  BY <1>4, OneJobMoves DEF JobState, InPools
<1>5. ASSUME NEW c \in Segs, SeparateChunk(c) PROVE FrontInv'
  BY <1>1, <1>4, <1>5 DEF SeparateChunk, PoolType
<1>6. ASSUME NEW c \in Segs, DiarizeChunk(c) PROVE FrontInv'
  BY <1>1, <1>4, <1>6 DEF DiarizeChunk, PoolType
<1>7. ASSUME NEW c \in Segs, TranscribeChunk(c) PROVE FrontInv'
  BY <1>1, <1>4, <1>7 DEF TranscribeChunk, PoolType
<1>8. ASSUME NEW c \in Segs, TranslateChunk(c) PROVE FrontInv'
  <2>1. run \in RunType
    BY Standing
  <2> QED
    BY <1>1, <1>4, <1>8, <2>1 DEF TranslateChunk, PoolType, RunType
<1> QED
  BY <1>2, <1>3, <1>5, <1>6, <1>7, <1>8 DEF ThreadStep

\* An error cancels only what is queued, and waits in the front half.
LEMMA RaisesKeepsFront ==
  ASSUME TypeInv, FrontInv, NEW k \in Job, NEW c \in Segs,
         FrontJobRaises(k, c) \/ TranslationRaises(c)
  PROVE  FrontInv'
<1>1. pool \in PoolType /\ pool.job \in JobType /\ run \in RunType
  BY Standing, PoolParts
<1>2. PICK pools \in SUBSET Job, state \in {"failed", "paused"}, stage \in Stages :
         /\ pool' = [pool EXCEPT !.job = Cancelled(pool.job, pools), !.error = state, !.stage = stage]
         /\ Goes("drain")
  <2>1. k \in Stages /\ Translating \in Stages
    BY JobNames DEF Translating, Stages
  <2>2. CASE FrontJobRaises(k, c)
    BY <2>1, <2>2, JobNames DEF FrontJobRaises, Raises
  <2>3. CASE TranslationRaises(c)
    BY <2>1, <2>3 DEF TranslationRaises, Raises
  <2> QED
    BY <2>2, <2>3
<1>3. pool'.job = Cancelled(pool.job, pools) /\ pool'.next = pool.next
  BY <1>1, <1>2 DEF PoolType
<1>4. InPools'
  BY <1>1, <1>2, GoesOn DEF InPools, Step
<1>5. \A j \in Job, d \in Segs :
         /\ pool'.job[j][d] = "none" <=> pool.job[j][d] = "none"
         /\ pool'.job[j][d] = "taken" <=> pool.job[j][d] = "taken"
  BY <1>1, <1>3, CancelledMoves
<1> QED
  BY <1>3, <1>4, <1>5, JobsMove

\* Taking a separated or a diarized chunk submits it to the next pool.
LEMMA TakeKeepsFront ==
  ASSUME TypeInv, FrontInv, NEW c \in Segs, TakeSeparated(c) \/ TakeDiarized(c)
  PROVE  FrontInv'
<1> USE JobNames
<1>1. pool \in PoolType /\ pool.job \in JobType
  BY Standing, PoolParts
<1>2. InPools' /\ InOrder
  BY DEF TakeSeparated, TakeDiarized, At, InPools, FrontInv
<1>3. PICK k \in {Separation, Diarization} :
         /\ pool.job[k][c] = "ok" /\ pool'.next = pool.next
         /\ pool'.job = Now(Now(pool.job, k, c, "taken"), k + 1, c, "queued")
  <2>1. CASE TakeSeparated(c)
    BY <1>1, <2>1 DEF TakeSeparated, PoolType, Separation, Diarization
  <2>2. CASE TakeDiarized(c)
    BY <1>1, <2>2 DEF TakeDiarized, PoolType, Diarization, Transcription
  <2> QED
    BY <2>1, <2>2
<1>4. k \in Job /\ k + 1 \in Job /\ k + 1 \in {Diarization, Transcription} /\ k # k + 1
  BY DEF Separation, Diarization, Transcription, Job
<1>5. /\ \A i \in Job, d \in Segs : i \notin {k, k + 1} \/ d # c => pool'.job[i][d] = pool.job[i][d]
      /\ pool'.job[k][c] = "taken" /\ pool'.job[k + 1][c] = "queued"
  BY <1>1, <1>3, <1>4, TakenAndQueued
<1>6. pool.job[k + 1][c] = "none"
  BY <1>2, <1>3 DEF InOrder, Separation, Diarization, Transcription
<1>7. InFlight' = InFlight
  BY <1>2, <1>3, <1>4, <1>5, <1>6 DEF InFlight, InOrder, Separation, Diarization, Transcription
<1>8. Cardinality(InFlight') <= MaxInFlight
  BY <1>7, InFlightIs DEF FrontInv
<1>9. InOrder'
  BY <1>2, <1>3, <1>4, <1>5, <1>6 DEF InOrder, Separation, Diarization, Transcription
<1> QED
  BY <1>2, <1>8, <1>9, InFlightNext DEF FrontInv, PoolsDrained

\* Taking a transcript lets the next chunk in, and no other.
LEMMA TakeTranscribedKeepsFront ==
  ASSUME TypeInv, FrontInv, NEW c \in Segs, TakeTranscribed(c)
  PROVE  FrontInv'
<1> USE JobNames
<1>1. pool \in PoolType /\ pool.job \in JobType
  BY Standing, PoolParts
<1>2. InPools' /\ InOrder /\ pool.job[Transcription][c] = "ok"
  BY DEF TakeTranscribed, At, InPools, FrontInv
<1>3. pool.next \in Nat
  BY <1>1, PipelineAssumption DEF PoolType
<1>4. pool'.next = IF MoreChunks THEN pool.next + 1 ELSE pool.next
  BY <1>1 DEF TakeTranscribed, PoolType
<1>5. /\ \A d \in Segs : pool'.job[Transcription][d] =
                            IF d = c THEN "taken" ELSE pool.job[Transcription][d]
      /\ \A d \in Segs : pool'.job[Diarization][d] = pool.job[Diarization][d]
      /\ \A d \in Segs : pool'.job[Separation][d] =
                            IF d = pool.next /\ MoreChunks THEN "queued" ELSE pool.job[Separation][d]
  BY <1>1 DEF TakeTranscribed, PoolType, Separation, Diarization, Transcription, Overlapped
<1>6. pool.job[Diarization][c] = "taken" /\ pool.job[Separation][c] = "taken"
  BY <1>2 DEF InOrder
<1>7. ASSUME MoreChunks, pool.next \in Segs
      PROVE  pool.job[Separation][pool.next] = "none" /\ pool.job[Diarization][pool.next] = "none"
  BY <1>2, <1>3, <1>7 DEF InOrder
<1>8. InOrder'
  BY <1>2, <1>3, <1>4, <1>5, <1>6, <1>7 DEF InOrder, Segs
<1>9. c \in InFlight /\ InFlight' \subseteq (InFlight \ {c}) \cup {pool.next}
  BY <1>2, <1>5, <1>6 DEF InFlight
<1>10. Cardinality(InFlight') <= MaxInFlight
  <2>1. /\ IsFiniteSet(InFlight \ {c})
        /\ Cardinality(InFlight \ {c}) = Cardinality(InFlight) - 1
    BY <1>9, InFlightFinite, FS_RemoveElement
  <2>2. /\ IsFiniteSet((InFlight \ {c}) \cup {pool.next})
        /\ Cardinality((InFlight \ {c}) \cup {pool.next}) <= Cardinality(InFlight \ {c}) + 1
        /\ Cardinality((InFlight \ {c}) \cup {pool.next}) \in Nat
    BY <2>1, OneMore
  <2>3. Cardinality(InFlight') <= Cardinality((InFlight \ {c}) \cup {pool.next})
        /\ Cardinality(InFlight') \in Nat
    BY <1>9, <2>2, FS_Subset, FS_CardinalityType
  <2>4. Cardinality(InFlight) <= MaxInFlight
    BY InFlightIs DEF FrontInv
  <2> QED
    BY <2>1, <2>2, <2>3, <2>4, InFlightFinite, PipelineAssumption
<1> QED
  BY <1>2, <1>8, <1>10, InFlightNext DEF FrontInv, PoolsDrained

\* The front half begins with no more chunks than may be in flight.
LEMMA FrontStartKeeps == ASSUME TypeInv, FrontStart PROVE FrontInv'
<1> USE JobNames
<1> DEFINE first == Cardinality(FirstChunks)
<1>1. run \in RunType /\ InPools'
  BY Standing, GoesOn DEF FrontStart, InPools, Step
<1>2. FirstChunks = 1 .. first /\ FirstChunks \subseteq Segs /\ first <= MaxInFlight /\ first \in Nat
  BY FirstChunksSize, FirstChunksAre, PipelineAssumption
<1>3. /\ pool'.next = first + 1
      /\ pool'.job = [NoPool.job EXCEPT ![Separation] =
                         [c \in Segs |-> IF c \in FirstChunks THEN "queued" ELSE "none"]]
  <2>1. NoPool \in PoolType
    BY Nothings
  <2> QED
    BY <2>1 DEF FrontStart, PoolType
<1>4. /\ \A c \in Segs : pool'.job[Separation][c] = IF c \in FirstChunks THEN "queued" ELSE "none"
      /\ \A c \in Segs : pool'.job[Diarization][c] = "none" /\ pool'.job[Transcription][c] = "none"
  BY <1>3 DEF NoPool, Separation, Diarization, Transcription, Job
<1>5. InFlight' = FirstChunks
  BY <1>2, <1>4 DEF InFlight
<1>6. InOrder'
  BY <1>2, <1>3, <1>4 DEF InOrder, Segs
<1> QED
  BY <1>1, <1>2, <1>5, <1>6, InFlightNext DEF FrontInv, PoolsDrained

\* What is left of the run: it is not in the front half, or leaves it when the pools are drained.
LEMMA OthersKeepFront ==
  ASSUME TypeInv, FrontInv, UNCHANGED pool,
         \/ Reconcile \/ Resume \/ Preflight \/ StageStep \/ Complete \/ Estimator
         \/ FrontStops \/ FrontEnds
  PROVE  FrontInv'
<1>1. CASE Reconcile \/ Resume
  BY <1>1, PoolStays DEF Reconcile, Resume, InPools
<1>2. CASE Preflight \/ Complete
  BY <1>2, PoolStays DEF Preflight, Complete, InPools
<1>3. CASE StageStep
  <2>1. ~InPools
    BY <1>3 DEF StageStep, BeginStage, Separate, Diarize, Transcribe, Translate, Synthesize,
                SpeakSegment, CollectClip, SynthesisStops, SynthesisEnds, Align, MixShort, MixChunk,
                JoinChunks, PersistStage, SaveCheckpoint, Processing, At, InPools
  <2> QED
    BY <2>1, PoolStays
<1>4. CASE Estimator
  <2>1. run'.step = run.step
    BY <1>4, Standing DEF Estimator, EstimatorReads, EstimatorWrites, RunType
  <2> QED
    BY <2>1, PoolStays DEF InPools
<1>5. CASE FrontStops \/ FrontEnds
  BY <1>5, PoolStays DEF FrontStops, FrontEnds
<1> QED
  BY <1>1, <1>2, <1>3, <1>4, <1>5

\* Every step keeps it.
LEMMA FrontInductive == TypeInv /\ FrontInv /\ [Next]_vars => FrontInv'
<1> SUFFICES ASSUME TypeInv, FrontInv, [Next]_vars PROVE FrontInv'
  OBVIOUS
<1>1. CASE Deliver \/ Redeliver
  BY <1>1, NoPoolFront, PoolStays DEF Deliver, Redeliver, Begins, FindsOutput, InPools
<1>2. CASE Crash
  BY <1>2, NoPoolFront DEF Crash
<1>3. CASE Reconcile \/ Resume \/ Preflight \/ Complete \/ Estimator
  <2>1. UNCHANGED pool
    BY <1>3 DEF Reconcile, Resume, Preflight, Complete, Estimator, EstimatorReads, EstimatorWrites
  <2> QED
    BY <1>3, <2>1, OthersKeepFront
<1>4. CASE StageStep
  <2>1. UNCHANGED pool
    BY <1>4 DEF StageStep, BeginStage, Separate, Diarize, Transcribe, Translate, Synthesize,
                SpeakSegment, CollectClip, SynthesisStops, SynthesisEnds, Align, MixShort, MixChunk,
                JoinChunks, PersistStage, SaveCheckpoint
  <2> QED
    BY <1>4, <2>1, OthersKeepFront
<1>5. CASE MainStep
  <2>1. CASE FrontStops \/ FrontEnds
    BY <2>1, OthersKeepFront DEF FrontStops, FrontEnds
  <2>2. ASSUME NEW c \in Segs, TranslationRaises(c) PROVE FrontInv'
    BY <2>2, RaisesKeepsFront, JobNames
  <2> QED
    BY <1>5, <2>1, <2>2, TakeKeepsFront, TakeTranscribedKeepsFront, RaisesKeepsFront, FrontStartKeeps
       DEF MainStep
<1>6. CASE UNCHANGED vars
  BY <1>6, PoolStays DEF vars, InPools
<1> QED
  BY <1>1, <1>2, <1>3, <1>4, <1>5, <1>6, ThreadsKeepFront DEF Next, RunStep

\* The inductive invariant of the front half.
LEMMA FrontInvariant == Spec => []FrontInv
<1>1. Init => FrontInv
  <2> SUFFICES ASSUME Init PROVE FrontInv
    OBVIOUS
  <2> USE JobNames
  <2>1. \A k \in Job, c \in Segs : pool.job[k][c] = "none"
    BY DEF Init, NoPool
  <2>2. InFlight = {} /\ Drained /\ InOrder
    BY <2>1 DEF InFlight, Drained, Jobs, Busy, InOrder
  <2>3. Cardinality(InFlight) <= MaxInFlight
    BY <2>2, FS_EmptySet, PipelineAssumption
  <2> QED
    BY <2>2, <2>3, InFlightIs DEF FrontInv, PoolsDrained
<1> QED
  BY <1>1, FrontInductive, TypeInvariant, PTL DEF Spec

\* The chunks between the submission of their separation and the taking of their transcript never
\* outnumber the setting, for every number of chunks, of threads and of interrupted runs.
THEOREM ChunksInFlightBounded == Spec => []InFlightBounded
BY FrontInvariant, PTL DEF FrontInv

\* No thread of the front half outlives it: whether the run goes on, pauses, fails or dies, nothing is
\* queued or running that could still write an artifact or pay a provider.
THEOREM NoThreadOutlives == Spec => []PoolsDrained
BY FrontInvariant, PTL DEF FrontInv

-----------------------------------------------------------------------------
(* What a run pays.                                                        *)

Unpaid == \A s \in Segs : run.paid[s] = 0

\* A chunk is translated in overlap once its transcript was taken, and once only; what was paid for
\* it is in the pool.
OverlapPaid ==
    \A c \in Segs :
        /\ run.paid[c] # 0 => pool.job[Overlapped][c] = "ok"
        /\ pool.job[Overlapped][c] = "ok" => pool.trans[c] # NoTranslation
        /\ pool.job[Overlapped][c] # "none" => pool.job[Transcription][c] = "taken"

BeforeTranslation ==
    \/ run.at < Translating
    \/ (run.at = Translating /\ run.step \in {"boundary", "process"})

\* A run pays in the pool, whose results the transcript takes over, or in the translation stage, which
\* asks for what is not there.  A long recording has no other stage before; a short one has no pool.
PaidInv ==
    /\ PaidOncePerRun
    /\ Alive => run.no # 0
    /\ run.step \in {"idle", "preflight", "front"} => Unpaid
    /\ run.step \in {"front", "pools", "drain"} => setting.long
    /\ setting.long /\ run.step \notin {"idle", "preflight"} => run.at >= Translating
    /\ ~setting.long /\ BeforeTranslation => Unpaid
    /\ setting.long /\ run.at = Translating /\ run.step \in {"boundary", "process"} =>
          \A s \in Segs : run.paid[s] # 0 => ctx.segs[s].trans # NoTranslation
    /\ InPools => OverlapPaid

\* What is not alive has paid nothing.
LEMMA EndedUnpaid ==
  ASSUME run' = NoRun(run.no)
  PROVE  PaidInv'
BY DEF NoRun, PaidInv, PaidOncePerRun, Alive, Unpaid, BeforeTranslation, InPools, Preparing, Translating

\* A step that touches neither run, context nor pools, or only what the estimator has seen.
LEMMA PaidSame ==
  ASSUME PaidInv, UNCHANGED <<setting, ctx, pool>>,
         run'.step = run.step, run'.at = run.at, run'.no = run.no, run'.paid = run.paid
  PROVE  PaidInv'
BY DEF PaidInv, PaidOncePerRun, Alive, Unpaid, BeforeTranslation, InPools, OverlapPaid

\* A step within a stage after the front half.
LEMMA PaidInStage ==
  ASSUME PaidInv, setting' = setting,
         run.step \notin {"idle", "preflight", "front", "pools", "drain"},
         run'.step \notin {"idle", "preflight", "front", "pools", "drain"},
         run'.at = run.at, run'.no = run.no, run'.paid = run.paid,
         run.at = Translating /\ run'.step \in {"boundary", "process"} =>
             /\ run.step \in {"boundary", "process"}
             /\ setting.long => ctx'.segs = ctx.segs
  PROVE  PaidInv'
<1>1. PaidOncePerRun' /\ (Alive' => run'.no # 0)
  BY DEF PaidInv, PaidOncePerRun, Alive
<1>2. Unpaid' <=> Unpaid
  BY DEF Unpaid
<1>3. BeforeTranslation' => BeforeTranslation
  BY DEF BeforeTranslation
<1>4. ~InPools'
  BY DEF InPools
<1>5. setting'.long /\ run'.at = Translating /\ run'.step \in {"boundary", "process"} =>
          \A s \in Segs : run'.paid[s] # 0 => ctx'.segs[s].trans # NoTranslation
  BY DEF PaidInv
<1> QED
  BY <1>1, <1>2, <1>3, <1>4, <1>5 DEF PaidInv

\* The step to the next stage: a short recording that comes to translation has paid nothing, a long
\* one never comes to it this way.
LEMMA PaidNextStage ==
  ASSUME TypeInv, PaidInv, setting' = setting, run.step \in {"persist", "save"}, NextStage
  PROVE  PaidInv'
<1>1. run \in RunType /\ run.at \in Chain
  BY Standing DEF At, Step
<1>2. /\ run'.step \in {"boundary", "done"} /\ run'.no = run.no /\ run'.paid = run.paid
      /\ run'.at = run.at + 1 \/ (run'.at = run.at /\ run.at = Mixing)
  BY <1>1 DEF NextStage, RunType
<1>3. PaidOncePerRun' /\ (Alive' => run'.no # 0) /\ (Unpaid' <=> Unpaid) /\ ~InPools'
  BY <1>2 DEF PaidInv, PaidOncePerRun, Alive, Unpaid, InPools
<1>4. BeforeTranslation' => BeforeTranslation
  BY <1>1, <1>2 DEF BeforeTranslation, Chain, Translating, Mixing
<1>5. setting.long => run.at >= Translating /\ run'.at > Translating
  BY <1>1, <1>2 DEF PaidInv, Chain, Translating, Mixing
<1>6. setting'.long => run'.at >= Translating /\ run'.at # Translating
  BY <1>1, <1>2, <1>5 DEF Chain, Translating
<1> QED
  BY <1>2, <1>3, <1>4, <1>6 DEF PaidInv

\* A step of the front half that pays nothing.
LEMMA PaidInPools ==
  ASSUME PaidInv, InPools, InPools', setting' = setting,
         run'.at = run.at, run'.no = run.no, run'.paid = run.paid, pool'.trans = pool.trans,
         \A c \in Segs :
            /\ pool'.job[Overlapped][c] = "ok" <=> pool.job[Overlapped][c] = "ok"
            /\ pool'.job[Overlapped][c] # "none" => pool'.job[Transcription][c] = "taken"
  PROVE  PaidInv'
<1>1. PaidOncePerRun' /\ (Alive' => run'.no # 0)
  BY DEF PaidInv, PaidOncePerRun, Alive, InPools
<1>2. OverlapPaid'
  BY DEF PaidInv, OverlapPaid
<1>3. setting'.long /\ run'.at >= Translating
  BY DEF PaidInv, InPools
<1> QED
  BY <1>1, <1>2, <1>3 DEF PaidInv, InPools

\* A run that begins has paid nothing.
LEMMA PaidBegins ==
  ASSUME TypeInv, PaidInv, FindsOutput \/ Begins, setting' = setting
  PROVE  PaidInv'
<1>1. CASE FindsOutput
  BY <1>1, PaidSame DEF FindsOutput
<1>2. CASE Begins
  <2>1. run.no \in Nat
    BY Standing, PipelineAssumption DEF RunType, Runs
  <2>2. run'.step = "preflight" /\ run'.at = Preparing /\ run'.no = run.no + 1
        /\ run'.paid = [s \in Segs |-> 0]
    BY <1>2 DEF Begins, NoRun
  <2>3. Unpaid' /\ PaidOncePerRun' /\ run'.no # 0
    BY <2>1, <2>2 DEF Unpaid, PaidOncePerRun
  <2> QED
    BY <2>2, <2>3 DEF PaidInv, InPools
<1> QED
  BY <1>1, <1>2

\* The preflight leads to the front half or to a stage.
LEMMA PaidPreflight == ASSUME TypeInv, PaidInv, Preflight PROVE PaidInv'
<1>1. CASE Abandons
  BY <1>1, EndedUnpaid DEF Abandons, Ends
<1>2. CASE run' = [run EXCEPT !.step = IF setting.long /\ run.first <= Transcribing
                                        THEN "front" ELSE "boundary",
                              !.at = EntryStage]
  <2>1. run \in RunType /\ run.step = "preflight" /\ setting' = setting
    BY Standing DEF Preflight
  <2>2. /\ run'.step = IF setting.long /\ run.first <= Transcribing THEN "front" ELSE "boundary"
        /\ run'.at = EntryStage /\ run'.no = run.no /\ run'.paid = run.paid
    BY <1>2, <2>1 DEF RunType
  <2>3. Unpaid /\ Unpaid' /\ PaidOncePerRun' /\ run'.no # 0
    BY <2>1, <2>2 DEF PaidInv, Unpaid, PaidOncePerRun, Alive
  <2>4. setting.long => run'.at >= Translating
    BY <2>2 DEF EntryStage, Translating, Synthesizing
  <2>5. run'.step = "front" => setting.long
    BY <2>2
  <2>6. run'.step \in {"front", "boundary"}
    BY <2>2
  <2>7. ~InPools' /\ (\A s \in Segs : run'.paid[s] = 0)
    BY <2>3, <2>6 DEF InPools, Unpaid
  <2> QED
    BY <2>1, <2>3, <2>4, <2>5, <2>6, <2>7 DEF PaidInv
<1> QED
  BY <1>1, <1>2 DEF Preflight

\* A stage pays for what the context has no translation of.
LEMMA PaidTranslate == ASSUME TypeInv, PaidInv, Translate PROVE PaidInv'
<1>1. CASE Pauses(Translating) \/ Fails
  BY <1>1, EndedUnpaid DEF Pauses, Fails, Abandons, Ends
<1>2. CASE run' = [run EXCEPT !.step = "persist", !.paid = Pay(Translatable(ctx.segs))]
  <2>1. run \in RunType /\ run.step = "process" /\ run.at = Translating /\ setting' = setting
    BY Standing DEF Translate, Processing, At
  <2>2. /\ run'.step = "persist" /\ run'.at = Translating /\ run'.no = run.no
        /\ run'.paid = Pay(Translatable(ctx.segs))
    BY <1>2, <2>1 DEF RunType
  <2>3. ASSUME NEW s \in Segs, ctx.segs[s].trans = NoTranslation PROVE run.paid[s] = 0
    BY <2>1, <2>3 DEF PaidInv, BeforeTranslation, Unpaid
  <2>4. ASSUME NEW s \in Segs PROVE run'.paid[s] <= 1
    <3>1. run'.paid[s] = IF s \in Translatable(ctx.segs) /\ run.paid[s] < 2
                         THEN run.paid[s] + 1 ELSE run.paid[s]
      BY <2>2 DEF Pay
    <3>2. s \in Translatable(ctx.segs) => run.paid[s] = 0
      BY <2>3 DEF Translatable
    <3>3. run.paid[s] <= 1 /\ run.paid[s] \in 0 .. 2
      BY <2>1 DEF PaidInv, PaidOncePerRun, RunType
    <3> QED
      BY <3>1, <3>2, <3>3
  <2>5. PaidOncePerRun'
    BY <2>4 DEF PaidOncePerRun
  <2>6. ~BeforeTranslation' /\ ~InPools' /\ run'.no # 0
    BY <2>1, <2>2 DEF BeforeTranslation, InPools, PaidInv, Alive, Translating
  <2>7. run'.at >= Translating
    BY <2>2 DEF Translating
  <2> QED
    BY <2>2, <2>5, <2>6, <2>7 DEF PaidInv
<1> QED
  BY <1>1, <1>2 DEF Translate

\* The other stages pay nothing.
LEMMA PaidStage == ASSUME TypeInv, PaidInv, StageStep PROVE PaidInv'
<1>1. run \in RunType
  BY Standing
<1>2. CASE Fails \/ \E stage : Pauses(stage)
  BY <1>2, EndedUnpaid DEF Fails, Pauses, Abandons, Ends
<1>3. CASE BeginStage
  <2>1. CASE ~(\E stage : Pauses(stage))
    <3>1. /\ run.step = "boundary" /\ setting' = setting
          /\ run'.step \in {"persist", "process"} /\ run'.at = run.at /\ run'.no = run.no
          /\ run'.paid = run.paid /\ (setting.long => ctx' = ctx)
      BY <1>1, <1>3, <2>1 DEF BeginStage, At, Goes, Short, RunType
    <3> QED
      BY <3>1, PaidInStage
  <2> QED
    BY <1>2, <2>1
<1>4. ASSUME Goes("persist"), run.step \in {"process", "synth"}, setting' = setting PROVE PaidInv'
  <2>1. run'.step = "persist" /\ run'.at = run.at /\ run'.no = run.no /\ run'.paid = run.paid
    BY <1>1, <1>4 DEF Goes, RunType
  <2> QED
    BY <1>4, <2>1, PaidInStage
<1>5. CASE Separate \/ Diarize \/ Transcribe \/ Align \/ MixShort \/ JoinChunks \/ SynthesisEnds
  <2>1. CASE ~Fails /\ ~(\E stage : Pauses(stage))
    BY <1>4, <1>5, <2>1 DEF Separate, Diarize, Transcribe, Align, MixShort, JoinChunks, SynthesisEnds,
                            Processing, At
  <2> QED
    BY <1>2, <2>1
<1>6. CASE Synthesize
  <2>1. CASE ~Fails
    <3>1. /\ run.step = "process" /\ run.at = Synthesizing /\ setting' = setting
          /\ run'.step \in {"persist", "synth"} /\ run'.at = run.at /\ run'.no = run.no
          /\ run'.paid = run.paid
      BY <1>1, <1>6, <2>1 DEF Synthesize, Processing, At, Goes, RunType
    <3> QED
      BY <3>1, PaidInStage
  <2> QED
    BY <1>2, <2>1
<1>7. ASSUME NEW s \in Segs, SpeakSegment(s) \/ CollectClip(s) PROVE PaidInv'
  <2>1. run.step = "synth" /\ UNCHANGED <<run, setting>>
    BY <1>7 DEF SpeakSegment, CollectClip, At
  <2> QED
    BY <2>1, PaidInStage
<1>8. CASE SynthesisStops
  BY <1>2, <1>8 DEF SynthesisStops
<1>9. CASE MixChunk
  <2>1. CASE ~Fails
    <3>1. /\ run.step = "process" /\ run.at = Mixing /\ setting' = setting
          /\ run'.step = "process" /\ run'.at = run.at /\ run'.no = run.no /\ run'.paid = run.paid
      BY <1>1, <1>9, <2>1 DEF MixChunk, Processing, At, RunType
    <3>2. Mixing # Translating
      BY DEF Mixing, Translating
    <3> QED
      BY <3>1, <3>2, PaidInStage
  <2> QED
    BY <1>2, <2>1
<1>10. CASE PersistStage
  <2>1. run.step = "persist" /\ setting' = setting
    BY <1>10 DEF PersistStage, At
  <2>2. CASE Goes("save")
    <3>1. run'.step = "save" /\ run'.at = run.at /\ run'.no = run.no /\ run'.paid = run.paid
      BY <1>1, <2>2 DEF Goes, RunType
    <3> QED
      BY <2>1, <3>1, PaidInStage
  <2> QED
    BY <1>10, <2>1, <2>2, PaidNextStage DEF PersistStage
<1>11. CASE SaveCheckpoint
  BY <1>11, PaidNextStage DEF SaveCheckpoint, At
<1> QED
  BY <1>3, <1>5, <1>6, <1>7, <1>8, <1>9, <1>10, <1>11, PaidTranslate DEF StageStep

\* The pools start with nothing paid.
LEMMA PaidFrontStart == ASSUME TypeInv, PaidInv, FrontStart PROVE PaidInv'
<1> USE JobNames
<1>1. run \in RunType /\ run.step = "front" /\ setting' = setting
  BY Standing DEF FrontStart, At
<1>2. run'.step = "pools" /\ run'.at = run.at /\ run'.no = run.no /\ run'.paid = run.paid
  BY <1>1 DEF FrontStart, Goes, RunType
<1>3. Unpaid /\ Unpaid' /\ PaidOncePerRun' /\ run'.no # 0 /\ setting.long /\ run.at >= Translating
  BY <1>1, <1>2 DEF PaidInv, Unpaid, PaidOncePerRun, Alive
<1>4. \A c \in Segs : pool'.job[Overlapped][c] = "none"
  <2>1. NoPool \in PoolType /\ Overlapped # Separation
    BY Nothings DEF Overlapped, Separation
  <2> QED
    BY <2>1 DEF FrontStart, PoolType, JobType, NoPool
<1>5. OverlapPaid'
  BY <1>3, <1>4 DEF OverlapPaid, Unpaid
<1> QED
  BY <1>1, <1>2, <1>3, <1>5 DEF PaidInv

\* A job that moves to something else than "ok" pays nothing.
LEMMA PaidJobMoves ==
  ASSUME TypeInv, PaidInv, InPools, InPools', setting' = setting,
         run'.at = run.at, run'.no = run.no, run'.paid = run.paid, pool'.trans = pool.trans,
         NEW k \in Job, NEW c \in Segs, NEW state \in JobState,
         pool.job[k][c] \in {"queued", "running"}, state # "none", state = "ok" => k # Overlapped,
         pool'.job = Now(pool.job, k, c, state)
  PROVE  PaidInv'
<1>1. pool.job \in JobType
  BY Standing, PoolParts
<1>2. \A j \in Job, d \in Segs :
         pool'.job[j][d] = IF j = k /\ d = c THEN state ELSE pool.job[j][d]
  BY <1>1, NowMoves
<1>3. ASSUME NEW d \in Segs
      PROVE  /\ pool'.job[Overlapped][d] = "ok" <=> pool.job[Overlapped][d] = "ok"
             /\ pool'.job[Overlapped][d] # "none" => pool'.job[Transcription][d] = "taken"
  <2>1. pool.job[Overlapped][d] # "none" => pool.job[Transcription][d] = "taken"
    BY DEF PaidInv, OverlapPaid
  <2>2. pool'.job[Overlapped][d] = IF Overlapped = k /\ d = c THEN state ELSE pool.job[Overlapped][d]
    BY <1>2, JobNames
  <2>3. pool'.job[Transcription][d] =
           IF Transcription = k /\ d = c THEN state ELSE pool.job[Transcription][d]
    BY <1>2, JobNames
  <2>4. Overlapped # Transcription
    BY DEF Overlapped, Transcription
  <2> QED
    BY <2>1, <2>2, <2>3, <2>4
<1> QED
  BY <1>3, PaidInPools

\* What the threads do.
LEMMA PaidThreads == ASSUME TypeInv, PaidInv, ThreadStep PROVE PaidInv'
<1> USE JobNames
<1>1. pool \in PoolType /\ run \in RunType
  BY Standing
<1>2. ASSUME NEW k \in Job, NEW c \in Segs, StartJob(k, c) \/ JobStops(k, c) PROVE PaidInv'
  <2>1. /\ InPools /\ UNCHANGED <<setting, run>> /\ pool.job[k][c] \in {"queued", "running"}
        /\ pool'.trans = pool.trans
        /\ \E state \in {"running", "paused", "failed"} : pool'.job = Now(pool.job, k, c, state)
    BY <1>1, <1>2 DEF StartJob, JobStops, PoolType
  <2>2. {"running", "paused", "failed"} \subseteq JobState /\ InPools'
    BY <2>1 DEF JobState, InPools
  <2>3. PICK state \in {"running", "paused", "failed"} : pool'.job = Now(pool.job, k, c, state)
    BY <2>1
  <2> QED
    BY <2>1, <2>2, <2>3, PaidJobMoves
<1>3. ASSUME NEW k \in FrontJob, NEW c \in Segs, InPools, pool.job[k][c] = "running",
             UNCHANGED <<setting, run>>, pool'.trans = pool.trans,
             pool'.job = Now(pool.job, k, c, "ok")
      PROVE  PaidInv'
  <2>1. k \in Job /\ k # Overlapped /\ "ok" \in JobState /\ InPools'
    BY <1>3 DEF FrontJob, Overlapped, JobState, InPools
  <2> QED
    BY <1>3, <2>1, PaidJobMoves
<1>4. {Separation, Diarization, Transcription} \subseteq FrontJob
  BY DEF Separation, Diarization, Transcription, FrontJob
<1>5. ASSUME NEW c \in Segs, SeparateChunk(c) PROVE PaidInv'
  BY <1>1, <1>3, <1>4, <1>5 DEF SeparateChunk, PoolType
<1>6. ASSUME NEW c \in Segs, DiarizeChunk(c) PROVE PaidInv'
  BY <1>1, <1>3, <1>4, <1>6 DEF DiarizeChunk, PoolType
<1>7. ASSUME NEW c \in Segs, TranscribeChunk(c) PROVE PaidInv'
  BY <1>1, <1>3, <1>4, <1>7 DEF TranscribeChunk, PoolType
<1>8. ASSUME NEW c \in Segs, TranslateChunk(c) PROVE PaidInv'
  <2>1. /\ InPools /\ setting' = setting /\ pool.job[Overlapped][c] = "running"
        /\ run'.step = run.step /\ run'.at = run.at /\ run'.no = run.no /\ run'.paid = Pay({c})
    BY <1>1, <1>8 DEF TranslateChunk, RunType
  <2>2. /\ pool'.job = Now(pool.job, Overlapped, c, "ok")
        /\ pool'.trans = [pool.trans EXCEPT ![c] = [of |-> pool.text[c], by |-> run.no]]
    BY <1>1, <1>8 DEF TranslateChunk, PoolType
  <2>3. pool.job \in JobType /\ "ok" \in JobState
    BY Standing, PoolParts DEF JobState
  <2>4. \A j \in Job, d \in Segs :
           pool'.job[j][d] = IF j = Overlapped /\ d = c THEN "ok" ELSE pool.job[j][d]
    BY <2>2, <2>3, NowMoves
  <2>5. InPools' /\ OverlapPaid /\ run.no # 0 /\ setting.long /\ run.at >= Translating
    BY <2>1 DEF InPools, PaidInv, Alive
  <2>6. run.paid[c] = 0 /\ pool.job[Transcription][c] = "taken"
    BY <2>1, <2>5 DEF OverlapPaid
  <2>7. \A d \in Segs : run'.paid[d] = IF d = c THEN 1 ELSE run.paid[d]
    BY <2>1, <2>6 DEF Pay
  <2>8. [of |-> pool.text[c], by |-> run.no] # NoTranslation
    BY <2>5 DEF NoTranslation
  <2>9. \A d \in Segs : pool'.trans[d] = IF d = c THEN [of |-> pool.text[c], by |-> run.no] ELSE pool.trans[d]
    BY <1>1, <2>2 DEF PoolType
  <2>10. ASSUME NEW d \in Segs
         PROVE  /\ run'.paid[d] # 0 => pool'.job[Overlapped][d] = "ok"
                /\ pool'.job[Overlapped][d] = "ok" => pool'.trans[d] # NoTranslation
                /\ pool'.job[Overlapped][d] # "none" => pool'.job[Transcription][d] = "taken"
    <3>1. pool'.job[Overlapped][d] = IF d = c THEN "ok" ELSE pool.job[Overlapped][d]
      BY <2>4
    <3>2. pool'.job[Transcription][d] = pool.job[Transcription][d]
      BY <2>4 DEF Transcription, Overlapped
    <3> QED
      BY <2>5, <2>6, <2>7, <2>8, <2>9, <3>1, <3>2 DEF OverlapPaid
  <2>11. OverlapPaid'
    BY <2>10 DEF OverlapPaid
  <2>12. PaidOncePerRun'
    BY <2>7 DEF PaidInv, PaidOncePerRun
  <2> QED
    BY <2>1, <2>5, <2>11, <2>12 DEF PaidInv, InPools
<1> QED
  BY <1>2, <1>5, <1>6, <1>7, <1>8 DEF ThreadStep

\* What the main thread takes from the front pools is not paid for.
LEMMA PaidTakes ==
  ASSUME TypeInv, PaidInv, InOrder, NEW c \in Segs,
         TakeSeparated(c) \/ TakeDiarized(c) \/ TakeTranscribed(c)
  PROVE  PaidInv'
<1> USE JobNames
<1>1. pool \in PoolType /\ pool.job \in JobType
  BY Standing, PoolParts
<1>2. InPools /\ InPools' /\ UNCHANGED <<setting, run>> /\ OverlapPaid
  BY DEF TakeSeparated, TakeDiarized, TakeTranscribed, At, InPools, PaidInv
<1>3. pool'.trans = pool.trans
  BY <1>1 DEF TakeSeparated, TakeDiarized, TakeTranscribed, PoolType
<1>4. ASSUME NEW d \in Segs
      PROVE  /\ pool'.job[Overlapped][d] = "ok" <=> pool.job[Overlapped][d] = "ok"
             /\ pool'.job[Overlapped][d] # "none" => pool'.job[Transcription][d] = "taken"
  <2>0. /\ pool.job[Overlapped][d] # "none" => pool.job[Transcription][d] = "taken"
        /\ pool.job[Transcription][d] # "none" => pool.job[Diarization][d] = "taken"
    BY <1>2 DEF OverlapPaid, InOrder
  <2>1. CASE TakeSeparated(c)
    <3>1. pool'.job = Now(Now(pool.job, Separation, c, "taken"), Diarization, c, "queued")
      BY <1>1, <2>1 DEF TakeSeparated, PoolType
    <3>2. Separation # Diarization
      BY DEF Separation, Diarization
    <3>3. Overlapped \notin {Separation, Diarization} /\ Transcription \notin {Separation, Diarization}
      BY DEF Separation, Diarization, Transcription, Overlapped
    <3>4. pool'.job[Overlapped][d] = pool.job[Overlapped][d]
          /\ pool'.job[Transcription][d] = pool.job[Transcription][d]
      BY <1>1, <3>1, <3>2, <3>3, TakenAndQueued
    <3> QED
      BY <2>0, <3>4
  <2>2. CASE TakeDiarized(c)
    <3>1. /\ pool'.job = Now(Now(pool.job, Diarization, c, "taken"), Transcription, c, "queued")
          /\ pool.job[Diarization][c] = "ok"
      BY <1>1, <2>2 DEF TakeDiarized, PoolType
    <3>2. Diarization # Transcription
      BY DEF Diarization, Transcription
    <3>3. Overlapped \notin {Diarization, Transcription}
      BY DEF Diarization, Transcription, Overlapped
    <3>4. /\ pool'.job[Overlapped][d] = pool.job[Overlapped][d]
          /\ d # c => pool'.job[Transcription][d] = pool.job[Transcription][d]
      BY <1>1, <3>1, <3>2, <3>3, TakenAndQueued
    <3> QED
      BY <2>0, <3>1, <3>4
  <2>3. CASE TakeTranscribed(c)
    <3>1. /\ pool.job[Transcription][c] = "ok"
          /\ pool'.job[Transcription][d] = IF d = c THEN "taken" ELSE pool.job[Transcription][d]
          /\ pool'.job[Overlapped][d] =
                IF d = c /\ setting.overlap THEN "queued" ELSE pool.job[Overlapped][d]
      BY <1>1, <2>3 DEF TakeTranscribed, PoolType, Separation, Transcription, Overlapped
    <3> QED
      BY <2>0, <3>1
  <2> QED
    BY <2>1, <2>2, <2>3
<1> QED
  BY <1>2, <1>3, <1>4, PaidInPools

\* An error in the pools pays nothing, and the end of the front half takes over what was paid.
LEMMA PaidFrontEnds ==
  ASSUME TypeInv, PaidInv, FrontStops \/ FrontEnds
  PROVE  PaidInv'
<1>1. CASE FrontStops
  BY <1>1, EndedUnpaid DEF FrontStops, Pauses, Fails, Abandons, Ends
<1>2. CASE FrontEnds
  <2>1. run \in RunType /\ run.step = "pools" /\ setting' = setting /\ ctx \in Context
    BY <1>2, Standing DEF FrontEnds, At
  <2>2. run'.step = "boundary" /\ run'.at = run.at /\ run'.no = run.no /\ run'.paid = run.paid
    BY <1>2, <2>1 DEF FrontEnds, Goes, RunType
  <2>3. ctx'.segs = Merged
    BY <1>2, <2>1 DEF FrontEnds, Context
  <2>4. OverlapPaid /\ setting.long /\ run.at >= Translating /\ run.no # 0
    BY <2>1 DEF PaidInv, InPools, Alive
  <2>5. \A s \in Segs : run'.paid[s] # 0 => ctx'.segs[s].trans # NoTranslation
    BY <2>2, <2>3, <2>4 DEF OverlapPaid, Merged
  <2>6. PaidOncePerRun'
    BY <2>2 DEF PaidInv, PaidOncePerRun
  <2> QED
    BY <2>1, <2>2, <2>4, <2>5, <2>6 DEF PaidInv, InPools
<1> QED
  BY <1>1, <1>2

\* Cancelling pays nothing.
LEMMA PaidRaises ==
  ASSUME TypeInv, PaidInv, NEW k \in Job, NEW c \in Segs,
         FrontJobRaises(k, c) \/ TranslationRaises(c)
  PROVE  PaidInv'
<1> USE JobNames
<1>1. pool \in PoolType /\ pool.job \in JobType /\ run \in RunType
  BY Standing, PoolParts
<1>2. /\ \E pools \in SUBSET Job : pool'.job = Cancelled(pool.job, pools)
      /\ pool'.trans = pool.trans /\ setting' = setting /\ InPools /\ Goes("drain")
  BY <1>1 DEF FrontJobRaises, TranslationRaises, Raises, PoolType, At, InPools
<1>3. /\ InPools' /\ run'.at = run.at /\ run'.no = run.no /\ run'.paid = run.paid
  BY <1>1, <1>2 DEF Goes, InPools, RunType
<1>4. PICK pools \in SUBSET Job : pool'.job = Cancelled(pool.job, pools)
  BY <1>2
<1>5. \A j \in Job, d \in Segs :
         pool'.job[j][d] = IF j \in pools /\ pool.job[j][d] = "queued" THEN "cancelled" ELSE pool.job[j][d]
  BY <1>4 DEF Cancelled
<1>6. ASSUME NEW d \in Segs
      PROVE  /\ pool'.job[Overlapped][d] = "ok" <=> pool.job[Overlapped][d] = "ok"
             /\ pool'.job[Overlapped][d] # "none" => pool'.job[Transcription][d] = "taken"
  <2>1. pool.job[Overlapped][d] # "none" => pool.job[Transcription][d] = "taken"
    BY <1>2 DEF PaidInv, OverlapPaid
  <2> QED
    BY <1>5, <2>1
<1> QED
  BY <1>2, <1>3, <1>6, PaidInPools

\* Every step keeps it.
LEMMA PaidInductive == TypeInv /\ FrontInv /\ PaidInv /\ [Next]_vars => PaidInv'
<1> SUFFICES ASSUME TypeInv, FrontInv, PaidInv, [Next]_vars PROVE PaidInv'
  OBVIOUS
<1>1. CASE Deliver \/ Redeliver
  BY <1>1, PaidBegins DEF Deliver, Redeliver
<1>2. CASE Reconcile \/ Resume
  BY <1>2, PaidSame DEF Reconcile, Resume
<1>3. CASE Crash \/ Complete
  BY <1>3, EndedUnpaid DEF Crash, Complete, Abandons, Ends
<1>4. CASE Estimator
  <2>1. UNCHANGED <<setting, ctx, pool>>
        /\ run'.step = run.step /\ run'.at = run.at /\ run'.no = run.no /\ run'.paid = run.paid
    BY <1>4, Standing DEF Estimator, EstimatorReads, EstimatorWrites, RunType
  <2> QED
    BY <2>1, PaidSame
<1>5. CASE MainStep
  <2>1. InOrder
    BY DEF FrontInv
  <2>2. ASSUME NEW c \in Segs, TranslationRaises(c) PROVE PaidInv'
    BY <2>2, PaidRaises, JobNames
  <2> QED
    BY <1>5, <2>1, <2>2, PaidTakes, PaidRaises, PaidFrontStart, PaidFrontEnds DEF MainStep
<1>6. CASE UNCHANGED vars
  BY <1>6, PaidSame DEF vars
<1> QED
  BY <1>1, <1>2, <1>3, <1>4, <1>5, <1>6, PaidPreflight, PaidStage, PaidThreads DEF Next, RunStep

\* A run pays the provider at most once for the translation of a segment, for every number of
\* segments, threads and interrupted runs: what the pool translated is not asked for again.
THEOREM PaysOnce == Spec => []PaidOncePerRun
<1>1. Init => PaidInv
  BY DEF Init, NoRun, PaidInv, PaidOncePerRun, Alive, Unpaid, BeforeTranslation, InPools, Preparing,
         Translating
<1>2. Spec => []PaidInv
  BY <1>1, PaidInductive, TypeInvariant, FrontInvariant, PTL DEF Spec
<1> QED
  BY <1>2, PTL DEF PaidInv
=============================================================================
