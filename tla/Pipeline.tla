------------------------------ MODULE Pipeline ------------------------------
(***************************************************************************)
(* What one task keeps while its recording goes through the stages, and    *)
(* how a run of the worker begins and ends on it: the part shared by the   *)
(* chain of a short recording (StageChain) and the chunks of a long one    *)
(* (LongAudio).                                                            *)
(*                                                                         *)
(* Three places hold results: the row and its segments in Postgres, the    *)
(* objects in the store, and the context, which lives and dies with its    *)
(* run.  The question is what a later run of the same task, after a pause  *)
(* or a crash, finds of them.                                              *)
(*                                                                         *)
(* Simplifications.  Text, translation and clip are not content but        *)
(* provenance: the number of the run that made them.  A long recording has *)
(* one segment per chunk.  Generations, locks and heartbeats are TaskRun's *)
(* subject: here at most one run is alive and a run that died is either    *)
(* redelivered or started again by the reconciler.  Reading and writing an *)
(* object succeeds, except for checkpoints, whose failures the code skips. *)
(***************************************************************************)
EXTENDS Integers, FiniteSets

CONSTANTS
    NSegs,          (* segments of the recording; chunks of a long one       *)
    MaxInFlight,    (* PCT_CHUNK_PIPELINE_MAX_IN_FLIGHT                      *)
    StageWorkers,   (* PCT_CHUNK_PIPELINE_STAGE_WORKERS                      *)
    SynthBatch,     (* PCT_TTS_BATCH_SIZE                                    *)
    Settings,       (* the settings explored, of [long, overlap : BOOLEAN]   *)
    MaxCrashes,     (* bounds on what goes wrong in one behaviour            *)
    MaxPauses,
    MaxUnsaved,
    MaxErrors

ASSUME PipelineAssumption ==
    /\ NSegs \in Nat \ {0}
    /\ MaxInFlight \in Nat \ {0}
    /\ StageWorkers \in Nat \ {0}
    /\ SynthBatch \in Nat \ {0}
    /\ Settings \subseteq [long : BOOLEAN, overlap : BOOLEAN]
    /\ MaxCrashes \in Nat /\ MaxPauses \in Nat /\ MaxUnsaved \in Nat /\ MaxErrors \in Nat

Segs == 1 .. NSegs
Runs == 1 .. (1 + MaxCrashes + MaxPauses)

Preparing == 0
Separating == 1
Diarizing == 2
Transcribing == 3
Translating == 4
Synthesizing == 5
Aligning == 6
Mixing == 7
Stages == 0 .. 7
Chain == 1 .. 7
Later(s) == {t \in Chain : t > s}

NoStage == -1     \* a message without start_stage
Absent == -1      \* no such segment
Textless == 0     \* a segment that was diarized but not transcribed

-----------------------------------------------------------------------------
\* A translation names the transcript it was made from and the run that made it.
Translation == [of : {0} \cup Runs, by : {0} \cup Runs]
NoTranslation == [of |-> 0, by |-> 0]

Segment == [text : {Absent, Textless} \cup Runs, trans : Translation, url : BOOLEAN]
NoSegments == [s \in Segs |-> [text |-> Absent, trans |-> NoTranslation, url |-> FALSE]]
NewSegments(text) == [s \in Segs |-> [text |-> text, trans |-> NoTranslation, url |-> FALSE]]

Context ==
    [segs : [Segs -> Segment], tracks : BOOLEAN, clips : SUBSET Segs,
     aligned : BOOLEAN, out : BOOLEAN, inv : SUBSET Stages]
NoContext ==
    [segs |-> NoSegments, tracks |-> FALSE, clips |-> {}, aligned |-> FALSE,
     out |-> FALSE, inv |-> {}]

VARIABLES
    setting,    \* is the recording long, and is overlapped translation on
    row,        \* status, current_stage and the rows of the segments
    msg,        \* the message of the task: start_stage and force_resume
    store,      \* the objects of the task
    run,        \* the worker's run: number, step, stage, first stage, and what it paid
    ctx,        \* its context
    pool,       \* the thread pools of a long recording's front half
    stale,      \* history: has a run ended before it could replace what it had invalidated
    left        \* how many crashes, pauses, unsaved checkpoints and errors may come

vars == <<setting, row, msg, store, run, ctx, pool, stale, left>>

\* "queued" and "running" jobs are in an executor, the results wait for the main thread.
JobState == {"none", "queued", "running", "ok", "failed", "paused", "taken", "cancelled"}
Job == 1 .. 4     \* separation, diarization, transcription, translation
NoPool ==
    [job |-> [k \in Job |-> [c \in Segs |-> "none"]], next |-> 1, started |-> Separating,
     redo |-> {}, text |-> [c \in Segs |-> Textless], trans |-> [c \in Segs |-> NoTranslation],
     error |-> "none", stage |-> Preparing]

Step == {"idle", "preflight", "boundary", "process", "synth", "persist", "save",
         "front", "pools", "drain", "done"}
NoRun(no) ==
    [no |-> no, step |-> "idle", at |-> Preparing, first |-> Preparing, mixed |-> 0,
     seen |-> NoStage, paid |-> [s \in Segs |-> 0]]

TypeOK ==
    /\ setting \in [long : BOOLEAN, overlap : BOOLEAN]
    /\ row \in [status : {"pending", "processing", "paused", "completed", "failed"},
                stage : Stages, segs : [Segs -> Segment]]
    /\ msg \in [start : Stages \cup {NoStage}, force : BOOLEAN]
    /\ store \in [tracks : BOOLEAN, sep : SUBSET Segs, dia : SUBSET Segs,
                  tra : [Segs -> {0} \cup Runs], clip : [Segs -> Translation],
                  saved : SUBSET Chain, ckpt : [Chain -> Context],
                  mixed : [Segs -> Translation], made : BOOLEAN, bg : BOOLEAN,
                  out : [Segs -> Translation]]
    /\ run \in [no : {0} \cup Runs, step : Step, at : Stages, first : Stages,
                mixed : 0 .. NSegs, seen : Stages \cup {NoStage}, paid : [Segs -> 0 .. 2]]
    /\ ctx \in Context
    /\ pool \in [job : [Job -> [Segs -> JobState]], next : 1 .. NSegs + 1, started : Stages,
                 redo : SUBSET Job, text : [Segs -> {0} \cup Runs],
                 trans : [Segs -> Translation], error : {"none", "failed", "paused"},
                 stage : Stages]
    /\ stale \in BOOLEAN
    /\ left \in [crash : 0 .. MaxCrashes, pause : 0 .. MaxPauses,
                 unsaved : 0 .. MaxUnsaved, error : 0 .. MaxErrors]

Init ==
    /\ setting \in Settings
    /\ row = [status |-> "pending", stage |-> Preparing, segs |-> NoSegments]
    /\ msg = [start |-> NoStage, force |-> FALSE]
    /\ store = [tracks |-> FALSE, sep |-> {}, dia |-> {}, tra |-> [s \in Segs |-> 0],
                clip |-> [s \in Segs |-> NoTranslation],
                saved |-> {}, ckpt |-> [s \in Chain |-> NoContext],
                mixed |-> [s \in Segs |-> NoTranslation], made |-> FALSE, bg |-> FALSE,
                out |-> [s \in Segs |-> NoTranslation]]
    /\ run = NoRun(0)
    /\ ctx = NoContext
    /\ pool = NoPool
    /\ stale = FALSE
    /\ left = [crash |-> MaxCrashes, pause |-> MaxPauses, unsaved |-> MaxUnsaved,
               error |-> MaxErrors]

-----------------------------------------------------------------------------
(* How a run begins.                                                       *)

Alive == run.step # "idle"

\* _resolve_resume_stage: what comes before separation starts with separation.
ResumeStage == IF row.stage = Preparing THEN Separating ELSE row.stage
FirstStage ==
    IF msg.start # NoStage THEN msg.start
    ELSE IF msg.force THEN ResumeStage ELSE Separating

\* The context a run starts with: only what the rows of the database hold.
RebuiltContext ==
    [NoContext EXCEPT !.segs = row.segs,
                      !.inv = IF msg.start # NoStage \/ msg.force THEN {FirstStage} ELSE {}]

\* A message without a start stage looks for the final object of an earlier run first.
FindsOutput ==
    /\ msg.start = NoStage /\ store.made
    /\ row' = [row EXCEPT !.status = "completed"]
    /\ UNCHANGED <<run, ctx, pool>>

Begins ==
    /\ msg.start # NoStage \/ ~store.made
    /\ row' = [row EXCEPT !.status = "processing"]
    /\ run' = [NoRun(run.no + 1) EXCEPT !.step = "preflight", !.first = FirstStage]
    /\ ctx' = RebuiltContext
    /\ pool' = NoPool

Deliver ==
    /\ ~Alive /\ row.status = "pending"
    /\ FindsOutput \/ Begins
    /\ UNCHANGED <<setting, msg, store, stale, left>>

\* The message of a dead worker comes back as it was.
Redeliver ==
    /\ ~Alive /\ row.status = "processing"
    /\ FindsOutput \/ Begins
    /\ UNCHANGED <<setting, msg, store, stale, left>>

\* The reconciler sends a message of its own: forced, and without a stage.
Reconcile ==
    /\ ~Alive /\ row.status = "processing" /\ msg # [start |-> NoStage, force |-> TRUE]
    /\ msg' = [start |-> NoStage, force |-> TRUE]
    /\ UNCHANGED <<setting, row, store, run, ctx, pool, stale, left>>

-----------------------------------------------------------------------------
(* How a run ends.  The context is lost with it.                           *)

Ends == run' = NoRun(run.no) /\ ctx' = NoContext

\* What this run has translated anew and nothing but its context knows of: a clip, a mixed chunk
\* or a checkpoint of the last three stages that it has not yet replaced is of another
\* translation; so is the final object of an earlier run once the rows are rewritten.
LeavesStale ==
    \E s \in Segs :
        \/ /\ Synthesizing \in ctx.inv
           /\ store.clip[s] \notin {NoTranslation, ctx.segs[s].trans}
        \/ /\ ctx.segs[s].trans # NoTranslation
           /\ \E k \in store.saved \cap {Synthesizing, Aligning, Mixing} :
                  store.ckpt[k].segs[s].trans # ctx.segs[s].trans
        \/ /\ Mixing \in ctx.inv
           /\ store.mixed[s] \notin {NoTranslation, ctx.segs[s].trans}
        \/ /\ store.made
           /\ store.out[s] # row.segs[s].trans
Abandons == Ends /\ stale' = (stale \/ LeavesStale)

Pauses(stage) ==
    /\ row' = [row EXCEPT !.status = "paused", !.stage = stage]
    /\ Abandons

Fails ==
    /\ row' = [row EXCEPT !.status = "failed"]
    /\ Abandons

Complete ==
    /\ run.step = "done"
    /\ row' = [row EXCEPT !.status = "completed"]
    /\ Ends
    /\ UNCHANGED <<setting, msg, store, pool, stale, left>>

SpendPause == left.pause > 0 /\ left' = [left EXCEPT !.pause = @ - 1]
SpendError == left.error > 0 /\ left' = [left EXCEPT !.error = @ - 1]

Crash ==
    /\ Alive /\ left.crash > 0
    /\ left' = [left EXCEPT !.crash = @ - 1]
    /\ Abandons /\ pool' = NoPool
    /\ UNCHANGED <<setting, row, msg, store>>

\* The owner resumes from the stage the row names.
Resume ==
    /\ row.status = "paused"
    /\ row' = [row EXCEPT !.status = "pending"]
    /\ msg' = [start |-> row.stage, force |-> TRUE]
    /\ UNCHANGED <<setting, store, run, ctx, pool, stale, left>>

-----------------------------------------------------------------------------
(* Before the first stage.                                                 *)

PreflightStage ==
    IF msg.start = NoStage /\ run.first = Separating THEN Preparing ELSE run.first

EntryStage_Named == IF run.first = Preparing THEN Separating ELSE run.first

\* The first stage after the front half of a long recording, or of the whole chain of a short
\* one.  A long recording is always synthesized again, wherever it is resumed.
EntryStage ==
    IF setting.long
    THEN IF run.first <= Translating THEN Translating ELSE Synthesizing
    ELSE IF run.first = Preparing THEN Separating ELSE run.first

\* The providers are asked before anything is spent; Preparing is reported when it is named.
Preflight ==
    /\ run.step = "preflight"
    /\ LET reported ==
               [row EXCEPT !.stage = IF PreflightStage = Preparing THEN Preparing ELSE @]
       IN  \/ /\ SpendPause
              /\ row' = [reported EXCEPT !.status = "paused", !.stage = PreflightStage]
              /\ Abandons
           \/ /\ row' = reported
              /\ run' = [run EXCEPT
                    !.step = IF setting.long /\ run.first <= Transcribing
                             THEN "front" ELSE "boundary",
                    !.at = EntryStage]
              /\ UNCHANGED <<ctx, stale, left>>
    /\ UNCHANGED <<setting, msg, store, pool>>
=============================================================================
