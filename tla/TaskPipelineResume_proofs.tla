--------------------- MODULE TaskPipelineResume_proofs ---------------------
(***************************************************************************)
(* Proofs about what a later run of a task finds of an earlier one: rows,  *)
(* message, checkpoints and context always hold what the stage they stand  *)
(* for needs, so that no run fails for want of it, but for the two cases   *)
(* in which the code loses it; each of them is whole, and a run of a short *)
(* recording begins no earlier than the one before it.                     *)
(***************************************************************************)
EXTENDS TaskPipeline_proofs

\* What the segments must hold before a stage can begin on them.
Fits(segs, stage) ==
    /\ stage >= Translating => \A s \in Segs : segs[s].text > Textless
    /\ stage >= Synthesizing => \A s \in Segs : segs[s].trans # NoTranslation

\* Overlapped translation may pause a task at translation that has no transcript yet.
Kept == ~(setting.long /\ setting.overlap)

\* Wherever the next run may be told to begin, the rows hold what it needs.
RowKept ==
    Kept => /\ Fits(row.segs, row.stage)
            /\ msg.start # NoStage => Fits(row.segs, msg.start)

\* A checkpoint holds what the stage after it needs, the clips included.
CheckpointsKept ==
    ~setting.long => \A k \in store.saved :
        /\ Fits(store.ckpt[k].segs, k + 1)
        /\ k >= Synthesizing => store.ckpt[k].clips # {}

Forced == msg.start # NoStage => msg.force

FirstIsNamed ==
    Alive => /\ msg.start # NoStage => run.first = msg.start
             /\ ~msg.force => run.first = Separating

InPreflight ==
    At("preflight") =>
        /\ run.seen = NoStage
        /\ ctx.segs = row.segs
        /\ msg.force => run.first \in ctx.inv
        /\ Kept => Fits(row.segs, run.first)

InFront ==
    run.step \in {"front", "pools", "drain"} =>
        /\ setting.long /\ run.first <= Transcribing /\ run.at = Translating
        /\ run.seen = NoStage
        /\ InPools => row.stage <= Transcribing

\* The first stage of the chain a run may be in; a long recording is always synthesized again.
Floor == IF setting.long /\ run.first > Synthesizing THEN Synthesizing ELSE run.first

\* A run that began with rows it could use, or makes them itself.
Equipped == Kept \/ run.first <= Transcribing

InTheChain == run.step \in {"boundary", "process", "synth", "persist", "save", "done"}

RowInChain ==
    /\ Floor <= run.at
    /\ run.seen # NoStage => Floor <= run.seen /\ run.seen <= run.at
    /\ Kept => Fits(row.segs, run.at)
    /\ run.step \in {"process", "synth", "persist", "save"} =>
          Floor <= row.stage /\ row.stage <= run.at
    /\ At("save") => ~setting.long /\ Fits(row.segs, run.at + 1)

\* Alignment and mixing find clips, unless they are where a short recording is resumed.
ContextInChain ==
    /\ At("synth") => run.at = Synthesizing
    /\ At("boundary") /\ ~setting.long /\ run.at = run.first /\ run.at >= Aligning =>
          run.at \in ctx.inv
    /\ Equipped =>
          /\ run.step \in {"boundary", "process", "synth"} => Fits(ctx.segs, run.at)
          /\ run.step \in {"boundary", "process"} /\ run.at >= Aligning /\ run.at > Floor =>
                ctx.clips # {}
          /\ run.step \in {"persist", "save"} => Fits(ctx.segs, run.at + 1)
          /\ run.step \in {"persist", "save"} /\ run.at >= Synthesizing => ctx.clips # {}

PoolKept ==
    /\ InPools =>
          \A c \in Segs :
              /\ pool.job[Transcription][c] \in {"ok", "taken"} => pool.text[c] > Textless
              /\ pool.job[Overlapped][c] # "none" => setting.overlap
              /\ \A k \in Job : pool.job[k][c] = "failed" => left.error < MaxErrors
    /\ At("drain") /\ pool.stage >= Translating => setting.overlap
    /\ At("drain") /\ pool.error # "paused" => left.error < MaxErrors

LostInv ==
    /\ Forced /\ RowKept /\ CheckpointsKept /\ FirstIsNamed
    /\ InPreflight /\ InFront
    /\ InTheChain => RowInChain /\ ContextInChain
    /\ PoolKept

-----------------------------------------------------------------------------
(* What a stage needs.                                                     *)

LEMMA StageNumbers ==
  /\ NoStage = -1 /\ Preparing = 0 /\ Separating = 1 /\ Diarizing = 2 /\ Transcribing = 3
  /\ Translating = 4 /\ Synthesizing = 5 /\ Aligning = 6 /\ Mixing = 7
  /\ Stages = 0 .. 7 /\ Chain = 1 .. 7 /\ Textless = 0 /\ Absent = -1
BY DEF NoStage, Preparing, Separating, Diarizing, Transcribing, Translating, Synthesizing,
       Aligning, Mixing, Stages, Chain, Textless, Absent

\* What is enough for a stage is enough for those before it, and nothing is asked for after
\* synthesis that synthesis does not ask for.
LEMMA FitsDown ==
  ASSUME NEW segs, NEW i \in Int, NEW j \in Int, Fits(segs, i), j <= i \/ Synthesizing <= i
  PROVE  Fits(segs, j)
BY StageNumbers DEF Fits

\* The stages up to transcription need nothing.
LEMMA FitsEarly ==
  ASSUME NEW segs, NEW i \in Int, i <= Transcribing
  PROVE  Fits(segs, i)
BY StageNumbers DEF Fits

\* Only texts and translations count.
LEMMA FitsAlike ==
  ASSUME NEW segs, NEW others, NEW i, Fits(segs, i),
         \A s \in Segs : others[s].text = segs[s].text /\ others[s].trans = segs[s].trans
  PROVE  Fits(others, i)
BY DEF Fits

\* No segments are no transcript.
LEMMA NothingFits ==
  ASSUME NEW i \in Int, Fits(NoSegments, i)
  PROVE  i <= Transcribing
<1>1. 1 \in Segs
  BY PipelineAssumption DEF Segs
<1>2. NoSegments[1].text = -1
  BY <1>1, StageNumbers DEF NoSegments
<1> QED
  BY <1>1, <1>2, StageNumbers DEF Fits

\* Segments that can be synthesized are all translated, and there is one.
LEMMA FitsTranslated ==
  ASSUME NEW segs, Fits(segs, Synthesizing)
  PROVE  /\ HasSegments(segs) /\ Translated(segs) = Segs /\ Translated(segs) # {}
<1>1. 1 \in Segs
  BY PipelineAssumption DEF Segs
<1>2. Translated(segs) = Segs
  BY StageNumbers DEF Fits, Translated
<1>3. NoSegments[1].trans = NoTranslation
  BY <1>1 DEF NoSegments
<1>4. segs # NoSegments
  BY <1>1, <1>3, StageNumbers DEF Fits
<1> QED
  BY <1>1, <1>2, <1>4 DEF HasSegments

-----------------------------------------------------------------------------
(* How the run moves.                                                      *)

\* A run that goes on keeps its first stage and what the estimator has seen.
LEMMA GoesOnWhole ==
  ASSUME run \in RunType, NEW step, Goes(step)
  PROVE  /\ run'.step = step /\ run'.no = run.no /\ run'.at = run.at /\ run'.first = run.first
         /\ run'.seen = run.seen
BY DEF Goes, RunType

LEMMA NextStageWhole ==
  ASSUME run \in RunType, run.at \in Chain, NextStage
  PROVE  /\ run'.no = run.no /\ run'.first = run.first /\ run'.seen = run.seen
         /\ \/ run.at = Mixing /\ run'.step = "done" /\ run'.at = run.at
            \/ run.at # Mixing /\ run'.step = "boundary" /\ run'.at = run.at + 1
BY DEF NextStage, RunType

\* The kinds of numbers that stages are.
LEMMA Numbers ==
  ASSUME TypeInv
  PROVE  /\ run.at \in Int /\ run.first \in Int /\ run.seen \in Int /\ row.stage \in Int
         /\ msg.start \in Int /\ run.at + 1 \in Int /\ Floor \in Int /\ pool.stage \in Int
         /\ run.first \in Stages /\ row.stage \in Stages /\ run.at \in Stages
<1> USE StageNumbers
<1>1. row \in RowType /\ msg \in MsgType /\ run \in RunType /\ pool \in PoolType
  BY Standing
<1>2. /\ run.at \in 0 .. 7 /\ run.first \in 0 .. 7 /\ run.seen \in {-1} \cup 0 .. 7
      /\ row.stage \in 0 .. 7 /\ msg.start \in {-1} \cup 0 .. 7
  BY <1>1 DEF RunType, RowType, MsgType
<1>3. pool.stage \in 0 .. 7
  BY <1>1, PoolParts
<1> QED
  BY <1>2, <1>3 DEF Floor

\* A run that has ended leaves only the rows, the message and the store to speak of.
LEMMA LostEnds ==
  ASSUME LostInv, run' = NoRun(run.no), UNCHANGED <<setting, msg>>, CheckpointsKept', RowKept'
  PROVE  LostInv'
<1>1. run'.step = "idle"
  BY DEF NoRun
<1> QED
  BY <1>1 DEF LostInv, Forced, FirstIsNamed, InPreflight, InFront, InTheChain, PoolKept, Alive, At,
              InPools

\* A run in the chain owes nothing to preflight and pools.
LEMMA LostChain ==
  ASSUME LostInv, run.step # "idle", UNCHANGED <<setting, msg>>,
         run'.step \in {"boundary", "process", "synth", "persist", "save", "done"},
         run'.first = run.first, RowKept', CheckpointsKept', RowInChain', ContextInChain'
  PROVE  LostInv'
BY DEF LostInv, Forced, FirstIsNamed, InPreflight, InFront, InTheChain, PoolKept, Alive, At,
       InPools

\* A run in the pools owes nothing to the chain.
LEMMA LostFront ==
  ASSUME LostInv, run.step # "idle", UNCHANGED <<setting, msg>>,
         run'.step \in {"front", "pools", "drain"},
         run'.first = run.first, RowKept', CheckpointsKept', InFront', PoolKept'
  PROVE  LostInv'
BY DEF LostInv, Forced, FirstIsNamed, InPreflight, InTheChain, Alive, At

\* Checkpoints stay good if none is written.
LEMMA CheckpointsStay ==
  ASSUME CheckpointsKept, setting' = setting, store'.saved = store.saved, store'.ckpt = store.ckpt
  PROVE  CheckpointsKept'
BY DEF CheckpointsKept

-----------------------------------------------------------------------------
(* How runs begin, and who sends for them.                                 *)

LEMMA LostInit == Init => LostInv
<1> USE StageNumbers
<1>1. Init => run.step = "idle" /\ row.stage = Preparing /\ msg.start = NoStage
              /\ store.saved = {}
  BY DEF Init, NoRun
<1>2. Init => RowKept /\ CheckpointsKept /\ Forced
  BY <1>1, FitsEarly DEF RowKept, CheckpointsKept, Forced
<1> QED
  BY <1>1, <1>2 DEF LostInv, FirstIsNamed, InPreflight, InFront, InTheChain, PoolKept, Alive, At,
                    InPools

\* A run begins at a stage the rows are good for.
LEMMA LostBegins ==
  ASSUME TypeInv, LostInv, ~Alive, FindsOutput \/ Begins,
         UNCHANGED <<setting, msg, store, stale, left>>
  PROVE  LostInv'
<1> USE StageNumbers
<1>1. row \in RowType /\ row.stage \in Int /\ msg.start \in Int
  BY Standing, Numbers
<1>2. row'.stage = row.stage /\ row'.segs = row.segs
  BY <1>1 DEF FindsOutput, Begins, RowType
<1>3. RowKept' /\ CheckpointsKept' /\ Forced'
  BY <1>2, CheckpointsStay DEF LostInv, RowKept, Kept, Forced
<1>4. CASE FindsOutput
  <2>1. run' = run /\ run.step = "idle"
    BY <1>4 DEF FindsOutput, Alive
  <2> QED
    BY <1>3, <2>1 DEF LostInv, FirstIsNamed, InPreflight, InFront, InTheChain, PoolKept, Alive,
                      At, InPools
<1>5. CASE Begins
  <2>1. run'.step = "preflight" /\ run'.first = FirstStage /\ run'.seen = NoStage
    BY <1>5 DEF Begins, NoRun
  <2>2. ctx'.segs = row.segs /\ (msg.force => FirstStage \in ctx'.inv)
    BY <1>5 DEF Begins, RebuiltContext, NoContext
  <2>3. /\ msg.start # NoStage => FirstStage = msg.start
        /\ ~msg.force => FirstStage = Separating
    BY DEF FirstStage, LostInv, Forced
  <2>4. Kept => Fits(row.segs, FirstStage)
    <3>1. Fits(row.segs, Separating)
      BY FitsEarly
    <3> QED
      BY <3>1 DEF FirstStage, ResumeStage, LostInv, RowKept
  <2>5. FirstIsNamed' /\ InPreflight'
    BY <1>2, <2>1, <2>2, <2>3, <2>4 DEF FirstIsNamed, InPreflight, Kept, At
  <2> QED
    BY <1>3, <2>1, <2>5 DEF LostInv, InFront, InTheChain, PoolKept, At, InPools
<1> QED
  BY <1>4, <1>5

\* A resume starts from the stage the row names, and the reconciler from there as well.
LEMMA LostMessages ==
  ASSUME TypeInv, LostInv, Reconcile \/ Resume
  PROVE  LostInv'
<1>1. row \in RowType /\ run.step = "idle" /\ run' = run
  BY Standing DEF Reconcile, Resume, Alive, TypeInv, RunsCounted
<1>2. row'.stage = row.stage /\ row'.segs = row.segs /\ UNCHANGED <<setting, store>>
  BY <1>1 DEF Reconcile, Resume, RowType
<1>3. msg'.force = TRUE /\ msg'.start \in {NoStage, row.stage}
  BY DEF Reconcile, Resume
<1>4. RowKept' /\ Forced'
  BY <1>2, <1>3 DEF LostInv, RowKept, Kept, Forced
<1> QED
  BY <1>1, <1>2, <1>4, CheckpointsStay
     DEF LostInv, FirstIsNamed, InPreflight, InFront, InTheChain, PoolKept, Alive, At, InPools

\* A run that is paused at a stage its rows are good for leaves everything in order.
LEMMA LostPauses ==
  ASSUME TypeInv, LostInv, NEW stage, Pauses(stage), Kept => Fits(row.segs, stage),
         UNCHANGED <<setting, msg>>, store'.saved = store.saved, store'.ckpt = store.ckpt
  PROVE  LostInv'
<1>1. row \in RowType
  BY Standing
<1>2. row'.stage = stage /\ row'.segs = row.segs /\ run' = NoRun(run.no)
  BY <1>1 DEF Pauses, Abandons, Ends, RowType
<1>3. RowKept'
  BY <1>2 DEF LostInv, RowKept, Kept
<1> QED
  BY <1>2, <1>3, LostEnds, CheckpointsStay DEF LostInv

\* So does one that ends in another way.
LEMMA LostOver ==
  ASSUME TypeInv, LostInv, run' = NoRun(run.no), row'.stage = row.stage, row'.segs = row.segs,
         UNCHANGED <<setting, msg>>, store'.saved = store.saved, store'.ckpt = store.ckpt
  PROVE  LostInv'
<1>1. RowKept'
  BY DEF LostInv, RowKept, Kept
<1> QED
  BY <1>1, LostEnds, CheckpointsStay DEF LostInv

LEMMA LostFails ==
  ASSUME TypeInv, LostInv, Fails,
         UNCHANGED <<setting, msg>>, store'.saved = store.saved, store'.ckpt = store.ckpt
  PROVE  LostInv'
<1>1. row \in RowType
  BY Standing
<1> QED
  BY <1>1, LostOver DEF Fails, Abandons, Ends, RowType

LEMMA LostEnd == ASSUME TypeInv, LostInv, Complete \/ Crash PROVE LostInv'
<1>1. row \in RowType
  BY Standing
<1> QED
  BY <1>1, LostOver DEF Complete, Crash, Abandons, Ends, RowType

\* The preflight sends the run into the chain or into the pools.
LEMMA LostPreflight == ASSUME TypeInv, LostInv, Preflight PROVE LostInv'
<1> USE StageNumbers
<1>1. /\ row \in RowType /\ run \in RunType /\ At("preflight")
      /\ UNCHANGED <<setting, msg, store, pool>>
  BY Standing DEF Preflight, At
<1>2. /\ run.seen = NoStage /\ ctx.segs = row.segs /\ (msg.force => run.first \in ctx.inv)
      /\ (Kept => Fits(row.segs, run.first))
  BY <1>1 DEF LostInv, InPreflight
<1>3. /\ run.first \in 0 .. 7 /\ row.stage \in 0 .. 7
  BY Numbers
<1>4. Fits(row.segs, Preparing)
  BY FitsEarly
<1> DEFINE reported == [row EXCEPT !.stage = IF PreflightStage = Preparing THEN Preparing ELSE @]
<1>5. CASE row' = [reported EXCEPT !.status = "paused", !.stage = PreflightStage] /\ Abandons
  <2>1. row'.stage = PreflightStage /\ row'.segs = row.segs /\ run' = NoRun(run.no)
    BY <1>1, <1>5 DEF RowType, Abandons, Ends
  <2>2. Kept => Fits(row.segs, PreflightStage)
    BY <1>2, <1>4 DEF PreflightStage
  <2>3. RowKept'
    BY <1>1, <2>1, <2>2 DEF LostInv, RowKept, Kept
  <2> QED
    BY <1>1, <2>1, <2>3, LostEnds, CheckpointsStay DEF LostInv
<1>6. CASE /\ row' = reported
           /\ run' = [run EXCEPT !.step = IF setting.long /\ run.first <= Transcribing
                                          THEN "front" ELSE "boundary",
                                 !.at = EntryStage]
           /\ UNCHANGED <<ctx, stale, left>>
  <2>1. /\ row'.segs = row.segs /\ row'.stage \in {row.stage, Preparing}
    BY <1>1, <1>6 DEF RowType
  <2>2. /\ run'.at = EntryStage /\ run'.first = run.first /\ run'.seen = NoStage
        /\ run'.step = IF setting.long /\ run.first <= Transcribing THEN "front" ELSE "boundary"
    BY <1>1, <1>2, <1>6 DEF RunType
  <2>3. RowKept' /\ CheckpointsKept'
    BY <1>1, <1>4, <2>1, CheckpointsStay DEF LostInv, RowKept, Kept
  <2>4. run.step # "idle" /\ run.step = "preflight"
    BY <1>1 DEF At
  <2>5. CASE setting.long /\ run.first <= Transcribing
    <3>1. InFront' /\ PoolKept'
      BY <1>1, <1>3, <2>2, <2>5 DEF InFront, PoolKept, InPools, At, EntryStage
    <3> QED
      BY <1>1, <2>2, <2>3, <2>4, <2>5, <3>1, LostFront
  <2>6. CASE ~(setting.long /\ run.first <= Transcribing)
    <3>1. run'.step = "boundary"
      BY <2>2, <2>6
    <3>2. EntryStage \in 0 .. 7 /\ Floor <= EntryStage /\ Floor' = Floor
          /\ (run.first >= EntryStage \/ EntryStage <= Transcribing)
      BY <1>1, <1>3, <2>2, <2>6 DEF EntryStage, Floor
    <3>3. Kept => Fits(row.segs, EntryStage)
      <4>1. CASE EntryStage <= Transcribing
        BY <3>2, <4>1, FitsEarly
      <4>2. CASE run.first >= EntryStage
        BY <1>2, <1>3, <3>2, <4>2, FitsDown
      <4> QED
        BY <3>2, <4>1, <4>2
    <3>4. RowInChain'
      BY <1>1, <2>1, <2>2, <3>1, <3>2, <3>3 DEF RowInChain, Kept, At
    <3>5. Equipped => Kept \/ EntryStage <= Transcribing
      BY <1>3, <2>6 DEF Equipped, EntryStage, Kept
    <3>6. Equipped => Fits(ctx.segs, EntryStage)
      BY <1>2, <3>2, <3>3, <3>5, FitsEarly
    <3>7. EntryStage > Floor => EntryStage <= Separating
      BY <1>3, <2>6 DEF EntryStage, Floor
    <3>8. ~setting.long /\ EntryStage = run.first /\ EntryStage >= Aligning => EntryStage \in ctx.inv
      <4>1. msg.force \/ run.first = Separating
        BY <2>4 DEF LostInv, FirstIsNamed, Alive
      <4> QED
        BY <1>2, <4>1
    <3>9. ContextInChain'
      BY <1>1, <1>6, <2>2, <3>1, <3>2, <3>6, <3>7, <3>8 DEF ContextInChain, Equipped, Kept, At
    <3> QED
      BY <1>1, <2>2, <2>3, <2>4, <3>1, <3>4, <3>9, LostChain
  <2> QED
    BY <2>5, <2>6
<1> QED
  BY <1>5, <1>6 DEF Preflight

-----------------------------------------------------------------------------
(* The stages.                                                             *)

\* What is known of a run in the chain.
LEMMA InChainKnown ==
  ASSUME TypeInv, LostInv, NEW step \in {"boundary", "process", "synth", "persist", "save"},
         At(step)
  PROVE  /\ RowInChain /\ ContextInChain /\ run.step = step /\ run \in RunType
         /\ run.at \in 1 .. 7 /\ run.step # "idle"
BY Standing DEF LostInv, InTheChain, At, TypeInv, AtAStage, Chain

\* A stage that is done goes to the writing of the rows with what the next one needs.
LEMMA LostDone ==
  ASSUME TypeInv, LostInv, At("process") \/ At("synth"), Goes("persist"),
         UNCHANGED <<setting, row, msg>>, store'.saved = store.saved, store'.ckpt = store.ckpt,
         Equipped => /\ Fits(ctx'.segs, run.at + 1)
                     /\ run.at >= Synthesizing => ctx'.clips # {}
  PROVE  LostInv'
<1>1. RowInChain /\ run \in RunType /\ run.step \in {"process", "synth"}
  BY InChainKnown DEF At
<1>2. /\ run'.step = "persist" /\ run'.at = run.at /\ run'.first = run.first
      /\ run'.seen = run.seen
  BY <1>1, GoesOnWhole
<1>3. RowInChain'
  BY <1>1, <1>2 DEF RowInChain, Kept, Floor, At
<1>4. ContextInChain'
  BY <1>2 DEF ContextInChain, Equipped, Kept, At
<1>5. RowKept' /\ CheckpointsKept'
  BY CheckpointsStay DEF LostInv, RowKept, Kept
<1> QED
  BY <1>1, <1>2, <1>3, <1>4, <1>5, LostChain

\* The front of the chain: nothing is needed yet, or a transcript is made.
LEMMA LostFirstStages ==
  ASSUME TypeInv, PaidInv, LostInv, Separate \/ Diarize \/ Transcribe
  PROVE  LostInv'
<1> USE StageNumbers
<1>1. RowInChain /\ ContextInChain /\ run \in RunType /\ At("process") /\ ctx \in Context
  BY InChainKnown, Standing DEF Separate, Diarize, Transcribe, Processing
<1>2. CASE Separate
  <2>1. run.at = 1 /\ store'.saved = store.saved /\ store'.ckpt = store.ckpt
    BY <1>2, Standing DEF Separate, Processing, StoreType
  <2>2. Fits(ctx'.segs, run.at + 1)
    BY <2>1, FitsEarly
  <2> QED
    BY <1>1, <1>2, <2>1, <2>2, LostDone DEF Separate
<1>3. CASE Diarize
  <2>1. run.at = 2 /\ UNCHANGED <<setting, msg, store>>
    BY <1>3 DEF Diarize, Processing
  <2>2. CASE Pauses(Diarizing)
    BY <2>1, <2>2, LostPauses, FitsEarly
  <2>3. CASE Goes("persist") /\ UNCHANGED row
    <3>1. Fits(ctx'.segs, run.at + 1)
      BY <2>1, FitsEarly
    <3> QED
      BY <1>1, <2>1, <2>3, <3>1, LostDone
  <2> QED
    BY <1>3, <2>2, <2>3 DEF Diarize
<1>4. CASE Transcribe
  <2>1. run.at = 3 /\ UNCHANGED <<setting, row, msg, store>> /\ Goes("persist")
        /\ ctx'.segs = NewSegments(run.no)
    BY <1>1, <1>4 DEF Transcribe, Processing, Context
  <2>2. run.no > 0
    BY <1>1, <2>1 DEF PaidInv, Alive, At, RunType, Runs
  <2>3. Fits(ctx'.segs, run.at + 1)
    BY <2>1, <2>2 DEF Fits, NewSegments
  <2> QED
    BY <1>1, <2>1, <2>3, LostDone
<1> QED
  BY <1>2, <1>3, <1>4

\* After translation every segment has its translation, if every segment had its text.
LEMMA LostTranslate == ASSUME TypeInv, PaidInv, LostInv, Translate PROVE LostInv'
<1> USE StageNumbers
<1>1. RowInChain /\ ContextInChain /\ run \in RunType /\ At("process") /\ ctx \in Context
      /\ ctx.segs \in [Segs -> Segment]
  BY InChainKnown, Standing DEF Translate, Processing
<1>2. run.at = Translating /\ UNCHANGED <<setting, msg, store>>
  BY DEF Translate, Processing
<1>3. CASE Pauses(Translating)
  <2>1. Kept => Fits(row.segs, Translating)
    BY <1>1, <1>2 DEF RowInChain
  <2> QED
    BY <1>2, <1>3, <2>1, LostPauses
<1>5. CASE Fails
  BY <1>2, <1>5, LostFails
<1> DEFINE pending == Translatable(ctx.segs)
<1>4. CASE /\ run' = [run EXCEPT !.step = "persist", !.paid = Pay(pending)]
           /\ ctx' = IF pending = {} THEN ctx
                     ELSE [ctx EXCEPT
                             !.segs = [s \in Segs |->
                                 IF s \in pending
                                 THEN [ctx.segs[s] EXCEPT
                                          !.trans = [of |-> ctx.segs[s].text, by |-> run.no],
                                          !.url = FALSE]
                                 ELSE ctx.segs[s]],
                             !.clips = {}, !.out = FALSE,
                             !.inv = @ \cup {Synthesizing, Aligning, Mixing}]
           /\ UNCHANGED row
  <2>1. /\ run'.step = "persist" /\ run'.at = run.at /\ run'.first = run.first
        /\ run'.seen = run.seen
    BY <1>1, <1>4 DEF RunType
  <2>2. Equipped => Fits(ctx'.segs, Synthesizing)
    <3> SUFFICES ASSUME Equipped PROVE Fits(ctx'.segs, Synthesizing)
      OBVIOUS
    <3>1. \A s \in Segs : ctx.segs[s].text > Textless
      BY <1>1, <1>2 DEF ContextInChain, Fits, At
    <3>2. CASE pending = {}
      <4>1. \A s \in Segs : ctx.segs[s].trans # NoTranslation
        BY <3>1, <3>2 DEF Translatable
      <4> QED
        BY <1>4, <3>1, <3>2, <4>1 DEF Fits
    <3>3. CASE pending # {}
      <4>1. ASSUME NEW s \in Segs
            PROVE  ctx'.segs[s].text = ctx.segs[s].text /\ ctx'.segs[s].trans # NoTranslation
        <5>0. ctx'.segs[s] = IF s \in pending
                             THEN [ctx.segs[s] EXCEPT
                                      !.trans = [of |-> ctx.segs[s].text, by |-> run.no],
                                      !.url = FALSE]
                             ELSE ctx.segs[s]
          BY <1>1, <1>4, <3>3 DEF Context
        <5>1. CASE s \in pending
          <6>1. [of |-> ctx.segs[s].text, by |-> run.no] # NoTranslation
            BY <3>1 DEF NoTranslation
          <6>2. ctx.segs[s] \in Segment
            BY <1>1
          <6>3. ctx'.segs[s] = [ctx.segs[s] EXCEPT
                    !.trans = [of |-> ctx.segs[s].text, by |-> run.no], !.url = FALSE]
            BY <5>0, <5>1
          <6> QED
            BY <6>1, <6>2, <6>3 DEF Segment
        <5>2. CASE s \notin pending
          BY <3>1, <5>0, <5>2 DEF Translatable
        <5> QED
          BY <5>1, <5>2
      <4> QED
        BY <3>1, <4>1 DEF Fits
    <3> QED
      BY <3>2, <3>3
  <2>3. RowInChain'
    BY <1>1, <1>2, <1>4, <2>1 DEF RowInChain, Kept, Floor, At
  <2>4. ContextInChain'
    BY <1>2, <2>1, <2>2 DEF ContextInChain, Equipped, Kept, At
  <2>5. RowKept' /\ CheckpointsKept'
    BY <1>2, <1>4, CheckpointsStay DEF LostInv, RowKept, Kept
  <2> QED
    BY <1>1, <1>2, <2>1, <2>3, <2>4, <2>5, LostChain DEF At
<1> QED
  BY <1>3, <1>5, <1>4 DEF Translate

\* The name of a clip changes neither text nor translation.
LEMMA UrlsFit ==
  ASSUME TypeInv, NEW who, NEW i, Fits(ctx.segs, i)
  PROVE  Fits(WithUrls(who), i)
<1>1. ctx.segs \in [Segs -> Segment]
  BY Standing
<1>2. \A s \in Segs : /\ WithUrls(who)[s].text = ctx.segs[s].text
                      /\ WithUrls(who)[s].trans = ctx.segs[s].trans
  BY <1>1 DEF WithUrls, Segment
<1> QED
  BY <1>2, FitsAlike

\* While clips are made, rows and context stay translated.
LEMMA LostSpeaking ==
  ASSUME TypeInv, LostInv, At("process") \/ At("synth"), run.at = Synthesizing,
         run'.step = "synth", run'.at = run.at, run'.first = run.first, run'.seen = run.seen,
         row'.stage = row.stage, Kept => Fits(row'.segs, Synthesizing),
         Equipped => Fits(ctx'.segs, Synthesizing),
         UNCHANGED <<setting, msg>>, store'.saved = store.saved, store'.ckpt = store.ckpt
  PROVE  LostInv'
<1> USE StageNumbers
<1>1. RowInChain /\ run \in RunType /\ run.step \in {"process", "synth"}
  BY InChainKnown DEF At
<1>2. RowInChain'
  BY <1>1 DEF RowInChain, Kept, Floor, At
<1>3. ContextInChain'
  BY DEF ContextInChain, Equipped, Kept, At
<1>4. RowKept' /\ CheckpointsKept'
  <2>1. Kept => Fits(row'.segs, row.stage) /\ Fits(row'.segs, msg.start)
    BY Numbers, FitsDown
  <2> QED
    BY <2>1, CheckpointsStay DEF LostInv, RowKept, Kept
<1> QED
  BY <1>1, <1>2, <1>3, <1>4, LostChain

\* Synthesis.
LEMMA LostSynthesis ==
  ASSUME TypeInv, LostInv,
         \/ Synthesize \/ SynthesisStops \/ SynthesisEnds
         \/ \E s \in Segs : SpeakSegment(s) \/ CollectClip(s)
  PROVE  LostInv'
<1> USE StageNumbers
<1>1. /\ RowInChain /\ ContextInChain /\ run \in RunType /\ run.at = Synthesizing
      /\ At("process") \/ At("synth") 
      /\ Equipped => Fits(ctx.segs, Synthesizing)
      /\ Kept => Fits(row.segs, Synthesizing)
      /\ ctx \in Context /\ row \in RowType /\ store \in StoreType
  <2>1. (At("process") /\ run.at = Synthesizing) \/ At("synth")
    BY DEF Synthesize, SynthesisStops, SynthesisEnds, SpeakSegment, CollectClip, Processing
  <2>2. RowInChain /\ ContextInChain /\ run \in RunType
    BY <2>1, InChainKnown
  <2>3. ctx \in Context /\ row \in RowType /\ store \in StoreType
    BY Standing
  <2> QED
    BY <2>1, <2>2, <2>3 DEF RowInChain, ContextInChain, At
<1>2. Kept => Equipped
  BY DEF Equipped
<1>3. CASE Synthesize
  <2>1. UNCHANGED <<setting, msg, store>> /\ At("process")
    BY <1>3 DEF Synthesize, Processing
  <2>2. CASE ~HasSegments(ctx.segs) /\ Goes("persist") /\ UNCHANGED <<row, ctx, stale>>
    <3>1. ~Equipped
      BY <1>1, <2>2, FitsTranslated
    <3> QED
      BY <2>1, <2>2, <3>1, LostDone
  <2>3. CASE Fails
    BY <2>1, <2>3, LostFails
  <2>4. CASE /\ ctx' = [ctx EXCEPT !.clips = Reusable, !.aligned = FALSE,
                                   !.segs = WithUrls(Reusable)]
             /\ row' = IF Reusable = Translated(ctx.segs) THEN row
                       ELSE [row EXCEPT !.segs = WithUrls(Reusable)]
             /\ Goes("synth")
    <3>1. /\ run'.step = "synth" /\ run'.at = run.at /\ run'.first = run.first
          /\ run'.seen = run.seen
      BY <1>1, <2>4, GoesOnWhole
    <3>2. ctx'.segs = WithUrls(Reusable) /\ row'.stage = row.stage
          /\ row'.segs \in {row.segs, WithUrls(Reusable)}
      BY <1>1, <2>4 DEF Context, RowType
    <3>3. Equipped => Fits(WithUrls(Reusable), Synthesizing)
      BY <1>1, UrlsFit
    <3> QED
      BY <1>1, <1>2, <2>1, <3>1, <3>2, <3>3, LostSpeaking
  <2> QED
    BY <1>3, <2>2, <2>3, <2>4 DEF Synthesize
<1>4. ASSUME NEW s \in Segs, SpeakSegment(s) PROVE LostInv'
  <2>1. /\ ctx'.segs = WithUrls({s}) /\ store'.saved = store.saved /\ store'.ckpt = store.ckpt
        /\ UNCHANGED <<setting, row, msg, run>> /\ run.step = "synth"
    BY <1>1, <1>4 DEF SpeakSegment, Context, StoreType, At
  <2>2. Equipped => Fits(WithUrls({s}), Synthesizing)
    BY <1>1, UrlsFit
  <2> QED
    BY <1>1, <2>1, <2>2, LostSpeaking
<1>5. ASSUME NEW s \in Segs, CollectClip(s) PROVE LostInv'
  <2>1. /\ ctx'.segs = ctx.segs /\ row'.stage = row.stage
        /\ row'.segs \in {row.segs, ctx.segs}
        /\ UNCHANGED <<setting, msg, store, run>> /\ run.step = "synth"
    BY <1>1, <1>5 DEF CollectClip, Context, RowType, At
  <2> QED
    BY <1>1, <1>2, <2>1, LostSpeaking
<1>6. CASE SynthesisStops
  <2>1. UNCHANGED <<setting, msg>> /\ store'.saved = store.saved /\ store'.ckpt = store.ckpt
    <3>1. PICK done \in SUBSET Unspoken : store' = [store EXCEPT !.clip = SpokenBy(done)]
      BY <1>6 DEF SynthesisStops
    <3> QED
      BY <1>1, <1>6, <3>1 DEF SynthesisStops, StoreType
  <2>2. Pauses(Synthesizing) \/ Fails
    BY <1>6 DEF SynthesisStops
  <2> QED
    BY <1>1, <2>1, <2>2, LostPauses, LostFails
<1>7. CASE SynthesisEnds
  <2>1. Equipped => ctx.clips # {} /\ Fits(ctx.segs, run.at + 1)
    <3> SUFFICES ASSUME Equipped PROVE ctx.clips # {} /\ Fits(ctx.segs, run.at + 1)
      OBVIOUS
    <3>1. Translated(ctx.segs) # {}
      BY <1>1, FitsTranslated
    <3>2. Uncollected = {}
      BY <1>7 DEF SynthesisEnds
    <3>3. Fits(ctx.segs, 6)
      BY <1>1, FitsDown
    <3> QED
      BY <1>1, <3>1, <3>2, <3>3 DEF Uncollected
  <2> QED
    BY <1>1, <1>7, <2>1, LostDone DEF SynthesisEnds
<1> QED
  BY <1>3, <1>4, <1>5, <1>6, <1>7

\* Alignment and mixing.
LEMMA LostMix ==
  ASSUME TypeInv, LostInv, Align \/ MixShort \/ MixChunk \/ JoinChunks
  PROVE  LostInv'
<1> USE StageNumbers
<1>1. /\ RowInChain /\ ContextInChain /\ run \in RunType /\ At("process") /\ run.at \in {6, 7}
      /\ ctx \in Context /\ store \in StoreType /\ UNCHANGED <<setting, msg>>
  BY InChainKnown, Standing DEF Align, MixShort, MixChunk, JoinChunks, Processing
<1>2. Equipped => Fits(ctx.segs, run.at + 1)
  <2>1. Equipped => Fits(ctx.segs, run.at)
    BY <1>1 DEF ContextInChain, At
  <2> QED
    BY <1>1, <2>1, FitsDown
<1>3. store'.saved = store.saved /\ store'.ckpt = store.ckpt
  BY <1>1 DEF Align, MixShort, MixChunk, JoinChunks, StoreType
<1>4. CASE Fails
  BY <1>1, <1>3, <1>4, LostFails
<1>5. CASE Align /\ ~Fails
  <2>1. ctx.clips # {} /\ ctx'.clips = ctx.clips /\ ctx'.segs = ctx.segs /\ Goes("persist")
        /\ row' = row
    BY <1>1, <1>5 DEF Align, Context
  <2> QED
    BY <1>1, <1>2, <1>3, <2>1, LostDone
<1>6. CASE MixShort /\ ~Fails
  <2>1. ctx.clips # {} /\ ctx'.clips = ctx.clips /\ ctx'.segs = ctx.segs /\ Goes("persist")
        /\ row' = row
    BY <1>1, <1>6 DEF MixShort, Context
  <2> QED
    BY <1>1, <1>2, <1>3, <2>1, LostDone
<1>7. CASE MixChunk /\ ~Fails
  <2>1. UNCHANGED <<row, ctx>> /\ run'.step = run.step /\ run'.at = run.at
        /\ run'.first = run.first /\ run'.seen = run.seen /\ run.step = "process"
    BY <1>1, <1>7 DEF MixChunk, RunType, At
  <2>2. RowInChain' /\ ContextInChain'
    BY <1>1, <2>1 DEF RowInChain, ContextInChain, Equipped, Kept, Floor, At
  <2>3. RowKept' /\ CheckpointsKept'
    BY <1>1, <1>3, <2>1, CheckpointsStay DEF LostInv, RowKept, Kept
  <2> QED
    BY <1>1, <2>1, <2>2, <2>3, LostChain
<1>8. CASE JoinChunks
  <2>1. /\ ctx'.clips = ctx.clips /\ ctx'.segs = ctx.segs /\ Goes("persist") /\ row' = row
        /\ setting.long /\ run.at = Mixing
    BY <1>1, <1>8 DEF JoinChunks, Context, Short, Processing
  <2>2. Floor <= Synthesizing
    BY <2>1, Numbers DEF Floor
  <2>3. Equipped => ctx.clips # {}
    BY <1>1, <2>1, <2>2, Numbers DEF ContextInChain, At
  <2> QED
    BY <1>1, <1>2, <1>3, <2>1, <2>3, LostDone
<1> QED
  BY <1>4, <1>5, <1>6, <1>7, <1>8

-----------------------------------------------------------------------------
(* Between the stages.                                                     *)

\* What each stage looks for when it has no checkpoint.
LEMMA Artifacts ==
  ASSUME RestoredFromArtifacts
  PROVE  \/ run.at \in {Separating, Diarizing}
         \/ run.at = Transcribing /\ \A s \in Segs : ctx.segs[s].text > Textless
         \/ run.at = Translating /\ Translatable(ctx.segs) = {}
         \/ run.at = Mixing
<1> USE StageNumbers
<1>1. CASE run.at \in {Separating, Diarizing, Mixing}
  BY <1>1
<1>2. CASE run.at = Transcribing
  BY <1>2 DEF RestoredFromArtifacts
<1>3. CASE run.at = Translating
  BY <1>3 DEF RestoredFromArtifacts
<1>4. CASE run.at \notin {Separating, Diarizing, Mixing, Transcribing, Translating}
  BY <1>4 DEF RestoredFromArtifacts
<1> QED
  BY <1>1, <1>2, <1>3, <1>4

\* A stage that is restored finds what the next one needs, and one that is not what it needs
\* itself.
LEMMA LostRestores ==
  ASSUME TypeInv, LostInv, At("boundary"), ~setting.long
  PROVE  /\ Fits(ContextAfterRestore.segs, run.at)
         /\ run.at >= Aligning /\ run.at > run.first => ContextAfterRestore.clips # {}
         /\ Restores => /\ Fits(ContextAfterRestore.segs, run.at + 1)
                        /\ run.at >= Synthesizing => ContextAfterRestore.clips # {}
<1> USE StageNumbers
<1>1. ContextInChain /\ Kept /\ Equipped /\ Floor = run.first /\ run.at \in 1 .. 7
  BY InChainKnown DEF Kept, Equipped, Floor
<1>2. Fits(ctx.segs, run.at) /\ (run.at >= Aligning /\ run.at > run.first => ctx.clips # {})
      /\ run.first <= run.at
  BY <1>1, InChainKnown DEF ContextInChain, RowInChain, At
<1>3. CASE run.at \in ctx.inv
  BY <1>2, <1>3 DEF ContextAfterRestore, Restores
<1>4. CASE run.at \notin ctx.inv /\ run.at \in store.saved
  <2>1. ContextAfterRestore = store.ckpt[run.at]
    BY <1>4 DEF ContextAfterRestore, Loaded
  <2>2. Fits(store.ckpt[run.at].segs, run.at + 1)
        /\ (run.at >= Synthesizing => store.ckpt[run.at].clips # {})
    BY <1>4 DEF LostInv, CheckpointsKept
  <2>3. Fits(store.ckpt[run.at].segs, run.at)
    BY <1>1, <2>2, FitsDown
  <2> QED
    BY <1>1, <2>1, <2>2, <2>3
<1>5. CASE run.at \notin ctx.inv /\ run.at \notin store.saved
  <2>1. ContextAfterRestore.segs = ctx.segs /\ ContextAfterRestore.clips = ctx.clips
    BY <1>5, Standing DEF ContextAfterRestore, WithArtifacts, Context
  <2>2. Restores => RestoredFromArtifacts
    BY <1>5 DEF Restores
  <2>3. ASSUME RestoredFromArtifacts
        PROVE  /\ Fits(ctx.segs, run.at + 1)
               /\ run.at >= Synthesizing => ctx.clips # {}
    <3>1. CASE run.at \in {Separating, Diarizing}
      BY <3>1, FitsEarly
    <3>2. CASE run.at = Transcribing /\ \A s \in Segs : ctx.segs[s].text > Textless
      BY <3>2 DEF Fits
    <3>3. CASE run.at = Translating /\ Translatable(ctx.segs) = {}
      <4>1. \A s \in Segs : ctx.segs[s].text > Textless /\ ctx.segs[s].trans # NoTranslation
        BY <1>2, <3>3 DEF Fits, Translatable
      <4> QED
        BY <3>3, <4>1 DEF Fits
    <3>4. CASE run.at = Mixing
      <4>1. run.at # run.first
        BY <1>1, <1>5, <3>4 DEF ContextInChain
      <4>2. ctx.clips # {}
        BY <1>2, <3>4, <4>1, Numbers
      <4> QED
        BY <1>2, <3>4, <4>2, FitsDown
    <3> QED
      BY <2>3, <3>1, <3>2, <3>3, <3>4, Artifacts
  <2> QED
    BY <1>2, <2>1, <2>2, <2>3
<1> QED
  BY <1>3, <1>4, <1>5

LEMMA LostBeginStage == ASSUME TypeInv, LostInv, BeginStage PROVE LostInv'
<1> USE StageNumbers
<1>1. /\ RowInChain /\ ContextInChain /\ run \in RunType /\ At("boundary") /\ row \in RowType
      /\ UNCHANGED <<setting, msg, store>> /\ run.at \in 1 .. 7
  BY InChainKnown, Standing DEF BeginStage
<1>2. CASE Pauses(run.at)
  BY <1>1, <1>2, LostPauses DEF RowInChain
<1>3. ASSUME row' = [row EXCEPT !.stage = run.at], NEW step \in {"process", "persist"}, Goes(step),
             step = "persist" => ~setting.long /\ Restores,
             ctx' = IF setting.long THEN ctx ELSE ContextAfterRestore
      PROVE  LostInv'
  <2>1. row'.stage = run.at /\ row'.segs = row.segs
    BY <1>1, <1>3 DEF RowType
  <2>2. /\ run'.step = step /\ run'.at = run.at /\ run'.first = run.first /\ run'.seen = run.seen
    BY <1>1, <1>3, GoesOnWhole
  <2>3. RowInChain'
    BY <1>1, <2>1, <2>2 DEF RowInChain, Kept, Floor, At
  <2>4. RowKept' /\ CheckpointsKept'
    BY <1>1, <2>1, CheckpointsStay DEF LostInv, RowKept, Kept, RowInChain
  <2>5. ContextInChain'
    <3>1. CASE setting.long
      <4>1. step = "process" /\ ctx' = ctx
        BY <1>3, <3>1
      <4>2. Floor' = Floor
        BY <1>1, <2>2 DEF Floor
      <4> QED
        BY <1>1, <2>2, <4>1, <4>2 DEF ContextInChain, Equipped, Kept, At
    <3>2. CASE ~setting.long
      <4>1. Floor' = run.first /\ ctx' = ContextAfterRestore
        BY <1>1, <1>3, <2>2, <3>2 DEF Floor
      <4>2. /\ Fits(ctx'.segs, run.at)
            /\ run.at >= Aligning /\ run.at > run.first => ctx'.clips # {}
            /\ step = "persist" => /\ Fits(ctx'.segs, run.at + 1)
                                   /\ run.at >= Synthesizing => ctx'.clips # {}
        BY <1>1, <1>3, <3>2, <4>1, LostRestores
      <4> QED
        BY <1>1, <2>2, <4>1, <4>2 DEF ContextInChain, At
    <3> QED
      BY <3>1, <3>2
  <2> QED
    BY <1>1, <2>2, <2>3, <2>4, <2>5, LostChain DEF At
<1>4. CASE Short /\ ~Pauses(run.at)
  <2>1. /\ row' = [row EXCEPT !.stage = run.at] /\ ctx' = ContextAfterRestore
        /\ Goes(IF Restores THEN "persist" ELSE "process") /\ ~setting.long
    BY <1>4 DEF BeginStage, Short
  <2> QED
    BY <1>3, <2>1
<1>5. CASE ~Short
  <2>1. row' = [row EXCEPT !.stage = run.at] /\ ctx' = ctx /\ Goes("process") /\ setting.long
    BY <1>5 DEF BeginStage, Short
  <2> QED
    BY <1>3, <2>1
<1> QED
  BY <1>2, <1>4, <1>5

\* The next stage of the chain needs what the last one left.
LEMMA LostNextStage ==
  ASSUME TypeInv, LostInv, At("persist") \/ At("save"), NextStage, row'.stage = row.stage,
         UNCHANGED <<setting, msg>>, Kept => Fits(row'.segs, run.at + 1),
         Equipped => Fits(ctx'.segs, run.at + 1),
         Equipped /\ run.at >= Synthesizing => ctx'.clips # {},
         RowKept', CheckpointsKept'
  PROVE  LostInv'
<1> USE StageNumbers
<1>1. /\ RowInChain /\ run \in RunType /\ run.at \in Chain /\ run.at \in 1 .. 7
      /\ run.step # "idle"
  BY InChainKnown
<1>2. /\ run'.no = run.no /\ run'.first = run.first /\ run'.seen = run.seen
      /\ \/ run.at = Mixing /\ run'.step = "done" /\ run'.at = run.at
         \/ run.at # Mixing /\ run'.step = "boundary" /\ run'.at = run.at + 1
  BY <1>1, NextStageWhole
<1>3. Floor' = Floor /\ Floor <= run.at
  BY <1>1, <1>2 DEF Floor, RowInChain
<1>4. Kept => Fits(row'.segs, run.at)
  BY <1>1, FitsDown
<1>5. RowInChain'
  BY <1>1, <1>2, <1>3, <1>4, Numbers DEF RowInChain, Kept, At
<1>6. ~setting.long => run.first <= run.at
  BY <1>3 DEF Floor
<1>7. ContextInChain'
  <2>1. CASE run'.step = "done"
    BY <2>1 DEF ContextInChain, Equipped, Kept, At
  <2>2. CASE run'.step = "boundary" /\ run'.at = run.at + 1
    BY <1>1, <1>2, <1>3, <1>6, <2>2, Numbers DEF ContextInChain, Equipped, Kept, At
  <2> QED
    BY <1>2, <2>1, <2>2
<1> QED
  BY <1>1, <1>2, <1>5, <1>7, LostChain

\* The rows get what the next stage needs.
LEMMA LostPersist == ASSUME TypeInv, LostInv, PersistStage PROVE LostInv'
<1> USE StageNumbers
<1>1. /\ RowInChain /\ ContextInChain /\ run \in RunType /\ At("persist") /\ row \in RowType
      /\ UNCHANGED <<setting, msg, store>> /\ run.at \in 1 .. 7 /\ ctx \in Context
  BY InChainKnown, Standing DEF PersistStage
<1>2. row'.stage = row.stage
      /\ row'.segs = IF run.at >= Diarizing /\ HasSegments(ctx.segs) THEN ctx.segs ELSE row.segs
  BY <1>1 DEF PersistStage, WritesRows, RowType
<1>3. ctx'.segs = ctx.segs /\ ctx'.clips = ctx.clips
  BY <1>1 DEF PersistStage, Context
<1>4. /\ Kept => Equipped
      /\ Equipped => Fits(ctx.segs, run.at + 1)
      /\ Equipped /\ run.at >= Synthesizing => ctx.clips # {}
      /\ Kept => Fits(row.segs, run.at)
      /\ row.stage <= run.at /\ Floor <= run.at
  BY <1>1 DEF ContextInChain, RowInChain, Equipped, At
<1>5. Kept => Fits(row'.segs, run.at + 1)
  <2> SUFFICES ASSUME Kept PROVE Fits(row'.segs, run.at + 1)
    OBVIOUS
  <2>1. CASE run.at >= Diarizing /\ HasSegments(ctx.segs)
    BY <1>2, <1>4, <2>1
  <2>2. CASE ~(run.at >= Diarizing /\ HasSegments(ctx.segs))
    <3>1. run.at + 1 <= Transcribing
      <4>1. CASE run.at < Diarizing
        BY <1>1, <4>1
      <4>2. CASE ctx.segs = NoSegments
        BY <1>1, <1>4, <4>2, NothingFits
      <4> QED
        BY <1>1, <2>2, <4>1, <4>2 DEF HasSegments
    <3> QED
      BY <1>1, <3>1, FitsEarly
  <2> QED
    BY <2>1, <2>2
<1>6. RowKept'
  <2>1. Kept => Fits(row'.segs, row.stage)
    BY <1>1, <1>4, <1>5, Numbers, FitsDown
  <2>2. Kept /\ msg.start # NoStage => Fits(row'.segs, msg.start)
    <3> SUFFICES ASSUME Kept, msg.start # NoStage PROVE Fits(row'.segs, msg.start)
      OBVIOUS
    <3>1. run.first = msg.start
      BY <1>1 DEF LostInv, FirstIsNamed, Alive, At
    <3>2. run.first <= run.at \/ run.at >= Synthesizing
      BY <1>4, Numbers DEF Floor
    <3> QED
      BY <1>1, <1>5, <3>1, <3>2, Numbers, FitsDown
  <2> QED
    BY <1>1, <1>2, <2>1, <2>2 DEF RowKept, Kept
<1>7. CheckpointsKept'
  BY <1>1, CheckpointsStay DEF LostInv
<1>8. CASE Short /\ Goes("save")
  <2>1. /\ run'.step = "save" /\ run'.at = run.at /\ run'.first = run.first
        /\ run'.seen = run.seen /\ ~setting.long
    BY <1>1, <1>8, GoesOnWhole DEF Short
  <2>2. Kept /\ Fits(row'.segs, run.at)
    BY <1>1, <1>5, <2>1, FitsDown DEF Kept
  <2>3. RowInChain'
    BY <1>1, <1>2, <1>5, <2>1, <2>2 DEF RowInChain, Kept, Floor, At
  <2>4. ContextInChain'
    BY <1>1, <1>3, <1>4, <2>1 DEF ContextInChain, Equipped, Kept, At
  <2> QED
    BY <1>1, <1>6, <1>7, <2>1, <2>3, <2>4, LostChain DEF At
<1>9. CASE NextStage
  BY <1>1, <1>2, <1>3, <1>4, <1>5, <1>6, <1>7, <1>9, LostNextStage
<1> QED
  BY <1>8, <1>9 DEF PersistStage

\* A checkpoint is saved of a context that the next stage can use.
LEMMA LostSave == ASSUME TypeInv, LostInv, SaveCheckpoint PROVE LostInv'
<1> USE StageNumbers
<1>1. /\ RowInChain /\ ContextInChain /\ run \in RunType /\ At("save") /\ store \in StoreType
      /\ UNCHANGED <<setting, msg, row, ctx>> /\ run.at \in 1 .. 7 /\ NextStage
  BY InChainKnown, Standing DEF SaveCheckpoint
<1>2. ~setting.long /\ Kept /\ Equipped
  BY <1>1 DEF RowInChain, Kept, Equipped
<1>3. /\ Fits(ctx.segs, run.at + 1) /\ Fits(row.segs, run.at + 1)
      /\ run.at >= Synthesizing => ctx.clips # {}
  BY <1>1, <1>2 DEF RowInChain, ContextInChain, At
<1>4. CheckpointsKept'
  <2>1. CASE UNCHANGED store
    BY <1>1, <2>1, CheckpointsStay DEF LostInv
  <2>2. CASE store' = [store EXCEPT !.saved = @ \cup {run.at}, !.ckpt[run.at] = ctx]
    <3>1. /\ store'.saved = store.saved \cup {run.at}
          /\ store'.ckpt = [store.ckpt EXCEPT ![run.at] = ctx]
          /\ store.ckpt \in [Chain -> Context] /\ store.saved \subseteq Chain
      BY <1>1, <2>2 DEF StoreType
    <3> QED
      BY <1>1, <1>2, <1>3, <3>1 DEF LostInv, CheckpointsKept
  <2> QED
    BY <2>1, <2>2 DEF SaveCheckpoint
<1>5. RowKept'
  BY <1>1 DEF LostInv, RowKept, Kept
<1> QED
  BY <1>1, <1>3, <1>4, <1>5, LostNextStage

\* The estimator moves the stage of the row, but only between stages of this run.
LEMMA LostEstimator == ASSUME TypeInv, LostInv, Estimator PROVE LostInv'
<1> USE StageNumbers
<1>1. /\ run \in RunType /\ row \in RowType /\ UNCHANGED <<setting, msg, store, ctx, pool, left>>
  BY Standing DEF Estimator, EstimatorReads, EstimatorWrites
<1>2. CheckpointsKept'
  BY <1>1, CheckpointsStay DEF LostInv
<1>3. CASE EstimatorReads
  <2>1. /\ run.step \in {"process", "persist", "save"} /\ row' = row
        /\ run'.step = run.step /\ run'.at = run.at /\ run'.first = run.first
        /\ run'.seen = run.at
    BY <1>1, <1>3 DEF EstimatorReads, RunType
  <2>2. RowInChain /\ ContextInChain
    BY <2>1 DEF LostInv, InTheChain
  <2>3. RowInChain' /\ ContextInChain' /\ RowKept'
    BY <1>1, <2>1, <2>2, Numbers
       DEF RowInChain, ContextInChain, Equipped, Kept, Floor, At, LostInv, RowKept
  <2> QED
    BY <1>1, <1>2, <2>1, <2>3, LostChain
<1>4. CASE EstimatorWrites
  <2>1. /\ run.step # "idle" /\ run.seen # NoStage
        /\ row'.stage = run.seen /\ row'.segs = row.segs
        /\ run'.step = run.step /\ run'.at = run.at /\ run'.first = run.first
        /\ run'.seen = NoStage
    BY <1>1, <1>4 DEF EstimatorWrites, RowType, RunType, Alive
  <2>2. run.step \in {"boundary", "process", "synth", "persist", "save", "done"}
    BY <1>1, <2>1 DEF LostInv, InPreflight, InFront, At, RunType, Step
  <2>3. RowInChain /\ ContextInChain
    BY <2>2 DEF LostInv, InTheChain
  <2>4. Kept => Fits(row.segs, run.seen)
    BY <2>1, <2>3, Numbers, FitsDown DEF RowInChain
  <2>5. RowInChain' /\ ContextInChain' /\ RowKept'
    BY <1>1, <2>1, <2>3, <2>4, Numbers
       DEF RowInChain, ContextInChain, Equipped, Kept, Floor, At, LostInv, RowKept
  <2> QED
    BY <1>1, <1>2, <2>1, <2>2, <2>5, LostChain
<1> QED
  BY <1>3, <1>4 DEF Estimator

-----------------------------------------------------------------------------
(* The front half of a long recording.                                     *)

\* What is known of a run in the pools.
LEMMA InPoolsKnown ==
  ASSUME TypeInv, LostInv, InPools
  PROVE  /\ setting.long /\ run.first <= Transcribing /\ run.at = Translating
         /\ run.seen = NoStage /\ row.stage <= Transcribing /\ run \in RunType
         /\ run.step \in {"pools", "drain"} /\ run.step # "idle"
         /\ row \in RowType /\ pool \in PoolType /\ pool.job \in JobType
         /\ \A c \in Segs :
              /\ pool.job[Transcription][c] \in {"ok", "taken"} => pool.text[c] > Textless
              /\ pool.job[Overlapped][c] # "none" => setting.overlap
              /\ \A k \in Job : pool.job[k][c] = "failed" => left.error < MaxErrors
BY Standing, PoolParts DEF LostInv, InFront, InPools, PoolKept

\* While the rows are before translation, they need nothing.
LEMMA LostInFront ==
  ASSUME TypeInv, LostInv, run.step \in {"front", "pools", "drain"},
         run'.step \in {"pools", "drain"},
         run'.at = run.at, run'.first = run.first, run'.seen = run.seen,
         row'.stage \in {row.stage, Separating, Diarizing, Transcribing},
         run.step = "front" => row'.stage # row.stage \/ row.stage <= Transcribing,
         row'.segs = row.segs \/ row'.stage <= Transcribing,
         UNCHANGED <<setting, msg>>, store'.saved = store.saved, store'.ckpt = store.ckpt,
         PoolKept'
  PROVE  LostInv'
<1> USE StageNumbers
<1>1. run.first <= Transcribing /\ (run.step # "front" => row.stage <= Transcribing)
  BY DEF LostInv, InFront, InPools
<1>2. row'.stage <= Transcribing /\ row'.stage \in Int
  BY <1>1, Numbers
<1>3. RowKept'
  <2>1. msg.start # NoStage => msg.start <= Transcribing
    BY <1>1 DEF LostInv, FirstIsNamed, Alive
  <2> QED
    BY <1>2, <2>1, Numbers, FitsEarly DEF RowKept, Kept
<1>4. InFront'
  BY <1>2 DEF LostInv, InFront, InPools
<1> QED
  BY <1>3, <1>4, CheckpointsStay, LostFront DEF LostInv

LEMMA LostFrontStart == ASSUME TypeInv, LostInv, FrontStart PROVE LostInv'
<1> USE StageNumbers, JobNames
<1>1. /\ run \in RunType /\ row \in RowType /\ run.step = "front" /\ UNCHANGED <<setting, msg, store>>
  BY Standing DEF FrontStart, At
<1>2. /\ run'.step = "pools" /\ run'.at = run.at /\ run'.first = run.first
      /\ run'.seen = run.seen /\ row'.stage = Separating
  BY <1>1, GoesOnWhole DEF FrontStart, RowType
<1>3. \A k \in Job, c \in Segs : pool'.job[k][c] \in {"none", "queued"}
      /\ (k # Separation => pool'.job[k][c] = "none")
  <2>1. NoPool \in PoolType
    BY Nothings
  <2> QED
    BY <2>1 DEF FrontStart, PoolType, JobType, NoPool
<1>4. PoolKept'
  BY <1>2, <1>3 DEF PoolKept, At, Separation, Transcription, Overlapped
<1> QED
  BY <1>1, <1>2, <1>4, LostInFront

\* One job moves, and no other.
LEMMA JobMoved ==
  ASSUME TypeInv, NEW k \in Job, NEW c \in Segs, NEW state \in JobState,
         pool'.job = Now(pool.job, k, c, state)
  PROVE  \A j \in Job, d \in Segs :
            pool'.job[j][d] = IF j = k /\ d = c THEN state ELSE pool.job[j][d]
<1>1. pool.job \in JobType
  BY Standing, PoolParts
<1> QED
  BY <1>1, NowMoves

\* A job that moves, and leaves text where it leaves a transcript.
LEMMA PoolMoves ==
  ASSUME TypeInv, LostInv, run.step = "pools" \/ run.step = "drain", run' = run \/ run'.step = run.step,
         setting' = setting, left'.error <= left.error, left \in LeftType, left' \in LeftType,
         pool'.stage = pool.stage, pool'.error = pool.error,
         NEW k \in Job, NEW c \in Segs, NEW state \in JobState,
         pool'.job = Now(pool.job, k, c, state), pool.job[k][c] # "none",
         k = Transcription /\ state \in {"ok", "taken"} =>
            pool.job[k][c] = "ok" \/ pool'.text[c] > Textless,
         \A d \in Segs : pool'.text[d] # pool.text[d] => d = c /\ pool'.text[d] > Textless,
         state = "failed" => left'.error < MaxErrors
  PROVE  PoolKept'
<1> USE JobNames
<1>0. InPools
  BY DEF InPools
<1>1. InPools /\ pool.job \in JobType
  BY <1>0, InPoolsKnown
<1>2. \A j \in Job, d \in Segs :
         pool'.job[j][d] = IF j = k /\ d = c THEN state ELSE pool.job[j][d]
  BY JobMoved
<1>3. left.error \in Int /\ left'.error \in Int /\ MaxErrors \in Int
  BY PipelineAssumption DEF LeftType
<1>4. ASSUME NEW d \in Segs
      PROVE  /\ pool'.job[Transcription][d] \in {"ok", "taken"} => pool'.text[d] > Textless
             /\ pool'.job[Overlapped][d] # "none" => setting.overlap
             /\ \A j \in Job : pool'.job[j][d] = "failed" => left'.error < MaxErrors
  <2>0. /\ pool.job[Transcription][d] \in {"ok", "taken"} => pool.text[d] > Textless
        /\ pool.job[Overlapped][d] # "none" => setting.overlap
        /\ \A j \in Job : pool.job[j][d] = "failed" => left.error < MaxErrors
    BY <1>1, InPoolsKnown
  <2>1. pool'.job[Transcription][d] \in {"ok", "taken"} => pool'.text[d] > Textless
    BY <1>2, <2>0
  <2>2. pool'.job[Overlapped][d] # "none" => setting.overlap
    BY <1>2, <2>0
  <2>3. \A j \in Job : pool'.job[j][d] = "failed" => left'.error < MaxErrors
    BY <1>2, <1>3, <2>0
  <2> QED
    BY <2>1, <2>2, <2>3
<1>5. /\ At("drain")' /\ pool'.stage >= Translating => setting'.overlap
      /\ At("drain")' /\ pool'.error # "paused" => left'.error < MaxErrors
  BY <1>3 DEF LostInv, PoolKept, At
<1> QED
  BY <1>4, <1>5 DEF PoolKept

\* What is spent is gone.
LEMMA SpendsLess ==
  ASSUME TypeInv, SpendPause \/ SpendError \/ UNCHANGED left
  PROVE  /\ left \in LeftType /\ left' \in LeftType /\ left'.error <= left.error
         /\ SpendError => left'.error < MaxErrors
BY Standing, Spends, PipelineAssumption DEF LeftType, SpendPause, SpendError

LEMMA LostThreads == ASSUME TypeInv, PaidInv, LostInv, ThreadStep PROVE LostInv'
<1> USE JobNames, StageNumbers
<1>1. InPools /\ run \in RunType /\ run.step \in {"pools", "drain"} /\ row \in RowType
      /\ pool \in PoolType /\ store \in StoreType
  BY Standing DEF ThreadStep, StartJob, JobStops, SeparateChunk, DiarizeChunk, TranscribeChunk,
                  TranslateChunk, InPools
<1>2. /\ UNCHANGED <<setting, row, msg>> /\ store'.saved = store.saved /\ store'.ckpt = store.ckpt
      /\ run'.step = run.step /\ run'.at = run.at /\ run'.first = run.first /\ run'.seen = run.seen
      /\ pool'.stage = pool.stage /\ pool'.error = pool.error
  <2>1. CASE \E k \in Job, c \in Segs : StartJob(k, c) \/ JobStops(k, c)
    BY <1>1, <2>1 DEF StartJob, JobStops, PoolType
  <2>2. CASE \E c \in Segs : SeparateChunk(c) \/ DiarizeChunk(c)
    BY <1>1, <2>2 DEF SeparateChunk, DiarizeChunk, StoreType, PoolType
  <2>3. CASE \E c \in Segs : TranscribeChunk(c) \/ TranslateChunk(c)
    BY <1>1, <2>3 DEF TranscribeChunk, TranslateChunk, StoreType, RunType, PoolType
  <2> QED
    BY <2>1, <2>2, <2>3 DEF ThreadStep
<1>3. ASSUME PoolKept' PROVE LostInv'
  BY <1>1, <1>2, <1>3, LostInFront
<1>4. ASSUME NEW k \in Job, NEW c \in Segs, StartJob(k, c) \/ JobStops(k, c) PROVE PoolKept'
  <2>1. pool'.text = pool.text /\ pool.job[k][c] # "none"
    BY <1>1, <1>4 DEF StartJob, JobStops, PoolType
  <2>2. PICK state \in {"running", "paused", "failed"} :
           /\ pool'.job = Now(pool.job, k, c, state)
           /\ SpendPause \/ SpendError \/ UNCHANGED left
           /\ state = "failed" => SpendError
    BY <1>1, <1>4 DEF StartJob, JobStops, PoolType
  <2>3. state \in JobState /\ state \notin {"ok", "taken"}
    BY <2>2 DEF JobState
  <2> QED
    BY <1>1, <1>2, <2>1, <2>2, <2>3, SpendsLess, PoolMoves
<1>5. ASSUME NEW k \in Job \ {Transcription}, NEW c \in Segs, pool.job[k][c] = "running",
             pool'.job = Now(pool.job, k, c, "ok"), pool'.text = pool.text, left' = left
      PROVE  PoolKept'
  <2>1. "ok" \in JobState
    BY DEF JobState
  <2> QED
    BY <1>1, <1>2, <1>5, <2>1, SpendsLess, PoolMoves
<1>6. /\ Separation \in Job \ {Transcription} /\ Diarization \in Job \ {Transcription}
      /\ Overlapped \in Job \ {Transcription}
  BY DEF Separation, Diarization, Transcription, Overlapped
<1>7. ASSUME NEW c \in Segs, SeparateChunk(c) \/ DiarizeChunk(c) \/ TranslateChunk(c)
      PROVE  PoolKept'
  <2>1. CASE SeparateChunk(c)
    BY <1>1, <1>5, <1>6, <2>1 DEF SeparateChunk, PoolType
  <2>2. CASE DiarizeChunk(c)
    BY <1>1, <1>5, <1>6, <2>2 DEF DiarizeChunk, PoolType
  <2>3. CASE TranslateChunk(c)
    BY <1>1, <1>5, <1>6, <2>3 DEF TranslateChunk, PoolType
  <2> QED
    BY <1>7, <2>1, <2>2, <2>3
<1>8. ASSUME NEW c \in Segs, TranscribeChunk(c) PROVE PoolKept'
  <2> DEFINE text == IF Reuses(Transcription, c) THEN store.tra[c] ELSE run.no
  <2>1. text > Textless
    <3>1. run.no > 0
      BY <1>1 DEF PaidInv, Alive, RunType, Runs
    <3>2. Reuses(Transcription, c) => store.tra[c] # 0
      <4>1. Transcription # Separation /\ Transcription # Diarization /\ Transcription # Overlapped
        BY DEF Transcription, Separation, Diarization, Overlapped
      <4> QED
        BY <4>1, Zenon DEF Reuses
    <3>3. store.tra[c] \in {0} \cup Runs
      BY <1>1 DEF StoreType
    <3> QED
      BY <3>1, <3>2, <3>3 DEF Runs
  <2>2. /\ pool'.job = Now(pool.job, Transcription, c, "ok")
        /\ pool'.text = [pool.text EXCEPT ![c] = text]
        /\ pool.job[Transcription][c] = "running" /\ left' = left
    BY <1>1, <1>8 DEF TranscribeChunk, PoolType
  <2>3. \A d \in Segs : pool'.text[d] = IF d = c THEN text ELSE pool.text[d]
    BY <1>1, <2>2 DEF PoolType
  <2>4. "ok" \in JobState
    BY DEF JobState
  <2> HIDE DEF text
  <2> QED
    BY <1>1, <1>2, <2>1, <2>2, <2>3, <2>4, SpendsLess, PoolMoves
<1> QED
  BY <1>3, <1>4, <1>7, <1>8 DEF ThreadStep

\* Taking and cancelling makes no transcript and fails no job.
LEMMA PoolTakes ==
  ASSUME TypeInv, LostInv, InPools, UNCHANGED <<setting, left>>, pool'.text = pool.text,
         \A d \in Segs :
            /\ pool'.job[Transcription][d] \in {"ok", "taken"} =>
                  pool.job[Transcription][d] \in {"ok", "taken"}
            /\ pool'.job[Overlapped][d] # "none" =>
                  pool.job[Overlapped][d] # "none" \/ setting.overlap
            /\ \A j \in Job : pool'.job[j][d] = "failed" => pool.job[j][d] = "failed",
         run'.step = "drain" => /\ pool'.stage >= Translating => setting.overlap
                                /\ pool'.error # "paused" => left.error < MaxErrors
  PROVE  PoolKept'
<1>1. ASSUME NEW d \in Segs
      PROVE  /\ pool'.job[Transcription][d] \in {"ok", "taken"} => pool'.text[d] > Textless
             /\ pool'.job[Overlapped][d] # "none" => setting'.overlap
             /\ \A j \in Job : pool'.job[j][d] = "failed" => left'.error < MaxErrors
  BY InPoolsKnown
<1> QED
  BY <1>1 DEF PoolKept, At

LEMMA LostTakes ==
  ASSUME TypeInv, LostInv, NEW c \in Segs, TakeSeparated(c) \/ TakeDiarized(c) \/ TakeTranscribed(c)
  PROVE  LostInv'
<1> USE JobNames, StageNumbers
<1>1. /\ run.step = "pools" /\ InPools /\ UNCHANGED <<setting, msg, store, run, left>>
      /\ pool \in PoolType /\ pool.job \in JobType /\ row \in RowType
  BY Standing, PoolParts DEF TakeSeparated, TakeDiarized, TakeTranscribed, At, InPools
<1>2. pool'.text = pool.text
  BY <1>1 DEF TakeSeparated, TakeDiarized, TakeTranscribed, PoolType
<1>3. ASSUME \A d \in Segs :
                /\ pool'.job[Transcription][d] \in {"ok", "taken"} =>
                      pool.job[Transcription][d] \in {"ok", "taken"}
                /\ pool'.job[Overlapped][d] # "none" =>
                      pool.job[Overlapped][d] # "none" \/ setting.overlap
                /\ \A j \in Job : pool'.job[j][d] = "failed" => pool.job[j][d] = "failed",
             row'.stage \in {row.stage, Separating, Diarizing, Transcribing}
      PROVE  LostInv'
  <2>1. PoolKept'
    BY <1>1, <1>2, <1>3, PoolTakes
  <2>2. row'.stage <= Transcribing
    BY <1>1, <1>3, InPoolsKnown
  <2> QED
    BY <1>1, <1>3, <2>1, <2>2, LostInFront
<1>4. CASE TakeSeparated(c)
  <2>1. pool'.job = Now(Now(pool.job, Separation, c, "taken"), Diarization, c, "queued")
    BY <1>1, <1>4 DEF TakeSeparated, PoolType
  <2>2. Separation # Diarization /\ Transcription \notin {Separation, Diarization}
        /\ Overlapped \notin {Separation, Diarization}
    BY DEF Separation, Diarization, Transcription, Overlapped
  <2>3. row'.stage \in {row.stage, Separating, Diarizing}
    BY <1>1, <1>4 DEF TakeSeparated, Reported, RowType
  <2>4. \A j \in Job, d \in Segs :
           \/ (pool'.job[j][d] \in {"taken", "queued"} /\ j \in {Separation, Diarization})
           \/ pool'.job[j][d] = pool.job[j][d]
    BY <1>1, <2>1, <2>2, TakenAndQueued
  <2> QED
    BY <1>3, <2>2, <2>3, <2>4
<1>5. CASE TakeDiarized(c)
  <2>1. pool'.job = Now(Now(pool.job, Diarization, c, "taken"), Transcription, c, "queued")
    BY <1>1, <1>5 DEF TakeDiarized, PoolType
  <2>2. Diarization # Transcription /\ Overlapped \notin {Diarization, Transcription}
    BY DEF Diarization, Transcription, Overlapped
  <2>3. row'.stage \in {row.stage, Transcribing, Diarizing}
    BY <1>1, <1>5 DEF TakeDiarized, Reported, RowType
  <2>4. \A j \in Job, d \in Segs :
           \/ (pool'.job[j][d] = "taken" /\ j = Diarization)
           \/ (pool'.job[j][d] = "queued" /\ j = Transcription)
           \/ pool'.job[j][d] = pool.job[j][d]
    BY <1>1, <2>1, <2>2, TakenAndQueued
  <2> QED
    BY <1>3, <2>2, <2>3, <2>4
<1>6. CASE TakeTranscribed(c)
  <2>1. row'.stage = Transcribing
    BY <1>1, <1>6 DEF TakeTranscribed, RowType
  <2>2. \A j \in Job, d \in Segs :
           \/ (pool'.job[j][d] = "taken" /\ j = Transcription /\ pool.job[j][d] = "ok")
           \/ (pool'.job[j][d] = "queued" /\ j = Overlapped /\ setting.overlap)
           \/ (pool'.job[j][d] = "queued" /\ j = Separation)
           \/ pool'.job[j][d] = pool.job[j][d]
    BY <1>1, <1>6 DEF TakeTranscribed, PoolType
  <2>3. Separation # Transcription /\ Overlapped \notin {Separation, Transcription}
    BY DEF Separation, Transcription, Overlapped
  <2> QED
    BY <1>3, <2>1, <2>2, <2>3
<1> QED
  BY <1>4, <1>5, <1>6

\* An error that stops the pools was spent when its job failed.
LEMMA LostRaises ==
  ASSUME TypeInv, LostInv, NEW k \in Job, NEW c \in Segs,
         FrontJobRaises(k, c) \/ TranslationRaises(c)
  PROVE  LostInv'
<1> USE JobNames, StageNumbers
<1>1. /\ run.step = "pools" /\ InPools /\ UNCHANGED <<setting, row, msg, store, left>>
      /\ pool \in PoolType /\ run \in RunType /\ Goes("drain")
  BY Standing DEF FrontJobRaises, TranslationRaises, Raises, At, InPools
<1>2. /\ run'.step = "drain" /\ run'.at = run.at /\ run'.first = run.first
      /\ run'.seen = run.seen
  BY <1>1, GoesOnWhole
<1>3. PICK pools \in SUBSET Job, j \in Job, stage \in {k, Translating} :
         /\ pool' = [pool EXCEPT !.job = Cancelled(@, pools), !.error = pool.job[j][c], !.stage = stage]
         /\ pool.job[j][c] \in {"failed", "paused"}
         /\ (stage = k /\ k \in FrontJob) \/ j = Overlapped
  BY DEF FrontJobRaises, TranslationRaises, Raises
<1>4. /\ pool'.job = Cancelled(pool.job, pools) /\ pool'.text = pool.text
      /\ pool'.error = pool.job[j][c] /\ pool'.stage = stage
  BY <1>1, <1>3 DEF PoolType
<1>5. \A i \in Job, d \in Segs :
         pool'.job[i][d] = IF i \in pools /\ pool.job[i][d] = "queued" THEN "cancelled" ELSE pool.job[i][d]
  BY <1>4 DEF Cancelled
<1>6. pool'.stage >= Translating => setting.overlap
  <2>1. j = Overlapped => setting.overlap
    BY <1>1, <1>3, InPoolsKnown
  <2>2. k \in FrontJob => k < Translating
    BY DEF FrontJob
  <2> QED
    BY <1>3, <1>4, <2>1, <2>2
<1>7. pool'.error # "paused" => left.error < MaxErrors
  BY <1>1, <1>3, <1>4, InPoolsKnown
<1>8. PoolKept'
  <2>1. \A d \in Segs :
            /\ pool'.job[Transcription][d] \in {"ok", "taken"} =>
                  pool.job[Transcription][d] \in {"ok", "taken"}
            /\ pool'.job[Overlapped][d] # "none" =>
                  pool.job[Overlapped][d] # "none" \/ setting.overlap
            /\ \A i \in Job : pool'.job[i][d] = "failed" => pool.job[i][d] = "failed"
    BY <1>5
  <2> QED
    BY <1>1, <1>4, <1>6, <1>7, <2>1, PoolTakes
<1> QED
  BY <1>1, <1>2, <1>8, InPoolsKnown, LostInFront

\* A pause of the front half is at a stage that needs nothing, unless translation overlaps it.
LEMMA LostFrontStops == ASSUME TypeInv, LostInv, FrontStops PROVE LostInv'
<1> USE StageNumbers
<1>1. At("drain") /\ UNCHANGED <<setting, msg, store>>
  BY DEF FrontStops
<1>2. CASE Pauses(pool.stage)
  <2>1. Kept => pool.stage <= Transcribing
    <3>1. setting.long /\ (pool.stage >= Translating => setting.overlap)
      BY <1>1 DEF LostInv, InFront, PoolKept, At
    <3> QED
      BY <3>1, Numbers DEF Kept
  <2> QED
    BY <1>1, <1>2, <2>1, Numbers, FitsEarly, LostPauses
<1>3. CASE Fails
  BY <1>1, <1>3, LostFails
<1> QED
  BY <1>2, <1>3 DEF FrontStops

\* The front half ends with a transcript of every chunk.
LEMMA LostFrontEnds == ASSUME TypeInv, LostInv, FrontEnds PROVE LostInv'
<1> USE JobNames, StageNumbers
<1>1. /\ run.step = "pools" /\ InPools /\ UNCHANGED <<setting, msg, store>>
      /\ row \in RowType /\ ctx \in Context /\ run \in RunType
  BY Standing DEF FrontEnds, At, InPools
<1>2. setting.long /\ run.first <= Transcribing /\ run.at = Translating /\ run.seen = NoStage
  BY <1>1, InPoolsKnown
<1>3. /\ run'.step = "boundary" /\ run'.at = run.at /\ run'.first = run.first
      /\ run'.seen = run.seen /\ ctx'.segs = Merged
      /\ row'.stage = Transcribing /\ row'.segs = Merged
  BY <1>1, GoesOnWhole DEF FrontEnds, Context, RowType
<1>4. Fits(Merged, Translating)
  <2>1. \A c \in Segs : pool.job[Transcription][c] = "taken"
    BY DEF FrontEnds, Jobs
  <2>2. \A c \in Segs : Merged[c].text > Textless
    BY <1>1, <2>1, InPoolsKnown DEF Merged
  <2> QED
    BY <2>2 DEF Fits
<1>5. RowInChain' /\ ContextInChain'
  BY <1>1, <1>2, <1>3, <1>4, Numbers DEF RowInChain, ContextInChain, Floor, At
<1>6. RowKept'
  <2>1. msg.start # NoStage => msg.start <= Transcribing
    BY <1>1, <1>2 DEF LostInv, FirstIsNamed, Alive
  <2> QED
    BY <1>1, <1>3, <2>1, Numbers, FitsEarly DEF RowKept, Kept
<1> QED
  BY <1>1, <1>3, <1>5, <1>6, CheckpointsStay, LostChain DEF LostInv

-----------------------------------------------------------------------------
(* Every step.                                                             *)

LEMMA LostInductive == TypeInv /\ PaidInv /\ LostInv /\ [Next]_vars => LostInv'
<1> SUFFICES ASSUME TypeInv, PaidInv, LostInv, [Next]_vars PROVE LostInv'
  OBVIOUS
<1>1. CASE Deliver \/ Redeliver
  BY <1>1, LostBegins DEF Deliver, Redeliver
<1>2. CASE Reconcile \/ Resume
  BY <1>2, LostMessages
<1>3. CASE Crash \/ Complete
  BY <1>3, LostEnd
<1>4. CASE StageStep
  BY <1>4, LostBeginStage, LostFirstStages, LostTranslate, LostSynthesis, LostMix, LostPersist,
     LostSave DEF StageStep
<1>5. CASE MainStep
  BY <1>5, LostTakes, LostRaises, LostFrontStart, LostFrontStops, LostFrontEnds, JobNames
     DEF MainStep
<1>6. CASE UNCHANGED vars
  BY <1>6 DEF vars, LostInv, Forced, RowKept, Kept, CheckpointsKept, FirstIsNamed, InPreflight,
              InFront, InTheChain, RowInChain, ContextInChain, Equipped, Floor, PoolKept, Alive,
              At, InPools
<1> QED
  BY <1>1, <1>2, <1>3, <1>4, <1>5, <1>6, LostPreflight, LostThreads, LostEstimator
     DEF Next, RunStep

LEMMA PaidInvariant == Spec => []PaidInv
<1>1. Init => PaidInv
  BY DEF Init, NoRun, PaidInv, PaidOncePerRun, Alive, Unpaid, BeforeTranslation, InPools, Preparing,
         Translating
<1> QED
  BY <1>1, PaidInductive, TypeInvariant, FrontInvariant, PTL DEF Spec

LEMMA LostInvariant == Spec => []LostInv
BY LostInit, LostInductive, TypeInvariant, PaidInvariant, PTL DEF Spec

\* Rows, checkpoints and context are never short of what the stage needs that works on them: a
\* task that is to be resumed at a stage finds in its rows what the stage begins with, and a
\* stage that is restored leaves what the next one begins with.
THEOREM StagesFindTheirInput == Spec => [](RowKept /\ CheckpointsKept)
BY LostInvariant, PTL DEF LostInv


-----------------------------------------------------------------------------
(* Which runs fail.                                                        *)

\* What the task then says of where it would begin again is where this run began, or later.
LEMMA BeganThere ==
  ASSUME TypeInv, LostInv, At("process")
  PROVE  /\ run.first # Separating => msg.force
         /\ ~setting.long /\ run.first \in {Aligning, Mixing} => FirstStage \in {Aligning, Mixing}
         /\ setting.long /\ run.first >= Translating => FirstStage >= Translating
<1> USE StageNumbers
<1>1. RowInChain /\ run.step = "process" /\ Alive
  BY InChainKnown DEF At, Alive
<1>2. Floor <= row.stage
  BY <1>1 DEF RowInChain
<1>3. /\ msg.start # NoStage => run.first = msg.start /\ msg.force
      /\ ~msg.force => run.first = Separating
  BY <1>1 DEF LostInv, FirstIsNamed, Forced
<1> QED
  BY <1>2, <1>3, Numbers DEF FirstStage, ResumeStage, Floor

\* A run that was not equipped, or that a short recording began where clips are needed, is one
\* that may fail.
LEMMA LostRunFails ==
  ASSUME TypeInv, LostInv, At("process"), UNCHANGED <<setting, msg>>, Fails,
         ~Equipped \/ (~setting.long /\ run.first \in {Aligning, Mixing})
  PROVE  FailsOnlyFromLostState'
<1> USE StageNumbers
<1>1. row'.stage = row.stage
  BY Standing DEF Fails, RowType
<1>2. FirstStage' = FirstStage
  BY <1>1 DEF FirstStage, ResumeStage
<1>3. CASE ~Equipped
  <2>1. setting.long /\ setting.overlap /\ run.first >= Translating
    BY <1>3, Numbers DEF Equipped, Kept
  <2> QED
    BY <1>2, <2>1, BeganThere DEF FailsOnlyFromLostState
<1>4. CASE ~setting.long /\ run.first \in {Aligning, Mixing}
  BY <1>2, <1>4, BeganThere DEF FailsOnlyFromLostState
<1> QED
  BY <1>3, <1>4

\* A stage that lacks its clips is the first one of a short recording's run, if the run was
\* equipped.
LEMMA LacksClips ==
  ASSUME TypeInv, LostInv, At("process"), run.at \in {Aligning, Mixing}, ctx.clips = {}, Equipped
  PROVE  ~setting.long /\ run.first \in {Aligning, Mixing}
<1> USE StageNumbers
<1>1. RowInChain /\ ContextInChain
  BY InChainKnown
<1>2. Floor = run.at
  BY <1>1, Numbers DEF RowInChain, ContextInChain, At
<1> QED
  BY <1>2 DEF Floor

\* Only seven actions fail a task.
LEMMA WhoFails ==
  ASSUME TypeInv, Next, row.status # "failed", row'.status = "failed"
  PROVE  /\ Fails
         /\ Translate \/ Synthesize \/ SynthesisStops \/ Align \/ MixShort \/ MixChunk \/ FrontStops
<1>1. row \in RowType
  BY Standing
<1>2. CASE Deliver \/ Redeliver \/ Reconcile \/ Resume \/ Crash \/ Complete \/ Preflight \/ Estimator
  BY <1>1, <1>2 DEF Deliver, Redeliver, FindsOutput, Begins, Reconcile, Resume, Crash, Complete,
                    Preflight, Estimator, EstimatorReads, EstimatorWrites, RowType
<1>3. CASE ThreadStep
  BY <1>3 DEF ThreadStep, StartJob, JobStops, SeparateChunk, DiarizeChunk, TranscribeChunk,
              TranslateChunk
<1>4. \A stage : ~Pauses(stage)
  BY <1>1 DEF Pauses, RowType
<1>5. CASE StageStep
  <2>1. ~BeginStage /\ ~Separate /\ ~Diarize /\ ~Transcribe
    BY <1>1, <1>4 DEF BeginStage, Separate, Diarize, Transcribe, RowType
  <2>2. ~SynthesisEnds /\ ~JoinChunks /\ ~PersistStage /\ ~SaveCheckpoint
    BY <1>1 DEF SynthesisEnds, JoinChunks, PersistStage, SaveCheckpoint, WritesRows, RowType
  <2>3. \A s \in Segs : ~SpeakSegment(s) /\ ~CollectClip(s)
    BY <1>1 DEF SpeakSegment, CollectClip, RowType
  <2>4. Translate \/ Synthesize \/ SynthesisStops \/ Align \/ MixShort \/ MixChunk
    BY <1>5, <2>1, <2>2, <2>3 DEF StageStep
  <2>5. (Translate \/ Synthesize) => Fails
    BY <1>1, <1>4 DEF Translate, Synthesize, RowType
  <2>6. (SynthesisStops \/ Align \/ MixShort \/ MixChunk) => Fails
    BY <1>1, <1>4 DEF SynthesisStops, Align, MixShort, MixChunk
  <2> QED
    BY <2>4, <2>5, <2>6
<1>6. CASE MainStep
  <2>1. \A c \in Segs : ~TakeSeparated(c) /\ ~TakeDiarized(c) /\ ~TakeTranscribed(c)
    BY <1>1 DEF TakeSeparated, TakeDiarized, TakeTranscribed, RowType
  <2>2. \A c \in Segs, k \in Job : ~FrontJobRaises(k, c) /\ ~TranslationRaises(c)
    BY DEF FrontJobRaises, TranslationRaises, Raises
  <2>3. ~FrontStart /\ ~FrontEnds
    BY <1>1 DEF FrontStart, FrontEnds, RowType
  <2>4. FrontStops
    BY <1>6, <2>1, <2>2, <2>3, JobNames DEF MainStep
  <2>5. Fails
    BY <1>4, <2>4 DEF FrontStops
  <2> QED
    BY <2>4, <2>5
<1> QED
  BY <1>2, <1>3, <1>5, <1>6 DEF Next, RunStep

\* A task that has failed stays as it is.
LEMMA FailedStays ==
  ASSUME TypeInv, row.status = "failed"
  PROVE  ~Next
<1>1. ~Alive
  BY DEF TypeInv, RunsCounted
<1>2. run.step = "idle"
  BY <1>1 DEF Alive
<1>3. ~StageStep
  BY <1>2 DEF StageStep, BeginStage, Separate, Diarize, Transcribe, Translate, Synthesize,
              SpeakSegment, CollectClip, SynthesisStops, SynthesisEnds, Align, MixShort, MixChunk,
              JoinChunks, PersistStage, SaveCheckpoint, Processing, At
<1>4. ~ThreadStep
  BY <1>2 DEF ThreadStep, StartJob, JobStops, SeparateChunk, DiarizeChunk, TranscribeChunk,
              TranslateChunk, InPools
<1>5. ~MainStep
  BY <1>2 DEF MainStep, TakeSeparated, TakeDiarized, TakeTranscribed, FrontJobRaises,
              TranslationRaises, FrontStart, FrontStops, FrontEnds, At
<1>6. ~Deliver /\ ~Redeliver /\ ~Reconcile /\ ~Resume /\ ~Crash /\ ~Complete /\ ~Preflight
      /\ ~Estimator
  BY <1>1, <1>2 DEF Deliver, Redeliver, Reconcile, Resume, Crash, Complete, Preflight, Estimator,
                    EstimatorReads, EstimatorWrites
<1> QED
  BY <1>3, <1>4, <1>5, <1>6 DEF Next, RunStep

LEMMA FailsInductive ==
  TypeInv /\ LostInv /\ FailsOnlyFromLostState /\ [Next]_vars => FailsOnlyFromLostState'
<1> SUFFICES ASSUME TypeInv, LostInv, FailsOnlyFromLostState, [Next]_vars
             PROVE  FailsOnlyFromLostState'
  OBVIOUS
<1> USE StageNumbers
<1>1. CASE UNCHANGED vars
  BY <1>1 DEF vars, FailsOnlyFromLostState, FirstStage, ResumeStage
<1>2. CASE Next /\ row'.status # "failed"
  BY <1>2 DEF FailsOnlyFromLostState
<1>3. CASE Next /\ left'.error # MaxErrors
  BY <1>3 DEF FailsOnlyFromLostState
<1>4. CASE Next /\ row'.status = "failed" /\ left'.error = MaxErrors
  <2>1. row.status # "failed"
    BY <1>4, FailedStays
  <2>2. /\ Fails
        /\ Translate \/ Synthesize \/ SynthesisStops \/ Align \/ MixShort \/ MixChunk \/ FrontStops
    BY <1>4, <2>1, WhoFails
  <2>3. /\ row \in RowType /\ run \in RunType /\ run'.step = "idle" /\ left \in LeftType
        /\ \A stage : ~Pauses(stage)
    BY <1>4, <2>2, Standing DEF Fails, Abandons, Ends, NoRun, Pauses, RowType
  <2>4. \A step \in {"persist", "synth"} : ~Goes(step)
    BY <2>3, GoesOnWhole
  <2>0. CASE Translate
    <3>1. SpendError
      BY <2>3, <2>0 DEF Translate, RunType
    <3> QED
      BY <1>4, <3>1, SpendsLess, PipelineAssumption DEF LeftType
  <2>5. CASE Synthesize
    <3>1. At("process") /\ run.at = Synthesizing /\ UNCHANGED <<setting, msg>>
          /\ Translated(ctx.segs) = {}
      BY <2>3, <2>4, <2>5 DEF Synthesize, Processing
    <3>2. ~Equipped
      BY <3>1, InChainKnown, FitsTranslated DEF ContextInChain, At
    <3> QED
      BY <2>2, <3>1, <3>2, LostRunFails
  <2>6. CASE SynthesisStops
    <3>1. SpendError
      BY <2>3, <2>6 DEF SynthesisStops
    <3> QED
      BY <1>4, <3>1, SpendsLess, PipelineAssumption DEF LeftType
  <2>7. CASE Align
    <3>1. /\ At("process") /\ run.at = Aligning /\ UNCHANGED <<setting, msg>>
          /\ ctx.clips = {} \/ ~HasSegments(ctx.segs)
      BY <2>4, <2>7 DEF Align, Processing
    <3>2. CASE Equipped
      <4>1. Fits(ctx.segs, Synthesizing)
        BY <3>1, <3>2, InChainKnown, FitsDown DEF ContextInChain, At
      <4>2. ctx.clips = {}
        BY <3>1, <4>1, FitsTranslated
      <4> QED
        BY <2>2, <3>1, <3>2, <4>2, LacksClips, LostRunFails
    <3> QED
      BY <2>2, <3>1, <3>2, LostRunFails
  <2>8. CASE MixShort \/ MixChunk
    <3>1. At("process") /\ run.at = Mixing /\ UNCHANGED <<setting, msg>>
      BY <2>8 DEF MixShort, MixChunk, Processing
    <3>2. ctx.clips = {}
      <4>1. CASE MixShort
        BY <2>4, <4>1 DEF MixShort
      <4>2. CASE MixChunk
        <5>1. run.step = "process"
          BY <3>1 DEF At
        <5>2. run' # [run EXCEPT !.mixed = run.mixed + 1]
          BY <2>3, <5>1 DEF RunType
        <5> QED
          BY <4>2, <5>2 DEF MixChunk
      <4> QED
        BY <2>8, <4>1, <4>2
    <3> QED
      BY <2>2, <3>1, <3>2, LacksClips, LostRunFails
  <2>9. CASE FrontStops
    <3>1. At("drain") /\ left' = left /\ pool.error # "paused"
      BY <2>3, <2>9 DEF FrontStops
    <3>2. left.error < MaxErrors
      BY <3>1 DEF LostInv, PoolKept
    <3> QED
      BY <1>4, <2>3, <3>1, <3>2, PipelineAssumption DEF LeftType
  <2> QED
    BY <2>2, <2>0, <2>5, <2>6, <2>7, <2>8, <2>9
<1> QED
  BY <1>1, <1>2, <1>3, <1>4

\* A run fails without an error of its own only if it begins at alignment or mixing of a short
\* recording, whose clips nobody keeps, or after a provider has paused a long one in overlapped
\* translation: for every number of segments, runs, pauses, crashes and unsaved checkpoints.
THEOREM OnlyLostRunsFail == Spec => []FailsOnlyFromLostState
<1>1. Init => FailsOnlyFromLostState
  BY DEF Init, FailsOnlyFromLostState
<1> QED
  BY <1>1, FailsInductive, TypeInvariant, LostInvariant, PTL DEF Spec

-----------------------------------------------------------------------------
(* What each of the sources is like by itself.                             *)
(*                                                                         *)
(* A translation is taken over from the rows, from checkpoints, from clips *)
(* under fixed names, from mixed chunks and from the final object.         *)

Blank(segs) == \A s \in Segs : segs[s].trans = NoTranslation
Done(segs) == \A s \in Segs : segs[s].trans # NoTranslation
Same(segs, others) == \A s \in Segs : segs[s].trans = others[s].trans

\* Segments are transcribed together and translated together, and those of a short recording
\* hold the translation of the text they hold.
Whole(segs, long) ==
    \/ /\ Blank(segs)
       /\ \/ \A s \in Segs : segs[s].text > Textless
          \/ \A s \in Segs : segs[s].text <= Textless
    \/ \A s \in Segs : /\ segs[s].trans # NoTranslation /\ segs[s].text > Textless
                       /\ ~long => segs[s].trans.of = segs[s].text

\* A clip that segments name is in the store.
Named(segs, clip) == \A s \in Segs : segs[s].url => clip[s] # NoTranslation
Sound(segs) == Whole(segs, setting.long) /\ Named(segs, store.clip)
SourcesSound ==
    /\ Sound(row.segs) /\ Sound(ctx.segs)
    /\ ~setting.long => \A k \in store.saved : Sound(store.ckpt[k].segs)

Spoken == \A s \in Segs : store.clip[s] # NoTranslation

\* What comes after synthesis has all clips or none.
StoreSpoken ==
    /\ ~setting.long => \A k \in store.saved : k >= Synthesizing =>
          /\ store.ckpt[k].clips = Segs /\ Spoken
          /\ k = Mixing => store.made
    /\ store.made => \A s \in Segs : store.out[s] # NoTranslation

AfterSynthesis ==
    run.at >= Aligning \/ (run.at = Synthesizing /\ run.step \in {"persist", "save"})
BeforeSynthesis ==
    run.at < Synthesizing \/ (run.at = Synthesizing /\ run.step \in {"boundary", "process"})
ContextSpoken ==
    /\ At("synth") => Done(ctx.segs) /\ \A s \in ctx.clips : store.clip[s] # NoTranslation
    /\ AfterSynthesis /\ ctx.clips # {} => ctx.clips = Segs /\ Done(ctx.segs) /\ Spoken
    /\ At("preflight") \/ (setting.long /\ BeforeSynthesis) => ctx.clips = {}
    /\ setting.long /\ AfterSynthesis /\ Done(ctx.segs) => ctx.clips # {}
    /\ run.mixed > 0 => run.at = Mixing /\ ~At("boundary") /\ ctx.clips # {}
    /\ \A c \in Segs : c <= run.mixed => store.mixed[c] # NoTranslation
    /\ run.at = Mixing /\ run.step \in {"persist", "save", "done"} =>
          store.made /\ ctx.clips # {}
    /\ At("done") => run.at = Mixing

\* Overlapped translation translates every chunk that was transcribed, or none.
PoolWhole ==
    /\ InPools => \A c \in Segs :
          /\ pool.trans[c] # NoTranslation => setting.overlap
          /\ setting.overlap /\ pool.job[Transcription][c] = "taken" =>
                pool.job[Overlapped][c] # "none"
    /\ At("pools") => \A c \in Segs : pool.job[Overlapped][c] \notin {"taken", "cancelled"}

SoundInv == SourcesSound /\ StoreSpoken /\ ContextSpoken /\ PoolWhole

-----------------------------------------------------------------------------
(* Where a short recording's run is, and what it may still restore.        *)

\* The stage the context is at the beginning of.
Position ==
    IF At("preflight") THEN IF run.first = Preparing THEN Separating ELSE run.first
    ELSE IF run.step \in {"persist", "save", "done"} THEN run.at + 1 ELSE run.at

\* Only the stage a run was resumed at is invalid, until it translates: then all that comes
\* after translation is, up to the stage it has got to.
AllAfter(inv, stage) ==
    Mixing \in inv => \A k \in {Synthesizing, Aligning} : k >= stage => k \in inv
Invalidated ==
    /\ Alive /\ Position <= Translating => \A i \in ctx.inv : i < Position \/ i = run.first
    /\ Alive /\ Position > Translating => AllAfter(ctx.inv, Position)
    /\ At("boundary") /\ run.at = run.first /\ run.first >= Diarizing => run.at \in ctx.inv
    /\ \A k \in store.saved :
          /\ k <= Transcribing => \A i \in store.ckpt[k].inv : i <= k
          /\ k >= Translating => AllAfter(store.ckpt[k].inv, k + 1)

\* A run begins no earlier than the one before, once that began after separation.
NeverEarlier ==
    /\ msg.start >= Diarizing => msg.start <= row.stage
    /\ Alive /\ run.first >= Diarizing => run.first <= row.stage

OrderInv == ~setting.long => Invalidated /\ NeverEarlier

-----------------------------------------------------------------------------
(* What the steps do to what is heard.                                     *)

\* A clip that is there stays, and nothing else that is made from translations changes.
ClipsStay == \A s \in Segs : store.clip[s] # NoTranslation => store'.clip[s] # NoTranslation
ObjectsStay ==
    /\ store'.saved = store.saved /\ store'.ckpt = store.ckpt /\ store'.mixed = store.mixed
    /\ store'.made = store.made /\ store'.out = store.out

\* The run is over.
Ended == run'.step = "idle" /\ run'.at = 0 /\ run'.mixed = 0 /\ ctx' = NoContext

\* The run goes on, at the same stage.
Continues(step) ==
    /\ run'.step = step /\ run'.at = run.at /\ run'.first = run.first /\ run'.mixed = run.mixed

LEMMA StoreParts ==
  ASSUME TypeInv
  PROVE  /\ store.saved \subseteq Chain /\ store.ckpt \in [Chain -> Context]
         /\ store.out \in [Segs -> Translation] /\ store.clip \in [Segs -> Translation]
         /\ store.mixed \in [Segs -> Translation] /\ store.made \in BOOLEAN
         /\ \A k \in store.saved : /\ store.ckpt[k] \in Context
                                   /\ store.ckpt[k].segs \in [Segs -> Segment]
                                   /\ store.ckpt[k].clips \subseteq Segs
<1>1. store \in StoreType
  BY Standing
<1>2. store.saved \subseteq Chain /\ store.ckpt \in [Chain -> Context]
  BY <1>1 DEF StoreType
<1>3. \A k \in store.saved : store.ckpt[k] \in Context
  BY <1>2
<1> QED
  BY <1>1, <1>2, <1>3 DEF StoreType, Context

LEMMA StoreStays == ASSUME store' = store PROVE ClipsStay /\ ObjectsStay
BY DEF ClipsStay, ObjectsStay

LEMMA GoesOnThere == ASSUME run \in RunType, NEW step, Goes(step) PROVE Continues(step)
BY DEF Goes, RunType, Continues

LEMMA NextStageThere ==
  ASSUME run \in RunType, run.at \in Chain, NextStage
  PROVE  /\ run'.first = run.first /\ run'.mixed = run.mixed
         /\ \/ run.at = Mixing /\ run'.step = "done" /\ run'.at = run.at
            \/ run.at # Mixing /\ run'.step = "boundary" /\ run'.at = run.at + 1
BY DEF NextStage, RunType

LEMMA EndsThere == Ends => Ended
BY DEF Ends, Ended, NoRun, Preparing

LEMMA PausesThere ==
  ASSUME TypeInv, NEW stage, Pauses(stage)
  PROVE  /\ Ended /\ Abandons /\ row'.segs = row.segs /\ row'.stage = stage
         /\ row'.status = "paused"
<1>1. row \in RowType
  BY Standing
<1> QED
  BY <1>1, EndsThere DEF Pauses, Abandons, RowType

LEMMA FailsThere ==
  ASSUME TypeInv, Fails
  PROVE  /\ Ended /\ row'.segs = row.segs /\ row'.stage = row.stage /\ row'.status = "failed"
<1>1. row \in RowType
  BY Standing
<1> QED
  BY <1>1, EndsThere DEF Fails, Abandons, RowType

LEMMA BeginsThere ==
  ASSUME TypeInv, Begins
  PROVE  /\ run'.step = "preflight" /\ run'.at = 0 /\ run'.mixed = 0 /\ run'.first = FirstStage
         /\ ctx'.segs = row.segs /\ ctx'.clips = {}
         /\ ctx'.inv = IF msg.start # NoStage \/ msg.force THEN {FirstStage} ELSE {}
         /\ row'.segs = row.segs /\ row'.stage = row.stage /\ row'.status = "processing"
<1>1. row \in RowType
  BY Standing
<1> QED
  BY <1>1 DEF Begins, NoRun, RebuiltContext, NoContext, RowType, Preparing

LEMMA FindsThere ==
  ASSUME TypeInv, FindsOutput
  PROVE  /\ msg.start = NoStage /\ store.made /\ run' = run /\ ctx' = ctx
         /\ row'.segs = row.segs /\ row'.stage = row.stage /\ row'.status = "completed"
<1>1. row \in RowType
  BY Standing
<1> QED
  BY <1>1 DEF FindsOutput, RowType

\* What preflight does, when it does not pause.
LEMMA PreflightThere ==
  ASSUME TypeInv, Preflight
  PROVE  /\ UNCHANGED <<setting, msg, store, pool>> /\ run.step = "preflight"
         /\ \/ /\ Ended /\ Abandons /\ row'.segs = row.segs /\ row'.stage = PreflightStage
               /\ row'.status = "paused"
            \/ /\ ctx' = ctx /\ stale' = stale /\ left' = left /\ row'.segs = row.segs
               /\ row'.status = row.status
               /\ row'.stage = IF PreflightStage = Preparing THEN Preparing ELSE row.stage
               /\ run'.first = run.first /\ run'.mixed = run.mixed /\ run'.at = EntryStage
               /\ run'.step = IF setting.long /\ run.first <= Transcribing
                              THEN "front" ELSE "boundary"
<1>1. row \in RowType /\ run \in RunType
  BY Standing
<1>2. UNCHANGED <<setting, msg, store, pool>> /\ run.step = "preflight"
  BY DEF Preflight
<1> DEFINE reported == [row EXCEPT !.stage = IF PreflightStage = Preparing THEN Preparing ELSE @]
<1>3. reported.segs = row.segs /\ reported.status = row.status /\ reported \in [status : Statuses, stage : {reported.stage}, segs : {row.segs}]
      /\ reported.stage = IF PreflightStage = Preparing THEN Preparing ELSE row.stage
  BY <1>1 DEF RowType
<1>4. CASE row' = [reported EXCEPT !.status = "paused", !.stage = PreflightStage] /\ Abandons
  <2>1. row'.segs = row.segs /\ row'.stage = PreflightStage /\ row'.status = "paused"
    BY <1>3, <1>4
  <2> QED
    BY <1>2, <1>4, <2>1, EndsThere DEF Abandons
<1>5. CASE /\ row' = reported
           /\ run' = [run EXCEPT
                 !.step = IF setting.long /\ run.first <= Transcribing
                          THEN "front" ELSE "boundary",
                 !.at = EntryStage]
           /\ UNCHANGED <<ctx, stale, left>>
  <2>1. /\ run'.first = run.first /\ run'.mixed = run.mixed /\ run'.at = EntryStage
        /\ run'.step = IF setting.long /\ run.first <= Transcribing
                       THEN "front" ELSE "boundary"
    BY <1>1, <1>5 DEF RunType
  <2> QED
    BY <1>2, <1>3, <1>5, <2>1
<1> QED
  BY <1>2, <1>4, <1>5 DEF Preflight

\* How a stage begins, when it does not pause.
LEMMA BeginStageThere ==
  ASSUME TypeInv, BeginStage
  PROVE  /\ UNCHANGED <<setting, msg, store, pool>> /\ At("boundary") /\ run.step = "boundary"
         /\ run.at \in 1 .. 7
         /\ \/ Pauses(run.at) /\ ~setting.long
            \/ /\ UNCHANGED <<stale, left>>
               /\ row'.segs = row.segs /\ row'.stage = run.at /\ row'.status = row.status
               /\ \/ setting.long /\ ctx' = ctx /\ Continues("process")
                  \/ /\ ~setting.long /\ ctx' = ContextAfterRestore
                     /\ Continues(IF Restores THEN "persist" ELSE "process")
<1>1. row \in RowType /\ run \in RunType
  BY Standing
<1>2. /\ UNCHANGED <<setting, msg, store, pool>> /\ At("boundary") /\ run.step = "boundary"
      /\ run.at \in 1 .. 7
  BY DEF BeginStage, At, TypeInv, AtAStage, Chain
<1>3. CASE Short /\ Pauses(run.at)
  BY <1>2, <1>3 DEF Short
<1>4. CASE ~(Short /\ Pauses(run.at))
  <2>1. UNCHANGED <<stale, left>> /\ row' = [row EXCEPT !.stage = run.at]
    BY <1>4 DEF BeginStage
  <2>2. row'.segs = row.segs /\ row'.stage = run.at /\ row'.status = row.status
    BY <1>1, <2>1 DEF RowType
  <2>3. CASE Short
    BY <1>1, <1>2, <1>4, <2>1, <2>2, <2>3, GoesOnThere DEF BeginStage, Short
  <2>4. CASE ~Short
    BY <1>1, <1>2, <1>4, <2>1, <2>2, <2>4, GoesOnThere DEF BeginStage, Short
  <2> QED
    BY <2>3, <2>4
<1> QED
  BY <1>3, <1>4

\* The stages up to transcription.
LEMMA EarlyStagesThere ==
  ASSUME TypeInv, Separate \/ Diarize \/ Transcribe
  PROVE  /\ UNCHANGED <<setting, msg, pool>> /\ At("process") /\ run.step = "process"
         /\ run.at \in {1, 2, 3} /\ ObjectsStay /\ store'.clip = store.clip
         /\ \/ Pauses(run.at) /\ run.at = 2
            \/ /\ UNCHANGED <<row, stale, left>> /\ Continues("persist")
               /\ ctx'.clips = ctx.clips /\ ctx'.inv = ctx.inv
               /\ \/ run.at = 1 /\ ctx'.segs = ctx.segs
                  \/ run.at = 2 /\ ctx'.segs = NewSegments(Textless)
                  \/ run.at = 3 /\ ctx'.segs = NewSegments(run.no)
<1> USE StageNumbers
<1>1. run \in RunType /\ ctx \in Context /\ store \in StoreType
  BY Standing
<1>2. CASE Separate
  <2>1. ctx'.clips = ctx.clips /\ ctx'.inv = ctx.inv /\ ctx'.segs = ctx.segs
    BY <1>1, <1>2 DEF Separate, Context
  <2>2. ObjectsStay /\ store'.clip = store.clip
    BY <1>1, <1>2 DEF Separate, StoreType, ObjectsStay
  <2>3. Continues("persist")
    BY <1>1, <1>2, GoesOnThere DEF Separate
  <2> QED
    BY <1>2, <2>1, <2>2, <2>3 DEF Separate, Processing, At
<1>3. CASE Diarize
  <2>1. CASE Pauses(Diarizing)
    BY <1>3, <2>1 DEF Diarize, Processing, At, ObjectsStay
  <2>2. CASE ~Pauses(Diarizing)
    <3>1. ctx'.clips = ctx.clips /\ ctx'.inv = ctx.inv /\ ctx'.segs = NewSegments(Textless)
      BY <1>1, <1>3, <2>2 DEF Diarize, Context
    <3>2. Continues("persist")
      BY <1>1, <1>3, <2>2, GoesOnThere DEF Diarize
    <3> QED
      BY <1>3, <2>2, <3>1, <3>2 DEF Diarize, Processing, At, ObjectsStay
  <2> QED
    BY <2>1, <2>2
<1>4. CASE Transcribe
  <2>1. ctx'.clips = ctx.clips /\ ctx'.inv = ctx.inv /\ ctx'.segs = NewSegments(run.no)
    BY <1>1, <1>4 DEF Transcribe, Context
  <2>2. Continues("persist")
    BY <1>1, <1>4, GoesOnThere DEF Transcribe
  <2> QED
    BY <1>4, <2>1, <2>2 DEF Transcribe, Processing, At, ObjectsStay
<1> QED
  BY <1>2, <1>3, <1>4

\* What translation makes of the segments.
NewlyTranslated(others) ==
    \A s \in Segs :
        IF s \in Translatable(ctx.segs)
        THEN /\ others[s].trans = [of |-> ctx.segs[s].text, by |-> run.no]
             /\ others[s].text = ctx.segs[s].text /\ ~others[s].url
        ELSE others[s] = ctx.segs[s]

LEMMA TranslateThere ==
  ASSUME TypeInv, Translate
  PROVE  /\ UNCHANGED <<setting, msg, store, pool>> /\ At("process") /\ run.step = "process"
         /\ run.at = 4
         /\ \/ Pauses(Translating) \/ Fails
            \/ /\ UNCHANGED <<row, stale, left>> /\ Continues("persist")
               /\ \/ Translatable(ctx.segs) = {} /\ ctx' = ctx
                  \/ /\ Translatable(ctx.segs) # {} /\ NewlyTranslated(ctx'.segs)
                     /\ ctx'.inv = ctx.inv \cup {5, 6, 7} /\ ctx'.clips = {}
<1> USE StageNumbers
<1>1. run \in RunType /\ ctx \in Context /\ ctx.segs \in [Segs -> Segment]
  BY Standing
<1>2. /\ UNCHANGED <<setting, msg, store, pool>> /\ At("process") /\ run.step = "process"
      /\ run.at = 4
  BY DEF Translate, Processing, At
<1> DEFINE pending == Translatable(ctx.segs)
<1>3. CASE Pauses(Translating) \/ Fails
  BY <1>2, <1>3
<1>4. CASE ~Pauses(Translating) /\ ~Fails
  <2>1. /\ run' = [run EXCEPT !.step = "persist", !.paid = Pay(pending)]
        /\ ctx' = IF pending = {} THEN ctx
                  ELSE [ctx EXCEPT
                          !.segs = [s \in Segs |->
                              IF s \in pending
                              THEN [ctx.segs[s] EXCEPT
                                       !.trans = [of |-> ctx.segs[s].text, by |-> run.no],
                                       !.url = FALSE]
                              ELSE ctx.segs[s]],
                          !.clips = {}, !.out = FALSE,
                          !.inv = @ \cup {Synthesizing, Aligning, Mixing}]
        /\ UNCHANGED <<row, stale, left>>
    BY <1>4 DEF Translate
  <2>2. Continues("persist")
    BY <1>1, <2>1 DEF RunType, Continues
  <2>3. CASE pending = {}
    BY <1>2, <2>1, <2>2, <2>3
  <2>4. CASE pending # {}
    <3>1. /\ ctx'.inv = ctx.inv \cup {5, 6, 7} /\ ctx'.clips = {}
          /\ ctx'.segs = [s \in Segs |->
                              IF s \in pending
                              THEN [ctx.segs[s] EXCEPT
                                       !.trans = [of |-> ctx.segs[s].text, by |-> run.no],
                                       !.url = FALSE]
                              ELSE ctx.segs[s]]
      BY <1>1, <2>1, <2>4 DEF Context
    <3> HIDE DEF pending
    <3>2. ASSUME NEW s \in Segs
          PROVE  IF s \in pending
                 THEN /\ ctx'.segs[s].trans = [of |-> ctx.segs[s].text, by |-> run.no]
                      /\ ctx'.segs[s].text = ctx.segs[s].text /\ ~ctx'.segs[s].url
                 ELSE ctx'.segs[s] = ctx.segs[s]
      <4>1. ctx.segs[s] \in Segment
        BY <1>1
      <4>2. CASE s \in pending
        <5>1. ctx'.segs[s] = [ctx.segs[s] EXCEPT
                                 !.trans = [of |-> ctx.segs[s].text, by |-> run.no],
                                 !.url = FALSE]
          BY <3>1, <4>2
        <5> QED
          BY <4>1, <4>2, <5>1 DEF Segment
      <4>3. CASE s \notin pending
        BY <3>1, <4>3
      <4> QED
        BY <4>2, <4>3
    <3>3. NewlyTranslated(ctx'.segs)
      BY <3>2 DEF NewlyTranslated, pending
    <3> QED
      BY <1>2, <2>1, <2>2, <2>4, <3>1, <3>3 DEF pending
  <2> QED
    BY <2>3, <2>4
<1> QED
  BY <1>3, <1>4

\* The segments of the context, with the clips of some of them named.
Renamed(others, who) ==
    \A s \in Segs :
        /\ others[s].text = ctx.segs[s].text /\ others[s].trans = ctx.segs[s].trans
        /\ others[s].url <=> (s \in who \/ ctx.segs[s].url)

LEMMA UrlsThere == ASSUME TypeInv, NEW who PROVE Renamed(WithUrls(who), who)
<1>1. ctx.segs \in [Segs -> Segment]
  BY Standing
<1>2. ASSUME NEW s \in Segs
      PROVE  /\ WithUrls(who)[s].text = ctx.segs[s].text
             /\ WithUrls(who)[s].trans = ctx.segs[s].trans
             /\ WithUrls(who)[s].url <=> (s \in who \/ ctx.segs[s].url)
  <2>1. ctx.segs[s] \in Segment
    BY <1>1
  <2>2. WithUrls(who)[s] = IF s \in who THEN [ctx.segs[s] EXCEPT !.url = TRUE] ELSE ctx.segs[s]
    BY DEF WithUrls
  <2> QED
    BY <2>1, <2>2 DEF Segment
<1> QED
  BY <1>2 DEF Renamed

LEMMA SynthesizeThere ==
  ASSUME TypeInv, Synthesize
  PROVE  /\ UNCHANGED <<setting, msg, store, pool, left>> /\ At("process")
         /\ run.step = "process" /\ run.at = 5
         /\ \/ ~HasSegments(ctx.segs) /\ UNCHANGED <<row, ctx, stale>> /\ Continues("persist")
            \/ Fails
            \/ /\ Translated(ctx.segs) # {} /\ ctx'.clips = Reusable /\ ctx'.inv = ctx.inv
               /\ ctx'.segs = WithUrls(Reusable) /\ Renamed(ctx'.segs, Reusable)
               /\ row'.segs \in {row.segs, ctx'.segs} /\ row'.stage = row.stage
               /\ row'.status = row.status
               /\ Continues("synth") /\ stale' = stale
<1> USE StageNumbers
<1>1. run \in RunType /\ ctx \in Context /\ row \in RowType
  BY Standing
<1>2. /\ UNCHANGED <<setting, msg, store, pool, left>> /\ At("process")
      /\ run.step = "process" /\ run.at = 5
  BY DEF Synthesize, Processing, At
<1>3. CASE ~HasSegments(ctx.segs) /\ Goes("persist") /\ UNCHANGED <<row, ctx, stale>>
  BY <1>1, <1>2, <1>3, GoesOnThere
<1>4. CASE Fails
  BY <1>2, <1>4
<1>5. CASE /\ Translated(ctx.segs) # {}
           /\ ctx' = [ctx EXCEPT !.clips = Reusable, !.aligned = FALSE, !.segs = WithUrls(Reusable)]
           /\ row' = IF Reusable = Translated(ctx.segs) THEN row
                     ELSE [row EXCEPT !.segs = WithUrls(Reusable)]
           /\ Goes("synth") /\ UNCHANGED stale
  <2>1. ctx'.clips = Reusable /\ ctx'.inv = ctx.inv /\ ctx'.segs = WithUrls(Reusable)
    BY <1>1, <1>5 DEF Context
  <2>2. /\ row'.segs \in {row.segs, WithUrls(Reusable)} /\ row'.stage = row.stage
        /\ row'.status = row.status
    BY <1>1, <1>5 DEF RowType
  <2>3. Renamed(ctx'.segs, Reusable)
    BY <2>1, UrlsThere
  <2> QED
    BY <1>1, <1>2, <1>5, <2>1, <2>2, <2>3, GoesOnThere
<1> QED
  BY <1>3, <1>4, <1>5 DEF Synthesize

\* A thread speaks.
LEMMA SpeakThere ==
  ASSUME TypeInv, NEW s \in Segs, SpeakSegment(s)
  PROVE  /\ UNCHANGED <<setting, row, msg, run, pool, stale, left>> /\ At("synth")
         /\ run.step = "synth"
         /\ s \in Translated(ctx.segs) /\ s \notin ctx.clips /\ ~ctx.segs[s].url
         /\ ObjectsStay /\ \A t \in Segs : store'.clip[t] = IF t = s THEN ctx.segs[s].trans ELSE store.clip[t]
         /\ ctx'.clips = ctx.clips /\ ctx'.inv = ctx.inv /\ Renamed(ctx'.segs, {s})
<1>1. ctx \in Context /\ store \in StoreType
  BY Standing
<1>2. ctx'.clips = ctx.clips /\ ctx'.inv = ctx.inv /\ ctx'.segs = WithUrls({s})
  BY <1>1 DEF SpeakSegment, Context
<1>3. ObjectsStay /\ store'.clip = SpokenBy({s})
  BY <1>1 DEF SpeakSegment, StoreType, ObjectsStay
<1>4. \A t \in Segs : store'.clip[t] = IF t = s THEN ctx.segs[s].trans ELSE store.clip[t]
  BY <1>3 DEF SpokenBy
<1> QED
  BY <1>2, <1>3, <1>4, UrlsThere DEF SpeakSegment, Unspoken, Uncollected, At

LEMMA CollectThere ==
  ASSUME TypeInv, NEW s \in Segs, CollectClip(s)
  PROVE  /\ UNCHANGED <<setting, msg, store, run, pool, stale, left>> /\ At("synth")
         /\ run.step = "synth"
         /\ s \in Translated(ctx.segs) /\ ctx.segs[s].url
         /\ ctx'.clips = ctx.clips \cup {s} /\ ctx'.inv = ctx.inv /\ ctx'.segs = ctx.segs
         /\ row'.segs \in {row.segs, ctx.segs} /\ row'.stage = row.stage
         /\ row'.status = row.status
<1>1. ctx \in Context /\ row \in RowType
  BY Standing
<1>2. ctx'.clips = ctx.clips \cup {s} /\ ctx'.inv = ctx.inv /\ ctx'.segs = ctx.segs
  BY <1>1 DEF CollectClip, Context
<1>3. row'.segs \in {row.segs, ctx.segs} /\ row'.stage = row.stage /\ row'.status = row.status
  BY <1>1 DEF CollectClip, RowType
<1> QED
  BY <1>2, <1>3 DEF CollectClip, Unspoken, Uncollected, At

\* Synthesis that stops leaves clips of the translations it was given.
LEMMA StopsThere ==
  ASSUME TypeInv, SynthesisStops
  PROVE  /\ UNCHANGED <<setting, msg, pool>> /\ At("synth") /\ run.step = "synth"
         /\ ObjectsStay
         /\ \A t \in Segs : \/ store'.clip[t] = store.clip[t]
                            \/ /\ store'.clip[t] = ctx.segs[t].trans
                               /\ ctx.segs[t].trans # NoTranslation
         /\ Pauses(Synthesizing) \/ Fails
<1>1. store \in StoreType
  BY Standing
<1>2. PICK done \in SUBSET Unspoken : store' = [store EXCEPT !.clip = SpokenBy(done)]
  BY DEF SynthesisStops
<1>3. ObjectsStay /\ store'.clip = SpokenBy(done)
  BY <1>1, <1>2 DEF StoreType, ObjectsStay
<1>4. \A t \in Segs : store'.clip[t] = IF t \in done THEN ctx.segs[t].trans ELSE store.clip[t]
  BY <1>3 DEF SpokenBy
<1>5. \A t \in done : ctx.segs[t].trans # NoTranslation
  BY <1>2 DEF Unspoken, Uncollected, Translated
<1> QED
  BY <1>3, <1>4, <1>5 DEF SynthesisStops, At

LEMMA SynthesisEndsThere ==
  ASSUME TypeInv, SynthesisEnds
  PROVE  /\ UNCHANGED <<setting, row, msg, store, ctx, pool, stale, left>> /\ At("synth")
         /\ run.step = "synth" /\ Continues("persist") /\ Translated(ctx.segs) \subseteq ctx.clips
<1>1. run \in RunType
  BY Standing
<1> QED
  BY <1>1, GoesOnThere DEF SynthesisEnds, Uncollected, Translated, At

LEMMA AlignThere ==
  ASSUME TypeInv, Align
  PROVE  /\ UNCHANGED <<setting, msg, store, pool, left>> /\ At("process")
         /\ run.step = "process" /\ run.at = 6
         /\ \/ Fails
            \/ /\ UNCHANGED <<row, stale>> /\ Continues("persist") /\ ctx.clips # {}
               /\ ctx'.segs = ctx.segs /\ ctx'.clips = ctx.clips /\ ctx'.inv = ctx.inv
<1> USE StageNumbers
<1>1. ctx \in Context /\ run \in RunType
  BY Standing
<1>2. CASE Fails
  BY <1>2 DEF Align, Processing, At
<1>3. CASE ~Fails
  <2>1. ctx'.segs = ctx.segs /\ ctx'.clips = ctx.clips /\ ctx'.inv = ctx.inv
    BY <1>1, <1>3 DEF Align, Context
  <2> QED
    BY <1>1, <1>3, <2>1, GoesOnThere DEF Align, Processing, At
<1> QED
  BY <1>2, <1>3

LEMMA MixShortThere ==
  ASSUME TypeInv, MixShort
  PROVE  /\ UNCHANGED <<setting, msg, pool, left>> /\ At("process")
         /\ run.step = "process" /\ run.at = 7 /\ ~setting.long
         /\ store'.clip = store.clip /\ store'.saved = store.saved
         /\ store'.ckpt = store.ckpt /\ store'.mixed = store.mixed
         /\ \/ Fails /\ store' = store
            \/ /\ UNCHANGED <<row, stale>> /\ Continues("persist") /\ ctx.clips # {}
               /\ ctx'.segs = ctx.segs /\ ctx'.clips = ctx.clips /\ ctx'.inv = ctx.inv
               /\ store'.made
               /\ \A s \in Segs :
                     store'.out[s] = IF s \in ctx.clips THEN store.clip[s] ELSE NoTranslation
<1> USE StageNumbers
<1>1. ctx \in Context /\ run \in RunType /\ store \in StoreType
  BY Standing
<1>2. /\ UNCHANGED <<setting, msg, pool, left>> /\ At("process")
      /\ run.step = "process" /\ run.at = 7 /\ ~setting.long
  BY DEF MixShort, Processing, At, Short
<1>3. CASE Fails /\ store' = store
  BY <1>2, <1>3
<1>4. CASE ~(Fails /\ store' = store)
  <2>1. /\ store' = [store EXCEPT !.made = TRUE, !.bg = ctx.tracks, !.out = Heard]
        /\ ctx' = [ctx EXCEPT !.out = TRUE]
        /\ UNCHANGED <<row, stale>> /\ Goes("persist") /\ ctx.clips # {}
    BY <1>4 DEF MixShort
  <2>2. ctx'.segs = ctx.segs /\ ctx'.clips = ctx.clips /\ ctx'.inv = ctx.inv
    BY <1>1, <2>1 DEF Context
  <2>3. /\ store'.clip = store.clip /\ store'.saved = store.saved
        /\ store'.ckpt = store.ckpt /\ store'.mixed = store.mixed
        /\ store'.made = TRUE /\ store'.out = Heard
    BY <1>1, <2>1 DEF StoreType
  <2> QED
    BY <1>1, <1>2, <2>1, <2>2, <2>3, GoesOnThere DEF Heard
<1> QED
  BY <1>3, <1>4

LEMMA MixChunkThere ==
  ASSUME TypeInv, MixChunk
  PROVE  /\ UNCHANGED <<setting, msg, pool, left>> /\ At("process")
         /\ run.step = "process" /\ run.at = 7 /\ setting.long
         /\ store'.clip = store.clip /\ store'.saved = store.saved
         /\ store'.ckpt = store.ckpt /\ store'.made = store.made /\ store'.out = store.out
         /\ run.mixed \in Nat
         /\ \/ Fails
            \/ /\ UNCHANGED <<row, ctx, stale>> /\ ctx.clips # {}
               /\ run'.step = run.step /\ run'.at = run.at /\ run'.first = run.first
               /\ run'.mixed = run.mixed + 1
               /\ \A s \in Segs :
                     store'.mixed[s] =
                        IF s = run.mixed + 1
                           /\ (Mixing \in ctx.inv \/ store.mixed[s] = NoTranslation)
                        THEN IF s \in ctx.clips THEN store.clip[s] ELSE NoTranslation
                        ELSE store.mixed[s]
<1> USE StageNumbers
<1>1. ctx \in Context /\ run \in RunType /\ store \in StoreType
      /\ store.mixed \in [Segs -> Translation]
  BY Standing
<1>2. /\ UNCHANGED <<setting, msg, pool, left>> /\ At("process")
      /\ run.step = "process" /\ run.at = 7 /\ setting.long
  BY DEF MixChunk, Processing, At, Short
<1>3. run.mixed \in Nat
  BY <1>1 DEF RunType
<1> DEFINE c == run.mixed + 1
<1>4. \/ store' = store
      \/ store' = [store EXCEPT !.mixed[c] = Heard[c]]
  BY DEF MixChunk
<1>5. /\ store'.clip = store.clip /\ store'.saved = store.saved
      /\ store'.ckpt = store.ckpt /\ store'.made = store.made /\ store'.out = store.out
  BY <1>1, <1>4 DEF StoreType
<1>6. CASE Fails
  BY <1>2, <1>3, <1>5, <1>6
<1>7. CASE ~Fails
  <2>1. /\ store' = IF Mixing \notin ctx.inv /\ store.mixed[c] # NoTranslation THEN store
                    ELSE [store EXCEPT !.mixed[c] = Heard[c]]
        /\ run' = [run EXCEPT !.mixed = c]
        /\ UNCHANGED <<row, ctx, stale>> /\ ctx.clips # {} /\ run.mixed < NSegs
    BY <1>7 DEF MixChunk
  <2>2. /\ run'.step = run.step /\ run'.at = run.at /\ run'.first = run.first
        /\ run'.mixed = run.mixed + 1
    BY <1>1, <2>1 DEF RunType
  <2>3. c \in Segs
    BY <1>3, <2>1, PipelineAssumption DEF Segs
  <2>4. Heard[c] = IF c \in ctx.clips THEN store.clip[c] ELSE NoTranslation
    BY <2>3 DEF Heard
  <2>5. \A s \in Segs :
           store'.mixed[s] = IF s = c /\ (Mixing \in ctx.inv \/ store.mixed[s] = NoTranslation)
                             THEN IF s \in ctx.clips THEN store.clip[s] ELSE NoTranslation
                             ELSE store.mixed[s]
    <3>1. CASE Mixing \notin ctx.inv /\ store.mixed[c] # NoTranslation
      BY <2>1, <3>1
    <3>2. CASE ~(Mixing \notin ctx.inv /\ store.mixed[c] # NoTranslation)
      <4>1. store'.mixed = [store.mixed EXCEPT ![c] = Heard[c]]
        BY <1>1, <2>1, <3>2 DEF StoreType
      <4> QED
        BY <1>1, <2>3, <2>4, <3>2, <4>1
    <3> QED
      BY <3>1, <3>2
  <2> QED
    BY <1>2, <1>3, <1>5, <2>1, <2>2, <2>5
<1> QED
  BY <1>6, <1>7

LEMMA JoinThere ==
  ASSUME TypeInv, JoinChunks
  PROVE  /\ UNCHANGED <<setting, row, msg, pool, stale, left>> /\ At("process")
         /\ run.step = "process" /\ run.at = 7 /\ setting.long
         /\ run.mixed = NSegs /\ Continues("persist")
         /\ store'.clip = store.clip /\ store'.saved = store.saved
         /\ store'.ckpt = store.ckpt /\ store'.mixed = store.mixed
         /\ store'.made /\ store'.out = store.mixed
         /\ ctx'.segs = ctx.segs /\ ctx'.clips = ctx.clips /\ ctx'.inv = ctx.inv
<1> USE StageNumbers
<1>1. ctx \in Context /\ run \in RunType /\ store \in StoreType
  BY Standing
<1>2. ctx'.segs = ctx.segs /\ ctx'.clips = ctx.clips /\ ctx'.inv = ctx.inv
  BY <1>1 DEF JoinChunks, Context
<1>3. /\ store'.clip = store.clip /\ store'.saved = store.saved
      /\ store'.ckpt = store.ckpt /\ store'.mixed = store.mixed
      /\ store'.made = TRUE /\ store'.out = store.mixed
  BY <1>1 DEF JoinChunks, StoreType
<1> QED
  BY <1>1, <1>2, <1>3, GoesOnThere DEF JoinChunks, Processing, At, Short

\* What is written after a stage.
LEMMA PersistThere ==
  ASSUME TypeInv, PersistStage
  PROVE  /\ UNCHANGED <<setting, msg, store, pool, stale, left>> /\ At("persist")
         /\ run.step = "persist" /\ run.at \in 1 .. 7
         /\ row'.segs = IF run.at >= Diarizing /\ HasSegments(ctx.segs) THEN ctx.segs
                        ELSE row.segs
         /\ row'.stage = row.stage /\ row'.status = row.status
         /\ ctx'.segs = ctx.segs /\ ctx'.clips = ctx.clips /\ ctx'.inv = ctx.inv \ {run.at}
         /\ run'.first = run.first /\ run'.mixed = run.mixed
         /\ \/ ~setting.long /\ Continues("save")
            \/ setting.long /\ run.at = 7 /\ run'.step = "done" /\ run'.at = run.at
            \/ setting.long /\ run.at # 7 /\ run'.step = "boundary" /\ run'.at = run.at + 1
<1> USE StageNumbers
<1>1. /\ ctx \in Context /\ run \in RunType /\ row \in RowType
      /\ run.step = "persist" /\ run.at \in 1 .. 7
  BY Standing DEF PersistStage, At, TypeInv, AtAStage
<1>2. ctx'.segs = ctx.segs /\ ctx'.clips = ctx.clips /\ ctx'.inv = ctx.inv \ {run.at}
  BY <1>1 DEF PersistStage, Context
<1>3. /\ row'.segs = IF run.at >= Diarizing /\ HasSegments(ctx.segs) THEN ctx.segs ELSE row.segs
      /\ row'.stage = row.stage /\ row'.status = row.status
  BY <1>1 DEF PersistStage, WritesRows, RowType
<1>4. CASE Short
  <2>1. Continues("save") /\ ~setting.long
    BY <1>1, <1>4, GoesOnThere DEF PersistStage, Short
  <2> QED
    BY <1>1, <1>2, <1>3, <2>1 DEF PersistStage, Continues
<1>5. CASE ~Short
  <2>1. NextStage /\ setting.long
    BY <1>5 DEF PersistStage, Short
  <2> QED
    BY <1>1, <1>2, <1>3, <2>1, NextStageThere DEF PersistStage
<1> QED
  BY <1>4, <1>5

LEMMA SaveThere ==
  ASSUME TypeInv, LostInv, SaveCheckpoint
  PROVE  /\ UNCHANGED <<setting, row, msg, ctx, pool, stale>> /\ At("save")
         /\ run.step = "save" /\ run.at \in 1 .. 7 /\ ~setting.long
         /\ store'.clip = store.clip /\ store'.mixed = store.mixed
         /\ store'.made = store.made /\ store'.out = store.out
         /\ \/ store'.saved = store.saved /\ store'.ckpt = store.ckpt
            \/ /\ store'.saved = store.saved \cup {run.at}
               /\ store'.ckpt[run.at] = ctx
               /\ \A k \in Chain : k # run.at => store'.ckpt[k] = store.ckpt[k]
         /\ run'.first = run.first /\ run'.mixed = run.mixed
         /\ \/ run.at = 7 /\ run'.step = "done" /\ run'.at = run.at
            \/ run.at # 7 /\ run'.step = "boundary" /\ run'.at = run.at + 1
<1> USE StageNumbers
<1>1. /\ run \in RunType /\ store \in StoreType
      /\ run.step = "save" /\ run.at \in 1 .. 7 /\ run.at \in Chain /\ At("save")
  BY Standing DEF SaveCheckpoint, At, TypeInv, AtAStage
<1>2. ~setting.long
  BY <1>1, InChainKnown DEF RowInChain
<1>3. CASE UNCHANGED store
  BY <1>1, <1>2, <1>3, NextStageThere DEF SaveCheckpoint
<1>4. CASE store' = [store EXCEPT !.saved = @ \cup {run.at}, !.ckpt[run.at] = ctx]
  <2>1. /\ store'.clip = store.clip /\ store'.mixed = store.mixed
        /\ store'.made = store.made /\ store'.out = store.out
        /\ store'.saved = store.saved \cup {run.at}
        /\ store'.ckpt = [store.ckpt EXCEPT ![run.at] = ctx]
        /\ store.ckpt \in [Chain -> Context]
    BY <1>1, <1>4 DEF StoreType
  <2> QED
    BY <1>1, <1>2, <2>1, NextStageThere DEF SaveCheckpoint
<1> QED
  BY <1>3, <1>4 DEF SaveCheckpoint

LEMMA EstimatorThere ==
  ASSUME TypeInv, LostInv, Estimator
  PROVE  /\ UNCHANGED <<setting, msg, store, ctx, pool, stale, left>>
         /\ row'.segs = row.segs /\ row'.status = row.status
         /\ run'.step = run.step /\ run'.at = run.at /\ run'.first = run.first
         /\ run'.mixed = run.mixed
         /\ InTheChain /\ Floor <= run.at
         /\ \/ row' = row
            \/ row'.stage = run.seen /\ run.seen \in Int /\ Floor <= run.seen /\ run.seen <= run.at
<1> USE StageNumbers
<1>1. run \in RunType /\ row \in RowType
  BY Standing
<1>2. CASE EstimatorReads
  <2>1. InTheChain
    BY <1>2 DEF EstimatorReads, InTheChain
  <2> QED
    BY <1>1, <1>2, <2>1 DEF EstimatorReads, RunType, LostInv, RowInChain
<1>3. CASE EstimatorWrites
  <2>1. run.step # "idle" /\ run.seen # NoStage
    BY <1>3 DEF EstimatorWrites, Alive
  <2>2. InTheChain
    BY <1>1, <2>1 DEF LostInv, InPreflight, InFront, At, RunType, Step, InTheChain
  <2>3. Floor <= run.at /\ Floor <= run.seen /\ run.seen <= run.at /\ run.seen \in Int
    BY <2>1, <2>2, Numbers DEF LostInv, RowInChain
  <2> QED
    BY <1>1, <1>3, <2>2, <2>3 DEF EstimatorWrites, RowType, RunType
<1> QED
  BY <1>2, <1>3 DEF Estimator

-----------------------------------------------------------------------------
(* The front half of a long recording.                                     *)

\* A thread changes the artifacts up to transcription and its own job.
LEMMA ThreadsThere ==
  ASSUME TypeInv, LostInv, ThreadStep
  PROVE  /\ UNCHANGED <<setting, row, msg, ctx, stale>> /\ InPools
         /\ run'.step = run.step /\ run'.at = run.at /\ run'.first = run.first
         /\ run'.mixed = run.mixed
         /\ ObjectsStay /\ store'.clip = store.clip
         /\ \A k \in Job, c \in Segs :
               \/ pool'.job[k][c] = pool.job[k][c]
               \/ /\ pool.job[k][c] \in {"queued", "running"}
                  /\ pool'.job[k][c] \in {"running", "ok", "paused", "failed"}
         /\ \A c \in Segs : pool'.trans[c] # NoTranslation =>
               pool.trans[c] # NoTranslation \/ setting.overlap
<1>1. /\ pool \in PoolType /\ pool.job \in JobType /\ store \in StoreType /\ run \in RunType
      /\ pool.trans \in [Segs -> Translation]
  BY Standing, PoolParts
<1> DEFINE Moves(k, c, state) ==
      /\ InPools /\ pool.job[k][c] \in {"queued", "running"} /\ pool'.job = Now(pool.job, k, c, state)
<1>2. ASSUME NEW k \in Job, NEW c \in Segs, NEW state \in {"running", "ok", "paused", "failed"},
             Moves(k, c, state)
      PROVE  \A j \in Job, d \in Segs :
               \/ pool'.job[j][d] = pool.job[j][d]
               \/ /\ pool.job[j][d] \in {"queued", "running"}
                  /\ pool'.job[j][d] \in {"running", "ok", "paused", "failed"}
  <2>1. state \in JobState
    BY <1>2 DEF JobState
  <2>2. \A j \in Job, d \in Segs :
            pool'.job[j][d] = IF j = k /\ d = c THEN state ELSE pool.job[j][d]
    BY <1>2, <2>1, JobMoved
  <2> QED
    BY <1>2, <2>2
<1>3. ASSUME NEW k \in Job, NEW c \in Segs, StartJob(k, c) \/ JobStops(k, c)
      PROVE  /\ UNCHANGED <<setting, row, msg, ctx, stale, store, run>> /\ pool'.trans = pool.trans
             /\ \E state \in {"running", "ok", "paused", "failed"} : Moves(k, c, state)
  BY <1>1, <1>3 DEF StartJob, JobStops, PoolType
<1>4. ASSUME NEW c \in Segs, SeparateChunk(c) \/ DiarizeChunk(c)
      PROVE  /\ UNCHANGED <<setting, row, msg, ctx, stale, run>> /\ pool'.trans = pool.trans
             /\ ObjectsStay /\ store'.clip = store.clip
             /\ \E k \in Job : Moves(k, c, "ok")
  <2>1. ObjectsStay /\ store'.clip = store.clip
    BY <1>1, <1>4 DEF SeparateChunk, DiarizeChunk, StoreType, ObjectsStay
  <2>2. pool'.trans = pool.trans /\ \E k \in Job : Moves(k, c, "ok")
    BY <1>1, <1>4, JobNames DEF SeparateChunk, DiarizeChunk, PoolType
  <2> QED
    BY <1>4, <2>1, <2>2 DEF SeparateChunk, DiarizeChunk
<1>5. ASSUME NEW c \in Segs, TranscribeChunk(c)
      PROVE  /\ UNCHANGED <<setting, row, msg, ctx, stale, run>> /\ pool'.trans = pool.trans
             /\ ObjectsStay /\ store'.clip = store.clip
             /\ Moves(Transcription, c, "ok")
  <2>1. ObjectsStay /\ store'.clip = store.clip
    BY <1>1, <1>5 DEF TranscribeChunk, StoreType, ObjectsStay
  <2>2. pool'.trans = pool.trans /\ Moves(Transcription, c, "ok")
    BY <1>1, <1>5, JobNames DEF TranscribeChunk, PoolType
  <2> QED
    BY <1>5, <2>1, <2>2 DEF TranscribeChunk
<1>6. ASSUME NEW c \in Segs, TranslateChunk(c)
      PROVE  /\ UNCHANGED <<setting, row, msg, ctx, stale, store>>
             /\ \A d \in Segs : d # c => pool'.trans[d] = pool.trans[d]
             /\ setting.overlap
             /\ run'.step = run.step /\ run'.at = run.at /\ run'.first = run.first
             /\ run'.mixed = run.mixed
             /\ Moves(Overlapped, c, "ok")
  <2>1. Moves(Overlapped, c, "ok") /\ UNCHANGED <<setting, row, msg, ctx, stale, store>>
        /\ pool'.trans = [pool.trans EXCEPT ![c] = [of |-> pool.text[c], by |-> run.no]]
    BY <1>1, <1>6, JobNames DEF TranslateChunk, PoolType
  <2>2. setting.overlap
    BY <1>1, <1>6, <2>1, InPoolsKnown DEF TranslateChunk
  <2>3. /\ run'.step = run.step /\ run'.at = run.at /\ run'.first = run.first
        /\ run'.mixed = run.mixed
    BY <1>1, <1>6 DEF TranslateChunk, RunType
  <2>4. \A d \in Segs : d # c => pool'.trans[d] = pool.trans[d]
    BY <1>1, <2>1
  <2> QED
    BY <2>1, <2>2, <2>3, <2>4
<1>7. ASSUME NEW k \in Job, NEW c \in Segs, NEW state \in {"running", "ok", "paused", "failed"},
             Moves(k, c, state)
      PROVE  InPools
  BY <1>7
<1> HIDE DEF Moves
<1>8. Overlapped \in Job /\ Transcription \in Job
  BY JobNames
<1> QED
  BY <1>2, <1>3, <1>4, <1>5, <1>6, <1>7, <1>8, StoreStays DEF ThreadStep

LEMMA FrontStartThere ==
  ASSUME TypeInv, FrontStart
  PROVE  /\ UNCHANGED <<setting, msg, store, stale, left>> /\ run.step = "front"
         /\ Continues("pools") /\ row'.segs = row.segs /\ row'.status = row.status
         /\ row'.stage = Separating
         /\ ctx'.segs = ctx.segs /\ ctx'.clips = ctx.clips /\ ctx.inv \subseteq ctx'.inv
         /\ ctx'.inv = Cascade(ctx.inv)
         /\ \A c \in Segs : /\ pool'.trans[c] = NoTranslation
                            /\ pool'.job[Transcription][c] = "none"
                            /\ pool'.job[Overlapped][c] = "none"
<1>1. run \in RunType /\ row \in RowType /\ ctx \in Context
  BY Standing
<1>2. /\ ctx'.segs = ctx.segs /\ ctx'.clips = ctx.clips /\ ctx'.inv = Cascade(ctx.inv)
      /\ ctx.inv \subseteq Cascade(ctx.inv)
  BY <1>1 DEF FrontStart, Context, Cascade
<1>3. row'.segs = row.segs /\ row'.status = row.status /\ row'.stage = Separating
  BY <1>1 DEF FrontStart, RowType
<1>4. \A c \in Segs : /\ pool'.trans[c] = NoTranslation
                      /\ pool'.job[Transcription][c] = "none"
                      /\ pool'.job[Overlapped][c] = "none"
  <2>1. /\ pool'.trans = [c \in Segs |-> NoTranslation]
        /\ pool'.job = [[k \in Job |-> [c \in Segs |-> "none"]] EXCEPT
                          ![Separation] = [c \in Segs |-> IF c \in FirstChunks THEN "queued" ELSE "none"]]
    BY DEF FrontStart, NoPool
  <2>2. Transcription # Separation /\ Overlapped # Separation
    BY DEF Transcription, Separation, Overlapped
  <2> QED
    BY <2>1, <2>2, JobNames
<1> QED
  BY <1>1, <1>2, <1>3, <1>4, GoesOnThere DEF FrontStart, At

\* The main thread takes a result.
LEMMA TakesThere ==
  ASSUME TypeInv, LostInv, NEW c \in Segs, TakeSeparated(c) \/ TakeDiarized(c) \/ TakeTranscribed(c)
  PROVE  /\ UNCHANGED <<setting, msg, store, run, stale, left>> /\ run.step = "pools"
         /\ pool'.trans = pool.trans
         /\ row'.status = row.status /\ row'.stage <= Transcribing
         /\ ctx'.segs = ctx.segs /\ ctx'.clips = ctx.clips /\ ctx'.inv \subseteq ctx.inv
         /\ \A i \in ctx.inv : i \notin {Separating, Diarizing} => i \in ctx'.inv
         /\ row'.segs \in {row.segs, NewSegments(Textless)}
         /\ \A d \in Segs :
               /\ pool'.job[Overlapped][d] \in {"queued", pool.job[Overlapped][d]}
               /\ pool'.job[Transcription][d] = "taken" =>
                     \/ pool.job[Transcription][d] = "taken"
                        /\ pool'.job[Overlapped][d] \in {"queued", pool.job[Overlapped][d]}
                     \/ setting.overlap => pool'.job[Overlapped][d] = "queued"
               /\ pool'.job[Overlapped][d] = "queued" =>
                     pool.job[Overlapped][d] = "queued" \/ setting.overlap
<1> USE StageNumbers
<1>1. /\ run \in RunType /\ row \in RowType /\ ctx \in Context /\ run.step = "pools" /\ InPools
      /\ pool \in PoolType /\ pool.job \in JobType /\ row.stage <= 3 /\ row.stage \in Int
  BY InPoolsKnown, Standing, Numbers
     DEF TakeSeparated, TakeDiarized, TakeTranscribed, At, InPools
<1>2. Separation = 1 /\ Diarization = 2 /\ Transcription = 3 /\ Overlapped = 4 /\ Job = 1 .. 4
  BY DEF Separation, Diarization, Transcription, Overlapped, Job
<1>3. CASE TakeSeparated(c)
  <2>1. /\ pool'.trans = pool.trans
        /\ pool'.job = Now(Now(pool.job, Separation, c, "taken"), Diarization, c, "queued")
    BY <1>1, <1>3 DEF TakeSeparated, PoolType
  <2>2. \A i \in Job, d \in Segs : i \notin {1, 2} => pool'.job[i][d] = pool.job[i][d]
    BY <1>1, <1>2, <2>1, TakenAndQueued
  <2>3. row'.status = row.status /\ row'.segs = row.segs /\ row'.stage <= Transcribing
    BY <1>1, <1>3 DEF TakeSeparated, RowType, Reported
  <2>4. ctx' \in {ctx, [ctx EXCEPT !.inv = @ \ {Separating}]}
    BY <1>3 DEF TakeSeparated
  <2>5. /\ ctx'.segs = ctx.segs /\ ctx'.clips = ctx.clips /\ ctx'.inv \subseteq ctx.inv
        /\ \A i \in ctx.inv : i \notin {Separating, Diarizing} => i \in ctx'.inv
    BY <1>1, <2>4 DEF Context
  <2>6. \A d \in Segs : /\ pool'.job[Overlapped][d] = pool.job[Overlapped][d]
                        /\ pool'.job[Transcription][d] = pool.job[Transcription][d]
    BY <1>2, <2>2
  <2> QED
    BY <1>1, <1>3, <2>1, <2>3, <2>5, <2>6 DEF TakeSeparated
<1>4. CASE TakeDiarized(c)
  <2>1. /\ pool'.trans = pool.trans
        /\ pool'.job = Now(Now(pool.job, Diarization, c, "taken"), Transcription, c, "queued")
    BY <1>1, <1>4 DEF TakeDiarized, PoolType
  <2>2. /\ \A i \in Job, d \in Segs : i \notin {2, 3} \/ d # c => pool'.job[i][d] = pool.job[i][d]
        /\ pool'.job[Transcription][c] = "queued"
    BY <1>1, <1>2, <2>1, TakenAndQueued
  <2>3. /\ row'.status = row.status /\ row'.segs \in {row.segs, NewSegments(Textless)}
        /\ row'.stage <= Transcribing
    BY <1>1, <1>4 DEF TakeDiarized, RowType, Reported
  <2>4. ctx' \in {ctx, [ctx EXCEPT !.inv = @ \ {Diarizing}]}
    BY <1>4 DEF TakeDiarized
  <2>5. /\ ctx'.segs = ctx.segs /\ ctx'.clips = ctx.clips /\ ctx'.inv \subseteq ctx.inv
        /\ \A i \in ctx.inv : i \notin {Separating, Diarizing} => i \in ctx'.inv
    BY <1>1, <2>4 DEF Context
  <2>6. \A d \in Segs : /\ pool'.job[Overlapped][d] = pool.job[Overlapped][d]
                        /\ pool'.job[Transcription][d] = "taken" => pool.job[Transcription][d] = "taken"
    BY <1>2, <2>2
  <2> QED
    BY <1>1, <1>4, <2>1, <2>3, <2>5, <2>6 DEF TakeDiarized
<1>5. CASE TakeTranscribed(c)
  <2>1. /\ pool'.trans = pool.trans
        /\ pool'.job = [k \in Job |-> [d \in Segs |->
                IF k = Transcription /\ d = c THEN "taken"
                ELSE IF k = Overlapped /\ d = c /\ setting.overlap THEN "queued"
                ELSE IF k = Separation /\ d = pool.next /\ MoreChunks THEN "queued"
                ELSE pool.job[k][d]]]
    BY <1>1, <1>5 DEF TakeTranscribed, PoolType
  <2>2. row'.status = row.status /\ row'.segs = row.segs /\ row'.stage = Transcribing
    BY <1>1, <1>5 DEF TakeTranscribed, RowType
  <2>3. ASSUME NEW d \in Segs
        PROVE  /\ pool'.job[4][d] = IF d = c /\ setting.overlap THEN "queued" ELSE pool.job[4][d]
               /\ pool'.job[3][d] = IF d = c THEN "taken" ELSE pool.job[3][d]
    BY <1>2, <2>1
  <2>4. ASSUME NEW d \in Segs
        PROVE  /\ pool'.job[Overlapped][d] \in {"queued", pool.job[Overlapped][d]}
               /\ pool'.job[Transcription][d] = "taken" =>
                     \/ pool.job[Transcription][d] = "taken"
                     \/ setting.overlap => pool'.job[Overlapped][d] = "queued"
               /\ pool'.job[Overlapped][d] = "queued" =>
                     pool.job[Overlapped][d] = "queued" \/ setting.overlap
    BY <1>2, <2>3
  <2> QED
    BY <1>1, <1>5, <2>1, <2>2, <2>4 DEF TakeTranscribed
<1> QED
  BY <1>3, <1>4, <1>5

LEMMA RaisesThere ==
  ASSUME TypeInv, NEW k \in Job, NEW c \in Segs, FrontJobRaises(k, c) \/ TranslationRaises(c)
  PROVE  /\ UNCHANGED <<setting, row, msg, store, ctx, stale, left>> /\ run.step = "pools"
         /\ Continues("drain") /\ pool'.trans = pool.trans
         /\ \A d \in Segs :
               /\ pool'.job[Transcription][d] = "taken" => pool.job[Transcription][d] = "taken"
               /\ pool.job[Overlapped][d] # "none" => pool'.job[Overlapped][d] # "none"
         /\ pool'.stage \in {k, Translating}
<1>1. run \in RunType /\ pool \in PoolType /\ pool.job \in JobType
  BY Standing, PoolParts
<1>2. PICK pools \in SUBSET Job, state \in {pool.job[k][c], pool.job[Overlapped][c]},
            stage \in {k, Translating} : Raises(pools, state, stage) /\ run.step = "pools"
  BY JobNames DEF FrontJobRaises, TranslationRaises, At
<1>3. /\ pool'.job = Cancelled(pool.job, pools) /\ pool'.trans = pool.trans
      /\ pool'.stage = stage
  BY <1>1, <1>2 DEF Raises, PoolType
<1>4. \A d \in Segs :
         /\ pool'.job[Transcription][d] = "taken" => pool.job[Transcription][d] = "taken"
         /\ pool.job[Overlapped][d] # "none" => pool'.job[Overlapped][d] # "none"
  BY <1>1, <1>3, CancelledMoves, JobNames
<1> QED
  BY <1>1, <1>2, <1>3, <1>4, GoesOnThere DEF Raises

LEMMA FrontStopsThere ==
  ASSUME TypeInv, FrontStops
  PROVE  /\ UNCHANGED <<setting, msg, store, pool, left>> /\ run.step = "drain"
         /\ Pauses(pool.stage) \/ Fails
BY DEF FrontStops, At

\* What the front half makes of the segments.
Assembled(others) ==
    \A s \in Segs :
        /\ others[s].text = pool.text[s] /\ others[s].url = ctx.segs[s].url
        /\ others[s].trans = IF pool.trans[s] # NoTranslation THEN pool.trans[s]
                             ELSE ctx.segs[s].trans

LEMMA FrontEndsThere ==
  ASSUME TypeInv, PaidInv, LostInv, PoolWhole, FrontEnds
  PROVE  /\ UNCHANGED <<setting, msg, store, pool, stale, left>> /\ run.step = "pools"
         /\ Continues("boundary") /\ run.at = 4
         /\ ctx'.segs = Merged /\ row'.segs = Merged /\ Assembled(Merged)
         /\ row'.stage = Transcribing /\ row'.status = row.status
         /\ ctx'.clips = ctx.clips /\ ctx'.inv = ctx.inv \ {Transcribing}
         /\ \A s \in Segs :
               /\ pool.text[s] > Textless
               /\ pool.trans[s] # NoTranslation <=> setting.overlap
<1> USE StageNumbers
<1>1. /\ run \in RunType /\ row \in RowType /\ ctx \in Context /\ run.step = "pools" /\ InPools
      /\ pool \in PoolType /\ pool.job \in JobType /\ run.at = 4
  BY InPoolsKnown, Standing DEF FrontEnds, At, InPools
<1>2. ctx'.segs = Merged /\ ctx'.clips = ctx.clips /\ ctx'.inv = ctx.inv \ {Transcribing}
  BY <1>1 DEF FrontEnds, Context
<1>3. row'.segs = Merged /\ row'.stage = Transcribing /\ row'.status = row.status
  BY <1>1 DEF FrontEnds, RowType
<1>4. Assembled(Merged)
  BY DEF Merged, Assembled
<1>5. ASSUME NEW s \in Segs
      PROVE  /\ pool.text[s] > Textless
             /\ pool.trans[s] # NoTranslation <=> setting.overlap
  <2>1. pool.job[Transcription][s] = "taken"
    BY DEF FrontEnds, Jobs
  <2>2. pool.text[s] > Textless
    BY <1>1, <2>1, InPoolsKnown
  <2>3. pool.trans[s] # NoTranslation => setting.overlap
    BY <1>1 DEF PoolWhole
  <2>4. ASSUME setting.overlap PROVE pool.trans[s] # NoTranslation
    <3>1. pool.job[Overlapped][s] \notin {"none", "taken", "cancelled"}
      BY <1>1, <2>1, <2>4 DEF PoolWhole, At
    <3>2. pool.job[Overlapped][s] \notin {"failed", "paused", "queued", "running"}
      BY JobNames DEF FrontEnds, Drained, Jobs, Busy
    <3>3. pool.job[Overlapped][s] = "ok"
      BY <1>1, <3>1, <3>2, JobNames DEF JobType, JobState
    <3> QED
      BY <1>1, <3>3 DEF PaidInv, OverlapPaid
  <2> QED
    BY <2>2, <2>3, <2>4
<1> QED
  BY <1>1, <1>2, <1>3, <1>4, <1>5, GoesOnThere DEF FrontEnds

-----------------------------------------------------------------------------
(* What each of the sources is like by itself.                             *)

LEMMA TextsAreSound ==
  ASSUME NEW text \in {Textless} \cup Runs, NEW long, NEW clip
  PROVE  /\ Whole(NewSegments(text), long) /\ Named(NewSegments(text), clip)
         /\ Blank(NewSegments(text))
         /\ Whole(NoSegments, long) /\ Named(NoSegments, clip) /\ Blank(NoSegments)
<1> USE StageNumbers
<1>1. \A s \in Segs : /\ NewSegments(text)[s].text = text
                      /\ NewSegments(text)[s].trans = NoTranslation
                      /\ NewSegments(text)[s].url = FALSE
                      /\ NoSegments[s].text = -1
                      /\ NoSegments[s].trans = NoTranslation
                      /\ NoSegments[s].url = FALSE
  BY DEF NewSegments, NoSegments
<1>2. text \in Int /\ (text > 0 \/ text <= 0)
  BY PipelineAssumption DEF Runs
<1> QED
  BY <1>1, <1>2 DEF Whole, Named, Blank

\* Segments are translated all or none, and there are some.
LEMMA WholeIsAllOrNone ==
  ASSUME NEW segs, NEW long, Whole(segs, long)
  PROVE  /\ Blank(segs) \/ Done(segs)
         /\ ~(Blank(segs) /\ Done(segs))
         /\ Done(segs) => \A s \in Segs : /\ segs[s].text > Textless
                                          /\ ~long => segs[s].trans.of = segs[s].text
<1>1. 1 \in Segs
  BY PipelineAssumption DEF Segs
<1> QED
  BY <1>1 DEF Whole, Blank, Done

\* Only the name of the clip may differ.
LEMMA WholeAlike ==
  ASSUME NEW segs, NEW others, NEW long, Whole(segs, long),
         \A s \in Segs : others[s].text = segs[s].text /\ others[s].trans = segs[s].trans
  PROVE  Whole(others, long)
BY DEF Whole, Blank

LEMMA NamedStays ==
  ASSUME NEW segs, Named(segs, store.clip), ClipsStay
  PROVE  Named(segs, store'.clip)
BY DEF Named, ClipsStay

LEMMA SourcesStep ==
  ASSUME SourcesSound, setting' = setting, ClipsStay, store'.saved = store.saved,
         store'.ckpt = store.ckpt,
         row'.segs \in {row.segs, ctx.segs, ctx'.segs, NewSegments(Textless)},
         Whole(ctx'.segs, setting.long), Named(ctx'.segs, store'.clip)
  PROVE  SourcesSound'
<1>1. /\ Whole(row.segs, setting.long) /\ Named(row.segs, store'.clip)
      /\ Whole(ctx.segs, setting.long) /\ Named(ctx.segs, store'.clip)
      /\ Whole(NewSegments(Textless), setting.long) /\ Named(NewSegments(Textless), store'.clip)
  BY NamedStays, TextsAreSound DEF SourcesSound, Sound
<1>2. \A k \in store.saved : ~setting.long =>
         /\ Whole(store.ckpt[k].segs, setting.long)
         /\ Named(store.ckpt[k].segs, store'.clip)
  BY NamedStays DEF SourcesSound, Sound
<1>3. Whole(row'.segs, setting.long) /\ Named(row'.segs, store'.clip)
  BY <1>1
<1> QED
  BY <1>2, <1>3 DEF SourcesSound, Sound

\* Segments that move between the row and the context, or are lost.
LEMMA SourcesKept ==
  ASSUME SourcesSound, setting' = setting, ClipsStay, store'.saved = store.saved,
         store'.ckpt = store.ckpt,
         row'.segs \in {row.segs, ctx.segs, ctx'.segs, NewSegments(Textless)},
         ctx'.segs \in {row.segs, ctx.segs, NoSegments}
  PROVE  SourcesSound'
<1>1. Whole(ctx'.segs, setting.long) /\ Named(ctx'.segs, store'.clip)
  BY NamedStays, TextsAreSound DEF SourcesSound, Sound
<1> QED
  BY <1>1, SourcesStep

LEMMA StoreSpokenStays ==
  ASSUME StoreSpoken, setting' = setting, ClipsStay, ObjectsStay
  PROVE  StoreSpoken'
BY DEF StoreSpoken, Spoken, ClipsStay, ObjectsStay

\* A run that has ended has nothing in its context, and no pools.
LEMMA SoundEnds ==
  ASSUME SoundInv, Ended, setting' = setting, ClipsStay, ObjectsStay, row'.segs = row.segs
  PROVE  SoundInv'
<1> USE StageNumbers
<1>1. SourcesSound'
  BY SourcesKept DEF SoundInv, Ended, NoContext, ObjectsStay
<1>2. StoreSpoken'
  BY StoreSpokenStays DEF SoundInv
<1>3. ctx'.clips = {}
  BY DEF Ended, NoContext
<1>4. ContextSpoken' /\ PoolWhole'
  BY <1>3 DEF Ended, ContextSpoken, AfterSynthesis, BeforeSynthesis, PoolWhole, InPools, At, Segs
<1> QED
  BY <1>1, <1>2, <1>4 DEF SoundInv

\* Outside the pools nothing is asked of them.
LEMMA PoolWholeElsewhere ==
  ASSUME run'.step \notin {"pools", "drain"}
  PROVE  PoolWhole'
BY DEF PoolWhole, InPools, At

LEMMA SoundInit == Init => SoundInv
<1> SUFFICES ASSUME Init PROVE SoundInv
  OBVIOUS
<1> USE StageNumbers
<1>1. /\ row.segs = NoSegments /\ ctx.segs = NoSegments /\ ctx.clips = {} /\ store.saved = {}
      /\ store.made = FALSE /\ run.step = "idle" /\ run.at = 0 /\ run.mixed = 0
  BY DEF Init, NoRun, NoContext
<1>2. SourcesSound
  BY <1>1, TextsAreSound DEF SourcesSound, Sound
<1>3. StoreSpoken
  BY <1>1 DEF StoreSpoken
<1>4. ContextSpoken /\ PoolWhole
  BY <1>1 DEF ContextSpoken, AfterSynthesis, BeforeSynthesis, PoolWhole, InPools, At, Segs
<1> QED
  BY <1>2, <1>3, <1>4 DEF SoundInv

LEMMA SoundBegins ==
  ASSUME TypeInv, SoundInv, ~Alive, FindsOutput \/ Begins,
         UNCHANGED <<setting, msg, store, stale, left>>
  PROVE  SoundInv'
<1> USE StageNumbers
<1>1. ClipsStay /\ ObjectsStay /\ StoreSpoken'
  BY StoreStays, StoreSpokenStays DEF SoundInv
<1>2. CASE FindsOutput
  <2>1. row'.segs = row.segs /\ ctx' = ctx /\ run' = run /\ run.step = "idle"
    BY <1>2, FindsThere DEF Alive
  <2>2. SourcesSound'
    BY <1>1, <2>1, SourcesKept DEF SoundInv, ObjectsStay
  <2>3. ContextSpoken' /\ PoolWhole'
    BY <2>1 DEF SoundInv, ContextSpoken, AfterSynthesis, BeforeSynthesis, Spoken, PoolWhole, InPools, At
  <2> QED
    BY <1>1, <2>2, <2>3 DEF SoundInv
<1>3. CASE Begins
  <2>1. /\ row'.segs = row.segs /\ ctx'.segs = row.segs /\ ctx'.clips = {}
        /\ run'.step = "preflight" /\ run'.at = 0 /\ run'.mixed = 0
    BY <1>3, BeginsThere
  <2>2. SourcesSound'
    BY <1>1, <2>1, SourcesKept DEF SoundInv, ObjectsStay
  <2>3. ContextSpoken'
    BY <2>1 DEF SoundInv, ContextSpoken, AfterSynthesis, BeforeSynthesis, Spoken, At, Segs
  <2> QED
    BY <1>1, <2>1, <2>2, <2>3, PoolWholeElsewhere DEF SoundInv
<1> QED
  BY <1>2, <1>3

LEMMA SoundMessages ==
  ASSUME TypeInv, SoundInv, Reconcile \/ Resume
  PROVE  SoundInv'
<1>1. /\ row'.segs = row.segs /\ UNCHANGED <<setting, store, run, ctx, pool>>
      /\ run.step = "idle"
  BY Standing DEF Reconcile, Resume, RowType, TypeInv, RunsCounted, Alive
<1>2. ClipsStay /\ ObjectsStay /\ StoreSpoken'
  BY <1>1, StoreStays, StoreSpokenStays DEF SoundInv
<1>3. SourcesSound'
  BY <1>1, <1>2, SourcesKept DEF SoundInv, ObjectsStay
<1>4. ContextSpoken' /\ PoolWhole'
  BY <1>1 DEF SoundInv, ContextSpoken, AfterSynthesis, BeforeSynthesis, Spoken, PoolWhole, InPools, At
<1> QED
  BY <1>2, <1>3, <1>4 DEF SoundInv

LEMMA SoundPausesOrFails ==
  ASSUME TypeInv, SoundInv, NEW stage, Pauses(stage) \/ Fails, setting' = setting,
         ClipsStay, ObjectsStay
  PROVE  SoundInv'
BY PausesThere, FailsThere, SoundEnds

LEMMA SoundEnd == ASSUME TypeInv, SoundInv, Complete \/ Crash PROVE SoundInv'
<1>1. row'.segs = row.segs /\ Ends /\ UNCHANGED <<setting, store>>
  BY Standing DEF Complete, Crash, Abandons, RowType
<1> QED
  BY <1>1, EndsThere, StoreStays, SoundEnds

LEMMA SoundPreflight == ASSUME TypeInv, SoundInv, Preflight PROVE SoundInv'
<1> USE StageNumbers
<1>1. UNCHANGED <<setting, store>> /\ run.step = "preflight" /\ ClipsStay /\ ObjectsStay
  BY PreflightThere, StoreStays
<1>2. CASE Ended /\ row'.segs = row.segs
  BY <1>1, <1>2, SoundEnds
<1>3. CASE /\ ctx' = ctx /\ row'.segs = row.segs /\ run'.mixed = run.mixed
           /\ run'.step \in {"front", "boundary"} /\ run'.at = EntryStage
  <2>1. ctx.clips = {} /\ ~(run.mixed > 0)
    BY <1>1 DEF SoundInv, ContextSpoken, At
  <2>2. SourcesSound'
    BY <1>1, <1>3, SourcesKept DEF SoundInv, ObjectsStay
  <2>3. setting.long => run'.at \in {4, 5}
    BY <1>3 DEF EntryStage
  <2>4. ContextSpoken'
    BY <1>1, <1>3, <2>1, <2>3
       DEF SoundInv, ContextSpoken, AfterSynthesis, BeforeSynthesis, Spoken, At
  <2> QED
    BY <1>1, <1>3, <2>2, <2>4, StoreSpokenStays, PoolWholeElsewhere DEF SoundInv
<1> QED
  BY <1>2, <1>3, PreflightThere

\* A stage is restored from its checkpoint, or from what the context holds.
LEMMA RestoreThere ==
  ASSUME TypeInv, run.at \in Chain
  PROVE  \/ /\ run.at \notin ctx.inv /\ run.at \in store.saved
            /\ ContextAfterRestore = store.ckpt[run.at]
         \/ /\ run.at \in ctx.inv \/ run.at \notin store.saved
            /\ ContextAfterRestore.segs = ctx.segs /\ ContextAfterRestore.clips = ctx.clips
            /\ ContextAfterRestore.inv = ctx.inv
            /\ Restores => run.at \notin ctx.inv /\ RestoredFromArtifacts
<1>1. ctx \in Context
  BY Standing
<1>2. CASE run.at \notin ctx.inv /\ run.at \in store.saved
  BY <1>2 DEF ContextAfterRestore, Loaded
<1>3. CASE ~(run.at \notin ctx.inv /\ run.at \in store.saved)
  <2>1. ContextAfterRestore \in {ctx, [ctx EXCEPT !.tracks = TRUE]}
    BY <1>3 DEF ContextAfterRestore, WithArtifacts
  <2>2. /\ ContextAfterRestore.segs = ctx.segs /\ ContextAfterRestore.clips = ctx.clips
        /\ ContextAfterRestore.inv = ctx.inv
    BY <1>1, <2>1 DEF Context
  <2>3. Restores => run.at \notin ctx.inv /\ RestoredFromArtifacts
    BY <1>3 DEF Restores
  <2> QED
    BY <1>3, <2>2, <2>3
<1> QED
  BY <1>2, <1>3

\* Checkpoints from translation on hold translations, those from synthesis on all clips.
LEMMA CheckpointsSpoken ==
  ASSUME TypeInv, LostInv, SoundInv, ~setting.long, NEW k \in store.saved
  PROVE  /\ Sound(store.ckpt[k].segs)
         /\ k >= Translating => Done(store.ckpt[k].segs)
         /\ k >= Synthesizing => store.ckpt[k].clips = Segs /\ Spoken
         /\ k = Mixing => store.made
<1> USE StageNumbers
<1>1. k \in 1 .. 7 /\ Fits(store.ckpt[k].segs, k + 1)
  BY StoreParts DEF LostInv, CheckpointsKept
<1>2. k >= Translating => Done(store.ckpt[k].segs)
  BY <1>1 DEF Fits, Done
<1> QED
  BY <1>1, <1>2 DEF SoundInv, SourcesSound, StoreSpoken

LEMMA SoundBeginStage == ASSUME TypeInv, LostInv, SoundInv, BeginStage PROVE SoundInv'
<1> USE StageNumbers
<1>1. /\ UNCHANGED <<setting, store>> /\ run.step = "boundary" /\ run.at \in 1 .. 7
      /\ ClipsStay /\ ObjectsStay /\ StoreSpoken' /\ At("boundary")
  BY BeginStageThere, StoreStays, StoreSpokenStays DEF SoundInv
<1>2. CASE Pauses(run.at)
  BY <1>1, <1>2, SoundPausesOrFails
<1>3. CASE setting.long /\ ctx' = ctx /\ Continues("process") /\ row'.segs = row.segs
  <2>1. SourcesSound'
    BY <1>1, <1>3, SourcesKept DEF SoundInv, ObjectsStay
  <2>2. ContextSpoken'
    BY <1>1, <1>3 DEF SoundInv, ContextSpoken, AfterSynthesis, BeforeSynthesis, Spoken, At,
                      Continues
  <2> QED
    BY <1>1, <1>3, <2>1, <2>2, PoolWholeElsewhere DEF SoundInv, Continues
<1>4. CASE /\ ~setting.long /\ ctx' = ContextAfterRestore /\ row'.segs = row.segs
           /\ Continues(IF Restores THEN "persist" ELSE "process")
  <2>1. /\ run'.step \in {"persist", "process"} /\ run'.at = run.at /\ run'.mixed = run.mixed
        /\ run'.step = "persist" => Restores
    BY <1>4 DEF Continues
  <2>2. /\ run.mixed > 0 => run.at = 7 /\ ctx.clips # {}
        /\ \A c \in Segs : c <= run.mixed => store.mixed[c] # NoTranslation
        /\ run.at >= 6 /\ ctx.clips # {} => ctx.clips = Segs /\ Done(ctx.segs) /\ Spoken
    BY <1>1 DEF SoundInv, ContextSpoken, AfterSynthesis
  <2>3. CASE /\ run.at \in store.saved /\ ContextAfterRestore = store.ckpt[run.at]
    <3>1. /\ Sound(ctx'.segs) /\ (run.at >= 4 => Done(ctx'.segs))
          /\ (run.at >= 5 => ctx'.clips = Segs /\ Spoken) /\ (run.at = 7 => store.made)
      BY <1>4, <2>3, CheckpointsSpoken
    <3>2. SourcesSound'
      BY <1>1, <1>4, <3>1, SourcesStep DEF SoundInv, ObjectsStay, Sound
    <3>3. Segs # {}
      BY PipelineAssumption DEF Segs
    <3>4. ContextSpoken'
      BY <1>1, <1>4, <2>1, <2>2, <3>1, <3>3 DEF ContextSpoken, AfterSynthesis, Spoken, At
    <3> QED
      BY <1>1, <2>1, <3>2, <3>4, PoolWholeElsewhere DEF SoundInv
  <2>4. CASE /\ ContextAfterRestore.segs = ctx.segs /\ ContextAfterRestore.clips = ctx.clips
             /\ Restores => run.at \notin ctx.inv /\ RestoredFromArtifacts
    <3>1. SourcesSound'
      BY <1>1, <1>4, <2>4, SourcesKept DEF SoundInv, ObjectsStay
    <3>2. run'.step = "persist" => run.at # 5 /\ (run.at = 7 => store.made /\ ctx.clips # {})
      <4>1. run'.step = "persist" /\ run.at = 7 => ctx.clips # {}
        BY <1>1, <1>4, <2>1, <2>4, LostRestores
      <4>2. run'.step = "persist" => run.at # 5 /\ (run.at = 7 => store.made)
        BY <2>1, <2>4 DEF RestoredFromArtifacts
      <4> QED
        BY <4>1, <4>2
    <3>3. ContextSpoken'
      BY <1>1, <1>4, <2>1, <2>2, <2>4, <3>2 DEF ContextSpoken, AfterSynthesis, Spoken, At
    <3> QED
      BY <1>1, <2>1, <3>1, <3>3, PoolWholeElsewhere DEF SoundInv
  <2> QED
    BY <1>1, <2>3, <2>4, RestoreThere
<1> QED
  BY <1>2, <1>3, <1>4, BeginStageThere

\* A run that has begun has a number.
LEMMA RunNumber == ASSUME TypeInv, PaidInv, Alive PROVE run.no \in Runs /\ run.no # 0
<1>1. run \in RunType
  BY Standing
<1> QED
  BY <1>1 DEF PaidInv, RunType

LEMMA SoundEarlyStages ==
  ASSUME TypeInv, PaidInv, SoundInv, Separate \/ Diarize \/ Transcribe
  PROVE  SoundInv'
<1> USE StageNumbers
<1>1. /\ setting' = setting /\ run.step = "process" /\ run.at \in {1, 2, 3} /\ ObjectsStay
      /\ ClipsStay /\ StoreSpoken'
  <2>1. ClipsStay
    BY EarlyStagesThere DEF ClipsStay
  <2> QED
    BY <2>1, EarlyStagesThere, StoreSpokenStays DEF SoundInv
<1>2. CASE Pauses(run.at)
  BY <1>1, <1>2, SoundPausesOrFails
<1>3. CASE /\ row' = row /\ Continues("persist") /\ ctx'.clips = ctx.clips
           /\ ctx'.segs \in {ctx.segs, NewSegments(Textless), NewSegments(run.no)}
  <2>1. run.no \in {Textless} \cup Runs
    BY <1>1, RunNumber DEF Alive
  <2>2. Whole(ctx'.segs, setting.long) /\ Named(ctx'.segs, store'.clip)
    BY <1>1, <1>3, <2>1, TextsAreSound, NamedStays DEF SoundInv, SourcesSound, Sound
  <2>3. SourcesSound'
    BY <1>1, <1>3, <2>2, SourcesStep DEF SoundInv, ObjectsStay
  <2>4. ContextSpoken'
    BY <1>1, <1>3 DEF SoundInv, ContextSpoken, AfterSynthesis, BeforeSynthesis, At, Continues,
                      ObjectsStay
  <2> QED
    BY <1>1, <1>3, <2>3, <2>4, PoolWholeElsewhere DEF SoundInv, Continues
<1> QED
  BY <1>1, <1>2, <1>3, EarlyStagesThere

\* Translation translates all segments, or has nothing to do.
LEMMA TranslatesAll ==
  ASSUME TypeInv, PaidInv, Alive, SourcesSound, Translatable(ctx.segs) # {}, NEW others,
         NewlyTranslated(others)
  PROVE  /\ Blank(ctx.segs) /\ Done(others) /\ Whole(others, setting.long)
         /\ \A s \in Segs : /\ ~others[s].url
                            /\ others[s].trans = [of |-> ctx.segs[s].text, by |-> run.no]
<1> USE StageNumbers
<1>1. Whole(ctx.segs, setting.long) /\ run.no # 0
  BY RunNumber DEF SourcesSound, Sound
<1>2. PICK s \in Segs : ctx.segs[s].text > Textless /\ ctx.segs[s].trans = NoTranslation
  BY DEF Translatable
<1>3. Blank(ctx.segs) /\ \A t \in Segs : ctx.segs[t].text > Textless
  <2>1. ctx.segs[s] \in Segment
    BY <1>2, Standing
  <2>2. ctx.segs[s].text \in Int
    BY <2>1, PipelineAssumption DEF Segment, Runs
  <2> QED
    BY <1>1, <1>2, <2>2 DEF Whole, Blank
<1>4. \A t \in Segs : t \in Translatable(ctx.segs)
  BY <1>3 DEF Translatable, Blank
<1>5. \A t \in Segs : /\ others[t].trans = [of |-> ctx.segs[t].text, by |-> run.no]
                      /\ others[t].text = ctx.segs[t].text /\ ~others[t].url
  BY <1>4 DEF NewlyTranslated
<1>6. ASSUME NEW t \in Segs
      PROVE  others[t].trans # NoTranslation /\ others[t].trans.of = ctx.segs[t].text
  <2> DEFINE new == [of |-> ctx.segs[t].text, by |-> run.no]
  <2>1. new.by = run.no /\ new.of = ctx.segs[t].text /\ others[t].trans = new
    BY <1>5
  <2>2. NoTranslation.by = 0
    BY DEF NoTranslation
  <2> QED
    BY <1>1, <2>1, <2>2
<1> QED
  BY <1>3, <1>5, <1>6 DEF Done, Whole

LEMMA SoundTranslate == ASSUME TypeInv, PaidInv, SoundInv, Translate PROVE SoundInv'
<1> USE StageNumbers
<1>1. /\ UNCHANGED <<setting, store>> /\ run.step = "process" /\ run.at = 4
      /\ ClipsStay /\ ObjectsStay /\ StoreSpoken' /\ Alive
  BY TranslateThere, StoreStays, StoreSpokenStays DEF SoundInv, Alive
<1>2. CASE Pauses(Translating) \/ Fails
  BY <1>1, <1>2, SoundPausesOrFails
<1>3. CASE ~Pauses(Translating) /\ ~Fails
  <2>1. row' = row /\ Continues("persist")
    BY <1>3, TranslateThere
  <2>2. Whole(ctx'.segs, setting.long) /\ Named(ctx'.segs, store'.clip)
    <3>1. CASE ctx' = ctx
      BY <1>1, <3>1, NamedStays DEF SoundInv, SourcesSound, Sound
    <3>2. CASE Translatable(ctx.segs) # {} /\ NewlyTranslated(ctx'.segs)
      BY <1>1, <3>2, TranslatesAll DEF SoundInv, Named
    <3> QED
      BY <1>3, <3>1, <3>2, TranslateThere
  <2>3. SourcesSound'
    BY <1>1, <2>1, <2>2, SourcesStep DEF SoundInv, ObjectsStay
  <2>4. setting.long => ctx.clips = {} /\ ctx'.clips = {}
    BY <1>1, <1>3, TranslateThere DEF SoundInv, ContextSpoken, BeforeSynthesis
  <2>5. ContextSpoken'
    BY <1>1, <2>1, <2>4 DEF SoundInv, ContextSpoken, AfterSynthesis, BeforeSynthesis, At, Continues,
                      ObjectsStay
  <2> QED
    BY <1>1, <2>1, <2>3, <2>5, PoolWholeElsewhere DEF SoundInv, Continues
<1> QED
  BY <1>2, <1>3

\* Segments that can be spoken are whole, so all are translated.
LEMMA SpokenIsTranslated ==
  ASSUME NEW segs, Done(segs) PROVE Translated(segs) = Segs /\ HasSegments(segs)
<1>1. Translated(segs) = Segs
  BY DEF Done, Translated
<1>2. 1 \in Segs
  BY PipelineAssumption DEF Segs
<1>3. NoSegments[1].trans = NoTranslation
  BY <1>2 DEF NoSegments
<1>4. segs # NoSegments
  BY <1>2, <1>3 DEF Done
<1> QED
  BY <1>1, <1>4 DEF HasSegments

LEMMA SoundSynthesize == ASSUME TypeInv, LostInv, SoundInv, Synthesize PROVE SoundInv'
<1> USE StageNumbers
<1>1. /\ UNCHANGED <<setting, store>> /\ run.step = "process" /\ run.at = 5
      /\ ClipsStay /\ ObjectsStay /\ StoreSpoken' /\ At("process")
  BY SynthesizeThere, StoreStays, StoreSpokenStays DEF SoundInv
<1>2. ~(run.mixed > 0) /\ \A c \in Segs : c <= run.mixed => store.mixed[c] # NoTranslation
  BY <1>1 DEF SoundInv, ContextSpoken
<1>3. CASE Fails
  BY <1>1, <1>3, SoundPausesOrFails
<1>4. CASE ~HasSegments(ctx.segs) /\ UNCHANGED <<row, ctx, stale>> /\ Continues("persist")
  <2>1. setting.long
    <3>1. ASSUME ~setting.long PROVE Fits(ctx.segs, 5)
      BY <1>1, <3>1, InChainKnown DEF ContextInChain, Equipped, Kept, At
    <3> QED
      BY <1>4, <3>1, FitsTranslated
  <2>2. ctx.clips = {}
    BY <1>1, <2>1 DEF SoundInv, ContextSpoken, BeforeSynthesis
  <2>3. SourcesSound'
    BY <1>1, <1>4, SourcesKept DEF SoundInv, ObjectsStay
  <2>4. ~Done(ctx.segs)
    BY <1>4, SpokenIsTranslated
  <2>5. ContextSpoken'
    BY <1>1, <1>2, <1>4, <2>2, <2>4
       DEF ContextSpoken, AfterSynthesis, BeforeSynthesis, Done, At, Continues
  <2> QED
    BY <1>1, <1>4, <2>3, <2>5, PoolWholeElsewhere DEF SoundInv, Continues
<1>5. CASE /\ Translated(ctx.segs) # {} /\ ctx'.clips = Reusable
           /\ Renamed(ctx'.segs, Reusable)
           /\ row'.segs \in {row.segs, ctx'.segs}
           /\ Continues("synth")
  <2>1. Whole(ctx.segs, setting.long) /\ Named(ctx.segs, store.clip)
    BY DEF SoundInv, SourcesSound, Sound
  <2>2. Whole(ctx'.segs, setting.long)
    BY <1>5, <2>1, WholeAlike DEF Renamed
  <2>3. Named(ctx'.segs, store'.clip)
    BY <1>1, <1>5, <2>1 DEF Renamed, Named, Reusable
  <2>4. Done(ctx'.segs)
    BY <1>5, <2>1, WholeIsAllOrNone DEF Translated, Blank, Done, Renamed
  <2>5. SourcesSound'
    BY <1>1, <1>5, <2>2, <2>3, SourcesStep DEF SoundInv, ObjectsStay
  <2>6. \A s \in ctx'.clips : store'.clip[s] # NoTranslation
    BY <1>1, <1>5 DEF Reusable
  <2>7. ContextSpoken'
    BY <1>1, <1>2, <1>5, <2>4, <2>6 DEF ContextSpoken, AfterSynthesis, BeforeSynthesis, At, Continues
  <2> QED
    BY <1>1, <1>5, <2>5, <2>7, PoolWholeElsewhere DEF SoundInv, Continues
<1> QED
  BY <1>3, <1>4, <1>5, SynthesizeThere

\* Where synthesis is at.
LEMMA AtSynth ==
  ASSUME TypeInv, LostInv, At("synth") PROVE run.step = "synth" /\ run.at = 5
BY InChainKnown, StageNumbers DEF At, ContextInChain

LEMMA SoundSpeak ==
  ASSUME TypeInv, LostInv, SoundInv, NEW s \in Segs, SpeakSegment(s) PROVE SoundInv'
<1> USE StageNumbers
<1>1. /\ UNCHANGED <<setting, row, run>> /\ run.step = "synth" /\ run.at = 5 /\ At("synth")
      /\ ObjectsStay /\ Renamed(ctx'.segs, {s}) /\ ctx'.clips = ctx.clips
      /\ \A t \in Segs : store'.clip[t] = IF t = s THEN ctx.segs[t].trans ELSE store.clip[t]
      /\ ctx.segs[s].trans # NoTranslation
  BY SpeakThere, AtSynth DEF Translated
<1>2. ClipsStay
  BY <1>1 DEF ClipsStay
<1>3. /\ Done(ctx.segs) /\ (\A t \in ctx.clips : store.clip[t] # NoTranslation)
      /\ ~(run.mixed > 0) /\ \A c \in Segs : c <= run.mixed => store.mixed[c] # NoTranslation
      /\ ctx.clips \subseteq Segs
  BY <1>1, Standing DEF SoundInv, ContextSpoken
<1>4. Whole(ctx'.segs, setting.long) /\ Done(ctx'.segs)
  BY <1>1, <1>3, WholeAlike DEF SoundInv, SourcesSound, Sound, Renamed, Done
<1>5. Named(ctx'.segs, store'.clip)
  BY <1>1, <1>2 DEF SoundInv, SourcesSound, Sound, Renamed, Named, ClipsStay
<1>6. SourcesSound'
  BY <1>1, <1>2, <1>4, <1>5, SourcesStep DEF SoundInv, ObjectsStay
<1>7. \A t \in ctx'.clips : store'.clip[t] # NoTranslation
  BY <1>1, <1>2, <1>3 DEF ClipsStay
<1>8. ContextSpoken'
  BY <1>1, <1>3, <1>4, <1>7
     DEF ContextSpoken, AfterSynthesis, BeforeSynthesis, At, ObjectsStay
<1> QED
  BY <1>1, <1>2, <1>6, <1>8, StoreSpokenStays, PoolWholeElsewhere DEF SoundInv

LEMMA SoundCollect ==
  ASSUME TypeInv, LostInv, SoundInv, NEW s \in Segs, CollectClip(s) PROVE SoundInv'
<1> USE StageNumbers
<1>1. /\ UNCHANGED <<setting, store, run>> /\ run.step = "synth" /\ run.at = 5 /\ At("synth")
      /\ ctx'.segs = ctx.segs /\ ctx'.clips = ctx.clips \cup {s} /\ ctx.segs[s].url
      /\ row'.segs \in {row.segs, ctx.segs} /\ ClipsStay /\ ObjectsStay
  BY CollectThere, AtSynth, StoreStays
<1>2. /\ Done(ctx.segs) /\ (\A t \in ctx.clips : store.clip[t] # NoTranslation)
      /\ ~(run.mixed > 0) /\ \A c \in Segs : c <= run.mixed => store.mixed[c] # NoTranslation
  BY <1>1 DEF SoundInv, ContextSpoken
<1>3. store.clip[s] # NoTranslation
  BY <1>1 DEF SoundInv, SourcesSound, Sound, Named
<1>4. SourcesSound'
  BY <1>1, SourcesKept DEF SoundInv, ObjectsStay
<1>5. ContextSpoken'
  BY <1>1, <1>2, <1>3 DEF ContextSpoken, AfterSynthesis, BeforeSynthesis, At
<1> QED
  BY <1>1, <1>4, <1>5, StoreSpokenStays, PoolWholeElsewhere DEF SoundInv

LEMMA SoundStops == ASSUME TypeInv, SoundInv, SynthesisStops PROVE SoundInv'
<1>1. ClipsStay
  BY StopsThere DEF ClipsStay
<1> QED
  BY <1>1, StopsThere, SoundPausesOrFails

LEMMA SoundSynthesisEnds ==
  ASSUME TypeInv, LostInv, SoundInv, SynthesisEnds PROVE SoundInv'
<1> USE StageNumbers
<1>1. /\ UNCHANGED <<setting, row, store, ctx>> /\ run.step = "synth" /\ run.at = 5 /\ At("synth")
      /\ Continues("persist") /\ Translated(ctx.segs) \subseteq ctx.clips
      /\ ClipsStay /\ ObjectsStay /\ ctx.clips \subseteq Segs
  BY SynthesisEndsThere, AtSynth, StoreStays, Standing
<1>2. /\ Done(ctx.segs) /\ (\A t \in ctx.clips : store.clip[t] # NoTranslation)
      /\ ~(run.mixed > 0) /\ \A c \in Segs : c <= run.mixed => store.mixed[c] # NoTranslation
  BY <1>1 DEF SoundInv, ContextSpoken
<1>3. ctx.clips = Segs
  BY <1>1, <1>2, SpokenIsTranslated
<1>4. Spoken
  BY <1>2, <1>3 DEF Spoken
<1>5. SourcesSound'
  BY <1>1, SourcesKept DEF SoundInv, ObjectsStay
<1>6. Segs # {}
  BY PipelineAssumption DEF Segs
<1>7. ContextSpoken'
  BY <1>1, <1>2, <1>3, <1>4, <1>6
     DEF ContextSpoken, Spoken, AfterSynthesis, BeforeSynthesis, At, Continues
<1> QED
  BY <1>1, <1>5, <1>7, StoreSpokenStays, PoolWholeElsewhere DEF SoundInv, Continues

LEMMA SoundAlign == ASSUME TypeInv, SoundInv, Align PROVE SoundInv'
<1> USE StageNumbers
<1>1. /\ UNCHANGED <<setting, store>> /\ run.step = "process" /\ run.at = 6
      /\ ClipsStay /\ ObjectsStay
  BY AlignThere, StoreStays
<1>2. CASE Fails
  BY <1>1, <1>2, SoundPausesOrFails
<1>3. CASE ~Fails
  <2>1. row' = row /\ Continues("persist") /\ ctx'.segs = ctx.segs /\ ctx'.clips = ctx.clips
    BY <1>3, AlignThere
  <2>2. SourcesSound'
    BY <1>1, <2>1, SourcesKept DEF SoundInv, ObjectsStay
  <2>3. ContextSpoken'
    BY <1>1, <2>1
       DEF SoundInv, ContextSpoken, Spoken, AfterSynthesis, BeforeSynthesis, At, Continues
  <2> QED
    BY <1>1, <2>1, <2>2, <2>3, StoreSpokenStays, PoolWholeElsewhere DEF SoundInv, Continues
<1> QED
  BY <1>2, <1>3

LEMMA SoundMixShort == ASSUME TypeInv, SoundInv, MixShort PROVE SoundInv'
<1> USE StageNumbers
<1>1. /\ setting' = setting /\ run.step = "process" /\ run.at = 7 /\ ~setting.long
      /\ store'.clip = store.clip /\ store'.saved = store.saved /\ store'.ckpt = store.ckpt
      /\ store'.mixed = store.mixed /\ ClipsStay
  BY MixShortThere DEF ClipsStay
<1>2. CASE Fails /\ store' = store
  BY <1>1, <1>2, StoreStays, SoundPausesOrFails
<1>3. CASE ~(Fails /\ store' = store)
  <2>1. /\ row' = row /\ Continues("persist") /\ ctx'.segs = ctx.segs /\ ctx'.clips = ctx.clips
        /\ ctx.clips # {} /\ store'.made
        /\ \A s \in Segs : store'.out[s] = IF s \in ctx.clips THEN store.clip[s] ELSE NoTranslation
    BY <1>3, MixShortThere
  <2>2. ctx.clips = Segs /\ Done(ctx.segs) /\ Spoken
    BY <1>1, <2>1 DEF SoundInv, ContextSpoken, AfterSynthesis
  <2>3. \A s \in Segs : store'.out[s] # NoTranslation
    BY <2>1, <2>2 DEF Spoken
  <2>4. SourcesSound'
    BY <1>1, <2>1, SourcesKept DEF SoundInv
  <2>5. StoreSpoken'
    BY <1>1, <2>1, <2>3 DEF SoundInv, StoreSpoken, Spoken
  <2>6. \A c \in Segs : c <= run.mixed => store.mixed[c] # NoTranslation
    BY DEF SoundInv, ContextSpoken
  <2>7. ContextSpoken'
    BY <1>1, <2>1, <2>2, <2>6 DEF ContextSpoken, Spoken, AfterSynthesis, BeforeSynthesis, At, Continues
  <2> QED
    BY <2>1, <2>4, <2>5, <2>7, PoolWholeElsewhere DEF SoundInv, Continues
<1> QED
  BY <1>2, <1>3

LEMMA SoundMixChunk == ASSUME TypeInv, SoundInv, MixChunk PROVE SoundInv'
<1> USE StageNumbers
<1>1. /\ setting' = setting /\ run.step = "process" /\ run.at = 7 /\ setting.long
      /\ ClipsStay
      /\ store'.clip = store.clip /\ store'.saved = store.saved /\ store'.ckpt = store.ckpt
      /\ store'.made = store.made /\ store'.out = store.out /\ run.mixed \in Nat
  BY MixChunkThere DEF ClipsStay
<1>2. StoreSpoken'
  BY <1>1 DEF SoundInv, StoreSpoken
<1>3. CASE Fails
  <2>1. Ended /\ row'.segs = row.segs /\ run'.step = "idle"
    BY <1>3, FailsThere DEF Ended
  <2>2. SourcesSound'
    BY <1>1, <2>1, SourcesKept DEF SoundInv, Ended, NoContext
  <2>3. ctx'.clips = {}
    BY <2>1 DEF Ended, NoContext
  <2>4. ContextSpoken'
    BY <2>1, <2>3 DEF Ended, ContextSpoken, AfterSynthesis, At, Segs
  <2> QED
    BY <1>2, <2>1, <2>2, <2>4, PoolWholeElsewhere DEF SoundInv
<1>4. CASE ~Fails
  <2>1. /\ UNCHANGED <<row, ctx>> /\ ctx.clips # {} /\ run'.step = run.step /\ run'.at = run.at
        /\ run'.mixed = run.mixed + 1
        /\ \A s \in Segs :
              store'.mixed[s] =
                 IF s = run.mixed + 1
                    /\ (Mixing \in ctx.inv \/ store.mixed[s] = NoTranslation)
                 THEN IF s \in ctx.clips THEN store.clip[s] ELSE NoTranslation
                 ELSE store.mixed[s]
    BY <1>4, MixChunkThere
  <2>2. ctx.clips = Segs /\ Done(ctx.segs) /\ Spoken
    BY <1>1, <2>1 DEF SoundInv, ContextSpoken, AfterSynthesis
  <2>3. SourcesSound'
    BY <1>1, <2>1, SourcesKept DEF SoundInv
  <2>4. ASSUME NEW c \in Segs, c <= run.mixed + 1 PROVE store'.mixed[c] # NoTranslation
    <3>1. c \in Int /\ (c <= run.mixed \/ c = run.mixed + 1)
      BY <1>1, <2>4 DEF Segs
    <3>2. c <= run.mixed => store.mixed[c] # NoTranslation
      BY DEF SoundInv, ContextSpoken
    <3> QED
      BY <1>1, <2>1, <2>2, <3>1, <3>2 DEF Spoken
  <2>5. ContextSpoken'
    BY <1>1, <2>1, <2>2, <2>4 DEF ContextSpoken, Spoken, AfterSynthesis, BeforeSynthesis, At
  <2> QED
    BY <1>1, <1>2, <2>1, <2>3, <2>5, PoolWholeElsewhere DEF SoundInv
<1> QED
  BY <1>3, <1>4

LEMMA SoundJoin == ASSUME TypeInv, SoundInv, JoinChunks PROVE SoundInv'
<1> USE StageNumbers
<1>1. /\ setting' = setting /\ run.step = "process" /\ run.at = 7 /\ setting.long /\ row' = row
      /\ run.mixed = NSegs /\ Continues("persist")
      /\ store'.clip = store.clip /\ store'.saved = store.saved /\ store'.ckpt = store.ckpt
      /\ store'.mixed = store.mixed /\ store'.made /\ store'.out = store.mixed
      /\ ctx'.segs = ctx.segs /\ ctx'.clips = ctx.clips /\ ClipsStay
  BY JoinThere DEF ClipsStay
<1>2. run.mixed > 0 /\ NSegs \in Nat
  BY <1>1, PipelineAssumption
<1>3. /\ ctx.clips = Segs /\ Done(ctx.segs) /\ Spoken
      /\ \A c \in Segs : c <= run.mixed => store.mixed[c] # NoTranslation
  BY <1>1, <1>2 DEF SoundInv, ContextSpoken, AfterSynthesis
<1>4. \A s \in Segs : store'.out[s] # NoTranslation
  BY <1>1, <1>2, <1>3 DEF Segs
<1>5. SourcesSound'
  BY <1>1, SourcesKept DEF SoundInv
<1>6. StoreSpoken'
  BY <1>1, <1>4 DEF SoundInv, StoreSpoken
<1>7. Segs # {}
  BY PipelineAssumption DEF Segs
<1>8. ContextSpoken'
  BY <1>1, <1>3, <1>7 DEF ContextSpoken, Spoken, AfterSynthesis, BeforeSynthesis, At, Continues
<1> QED
  BY <1>1, <1>5, <1>6, <1>8, PoolWholeElsewhere DEF SoundInv, Continues

LEMMA SoundPersist == ASSUME TypeInv, SoundInv, PersistStage PROVE SoundInv'
<1> USE StageNumbers
<1>1. /\ UNCHANGED <<setting, store>> /\ run.step = "persist" /\ run.at \in 1 .. 7
      /\ row'.segs \in {row.segs, ctx.segs} /\ ctx'.segs = ctx.segs /\ ctx'.clips = ctx.clips
      /\ run'.mixed = run.mixed
      /\ \/ ~setting.long /\ run'.step = "save" /\ run'.at = run.at
         \/ setting.long /\ run.at = 7 /\ run'.step = "done" /\ run'.at = run.at
         \/ setting.long /\ run.at # 7 /\ run'.step = "boundary" /\ run'.at = run.at + 1
      /\ ClipsStay /\ ObjectsStay
  BY PersistThere, StoreStays DEF Continues
<1>2. SourcesSound'
  BY <1>1, SourcesKept DEF SoundInv, ObjectsStay
<1>3. ContextSpoken'
  BY <1>1 DEF SoundInv, ContextSpoken, Spoken, AfterSynthesis, BeforeSynthesis, At
<1> QED
  BY <1>1, <1>2, <1>3, StoreSpokenStays, PoolWholeElsewhere DEF SoundInv

LEMMA SoundSave == ASSUME TypeInv, LostInv, SoundInv, SaveCheckpoint PROVE SoundInv'
<1> USE StageNumbers
<1>1. /\ setting' = setting /\ row' = row /\ ctx' = ctx /\ run.step = "save" /\ run.at \in 1 .. 7
      /\ At("save") /\ ~setting.long
      /\ store'.clip = store.clip /\ store'.mixed = store.mixed
      /\ store'.made = store.made /\ store'.out = store.out
      /\ run'.mixed = run.mixed
      /\ \/ run.at = 7 /\ run'.step = "done" /\ run'.at = run.at
         \/ run.at # 7 /\ run'.step = "boundary" /\ run'.at = run.at + 1
      /\ ClipsStay
  BY SaveThere DEF ClipsStay
<1>2. \A k \in store'.saved : \/ k \in store.saved /\ store'.ckpt[k] = store.ckpt[k]
                              \/ k = run.at /\ store'.ckpt[k] = ctx
  BY SaveThere, StoreParts
<1>3. /\ Sound(row.segs) /\ Sound(ctx.segs) /\ \A k \in store.saved : Sound(store.ckpt[k].segs)
  BY <1>1 DEF SoundInv, SourcesSound
<1>4. SourcesSound'
  BY <1>1, <1>2, <1>3 DEF SourcesSound, Sound
<1>5. run.at >= 5 => ctx.clips = Segs /\ Spoken /\ (run.at = 7 => store.made)
  <2>1. run.at >= 5 => ctx.clips # {}
    BY <1>1, InChainKnown DEF ContextInChain, Equipped, Kept, At
  <2> QED
    BY <1>1, <2>1 DEF SoundInv, ContextSpoken, AfterSynthesis
<1>6. StoreSpoken'
  BY <1>1, <1>2, <1>5 DEF SoundInv, StoreSpoken, Spoken
<1>7. ContextSpoken'
  BY <1>1 DEF SoundInv, ContextSpoken, Spoken, AfterSynthesis, BeforeSynthesis, At
<1> QED
  BY <1>1, <1>4, <1>6, <1>7, PoolWholeElsewhere DEF SoundInv

LEMMA SoundEstimator == ASSUME TypeInv, LostInv, SoundInv, Estimator PROVE SoundInv'
<1>1. /\ UNCHANGED <<setting, store, ctx>> /\ row'.segs = row.segs /\ run'.step = run.step
      /\ run'.at = run.at /\ run'.mixed = run.mixed /\ ClipsStay /\ ObjectsStay
      /\ run.step \notin {"pools", "drain"}
  BY EstimatorThere, StoreStays DEF InTheChain
<1>2. SourcesSound'
  BY <1>1, SourcesKept DEF SoundInv, ObjectsStay
<1>3. ContextSpoken'
  BY <1>1 DEF SoundInv, ContextSpoken, Spoken, AfterSynthesis, BeforeSynthesis, At
<1> QED
  BY <1>1, <1>2, <1>3, StoreSpokenStays, PoolWholeElsewhere DEF SoundInv

\* A step between pools of a run that leaves the rest alone.
LEMMA SoundInPools ==
  ASSUME SoundInv, UNCHANGED setting, ClipsStay, ObjectsStay,
         run.step \in {"front", "pools", "drain"}, run'.step \in {"front", "pools", "drain"},
         run.at = 4, run'.at = run.at, run'.mixed = run.mixed,
         ctx'.segs = ctx.segs, ctx'.clips = ctx.clips,
         row'.segs \in {row.segs, NewSegments(Textless)}, PoolWhole'
  PROVE  SoundInv'
<1> USE StageNumbers
<1>1. SourcesSound'
  BY SourcesKept DEF SoundInv, ObjectsStay
<1>2. ContextSpoken'
  BY DEF SoundInv, ContextSpoken, AfterSynthesis, BeforeSynthesis, At, ObjectsStay
<1> QED
  BY <1>1, <1>2, StoreSpokenStays DEF SoundInv

\* The front half is under way.
LEMMA InFrontKnown ==
  ASSUME TypeInv, LostInv, run.step \in {"front", "pools", "drain"}
  PROVE  setting.long /\ run.first <= Transcribing /\ run.at = 4
BY StageNumbers DEF LostInv, InFront

LEMMA SoundThreads == ASSUME TypeInv, LostInv, SoundInv, ThreadStep PROVE SoundInv'
<1> USE StageNumbers
<1>1. /\ UNCHANGED <<setting, row, ctx>> /\ run.step \in {"pools", "drain"}
      /\ run'.step = run.step /\ run'.at = run.at /\ run'.mixed = run.mixed
      /\ ObjectsStay /\ store'.clip = store.clip
      /\ \A k \in Job, c \in Segs :
            \/ pool'.job[k][c] = pool.job[k][c]
            \/ /\ pool.job[k][c] \in {"queued", "running"}
               /\ pool'.job[k][c] \in {"running", "ok", "paused", "failed"}
      /\ \A c \in Segs : pool'.trans[c] # NoTranslation =>
            pool.trans[c] # NoTranslation \/ setting.overlap
  BY ThreadsThere DEF InPools
<1>2. ClipsStay /\ run.at = 4
  BY <1>1, InFrontKnown DEF ClipsStay
<1>3. PoolWhole'
  <2>1. Overlapped \in Job /\ Transcription \in Job
    BY JobNames
  <2> QED
    BY <1>1, <2>1 DEF SoundInv, PoolWhole, InPools, At
<1> QED
  BY <1>1, <1>2, <1>3, SoundInPools

LEMMA SoundFrontStart == ASSUME TypeInv, LostInv, SoundInv, FrontStart PROVE SoundInv'
<1> USE StageNumbers
<1>1. /\ UNCHANGED <<setting, store>> /\ run.step = "front" /\ run.at = 4
      /\ Continues("pools") /\ row'.segs = row.segs
      /\ ctx'.segs = ctx.segs /\ ctx'.clips = ctx.clips
      /\ \A c \in Segs : /\ pool'.trans[c] = NoTranslation
                         /\ pool'.job[Transcription][c] = "none"
                         /\ pool'.job[Overlapped][c] = "none"
      /\ ClipsStay /\ ObjectsStay
  BY FrontStartThere, InFrontKnown, StoreStays
<1>2. PoolWhole'
  BY <1>1 DEF PoolWhole, InPools, At
<1> QED
  BY <1>1, <1>2, SoundInPools DEF Continues

LEMMA SoundTakes ==
  ASSUME TypeInv, LostInv, SoundInv, NEW c \in Segs,
         TakeSeparated(c) \/ TakeDiarized(c) \/ TakeTranscribed(c)
  PROVE  SoundInv'
<1> USE StageNumbers
<1>1. /\ UNCHANGED <<setting, store, run>> /\ run.step = "pools" /\ run.at = 4
      /\ pool'.trans = pool.trans
      /\ ctx'.segs = ctx.segs /\ ctx'.clips = ctx.clips
      /\ row'.segs \in {row.segs, NewSegments(Textless)}
      /\ ClipsStay /\ ObjectsStay
      /\ \A d \in Segs :
            /\ pool'.job[Overlapped][d] \in {"queued", pool.job[Overlapped][d]}
            /\ pool'.job[Transcription][d] = "taken" =>
                     \/ pool.job[Transcription][d] = "taken"
                        /\ pool'.job[Overlapped][d] \in {"queued", pool.job[Overlapped][d]}
                     \/ setting.overlap => pool'.job[Overlapped][d] = "queued"
  BY TakesThere, InFrontKnown, StoreStays
<1>2. PoolWhole'
  BY <1>1 DEF SoundInv, PoolWhole, InPools, At
<1> QED
  BY <1>1, <1>2, SoundInPools

LEMMA SoundRaises ==
  ASSUME TypeInv, LostInv, SoundInv, NEW k \in Job, NEW c \in Segs,
         FrontJobRaises(k, c) \/ TranslationRaises(c)
  PROVE  SoundInv'
<1>1. /\ UNCHANGED <<setting, row, store, ctx>> /\ run.step = "pools" /\ run.at = 4
      /\ Continues("drain") /\ pool'.trans = pool.trans
      /\ \A d \in Segs :
            /\ pool'.job[Transcription][d] = "taken" => pool.job[Transcription][d] = "taken"
            /\ pool.job[Overlapped][d] # "none" => pool'.job[Overlapped][d] # "none"
      /\ ClipsStay /\ ObjectsStay
  BY RaisesThere, InFrontKnown, StoreStays
<1>2. PoolWhole'
  BY <1>1 DEF SoundInv, PoolWhole, InPools, At, Continues
<1> QED
  BY <1>1, <1>2, SoundInPools DEF Continues

LEMMA SoundFrontStops == ASSUME TypeInv, SoundInv, FrontStops PROVE SoundInv'
BY FrontStopsThere, StoreStays, SoundPausesOrFails

\* The transcript that the front half puts together is whole.
LEMMA AssembledIsWhole ==
  ASSUME SoundInv, NEW others, Assembled(others), setting.long,
         \A s \in Segs : /\ pool.text[s] > Textless
                         /\ setting.overlap => pool.trans[s] # NoTranslation
                         /\ ~setting.overlap => pool.trans[s] = NoTranslation
  PROVE  Whole(others, setting.long) /\ Named(others, store.clip)
<1> USE StageNumbers
<1>1. Whole(ctx.segs, setting.long) /\ Named(ctx.segs, store.clip)
  BY DEF SoundInv, SourcesSound, Sound
<1>2. Blank(ctx.segs) \/ Done(ctx.segs)
  BY <1>1, WholeIsAllOrNone
<1>3. setting.overlap \/ Done(ctx.segs) => Whole(others, setting.long)
  BY DEF Assembled, Whole, Done
<1>4. ~setting.overlap /\ Blank(ctx.segs) => Whole(others, setting.long)
  BY DEF Assembled, Whole, Blank
<1> QED
  BY <1>1, <1>2, <1>3, <1>4 DEF Assembled, Named

LEMMA SoundFrontEnds ==
  ASSUME TypeInv, PaidInv, LostInv, SoundInv, FrontEnds PROVE SoundInv'
<1> USE StageNumbers
<1>1. /\ UNCHANGED <<setting, store>> /\ run.step = "pools" /\ run.at = 4
      /\ Continues("boundary") /\ ctx'.segs = Merged /\ row'.segs = Merged
      /\ ctx'.clips = ctx.clips /\ setting.long
      /\ ClipsStay /\ ObjectsStay
  BY FrontEndsThere, InFrontKnown, StoreStays DEF SoundInv
<1>2. Whole(Merged, setting.long) /\ Named(Merged, store.clip)
  BY <1>1, FrontEndsThere, AssembledIsWhole DEF SoundInv
<1>3. SourcesSound'
  BY <1>1, <1>2, SourcesStep DEF SoundInv, ObjectsStay
<1>4. ContextSpoken'
  BY <1>1 DEF SoundInv, ContextSpoken, AfterSynthesis, BeforeSynthesis, At, ObjectsStay, Continues
<1> QED
  BY <1>1, <1>3, <1>4, StoreSpokenStays, PoolWholeElsewhere DEF SoundInv, Continues

LEMMA SoundInductive ==
  TypeInv /\ PaidInv /\ LostInv /\ SoundInv /\ [Next]_vars => SoundInv'
<1> SUFFICES ASSUME TypeInv, PaidInv, LostInv, SoundInv, [Next]_vars PROVE SoundInv'
  OBVIOUS
<1>1. CASE Deliver \/ Redeliver
  BY <1>1, SoundBegins DEF Deliver, Redeliver
<1>2. CASE Reconcile \/ Resume
  BY <1>2, SoundMessages
<1>3. CASE Crash \/ Complete
  BY <1>3, SoundEnd
<1>4. CASE StageStep
  BY <1>4, SoundBeginStage, SoundEarlyStages, SoundTranslate, SoundSynthesize, SoundSpeak,
     SoundCollect, SoundStops, SoundSynthesisEnds, SoundAlign, SoundMixShort, SoundMixChunk,
     SoundJoin, SoundPersist, SoundSave DEF StageStep
<1>5. CASE MainStep
  BY <1>5, SoundTakes, SoundRaises, SoundFrontStart, SoundFrontStops, SoundFrontEnds, JobNames
     DEF MainStep
<1>6. CASE UNCHANGED vars
  <2>1. ClipsStay /\ ObjectsStay /\ UNCHANGED <<setting, row, ctx, run, store, pool>>
    BY <1>6, StoreStays DEF vars
  <2>2. SourcesSound'
    BY <2>1, SourcesKept DEF SoundInv, ObjectsStay
  <2>3. ContextSpoken' /\ PoolWhole'
    BY <2>1 DEF SoundInv, ContextSpoken, Spoken, AfterSynthesis, BeforeSynthesis, At, PoolWhole,
                InPools
  <2> QED
    BY <2>1, <2>2, <2>3, StoreSpokenStays DEF SoundInv
<1> QED
  BY <1>1, <1>2, <1>3, <1>4, <1>5, <1>6, SoundPreflight, SoundThreads, SoundEstimator
     DEF Next, RunStep

LEMMA SoundInvariant == Spec => []SoundInv
BY SoundInit, SoundInductive, TypeInvariant, PaidInvariant, LostInvariant, PTL DEF Spec

-----------------------------------------------------------------------------
(* Where a short recording's run is, and what it may still restore.        *)

\* A run of a short recording begins where it is told to, and goes forward from there.
LEMMA ShortRun ==
  ASSUME TypeInv, LostInv, ~setting.long, Alive
  PROVE  /\ run.step \in {"preflight", "boundary", "process", "synth", "persist", "save", "done"}
         /\ run.step # "preflight" =>
               /\ InTheChain /\ run.at \in 1 .. 7 /\ run.first <= run.at
               /\ RowInChain /\ ContextInChain /\ Floor = run.first
         /\ run.first \in 0 .. 7 /\ Position \in 1 .. 8
         /\ Kept /\ Equipped
         /\ msg.start # NoStage => run.first = msg.start
         /\ ~msg.force => run.first = Separating
<1> USE StageNumbers
<1>1. run \in RunType /\ run.step # "idle" /\ run.first \in 0 .. 7
  BY Standing DEF Alive, RunType
<1>2. run.step \in {"preflight", "boundary", "process", "synth", "persist", "save", "done"}
  BY <1>1 DEF LostInv, InFront, RunType, Step
<1>3. ASSUME run.step # "preflight"
      PROVE  /\ InTheChain /\ run.at \in 1 .. 7 /\ run.first <= run.at
             /\ RowInChain /\ ContextInChain /\ Floor = run.first
  <2>1. InTheChain /\ run.at \in 1 .. 7 /\ Floor = run.first
    BY <1>1, <1>2, <1>3 DEF InTheChain, TypeInv, AtAStage, Chain, Floor
  <2> QED
    BY <2>1 DEF LostInv, RowInChain
<1>4. Position \in 1 .. 8
  BY <1>1, <1>2, <1>3 DEF Position, At
<1> QED
  BY <1>1, <1>2, <1>3, <1>4 DEF LostInv, FirstIsNamed, Kept, Equipped

\* Checkpoints are written one at a time, elsewhere they stay.
LEMMA OrderGoesOn ==
  ASSUME TypeInv, LostInv, OrderInv, ~setting.long, UNCHANGED <<setting, msg>>, Alive,
         run'.step # "preflight", run'.first = run.first,
         store'.saved = store.saved, store'.ckpt = store.ckpt,
         row'.stage = row.stage \/ run.first <= row'.stage,
         Position' <= 4 => \A i \in ctx'.inv : i < Position' \/ i = run.first,
         Position' > 4 => AllAfter(ctx'.inv, Position'),
         run'.step = "boundary" /\ run'.at = run.first /\ run.first >= 2 => run'.at \in ctx'.inv
  PROVE  OrderInv'
<1> USE StageNumbers
<1>1. Invalidated /\ NeverEarlier
  BY DEF OrderInv
<1>2. msg.start # NoStage => run.first = msg.start
  BY ShortRun
<1>3. Invalidated'
  BY <1>1 DEF Invalidated, At
<1>4. NeverEarlier'
  BY <1>1, <1>2, Numbers DEF NeverEarlier
<1> QED
  BY <1>3, <1>4 DEF OrderInv

LEMMA OrderEnds ==
  ASSUME TypeInv, LostInv, OrderInv, UNCHANGED <<setting, msg>>, Ended,
         store'.saved = store.saved, store'.ckpt = store.ckpt,
         \/ row'.stage = row.stage
         \/ setting.long
         \/ Alive /\ (run.first <= row'.stage \/ run.first <= 1)
  PROVE  OrderInv'
<1> USE StageNumbers
<1>1. SUFFICES ASSUME ~setting.long PROVE Invalidated' /\ NeverEarlier'
  BY DEF OrderInv
<1>2. Invalidated /\ NeverEarlier
  BY <1>1 DEF OrderInv
<1>3. ~Alive' /\ run'.step = "idle"
  BY DEF Ended, Alive
<1>4. Invalidated'
  BY <1>2, <1>3 DEF Invalidated, At
<1>5. Alive /\ msg.start # NoStage => run.first = msg.start
  BY <1>1, ShortRun
<1>6. msg.start >= Diarizing => msg.start <= row'.stage
  <2>1. msg.start \in Int /\ (msg.start >= Diarizing => msg.start <= row.stage)
    BY <1>2, Numbers DEF NeverEarlier
  <2>2. CASE row'.stage = row.stage
    BY <2>1, <2>2
  <2>3. CASE Alive /\ (run.first <= row'.stage \/ run.first <= 1)
    BY <1>5, <2>1, <2>3
  <2> QED
    BY <1>1, <2>2, <2>3
<1>7. NeverEarlier'
  BY <1>3, <1>6 DEF NeverEarlier
<1> QED
  BY <1>4, <1>7

LEMMA OrderInit == Init => OrderInv
BY StageNumbers DEF Init, NoRun, OrderInv, Invalidated, NeverEarlier, Alive, At

LEMMA OrderBegins ==
  ASSUME TypeInv, LostInv, OrderInv, ~Alive, FindsOutput \/ Begins,
         UNCHANGED <<setting, msg, store, stale, left>>
  PROVE  OrderInv'
<1> USE StageNumbers
<1>1. SUFFICES ASSUME ~setting.long PROVE Invalidated' /\ NeverEarlier'
  BY DEF OrderInv
<1>2. Invalidated /\ NeverEarlier /\ msg.start \in Int /\ row.stage \in 0 .. 7
  BY <1>1, Numbers DEF OrderInv
<1>3. CASE FindsOutput
  <2>1. run' = run /\ ~Alive' /\ run'.step = "idle" /\ row'.stage = row.stage
    BY <1>3, FindsThere DEF Alive
  <2> QED
    BY <1>2, <2>1 DEF Invalidated, NeverEarlier, At
<1>4. CASE Begins
  <2>1. /\ run'.step = "preflight" /\ run'.first = FirstStage /\ row'.stage = row.stage
        /\ ctx'.inv = IF msg.start # NoStage \/ msg.force THEN {FirstStage} ELSE {}
    BY <1>4, BeginsThere
  <2>2. FirstStage \in {msg.start, row.stage, 1} /\ FirstStage \in Int
        /\ (FirstStage >= 2 => FirstStage <= row.stage)
    BY <1>2 DEF FirstStage, ResumeStage, NeverEarlier
  <2>3. NeverEarlier'
    BY <1>2, <2>1, <2>2 DEF NeverEarlier
  <2>4. Position' = IF FirstStage = 0 THEN 1 ELSE FirstStage
    BY <2>1 DEF Position, At
  <2>5. \A i \in ctx'.inv : i = FirstStage
    BY <2>1
  <2>6. Position' > 4 => AllAfter(ctx'.inv, Position')
    BY <2>1, <2>2, <2>4, <2>5 DEF AllAfter
  <2>7. Invalidated'
    BY <1>2, <2>1, <2>5, <2>6 DEF Invalidated, At
  <2> QED
    BY <2>3, <2>7
<1> QED
  BY <1>3, <1>4

LEMMA OrderMessages ==
  ASSUME TypeInv, LostInv, OrderInv, Reconcile \/ Resume
  PROVE  OrderInv'
<1> USE StageNumbers
<1>1. /\ UNCHANGED <<setting, store, run, ctx>> /\ run.step = "idle" /\ row'.stage = row.stage
      /\ msg'.start \in {-1, row.stage} /\ row.stage \in Int
  BY Standing, Numbers DEF Reconcile, Resume, RowType, TypeInv, RunsCounted, Alive
<1>2. ~setting.long => Invalidated'
  BY <1>1 DEF OrderInv, Invalidated, Alive, At
<1>3. ~setting.long => NeverEarlier'
  BY <1>1 DEF NeverEarlier, Alive
<1> QED
  BY <1>1, <1>2, <1>3 DEF OrderInv

LEMMA OrderEnd == ASSUME TypeInv, LostInv, OrderInv, Complete \/ Crash PROVE OrderInv'
<1>1. row'.stage = row.stage /\ Ends /\ UNCHANGED <<setting, msg, store>>
  BY Standing DEF Complete, Crash, Abandons, RowType
<1> QED
  BY <1>1, EndsThere, OrderEnds

LEMMA OrderFails ==
  ASSUME TypeInv, LostInv, OrderInv, Fails, UNCHANGED <<setting, msg>>,
         store'.saved = store.saved, store'.ckpt = store.ckpt
  PROVE  OrderInv'
BY FailsThere, OrderEnds

\* A run of the chain that pauses does so at the stage it is at.
LEMMA OrderPauses ==
  ASSUME TypeInv, LostInv, OrderInv, Pauses(run.at), UNCHANGED <<setting, msg>>,
         run.step \in {"boundary", "process", "synth"},
         store'.saved = store.saved, store'.ckpt = store.ckpt
  PROVE  OrderInv'
<1>1. Ended /\ row'.stage = run.at
  BY PausesThere
<1>2. Alive /\ (~setting.long => run.first <= run.at)
  BY ShortRun DEF Alive
<1> QED
  BY <1>1, <1>2, OrderEnds

LEMMA OrderPreflight == ASSUME TypeInv, LostInv, OrderInv, Preflight PROVE OrderInv'
<1> USE StageNumbers
<1>1. UNCHANGED <<setting, msg, store>> /\ run.step = "preflight" /\ Alive
  BY PreflightThere DEF Alive
<1>2. run.first \in 0 .. 7
  BY Numbers
<1>3. CASE Ended /\ row'.stage = PreflightStage
  <2>1. run.first <= row'.stage \/ run.first <= 1
    BY <1>2, <1>3 DEF PreflightStage
  <2> QED
    BY <1>1, <1>3, <2>1, OrderEnds
<1>4. CASE /\ ctx' = ctx /\ run'.first = run.first /\ run'.at = EntryStage
           /\ row'.stage = IF PreflightStage = Preparing THEN Preparing ELSE row.stage
           /\ run'.step = IF setting.long /\ run.first <= Transcribing THEN "front" ELSE "boundary"
  <2>1. SUFFICES ASSUME ~setting.long PROVE OrderInv'
    BY <1>1 DEF OrderInv
  <2>2. /\ Invalidated /\ NeverEarlier /\ run'.step = "boundary"
        /\ msg.start # NoStage => run.first = msg.start
        /\ ~msg.force => run.first = 1
    BY <1>1, <1>4, <2>1, ShortRun DEF OrderInv
  <2>3. Position' = Position /\ run'.at = Position
    BY <1>1, <1>4, <2>1, <2>2 DEF Position, At, EntryStage
  <2>4. run.first >= 2 => row'.stage = row.stage
    BY <1>2, <1>4 DEF PreflightStage
  <2>5. NeverEarlier'
    BY <1>1, <1>2, <1>4, <2>2, <2>4, Numbers DEF NeverEarlier
  <2>6. run.first >= 2 => run.first \in ctx.inv
    BY <1>1, <2>2 DEF LostInv, InPreflight, At
  <2>7. Invalidated'
    BY <1>1, <1>2, <1>4, <2>2, <2>3, <2>6 DEF Invalidated, Alive, At
  <2> QED
    BY <2>5, <2>7 DEF OrderInv
<1> QED
  BY <1>3, <1>4, PreflightThere

\* The checkpoint of translation is always of use.
LEMMA TranslationRestores ==
  ASSUME TypeInv, LostInv, ~setting.long, run.at \notin ctx.inv, run.at \in store.saved
  PROVE  Restores
<1> USE StageNumbers
<1>1. CASE run.at = 4
  <2>1. Fits(store.ckpt[4].segs, 5)
    BY <1>1 DEF LostInv, CheckpointsKept
  <2>2. HasSegments(store.ckpt[4].segs) /\ Translatable(store.ckpt[4].segs) = {}
    BY <2>1, FitsTranslated DEF Fits, Translatable
  <2> QED
    BY <1>1, <2>2 DEF Restores, RestoredIsValid, Loaded
<1> QED
  BY <1>1 DEF Restores, RestoredIsValid

LEMMA OrderBeginStage == ASSUME TypeInv, LostInv, OrderInv, BeginStage PROVE OrderInv'
<1> USE StageNumbers
<1>1. /\ UNCHANGED <<setting, msg, store>> /\ run.step = "boundary" /\ Alive
  BY BeginStageThere DEF Alive
<1>2. CASE Pauses(run.at)
  BY <1>1, <1>2, OrderPauses
<1>3. CASE setting.long
  BY <1>1, <1>3 DEF OrderInv
<1>4. CASE ~setting.long /\ ~Pauses(run.at)
  <2>1. /\ row'.stage = run.at /\ ctx' = ContextAfterRestore
        /\ run'.at = run.at /\ run'.first = run.first
        /\ run'.step = IF Restores THEN "persist" ELSE "process"
    BY <1>4, BeginStageThere DEF Continues
  <2>2. run.first <= run.at /\ run.at \in 1 .. 7 /\ Invalidated /\ run.at \in Chain
        /\ run.first \in 0 .. 7
    BY <1>1, <1>4, ShortRun DEF OrderInv
  <2>3. /\ Position = run.at
        /\ Position' = IF Restores THEN run.at + 1 ELSE run.at
    BY <1>1, <2>1 DEF Position, At
  <2>4. CASE run.at \notin ctx.inv /\ run.at \in store.saved /\ ctx' = store.ckpt[run.at]
    <3>1. Restores
      BY <1>4, <2>4, TranslationRestores
    <3>2. /\ run.at <= 3 => \A i \in ctx'.inv : i <= run.at
          /\ run.at >= 4 => AllAfter(ctx'.inv, run.at + 1)
      BY <2>2, <2>4 DEF Invalidated
    <3>3. \A i \in ctx'.inv : i \in Int
      BY <2>4, StoreParts DEF Context
    <3> QED
      BY <1>1, <1>4, <2>1, <2>2, <2>3, <3>1, <3>2, <3>3, OrderGoesOn
  <2>5. CASE ctx'.inv = ctx.inv
    <3>1. /\ run.at <= 4 => \A i \in ctx.inv : i < run.at \/ i = run.first
          /\ run.at > 4 => AllAfter(ctx.inv, run.at)
      BY <1>1, <2>2, <2>3 DEF Invalidated
    <3>2. \A i \in ctx.inv : i \in Int
      BY Standing
    <3>3. run.at = 4 => Mixing \notin ctx.inv
      BY <2>2, <3>1
    <3>4. Position' <= 4 => \A i \in ctx'.inv : i < Position' \/ i = run.first
      BY <2>2, <2>3, <2>5, <3>1, <3>2
    <3>5. Position' > 4 => AllAfter(ctx'.inv, Position')
      BY <2>2, <2>3, <2>5, <3>1, <3>3 DEF AllAfter
    <3> QED
      BY <1>1, <1>4, <2>1, <2>2, <3>4, <3>5, OrderGoesOn
  <2> QED
    BY <2>1, <2>2, <2>4, <2>5, RestoreThere
<1> QED
  BY <1>2, <1>3, <1>4

\* A stage is processed, or the run goes on after it, with what is invalid left so.
LEMMA OrderStepOn ==
  ASSUME TypeInv, LostInv, OrderInv, UNCHANGED <<setting, msg>>,
         run.step \in {"process", "synth"}, Continues("persist"),
         store'.saved = store.saved, store'.ckpt = store.ckpt, row'.stage = row.stage,
         ctx'.inv = ctx.inv
  PROVE  OrderInv'
<1> USE StageNumbers
<1>1. SUFFICES ASSUME ~setting.long PROVE OrderInv'
  BY DEF OrderInv
<1>2. /\ Alive /\ run'.step = "persist" /\ run'.at = run.at /\ run'.first = run.first
  BY DEF Alive, Continues
<1>3. run.first <= run.at /\ run.at \in 1 .. 7 /\ Invalidated /\ run.first \in 0 .. 7
  BY <1>1, <1>2, ShortRun DEF OrderInv
<1>4. Position = run.at /\ Position' = run.at + 1
  BY <1>2 DEF Position, At
<1>5. /\ run.at <= 4 => \A i \in ctx.inv : i < run.at \/ i = run.first
      /\ run.at > 4 => AllAfter(ctx.inv, run.at)
      /\ \A i \in ctx.inv : i \in Int
  BY <1>2, <1>3, <1>4, Standing DEF Invalidated
<1>6. run.at = 4 => Mixing \notin ctx.inv
  BY <1>3, <1>5
<1>7. Position' <= 4 => \A i \in ctx'.inv : i < Position' \/ i = run.first
  BY <1>3, <1>4, <1>5
<1>8. Position' > 4 => AllAfter(ctx'.inv, Position')
  BY <1>3, <1>4, <1>5, <1>6 DEF AllAfter
<1> QED
  BY <1>1, <1>2, <1>7, <1>8, OrderGoesOn

LEMMA OrderEarlyStages ==
  ASSUME TypeInv, LostInv, OrderInv, Separate \/ Diarize \/ Transcribe
  PROVE  OrderInv'
BY EarlyStagesThere, OrderPauses, OrderStepOn DEF ObjectsStay

LEMMA OrderTranslate == ASSUME TypeInv, LostInv, OrderInv, Translate PROVE OrderInv'
<1> USE StageNumbers
<1>1. /\ UNCHANGED <<setting, msg, store>> /\ run.step = "process" /\ run.at = 4 /\ Alive
  BY TranslateThere DEF Alive
<1>2. CASE Pauses(Translating) \/ Fails
  BY <1>1, <1>2, OrderPauses, OrderFails
<1>3. CASE ~Pauses(Translating) /\ ~Fails /\ ctx' = ctx
  BY <1>1, <1>3, TranslateThere, OrderStepOn
<1>4. CASE ctx'.inv = ctx.inv \cup {5, 6, 7} /\ row' = row /\ Continues("persist")
  <2>1. SUFFICES ASSUME ~setting.long PROVE OrderInv'
    BY <1>1 DEF OrderInv
  <2>2. Position' = 5 /\ run'.step = "persist" /\ run'.first = run.first
    BY <1>1, <1>4 DEF Position, At, Continues
  <2>3. AllAfter(ctx'.inv, 5)
    BY <1>4 DEF AllAfter
  <2> QED
    BY <1>1, <1>4, <2>1, <2>2, <2>3, OrderGoesOn
<1> QED
  BY <1>2, <1>3, <1>4, TranslateThere

LEMMA OrderSynthesize == ASSUME TypeInv, LostInv, OrderInv, Synthesize PROVE OrderInv'
<1> USE StageNumbers
<1>1. /\ UNCHANGED <<setting, msg, store>> /\ run.step = "process" /\ run.at = 5 /\ Alive
  BY SynthesizeThere DEF Alive
<1>2. CASE Fails
  BY <1>1, <1>2, OrderFails
<1>3. CASE row' = row /\ ctx' = ctx /\ Continues("persist")
  BY <1>1, <1>3, OrderStepOn
<1>4. CASE ctx'.inv = ctx.inv /\ row'.stage = row.stage /\ Continues("synth")
  <2>1. SUFFICES ASSUME ~setting.long PROVE OrderInv'
    BY <1>1 DEF OrderInv
  <2>2. /\ Position' = 5 /\ Position = 5 /\ run'.step = "synth" /\ run'.first = run.first
        /\ Invalidated
    BY <1>1, <1>4, <2>1 DEF Position, At, Continues, OrderInv
  <2>3. AllAfter(ctx'.inv, 5)
    BY <1>1, <1>4, <2>2 DEF Invalidated
  <2> QED
    BY <1>1, <1>4, <2>1, <2>2, <2>3, OrderGoesOn
<1> QED
  BY <1>2, <1>3, <1>4, SynthesizeThere

LEMMA OrderSpeaks ==
  ASSUME TypeInv, LostInv, OrderInv, NEW s \in Segs, SpeakSegment(s) \/ CollectClip(s)
  PROVE  OrderInv'
<1> USE StageNumbers
<1>1. /\ UNCHANGED <<setting, msg, run>> /\ run.step = "synth"
      /\ store'.saved = store.saved /\ store'.ckpt = store.ckpt
      /\ ctx'.inv = ctx.inv /\ row'.stage = row.stage
  BY SpeakThere, CollectThere DEF ObjectsStay
<1>2. ~setting.long => Invalidated' /\ NeverEarlier'
  BY <1>1 DEF OrderInv, Invalidated, NeverEarlier, Position, Alive, At
<1> QED
  BY <1>1, <1>2 DEF OrderInv

LEMMA OrderStops == ASSUME TypeInv, LostInv, OrderInv, SynthesisStops PROVE OrderInv'
<1>1. run.at = Synthesizing /\ run.step = "synth"
  BY StopsThere, AtSynth, StageNumbers
<1> QED
  BY <1>1, StopsThere, OrderPauses, OrderFails DEF ObjectsStay

LEMMA OrderLastStages ==
  ASSUME TypeInv, LostInv, OrderInv, SynthesisEnds \/ Align \/ MixShort PROVE OrderInv'
<1>1. CASE SynthesisEnds
  BY <1>1, SynthesisEndsThere, OrderStepOn
<1>2. CASE Align
  BY <1>2, AlignThere, OrderFails, OrderStepOn
<1>3. CASE MixShort
  BY <1>3, MixShortThere, OrderFails, OrderStepOn
<1> QED
  BY <1>1, <1>2, <1>3

LEMMA OrderPersist == ASSUME TypeInv, LostInv, OrderInv, PersistStage PROVE OrderInv'
<1> USE StageNumbers
<1>1. /\ UNCHANGED <<setting, msg, store>> /\ run.step = "persist" /\ Alive
      /\ row'.stage = row.stage /\ ctx'.inv = ctx.inv \ {run.at}
  BY PersistThere DEF Alive
<1>2. SUFFICES ASSUME ~setting.long PROVE OrderInv'
  BY <1>1 DEF OrderInv
<1>3. run'.step = "save" /\ run'.at = run.at /\ run'.first = run.first
  BY <1>2, PersistThere DEF Continues
<1>4. run.at \in 1 .. 7 /\ Invalidated
  BY <1>1, <1>2, ShortRun DEF OrderInv
<1>5. Position = run.at + 1 /\ Position' = run.at + 1
  BY <1>1, <1>3 DEF Position, At
<1>6. Position' <= 4 => \A i \in ctx'.inv : i < Position' \/ i = run.first
  BY <1>1, <1>4, <1>5 DEF Invalidated
<1>7. Position' > 4 => AllAfter(ctx'.inv, Position')
  BY <1>1, <1>4, <1>5 DEF Invalidated, AllAfter
<1> QED
  BY <1>1, <1>2, <1>3, <1>6, <1>7, OrderGoesOn

LEMMA OrderSave == ASSUME TypeInv, LostInv, OrderInv, SaveCheckpoint PROVE OrderInv'
<1> USE StageNumbers
<1>1. /\ UNCHANGED <<setting, row, msg, ctx>> /\ run.step = "save" /\ Alive /\ ~setting.long
      /\ run'.first = run.first
      /\ \/ run.at = 7 /\ run'.step = "done" /\ run'.at = run.at
         \/ run.at # 7 /\ run'.step = "boundary" /\ run'.at = run.at + 1
  BY SaveThere DEF Alive
<1>2. /\ run.at \in 1 .. 7 /\ Invalidated /\ NeverEarlier /\ run.first <= run.at
      /\ run.first \in 0 .. 7
  BY <1>1, ShortRun DEF OrderInv
<1>3. Position = run.at + 1 /\ Position' = run.at + 1
  BY <1>1, <1>2 DEF Position, At
<1>4. \A i \in ctx.inv : i \in Int
  BY Standing
<1>5. /\ run.at <= 3 => \A i \in ctx.inv : i <= run.at
      /\ run.at >= 4 => AllAfter(ctx.inv, run.at + 1)
  BY <1>1, <1>2, <1>3, <1>4 DEF Invalidated
<1>6. \A k \in store'.saved : \/ k \in store.saved /\ store'.ckpt[k] = store.ckpt[k]
                              \/ k = run.at /\ store'.ckpt[k] = ctx
  BY SaveThere, StoreParts
<1>7. \A k \in store'.saved :
          /\ k <= Transcribing => \A i \in store'.ckpt[k].inv : i <= k
          /\ k >= Translating => AllAfter(store'.ckpt[k].inv, k + 1)
  BY <1>2, <1>5, <1>6 DEF Invalidated
<1>8. Alive' /\ run'.step # "preflight" /\ (run'.step = "boundary" => run'.at # run.first)
  BY <1>1, <1>2 DEF Alive
<1>9. Invalidated'
  BY <1>1, <1>2, <1>3, <1>7, <1>8 DEF Invalidated, At
<1>10. NeverEarlier'
  BY <1>1, <1>2, <1>8 DEF NeverEarlier
<1> QED
  BY <1>9, <1>10 DEF OrderInv

LEMMA OrderEstimator == ASSUME TypeInv, LostInv, OrderInv, Estimator PROVE OrderInv'
<1> USE StageNumbers
<1>1. /\ UNCHANGED <<setting, msg, store, ctx>> /\ run'.step = run.step /\ run'.at = run.at
      /\ run'.first = run.first /\ InTheChain
      /\ (row' = row \/ Floor <= row'.stage)
  BY EstimatorThere
<1>2. Alive
  BY <1>1 DEF InTheChain, Alive
<1>3. ~setting.long => Invalidated'
  BY <1>1 DEF OrderInv, Invalidated, Position, Alive, At
<1>4. ~setting.long => NeverEarlier'
  BY <1>1, <1>2, ShortRun, Numbers DEF OrderInv, NeverEarlier, Floor
<1> QED
  BY <1>1, <1>3, <1>4 DEF OrderInv

\* Recordings that are not short.
LEMMA OrderLong ==
  ASSUME TypeInv, LostInv, ThreadStep \/ MainStep \/ MixChunk \/ JoinChunks PROVE OrderInv'
<1>1. CASE ThreadStep
  BY <1>1, ThreadsThere, InPoolsKnown DEF OrderInv
<1>2. CASE MainStep
  <2>1. /\ run.step \in {"front", "pools", "drain"} /\ UNCHANGED setting
    BY <1>2, TakesThere, RaisesThere, FrontStartThere, FrontStopsThere, JobNames
       DEF MainStep, FrontEnds, At
  <2> QED
    BY <2>1, InFrontKnown DEF OrderInv
<1>3. CASE MixChunk \/ JoinChunks
  BY <1>3, MixChunkThere, JoinThere DEF OrderInv
<1> QED
  BY <1>1, <1>2, <1>3

LEMMA OrderInductive == TypeInv /\ LostInv /\ OrderInv /\ [Next]_vars => OrderInv'
<1> SUFFICES ASSUME TypeInv, LostInv, OrderInv, [Next]_vars PROVE OrderInv'
  OBVIOUS
<1>1. CASE Deliver \/ Redeliver
  BY <1>1, OrderBegins DEF Deliver, Redeliver
<1>2. CASE Reconcile \/ Resume
  BY <1>2, OrderMessages
<1>3. CASE Crash \/ Complete
  BY <1>3, OrderEnd
<1>4. CASE StageStep
  BY <1>4, OrderBeginStage, OrderEarlyStages, OrderTranslate, OrderSynthesize, OrderSpeaks,
     OrderStops, OrderLastStages, OrderLong, OrderPersist, OrderSave DEF StageStep
<1>5. CASE UNCHANGED vars
  BY <1>5 DEF vars, OrderInv, Invalidated, NeverEarlier, Position, Alive, At
<1> QED
  BY <1>1, <1>2, <1>3, <1>4, <1>5, OrderPreflight, OrderLong, OrderEstimator DEF Next, RunStep

LEMMA OrderInvariant == Spec => []OrderInv
BY OrderInit, OrderInductive, TypeInvariant, LostInvariant, PTL DEF Spec
=============================================================================
