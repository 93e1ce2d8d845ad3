---------------------- MODULE TaskPipelineHeard_proofs ----------------------
(***************************************************************************)
(* Proof that what a listener hears is what the transcript shows.  Rows,   *)
(* checkpoints, clips, mixed chunks and the final object may be of several *)
(* translations; what a run, or a later one, can still take over is of one *)
(* translation, whatever stage each of them stops at.                      *)
(***************************************************************************)
EXTENDS TaskPipelineResume_proofs

(* A short recording.                                                      *)

\* Where this run began, or the next one would.
Begun == IF Alive THEN run.first ELSE FirstStage
Early == Begun <= Separating

\* A checkpoint up to translation that a run may yet restore, and one that no other up to
\* transcription would replace.
Live(k) == k \in store.saved /\ (Begun < k \/ Early)
Last(k) ==
    /\ Live(k) /\ k <= Transcribing
    /\ \A j \in {Diarizing, Transcribing} : j > k => j \notin store.saved

\* What was made from a translation is made from this one.
Agrees(segs, objects) ==
    /\ \A k \in objects.saved : k >= Synthesizing => Same(objects.ckpt[k].segs, segs)
    /\ \A s \in Segs : objects.clip[s] \in {NoTranslation, segs[s].trans}
    /\ objects.made => \A s \in Segs : objects.out[s] = segs[s].trans
Fresh(segs) ==
    Done(segs) =>
        /\ Agrees(segs, store)
        /\ Live(Translating) => Same(segs, store.ckpt[Translating].segs)

RowIsFirst ==
    Last(Separating) /\ Done(store.ckpt[Separating].segs) =>
        Same(row.segs, store.ckpt[Separating].segs)

\* What a run may begin with.
RowLives ==
    Early /\ Diarizing \notin store.saved /\ Transcribing \notin store.saved
SourcesFresh ==
    /\ Live(Translating) => Agrees(store.ckpt[Translating].segs, store)
    /\ \A k \in Chain : Last(k) => Fresh(store.ckpt[k].segs)
    /\ (row.stage >= Translating \/ Begun >= Translating) /\ Done(row.segs) => Agrees(row.segs, store)
    /\ RowLives => Fresh(row.segs)

OutputIsRow == store.made => \A s \in Segs : store.out[s] = row.segs[s].trans

\* Up to translation, the context may still be replaced; if it is not, it is as good as what it
\* was taken from.
ContextLives ==
    /\ \A k \in {Diarizing, Transcribing} : k >= Position => k \notin store.saved
    /\ run.first \in {Diarizing, Transcribing} => run.first < Position
ContextFresh ==
    /\ ContextLives => Fresh(ctx.segs)
    /\ \A k \in Chain : k < Position /\ Last(k) /\ Done(store.ckpt[k].segs) =>
          Same(ctx.segs, store.ckpt[k].segs)
    /\ Position = Translating /\ ~At("persist") => Same(row.segs, ctx.segs)
    /\ run.at <= Separating /\ RowLives /\ Done(ctx.segs) => Same(row.segs, ctx.segs)
    /\ run.at <= Separating /\ (At("boundary") \/ At("process")) => Same(row.segs, ctx.segs)
    /\ At("process") /\ run.at >= Diarizing /\ run.at # run.first =>
          /\ run.at \notin store.saved
          /\ run.at <= Transcribing => Blank(ctx.segs)

\* From synthesis on, for a long recording from the beginning: a clip is of another translation
\* only if synthesis is still invalid.
Speaks ==
    /\ Synthesizing \notin ctx.inv =>
          \A s \in Segs : store.clip[s] \in {NoTranslation, ctx.segs[s].trans}
    /\ \A s \in Segs : ctx.segs[s].url => store.clip[s] = ctx.segs[s].trans
    /\ At("synth") \/ AfterSynthesis =>
          \A s \in ctx.clips : store.clip[s] = ctx.segs[s].trans
    /\ run.at = Mixing /\ run.step \in {"persist", "save", "done"} =>
          \A s \in Segs : store.out[s] = ctx.segs[s].trans

RowKnown ==
    /\ Blank(row.segs) \/ Same(row.segs, ctx.segs)
    /\ run.at >= Synthesizing \/ At("save") \/ (At("preflight") /\ run.first >= Synthesizing) =>
          Same(row.segs, ctx.segs)

AfterTranslation ==
    /\ Speaks /\ RowKnown
    /\ Mixing \notin ctx.inv /\ ~(run.at = Mixing /\ run.step \in {"save", "done"}) =>
          Agrees(ctx.segs, store)
    /\ Live(Translating) => Same(ctx.segs, store.ckpt[Translating].segs)
    /\ \A k \in Chain : Last(k) /\ Done(store.ckpt[k].segs) => Same(ctx.segs, store.ckpt[k].segs)

ShortHeard ==
    /\ RowIsFirst
    /\ ~Alive => OutputIsRow
    /\ ~Alive \/ Position <= Translating => SourcesFresh
    /\ Alive /\ Position <= Translating => ContextFresh
    /\ Alive /\ Position > Translating => AfterTranslation

-----------------------------------------------------------------------------
(* A long recording.                                                       *)

NoClips == \A s \in Segs : store.clip[s] = NoTranslation /\ store.mixed[s] = NoTranslation

\* Overlapped translation invalidates nothing; unless a run has crashed, there is nothing yet.
Untouched ==
    setting.overlap =>
        /\ ~Alive => row.status # "processing"
        /\ ~Alive /\ row.status = "pending" /\ FirstStage <= Transcribing => NoClips
        /\ ~Alive /\ row.status = "paused" /\ row.stage <= Transcribing => NoClips
        /\ At("preflight") /\ run.first <= Transcribing => NoClips
        /\ run.step \in {"front", "pools", "drain"} => NoClips

ChunksSpeak ==
    /\ Mixing \notin ctx.inv =>
          \A s \in Segs : store.mixed[s] \in {NoTranslation, ctx.segs[s].trans}
    /\ At("process") /\ run.at = Mixing =>
          \A c \in Segs : c <= run.mixed => store.mixed[c] = ctx.segs[c].trans
    /\ run.at = Mixing /\ run.step \in {"persist", "done"} =>
          \A s \in Segs : store.mixed[s] = ctx.segs[s].trans

LongHeard ==
    /\ Untouched
    /\ ~Alive =>
          /\ OutputIsRow
          /\ Done(row.segs) => \A s \in Segs :
                /\ store.clip[s] \in {NoTranslation, row.segs[s].trans}
                /\ store.mixed[s] \in {NoTranslation, row.segs[s].trans}
    /\ Alive => RowKnown /\ (Done(ctx.segs) => Speaks /\ ChunksSpeak)

Exempt == stale \/ (setting.long /\ setting.overlap /\ Crashed)
Open == row.status \in {"pending", "processing", "paused"}
HeardInv ==
    ~Exempt =>
        /\ row.status = "completed" => HeardIsShown
        /\ Open => IF setting.long THEN LongHeard ELSE ShortHeard

-----------------------------------------------------------------------------
(* What may still be taken over is of one translation.                     *)

LEMMA SameIs ==
  ASSUME NEW segs, NEW others, Same(segs, others)
  PROVE  /\ Same(others, segs) /\ Same(segs, segs)
         /\ Done(segs) <=> Done(others)
         /\ Blank(segs) <=> Blank(others)
         /\ \A third : Same(others, third) <=> Same(segs, third)
         /\ \A objects : Agrees(segs, objects) <=> Agrees(others, objects)
<1>1. \A third : Same(others, third) <=> Same(segs, third)
  BY DEF Same
<1>2. \A third : Same(third, others) <=> Same(third, segs)
  BY DEF Same
<1>3. \A objects : Agrees(segs, objects) <=> Agrees(others, objects)
  BY <1>2 DEF Same, Agrees
<1> QED
  BY <1>1, <1>3 DEF Same, Done, Blank

LEMMA SameSegs == \A segs, others : segs = others => Same(segs, others)
BY DEF Same

\* Nothing is both translated and not.
LEMMA NotBoth == \A segs : ~(Blank(segs) /\ Done(segs))
<1>1. 1 \in Segs
  BY PipelineAssumption DEF Segs
<1> QED
  BY <1>1 DEF Blank, Done

LEMMA AgreesStays ==
  ASSUME NEW segs, Agrees(segs, store), ObjectsStay,
         \A s \in Segs : store'.clip[s] \in {store.clip[s], segs[s].trans}
  PROVE  Agrees(segs, store')
BY DEF Agrees, ObjectsStay

LEMMA BegunType == ASSUME TypeInv PROVE Begun \in Int /\ FirstStage \in Int
<1>1. FirstStage \in Int
  BY Numbers, StageNumbers DEF FirstStage, ResumeStage
<1> QED
  BY <1>1, Numbers DEF Begun

LEMMA BegunTypeNext ==
  ASSUME TypeInv'
  PROVE  Begun' \in Int /\ row'.stage \in Int /\ run'.first \in Int
<1> USE StageNumbers
<1>1. /\ row' \in [status : Statuses, stage : Stages, segs : [Segs -> Segment]]
      /\ msg' \in [start : Stages \cup {NoStage}, force : BOOLEAN]
      /\ run'.first \in Stages
  BY DEF TypeInv, TypeOK, Statuses
<1>2. row'.stage \in Int /\ msg'.start \in Int /\ run'.first \in Int
  BY <1>1
<1> QED
  BY <1>2 DEF Begun, FirstStage, ResumeStage

\* A later run may restore no more than the one before.
LEMMA LivesNoMore ==
  ASSUME TypeInv, TypeInv', store'.saved = store.saved, Early \/ Begun <= Begun'
  PROVE  /\ \A k \in Chain : (Live(k)' => Live(k)) /\ (Last(k)' => Last(k))
         /\ RowLives' => RowLives
<1> USE StageNumbers
<1>1. Begun \in Int /\ Begun' \in Int
  BY BegunType, BegunTypeNext
<1>2. Early' => Early
  BY <1>1 DEF Early
<1>3. ASSUME NEW k \in Chain, Live(k)' PROVE Live(k)
  <2>1. k \in Int
    BY <1>3
  <2> QED
    BY <1>1, <1>2, <1>3, <2>1 DEF Live, Early
<1> QED
  BY <1>2, <1>3 DEF Last, RowLives

\* Where the next run would begin is no earlier than where this one did.
LEMMA BegunSame ==
  ASSUME TypeInv, Alive, Alive', run'.first = run.first PROVE Begun' = Begun
BY DEF Begun

LEMMA BegunEnds ==
  ASSUME TypeInv, TypeInv', LostInv, OrderInv, ~setting.long, Alive, ~Alive', msg' = msg,
         row'.stage = row.stage \/ run.first <= row'.stage \/ run.first <= 1
  PROVE  Early \/ Begun <= Begun'
<1> USE StageNumbers
<1>1. Begun = run.first /\ Begun' = FirstStage'
  BY DEF Begun
<1>2. /\ msg.start # NoStage => run.first = msg.start
      /\ ~msg.force => run.first = Separating
      /\ run.first >= 2 => run.first <= row.stage
      /\ run.first \in Int /\ row.stage \in Int
  BY ShortRun, Numbers DEF OrderInv, NeverEarlier
<1>3. row'.stage \in Int
  BY BegunTypeNext
<1> QED
  BY <1>1, <1>2, <1>3 DEF FirstStage, ResumeStage, Early

\* What may be taken over stays if nothing but the stage of the row changes.
LEMMA SourcesStay ==
  ASSUME TypeInv, SourcesFresh, ObjectsStay, store'.clip = store.clip,
         \A k \in Chain : (Live(k)' => Live(k)) /\ (Last(k)' => Last(k)), RowLives' => RowLives,
         row'.segs = row.segs,
         (row'.stage >= Translating \/ Begun' >= Translating) /\ Done(row.segs)
            => Agrees(row.segs, store)
  PROVE  SourcesFresh'
<1> USE StageNumbers
<1>1. \A segs : Agrees(segs, store) => Agrees(segs, store')
  BY DEF Agrees, ObjectsStay
<1>2. ASSUME NEW segs, Fresh(segs), Done(segs)
      PROVE  Agrees(segs, store') /\ (Live(Translating)' => Same(segs, store.ckpt[Translating].segs))
  <2>1. Live(Translating)' => Live(Translating)
    BY DEF Chain
  <2> QED
    BY <1>1, <1>2, <2>1 DEF Fresh
<1>3. (Live(Translating) => Agrees(store.ckpt[Translating].segs, store))'
  BY <1>1 DEF SourcesFresh, ObjectsStay
<1>4. ASSUME NEW k \in Chain, Last(k)' PROVE Fresh(store.ckpt[k].segs)'
  <2>1. Fresh(store.ckpt[k].segs) /\ store'.ckpt = store.ckpt
    BY <1>4 DEF SourcesFresh, ObjectsStay
  <2> QED
    BY <1>2, <2>1 DEF Fresh
<1>5. ((row.stage >= Translating \/ Begun >= Translating) /\ Done(row.segs)
            => Agrees(row.segs, store))'
  BY <1>1
<1>6. RowLives' => Fresh(row.segs)'
  <2>1. RowLives' => Fresh(row.segs)
    BY DEF SourcesFresh
  <2> QED
    BY <1>2, <2>1 DEF Fresh, ObjectsStay
<1> QED
  BY <1>3, <1>4, <1>5, <1>6 DEF SourcesFresh

LEMMA RowIsFirstStays ==
  ASSUME RowIsFirst, store'.ckpt = store.ckpt, row'.segs = row.segs,
         Last(Separating)' => Last(Separating)
  PROVE  RowIsFirst'
BY DEF RowIsFirst

\* What is over is never made good again.
LEMMA Spending ==
  ASSUME left \in LeftType
  PROVE  /\ SpendPause => left'.crash = left.crash
         /\ SpendError => left'.crash = left.crash
         /\ UNCHANGED left => left'.crash = left.crash
BY DEF SpendPause, SpendError, LeftType

LEMMA EndHistory ==
  /\ Abandons => (stale => stale')
  /\ \A stage : Pauses(stage) => (stale => stale')
  /\ Fails => (stale => stale')
  /\ UNCHANGED stale => (stale => stale')
<1>1. Abandons => (stale => stale')
  BY DEF Abandons
<1> QED
  BY <1>1 DEF Pauses, Fails

LEMMA ThreadHistory ==
  ASSUME TypeInv, ThreadStep \/ MainStep
  PROVE  /\ setting' = setting /\ (stale => stale') /\ left'.crash = left.crash
<1>1. left \in LeftType
  BY Standing
<1>2. CASE ThreadStep
  <2>1. setting' = setting /\ stale' = stale
    BY <1>2 DEF ThreadStep, StartJob, JobStops, SeparateChunk, DiarizeChunk, TranscribeChunk,
       TranslateChunk
  <2>2. SpendPause \/ SpendError \/ UNCHANGED left
    BY <1>2 DEF ThreadStep, StartJob, JobStops, SeparateChunk, DiarizeChunk, TranscribeChunk,
       TranslateChunk
  <2> QED
    BY <1>1, <2>1, <2>2, Spending, EndHistory
<1>3. CASE MainStep
  <2>1. setting' = setting /\ left' = left
    BY <1>3 DEF MainStep, TakeSeparated, TakeDiarized, TakeTranscribed, FrontJobRaises,
       TranslationRaises, Raises, FrontStart, FrontStops, FrontEnds
  <2>2. UNCHANGED stale \/ (\E stage : Pauses(stage)) \/ Fails
    BY <1>3 DEF MainStep, TakeSeparated, TakeDiarized, TakeTranscribed, FrontJobRaises,
       TranslationRaises, Raises, FrontStart, FrontStops, FrontEnds
  <2> QED
    BY <2>1, <2>2, EndHistory
<1> QED
  BY <1>2, <1>3

LEMMA StageHistory ==
  ASSUME TypeInv, StageStep
  PROVE  /\ setting' = setting /\ (stale => stale') /\ left'.crash = left.crash
<1>1. left \in LeftType
  BY Standing
<1> DEFINE Moderate ==
      /\ setting' = setting
      /\ UNCHANGED stale \/ (\E stage : Pauses(stage)) \/ Fails
      /\ SpendPause \/ SpendError \/ UNCHANGED left \/ left'.crash = left.crash
<1>2. BeginStage \/ Separate \/ Diarize \/ Transcribe \/ Translate => Moderate
  BY DEF BeginStage, Separate, Diarize, Transcribe, Translate
<1>3. Synthesize \/ SynthesisStops \/ SynthesisEnds => Moderate
  BY DEF Synthesize, SynthesisStops, SynthesisEnds
<1>4. \A s \in Segs : SpeakSegment(s) \/ CollectClip(s) => Moderate
  BY DEF SpeakSegment, CollectClip
<1>5. Align \/ MixShort \/ MixChunk \/ JoinChunks => Moderate
  BY DEF Align, MixShort, MixChunk, JoinChunks
<1>6. PersistStage \/ SaveCheckpoint => Moderate
  <2>1. left.unsaved > 0 /\ left' = [left EXCEPT !.unsaved = @ - 1] => left'.crash = left.crash
    BY <1>1 DEF LeftType
  <2> QED
    BY <2>1 DEF PersistStage, SaveCheckpoint
<1>7. Moderate
  <2> HIDE DEF Moderate
  <2> QED
    BY <1>2, <1>3, <1>4, <1>5, <1>6 DEF StageStep
<1> QED
  BY <1>1, <1>7, Spending, EndHistory

LEMMA ExemptStays == ASSUME TypeInv, TypeInv', [Next]_vars, Exempt PROVE Exempt'
<1>1. left \in LeftType /\ left' \in LeftType
  BY Standing DEF TypeInv, TypeOK, LeftType
<1>2. left.crash \in Int /\ left'.crash \in Int
  BY <1>1, PipelineAssumption DEF LeftType
<1>3. setting' = setting /\ (stale => stale') /\ left'.crash <= left.crash
  <2>1. CASE Deliver \/ Redeliver \/ Reconcile \/ Resume \/ Complete \/ UNCHANGED vars \/ Estimator
    BY <1>2, <2>1 DEF Deliver, Redeliver, Reconcile, Resume, Complete, Estimator, EstimatorReads,
       EstimatorWrites, vars
  <2>2. CASE Crash
    <3>1. left'.crash = left.crash - 1 /\ setting' = setting
      BY <1>1, <2>2 DEF Crash, LeftType
    <3> QED
      BY <1>2, <2>2, <3>1, EndHistory DEF Crash
  <2>3. CASE Preflight
    <3>1. setting' = setting /\ (SpendPause \/ UNCHANGED left) /\ (Abandons \/ UNCHANGED stale)
      BY <2>3 DEF Preflight
    <3> QED
      BY <1>1, <1>2, <3>1, Spending, EndHistory
  <2> QED
    BY <1>2, <2>1, <2>2, <2>3, ThreadHistory, StageHistory DEF Next, RunStep
<1> QED
  BY <1>2, <1>3, PipelineAssumption DEF Exempt, Crashed

\* A short recording whose translation is done with.
LEMMA LateIsDone ==
  ASSUME TypeInv, LostInv, SoundInv, ~setting.long, Alive, Position > Translating
  PROVE  Done(ctx.segs)
<1> USE StageNumbers
<1>1. /\ run.step \in {"preflight", "boundary", "process", "synth", "persist", "save", "done"}
      /\ run.step # "preflight" => run.at \in 1 .. 7 /\ ContextInChain
      /\ Kept /\ Equipped /\ run.first \in Int
  BY ShortRun, Numbers
<1>2. \A i \in Int : i >= 5 /\ Fits(ctx.segs, i) => Done(ctx.segs)
  BY DEF Fits, Done
<1>3. CASE At("preflight")
  <2>1. Fits(ctx.segs, run.first)
    BY <1>1, <1>3 DEF LostInv, InPreflight
  <2> QED
    BY <1>1, <1>2, <1>3, <2>1 DEF Position
<1>4. CASE run.step = "done"
  BY <1>1, <1>4 DEF At, SoundInv, ContextSpoken, AfterSynthesis
<1>5. CASE run.step \in {"boundary", "process", "synth"}
  BY <1>1, <1>2, <1>5 DEF ContextInChain, Position, At
<1>6. CASE run.step \in {"persist", "save"}
  BY <1>1, <1>2, <1>6 DEF ContextInChain, Position, At
<1> QED
  BY <1>1, <1>3, <1>4, <1>5, <1>6 DEF At

\* At the beginning of translation the row is as good as the context.
LEMMA RowAtTranslation ==
  ASSUME TypeInv, ContextFresh, Position = Translating, ~At("persist"), Done(row.segs)
  PROVE  Agrees(row.segs, store)
<1>1. ContextLives
  BY StageNumbers DEF ContextLives
<1>2. Same(row.segs, ctx.segs) /\ Fresh(ctx.segs)
  BY <1>1 DEF ContextFresh
<1> QED
  BY <1>2, SameIs DEF Fresh

\* Where a run ends and leaves nothing stale, all that is left is of one translation.
LEMMA LateEnds ==
  ASSUME TypeInv, TypeInv', LostInv, SoundInv, ~setting.long, AfterTranslation, ObjectsStay,
         Alive, Position > Translating, ~LeavesStale,
         \A s \in Segs : store'.clip[s] \in {store.clip[s], ctx.segs[s].trans},
         \A k \in Chain : (Live(k)' => Live(k)) /\ (Last(k)' => Last(k)),
         row'.segs = row.segs
  PROVE  SourcesFresh'
<1> USE StageNumbers
<1>1. Done(ctx.segs)
  BY LateIsDone
<1>2. \A s \in Segs : store.clip[s] \in {NoTranslation, ctx.segs[s].trans}
  BY DEF AfterTranslation, Speaks, LeavesStale
<1>3. \A k \in store.saved : k >= Synthesizing => Same(store.ckpt[k].segs, ctx.segs)
  <2>1. \A k \in store.saved : k \in 1 .. 7
    BY StoreParts
  <2> QED
    BY <1>1, <2>1 DEF LeavesStale, Done, Same
<1>4. Blank(row.segs) \/ Same(row.segs, ctx.segs)
  BY DEF AfterTranslation, RowKnown
<1>5. store.made => \A s \in Segs : store.out[s] = ctx.segs[s].trans
  <2>1. store.made => \A s \in Segs : store.out[s] = row.segs[s].trans /\ store.out[s] # NoTranslation
    BY DEF LeavesStale, SoundInv, StoreSpoken
  <2>2. 1 \in Segs
    BY PipelineAssumption DEF Segs
  <2> QED
    BY <1>4, <2>1, <2>2 DEF Blank, Same
<1>6. Agrees(ctx.segs, store')
  BY <1>2, <1>3, <1>5 DEF Agrees, ObjectsStay
<1>7. ASSUME NEW segs, Same(segs, ctx.segs)
      PROVE  Agrees(segs, store') /\ (Live(Translating) => Same(segs, store.ckpt[Translating].segs))
  BY <1>6, <1>7, SameIs DEF AfterTranslation
<1>8. Live(Translating)' => Live(Translating)
  BY DEF Chain
<1>9. \A segs : Same(segs, ctx.segs) <=> Same(ctx.segs, segs)
  BY DEF Same
<1>10. (Live(Translating) => Agrees(store.ckpt[Translating].segs, store))'
  BY <1>7, <1>8, <1>9 DEF AfterTranslation, ObjectsStay
<1>11. ASSUME NEW k \in Chain, Last(k)' PROVE Fresh(store.ckpt[k].segs)'
  <2>1. Done(store.ckpt[k].segs) => Same(store.ckpt[k].segs, ctx.segs)
    BY <1>9, <1>11 DEF AfterTranslation
  <2> QED
    BY <1>7, <1>8, <2>1 DEF Fresh, ObjectsStay
<1>12. Done(row.segs) => Same(row.segs, ctx.segs)
  BY <1>4, NotBoth
<1>13. ((row.stage >= Translating \/ Begun >= Translating) /\ Done(row.segs)
            => Agrees(row.segs, store))'
  BY <1>7, <1>12
<1>14. (RowLives => Fresh(row.segs))'
  BY <1>7, <1>8, <1>12 DEF Fresh, ObjectsStay
<1> QED
  BY <1>10, <1>11, <1>13, <1>14 DEF SourcesFresh

LEMMA EarlyEnds ==
  ASSUME TypeInv, TypeInv', LostInv, ~setting.long, SourcesFresh, ContextFresh, ObjectsStay,
         Alive, Position <= Translating, Ended, msg' = msg, store'.clip = store.clip,
         \A k \in Chain : (Live(k)' => Live(k)) /\ (Last(k)' => Last(k)), RowLives' => RowLives,
         row'.segs = row.segs,
         \/ row'.stage = row.stage
         \/ row'.stage <= Transcribing
         \/ run.first >= Translating
         \/ Position = Translating /\ ~At("persist")
  PROVE  SourcesFresh'
<1> USE StageNumbers
<1>1. Begun = run.first /\ Begun' = FirstStage'
  BY DEF Begun, Ended, Alive
<1>2. row'.stage \in Int /\ (msg.start # NoStage => run.first = msg.start)
  BY BegunTypeNext, ShortRun
<1>3. FirstStage' >= Translating => row'.stage >= Translating \/ run.first >= Translating
  BY <1>2 DEF FirstStage, ResumeStage
<1>4. ASSUME row'.stage >= Translating \/ Begun' >= Translating, Done(row.segs)
      PROVE  Agrees(row.segs, store)
  <2>1. row'.stage >= Translating \/ run.first >= Translating
    BY <1>1, <1>3, <1>4
  <2>2. CASE row.stage >= Translating \/ Begun >= Translating
    BY <1>4, <2>2 DEF SourcesFresh
  <2>3. CASE Position = Translating /\ ~At("persist")
    BY <1>4, <2>3, RowAtTranslation
  <2> QED
    BY <1>1, <1>2, <2>1, <2>2, <2>3
<1> QED
  BY <1>4, SourcesStay

LEMMA ShortEnds ==
  ASSUME TypeInv, TypeInv', LostInv, SoundInv, OrderInv, ~setting.long, ShortHeard, ObjectsStay,
         Alive, Ended, ~LeavesStale, msg' = msg, row'.segs = row.segs,
         Position <= Translating => store'.clip = store.clip,
         \A s \in Segs : store'.clip[s] \in {store.clip[s], ctx.segs[s].trans},
         row'.stage = row.stage \/ run.first <= row'.stage \/ run.first <= 1,
         Position <= Translating =>
            \/ row'.stage = row.stage
            \/ row'.stage <= Transcribing
            \/ run.first >= Translating
            \/ Position = Translating /\ ~At("persist")
  PROVE  ShortHeard'
<1> USE StageNumbers
<1>1. ~Alive' /\ Position \in Int
  BY ShortRun DEF Ended, Alive
<1>2. /\ \A k \in Chain : (Live(k)' => Live(k)) /\ (Last(k)' => Last(k))
      /\ RowLives' => RowLives
  BY <1>1, BegunEnds, LivesNoMore DEF ObjectsStay
<1>3. RowIsFirst'
  BY <1>2, RowIsFirstStays DEF ShortHeard, ObjectsStay, Chain
<1>4. OutputIsRow'
  BY DEF LeavesStale, OutputIsRow, ObjectsStay
<1>5. SourcesFresh'
  <2>1. CASE Position <= Translating
    BY <1>2, <2>1, EarlyEnds DEF ShortHeard
  <2>2. CASE Position > Translating
    BY <1>2, <2>2, LateEnds DEF ShortHeard
  <2> QED
    BY <1>1, <2>1, <2>2
<1> QED
  BY <1>1, <1>3, <1>4, <1>5 DEF ShortHeard

\* A translation that everything made from a translation agrees with.
LEMMA TakenSpeaks ==
  ASSUME Agrees(ctx.segs, store)', Named(ctx.segs, store.clip)', run'.step # "synth",
         ~AfterSynthesis' \/ ctx'.clips = {},
         run'.at # Mixing \/ run'.step \in {"preflight", "boundary", "process"}
  PROVE  Speaks'
<1>1. \A s \in Segs : /\ store'.clip[s] \in {NoTranslation, ctx'.segs[s].trans}
                      /\ ctx'.segs[s].url => store'.clip[s] # NoTranslation
  BY DEF Agrees, Named
<1> QED
  BY <1>1 DEF Speaks, At

LEMMA ShortBegins ==
  ASSUME TypeInv, TypeInv', LostInv', SoundInv, ~setting.long, ShortHeard, ~Alive,
         Begins, UNCHANGED <<setting, msg, store>>
  PROVE  ShortHeard'
<1> USE StageNumbers
<1>1. /\ run'.step = "preflight" /\ run'.at = 0 /\ run'.first = FirstStage
      /\ ctx'.segs = row.segs /\ ctx'.clips = {} /\ row'.segs = row.segs
      /\ row'.stage = row.stage
  BY BeginsThere
<1>2. Alive' /\ Begun = run'.first /\ Begun' = run'.first /\ run'.first \in 0 .. 7
  <2>1. run'.first \in Stages
    BY DEF TypeInv, TypeOK
  <2> QED
    BY <1>1, <2>1 DEF Alive, Begun
<1>3. /\ \A k \in Chain : (Live(k)' <=> Live(k)) /\ (Last(k)' <=> Last(k))
      /\ RowLives' <=> RowLives
  BY <1>2 DEF Live, Last, RowLives, Early
<1>4. RowIsFirst'
  BY <1>1, <1>3, RowIsFirstStays DEF ShortHeard, Chain
<1>5. Position' = IF run'.first = 0 THEN 1 ELSE run'.first
  BY <1>1 DEF Position, At
<1>6. SourcesFresh /\ ObjectsStay
  BY StoreStays DEF ShortHeard
<1>9. Position' \in Int /\ Begun \in Int /\ Begun' \in Int
  BY <1>2, <1>5
<1>7. CASE Position' <= 4
  <2>1. SourcesFresh'
    <3>1. (row'.stage >= 4 \/ Begun' >= 4) /\ Done(row.segs) => Agrees(row.segs, store)
      BY <1>1, <1>2, <1>6 DEF SourcesFresh
    <3> QED
      BY <1>1, <1>3, <1>6, <3>1, SourcesStay
  <2>2. ASSUME ContextLives' PROVE Fresh(row.segs)
    <3>1. CASE run'.first \in {0, 1}
      <4>1. RowLives
        BY <1>2, <1>5, <2>2, <3>1 DEF ContextLives, RowLives, Early
      <4> QED
        BY <1>6, <4>1 DEF SourcesFresh
    <3>2. CASE run'.first \in {2, 3}
      BY <1>5, <2>2, <3>2 DEF ContextLives
    <3>3. CASE run'.first = 4
      BY <1>2, <1>6, <3>3 DEF SourcesFresh, Fresh, Live, Early
    <3> QED
      BY <1>2, <1>5, <1>7, <3>1, <3>2, <3>3
  <2>3. (ContextLives => Fresh(ctx.segs))'
    <3>1. ContextLives' => Fresh(row.segs)'
      BY <1>1, <1>2, <2>2 DEF Fresh, Agrees, Live, Early
    <3> QED
      BY <1>1, <3>1
  <2>4. \A k \in Chain : ~(k < Position' /\ Last(k)')
    <3>1. ASSUME NEW k \in Chain, k < Position', Live(k)' PROVE FALSE
      <4>1. k \in Int /\ (Begun' < k \/ Begun' <= 1) /\ k >= 1
        BY <3>1 DEF Live, Early
      <4> QED
        BY <1>2, <1>5, <3>1, <4>1
    <3> QED
      BY <3>1 DEF Last
  <2>5. Same(row.segs, ctx.segs)'
    BY <1>1 DEF Same
  <2>6. ContextFresh'
    BY <1>1, <2>3, <2>4, <2>5 DEF ContextFresh, At
  <2> QED
    BY <1>2, <1>4, <1>7, <1>9, <2>1, <2>6 DEF ShortHeard
<1>8. CASE Position' > 4
  <2>1. Begun >= 5 /\ Begun' >= 5 /\ run'.first >= 5
    BY <1>2, <1>5, <1>8
  <2>2. Done(row.segs)
    <3>1. Kept' /\ (Kept => Fits(row.segs, run.first))'
      BY <1>1 DEF LostInv, InPreflight, At, Kept
    <3>2. Fits(row.segs, run'.first)
      BY <1>1, <3>1 DEF Fits
    <3> QED
      BY <2>1, <3>2 DEF Fits, Done
  <2>3. Agrees(row.segs, store)
    BY <1>6, <1>9, <2>1, <2>2 DEF SourcesFresh
  <2>4. Agrees(ctx.segs, store)' /\ Named(ctx.segs, store.clip)'
    BY <1>1, <2>3 DEF SoundInv, SourcesSound, Sound
  <2>5. Speaks'
    BY <1>1, <2>4, TakenSpeaks DEF AfterSynthesis
  <2>6. RowKnown'
    BY <1>1 DEF RowKnown, Same
  <2>7. ASSUME NEW k \in Chain, k <= 4 PROVE ~Live(k)'
    <3>1. ~(Begun' < k) /\ ~(Begun' <= 1)
      BY <1>9, <2>1, <2>7
    <3> QED
      BY <3>1 DEF Live, Early
  <2>8. ~Live(4)' /\ \A k \in Chain : ~Last(k)'
    <3>1. 4 \in Chain /\ \A k \in Chain : k <= 3 => k <= 4
      OBVIOUS
    <3> QED
      BY <2>7, <3>1 DEF Last
  <2>9. AfterTranslation'
    BY <2>4, <2>5, <2>6, <2>8 DEF AfterTranslation
  <2> QED
    BY <1>2, <1>4, <1>8, <1>9, <2>9 DEF ShortHeard
<1> QED
  BY <1>9, <1>7, <1>8

\* A run goes on: what a later one may restore is what it could restore before.
LEMMA LivesStay ==
  ASSUME Alive, Alive', run'.first = run.first, store'.saved = store.saved
  PROVE  /\ \A k \in Chain : (Live(k)' <=> Live(k)) /\ (Last(k)' <=> Last(k))
         /\ RowLives' <=> RowLives
         /\ Begun' = Begun /\ Begun = run.first
BY DEF Live, Last, RowLives, Early, Begun

LEMMA EarlyStays ==
  ASSUME TypeInv, TypeInv', ~setting.long, ShortHeard, Alive, Alive', Position \in Int,
         Position <= Translating, Position' \in Int, Position' <= Translating,
         run'.first = run.first, ObjectsStay, store'.clip = store.clip, row'.segs = row.segs,
         \/ row'.stage = row.stage
         \/ row'.stage <= Transcribing
         \/ run.first >= Translating
         \/ Position = Translating /\ ~At("persist"),
         ContextFresh'
  PROVE  ShortHeard'
<1> USE StageNumbers
<1>1. /\ \A k \in Chain : (Live(k)' <=> Live(k)) /\ (Last(k)' <=> Last(k))
      /\ RowLives' <=> RowLives
      /\ Begun' = Begun /\ Begun = run.first
  BY LivesStay DEF ObjectsStay
<1>2. RowIsFirst'
  BY <1>1, RowIsFirstStays DEF ShortHeard, ObjectsStay, Chain
<1>3. SourcesFresh /\ ContextFresh
  BY DEF ShortHeard
<1>4. row'.stage \in Int /\ row.stage \in Int
  BY BegunTypeNext, Numbers
<1>5. (row'.stage >= Translating \/ Begun' >= Translating) /\ Done(row.segs)
            => Agrees(row.segs, store)
  <2>1. row.stage >= Translating \/ Begun >= Translating => (Done(row.segs) => Agrees(row.segs, store))
    BY <1>3 DEF SourcesFresh
  <2>2. Position = Translating /\ ~At("persist") => (Done(row.segs) => Agrees(row.segs, store))
    BY <1>3, RowAtTranslation
  <2> QED
    BY <1>1, <1>4, <2>1, <2>2
<1>6. SourcesFresh'
  BY <1>1, <1>3, <1>5, SourcesStay
<1> QED
  BY <1>2, <1>6 DEF ShortHeard

\* After translation checkpoints are of the context.
LateObjects ==
    \/ store'.saved = store.saved /\ store'.ckpt = store.ckpt
    \/ \E a \in Translating .. Mixing :
          /\ store'.saved = store.saved \cup {a} /\ store'.ckpt[a] = ctx
          /\ \A k \in Chain : k # a => store'.ckpt[k] = store.ckpt[k]

LEMMA LateStays ==
  ASSUME ShortHeard, Alive, Alive', Position \in Int, Position > Translating,
         Position' \in Int, Position' > Translating,
         run'.first = run.first, LateObjects, Same(ctx'.segs, ctx.segs),
         row'.segs = row.segs \/ Same(row'.segs, ctx.segs),
         Speaks', RowKnown',
         Mixing \notin ctx'.inv /\ ~(run'.at = Mixing /\ run'.step \in {"save", "done"}) =>
            Agrees(ctx.segs, store')
  PROVE  ShortHeard'
<1> USE StageNumbers
<1>1. AfterTranslation /\ RowIsFirst /\ Begun' = Begun
  BY DEF ShortHeard, Begun
<1>2. Same(ctx.segs, ctx'.segs)
  BY DEF Same
<1>3. \A others : Same(ctx'.segs, others) <=> Same(ctx.segs, others)
  BY SameIs
<1>4. Live(4)' => Same(ctx.segs, store'.ckpt[4].segs)
  <2>1. CASE store'.saved = store.saved /\ store'.ckpt = store.ckpt
    BY <1>1, <2>1 DEF AfterTranslation, Live, Early
  <2>2. ASSUME NEW a \in 4 .. 7, store'.saved = store.saved \cup {a}, store'.ckpt[a] = ctx,
               \A k \in Chain : k # a => store'.ckpt[k] = store.ckpt[k]
        PROVE  Live(4)' => Same(ctx.segs, store'.ckpt[4].segs)
    <3>1. CASE a = 4
      BY <2>2, <3>1, SameSegs
    <3>2. CASE a # 4
      <4>1. store'.ckpt[4] = store.ckpt[4] /\ (4 \in store'.saved => 4 \in store.saved)
        BY <2>2, <3>2
      <4> QED
        BY <1>1, <4>1 DEF AfterTranslation, Live, Early
    <3> QED
      BY <3>1, <3>2
  <2> QED
    BY <2>1, <2>2 DEF LateObjects
<1>5. ASSUME NEW k \in Chain, k <= 3
      PROVE  /\ Last(k)' => Last(k)
             /\ store'.ckpt[k] = store.ckpt[k]
  <2>1. \A j \in 1 .. 3 : j \in store'.saved <=> j \in store.saved
    BY DEF LateObjects
  <2>2. store'.ckpt[k] = store.ckpt[k] /\ k \in 1 .. 3
    BY <1>5 DEF LateObjects
  <2>3. Live(k)' => Live(k)
    BY <1>1, <2>1, <2>2 DEF Live, Early
  <2> QED
    BY <2>1, <2>2, <2>3 DEF Last
<1>6. ASSUME NEW k \in Chain, Last(k)', Done(store'.ckpt[k].segs)
      PROVE  Same(ctx.segs, store'.ckpt[k].segs) /\ Last(k) /\ store'.ckpt[k] = store.ckpt[k]
  <2>1. k <= 3
    BY <1>6 DEF Last
  <2> QED
    BY <1>1, <1>5, <1>6, <2>1 DEF AfterTranslation
<1>7. RowIsFirst'
  <2>1. ASSUME Last(1)', Done(store'.ckpt[1].segs) PROVE Same(row'.segs, store'.ckpt[1].segs)
    <3>1. Same(ctx.segs, store'.ckpt[1].segs) /\ Last(1) /\ store'.ckpt[1] = store.ckpt[1]
      BY <1>6, <2>1
    <3>2. CASE row'.segs = row.segs
      BY <1>1, <2>1, <3>1, <3>2 DEF RowIsFirst
    <3>3. CASE Same(row'.segs, ctx.segs)
      BY <3>1, <3>3 DEF Same
    <3> QED
      BY <3>2, <3>3
  <2> QED
    BY <2>1 DEF RowIsFirst
<1>8. Agrees(ctx.segs, store') => Agrees(ctx.segs, store)'
  BY SameIs
<1>9. AfterTranslation'
  BY <1>3, <1>4, <1>6, <1>8 DEF AfterTranslation
<1> QED
  BY <1>7, <1>9 DEF ShortHeard

-----------------------------------------------------------------------------
(* What clips are of.                                                      *)

LEMMA SpeaksSynthesize ==
  ASSUME TypeInv, Speaks, Synthesize, run'.step = "synth" PROVE Speaks'
<1> USE StageNumbers
<1>1. /\ store' = store /\ run.at = 5 /\ run'.at = run.at
      /\ ctx'.clips = Reusable /\ ctx'.inv = ctx.inv /\ Renamed(ctx'.segs, Reusable)
  BY SynthesizeThere DEF Continues, FailsThere, Fails, Abandons, Ends, NoRun
<1>2. \A s \in Reusable : s \in Segs /\ store.clip[s] = ctx.segs[s].trans
  BY DEF Reusable, Speaks, Translated
<1> QED
  BY <1>1, <1>2 DEF Speaks, Renamed

LEMMA SpeaksSpeak ==
  ASSUME TypeInv, LostInv, Speaks, NEW s \in Segs, SpeakSegment(s) PROVE Speaks'
<1> USE StageNumbers
<1>1. /\ run' = run /\ run.at = 5 /\ At("synth")
      /\ ctx'.clips = ctx.clips /\ ctx'.inv = ctx.inv /\ Renamed(ctx'.segs, {s})
      /\ \A t \in Segs : store'.clip[t] = IF t = s THEN ctx.segs[s].trans ELSE store.clip[t]
      /\ ctx.clips \subseteq Segs
  BY SpeakThere, AtSynth, Standing
<1> QED
  BY <1>1 DEF Speaks, Renamed

LEMMA SpeaksCollect ==
  ASSUME TypeInv, LostInv, Speaks, NEW s \in Segs, CollectClip(s) PROVE Speaks'
<1> USE StageNumbers
<1>1. /\ run' = run /\ store' = store /\ run.at = 5 /\ At("synth")
      /\ ctx'.clips = ctx.clips \cup {s} /\ ctx'.inv = ctx.inv /\ ctx'.segs = ctx.segs
      /\ ctx.segs[s].url /\ ctx.clips \subseteq Segs
  BY CollectThere, AtSynth, Standing
<1> QED
  BY <1>1 DEF Speaks

LEMMA SpeaksEnds == ASSUME TypeInv, LostInv, Speaks, SynthesisEnds PROVE Speaks'
<1> USE StageNumbers
<1>1. /\ run'.at = run.at /\ store' = store /\ ctx' = ctx /\ run.at = 5 /\ At("synth")
  BY SynthesisEndsThere, AtSynth DEF Continues
<1> QED
  BY <1>1 DEF Speaks

LEMMA SpeaksAlign == ASSUME TypeInv, Speaks, Align, run'.step = "persist" PROVE Speaks'
<1> USE StageNumbers
<1>1. /\ run'.at = run.at /\ store' = store /\ run.at = 6
      /\ ctx'.clips = ctx.clips /\ ctx'.inv = ctx.inv /\ ctx'.segs = ctx.segs
  BY AlignThere DEF Continues, Fails, Abandons, Ends, NoRun
<1> QED
  BY <1>1 DEF Speaks, AfterSynthesis, At

LEMMA SpeaksPersist ==
  ASSUME TypeInv, SoundInv, Speaks, PersistStage, run.at = Synthesizing => ctx.clips # {}
  PROVE  Speaks'
<1> USE StageNumbers
<1>1. /\ store' = store /\ At("persist") /\ run.step = "persist" /\ run.at \in 1 .. 7
      /\ ctx'.clips = ctx.clips /\ ctx'.inv = ctx.inv \ {run.at} /\ ctx'.segs = ctx.segs
      /\ \/ run'.step \in {"save", "done"} /\ run'.at = run.at
         \/ run'.step = "boundary" /\ run'.at = run.at + 1
      /\ run'.step = "done" => run.at = 7
  BY PersistThere DEF Continues
<1>2. AfterSynthesis' => AfterSynthesis
  BY <1>1 DEF AfterSynthesis
<1>3. run.at = 5 => \A s \in Segs : store.clip[s] = ctx.segs[s].trans
  BY <1>1 DEF SoundInv, ContextSpoken, Speaks, AfterSynthesis
<1>4. 5 \notin ctx'.inv => \A s \in Segs : store.clip[s] \in {NoTranslation, ctx.segs[s].trans}
  BY <1>1, <1>3 DEF Speaks
<1>5. run'.at = 7 /\ run'.step \in {"persist", "save", "done"} => run.at = 7
  BY <1>1
<1> QED
  BY <1>1, <1>2, <1>4, <1>5 DEF Speaks, At

LEMMA SpeaksMix ==
  ASSUME TypeInv, SoundInv, Speaks, MixShort, run'.step = "persist"
  PROVE  Speaks' /\ store'.made /\ \A s \in Segs : store'.out[s] = ctx.segs[s].trans
<1> USE StageNumbers
<1>1. /\ run'.at = run.at /\ store'.clip = store.clip /\ run.at = 7 /\ ctx.clips # {} /\ store'.made
      /\ ctx'.clips = ctx.clips /\ ctx'.inv = ctx.inv /\ ctx'.segs = ctx.segs
      /\ \A s \in Segs :
            store'.out[s] = IF s \in ctx.clips THEN store.clip[s] ELSE NoTranslation
  BY MixShortThere DEF Continues, Fails, Abandons, Ends, NoRun
<1>2. ctx.clips = Segs
  BY <1>1 DEF SoundInv, ContextSpoken, AfterSynthesis
<1>3. \A s \in Segs : store'.out[s] = ctx.segs[s].trans
  BY <1>1, <1>2 DEF Speaks, AfterSynthesis
<1> QED
  BY <1>1, <1>3 DEF Speaks, AfterSynthesis, At

-----------------------------------------------------------------------------
(* A short recording after translation.                                    *)

LEMMA LateKnown ==
  ASSUME TypeInv, LostInv, SoundInv, ~setting.long, ShortHeard, Alive, Position > Translating
  PROVE  /\ AfterTranslation /\ Speaks /\ RowKnown /\ Done(ctx.segs) /\ HasSegments(ctx.segs)
         /\ Translated(ctx.segs) = Segs
<1>1. AfterTranslation /\ Done(ctx.segs)
  BY LateIsDone DEF ShortHeard
<1> QED
  BY <1>1, SpokenIsTranslated DEF AfterTranslation

LEMMA ShortSynthesize ==
  ASSUME TypeInv, LostInv, SoundInv, ~setting.long, ShortHeard, Synthesize,
         row'.status # "failed"
  PROVE  ShortHeard'
<1> USE StageNumbers
<1>1. /\ store' = store /\ run.at = 5 /\ run.step = "process" /\ ~Fails
  BY SynthesizeThere, FailsThere
<1>2. Alive /\ Position = 5
  BY <1>1 DEF Alive, Position, At
<1>3. AfterTranslation /\ Speaks /\ RowKnown /\ HasSegments(ctx.segs)
  BY <1>2, LateKnown
<1>4. /\ ctx'.inv = ctx.inv /\ Renamed(ctx'.segs, Reusable) /\ row'.segs \in {row.segs, ctx'.segs}
      /\ run'.step = "synth" /\ run'.at = 5 /\ run'.first = run.first
  BY <1>1, <1>3, SynthesizeThere DEF Continues
<1>5. Same(ctx'.segs, ctx.segs)
  BY <1>4 DEF Renamed, Same
<1>6. Speaks'
  BY <1>3, <1>4, SpeaksSynthesize
<1>7. Same(row.segs, ctx.segs)
  BY <1>1, <1>3 DEF RowKnown
<1>8. Same(row'.segs, ctx'.segs)
  BY <1>4, <1>5, <1>7 DEF Same
<1>9. RowKnown' /\ Same(row'.segs, ctx.segs)
  BY <1>5, <1>8 DEF RowKnown, Same
<1>10. Alive' /\ Position' = 5 /\ LateObjects
  BY <1>1, <1>4 DEF Alive, Position, At, LateObjects
<1>11. Mixing \notin ctx'.inv => Agrees(ctx.segs, store')
  BY <1>1, <1>3, <1>4 DEF AfterTranslation
<1> QED
  BY <1>2, <1>4, <1>5, <1>6, <1>9, <1>10, <1>11, LateStays

LEMMA ShortSpeak ==
  ASSUME TypeInv, LostInv, SoundInv, ~setting.long, ShortHeard, NEW s \in Segs, SpeakSegment(s)
  PROVE  ShortHeard'
<1> USE StageNumbers
<1>1. /\ run' = run /\ row' = row /\ run.at = 5 /\ run.step = "synth" /\ ObjectsStay
      /\ ctx'.inv = ctx.inv /\ Renamed(ctx'.segs, {s})
      /\ \A t \in Segs : store'.clip[t] = IF t = s THEN ctx.segs[s].trans ELSE store.clip[t]
  BY SpeakThere, AtSynth
<1>2. Alive /\ Position = 5 /\ Alive' /\ Position' = 5 /\ LateObjects
  BY <1>1 DEF Alive, Position, At, LateObjects, ObjectsStay
<1>3. AfterTranslation /\ Speaks /\ RowKnown
  BY <1>2, LateKnown
<1>4. Same(ctx'.segs, ctx.segs)
  BY <1>1 DEF Renamed, Same
<1>5. Same(row.segs, ctx.segs)
  BY <1>1, <1>3 DEF RowKnown
<1>6. RowKnown'
  BY <1>1, <1>4, <1>5 DEF RowKnown, Same
<1>7. Mixing \notin ctx'.inv => Agrees(ctx.segs, store')
  BY <1>1, <1>3, AgreesStays DEF AfterTranslation
<1> QED
  BY <1>1, <1>2, <1>3, <1>4, <1>6, <1>7, SpeaksSpeak, LateStays

LEMMA ShortCollect ==
  ASSUME TypeInv, LostInv, SoundInv, ~setting.long, ShortHeard, NEW s \in Segs, CollectClip(s)
  PROVE  ShortHeard'
<1> USE StageNumbers
<1>1. /\ run' = run /\ store' = store /\ run.at = 5 /\ run.step = "synth"
      /\ ctx'.inv = ctx.inv /\ ctx'.segs = ctx.segs /\ row'.segs \in {row.segs, ctx.segs}
  BY CollectThere, AtSynth
<1>2. Alive /\ Position = 5 /\ Alive' /\ Position' = 5 /\ LateObjects
  BY <1>1 DEF Alive, Position, At, LateObjects
<1>3. AfterTranslation /\ Speaks /\ RowKnown
  BY <1>2, LateKnown
<1>4. Same(ctx'.segs, ctx.segs) /\ Same(row'.segs, ctx.segs)
  BY <1>1, <1>3 DEF RowKnown, Same
<1>5. RowKnown'
  BY <1>1, <1>4 DEF RowKnown
<1>6. Mixing \notin ctx'.inv => Agrees(ctx.segs, store')
  BY <1>1, <1>3 DEF AfterTranslation
<1> QED
  BY <1>1, <1>2, <1>3, <1>4, <1>5, <1>6, SpeaksCollect, LateStays

LEMMA ShortEndsOrAligns ==
  ASSUME TypeInv, LostInv, SoundInv, ~setting.long, ShortHeard, SynthesisEnds \/ Align,
         row'.status # "failed"
  PROVE  ShortHeard'
<1> USE StageNumbers
<1>1. /\ row' = row /\ store' = store /\ run.at \in {5, 6} /\ run.step \in {"synth", "process"}
      /\ ctx'.inv = ctx.inv /\ ctx'.segs = ctx.segs
      /\ run'.step = "persist" /\ run'.at = run.at /\ run'.first = run.first
  BY SynthesisEndsThere, AlignThere, FailsThere, AtSynth DEF Continues
<1>2. Alive /\ Position = run.at /\ Alive' /\ Position' = run.at + 1 /\ LateObjects
  BY <1>1 DEF Alive, Position, At, LateObjects
<1>3. Position > 4 /\ Position' > 4 /\ Position \in Int /\ Position' \in Int
  BY <1>1, <1>2
<1>4. AfterTranslation /\ Speaks /\ RowKnown
  BY <1>2, <1>3, LateKnown
<1>5. Same(ctx'.segs, ctx.segs) /\ Same(row.segs, ctx.segs)
  BY <1>1, <1>4 DEF RowKnown, Same
<1>6. RowKnown'
  BY <1>1, <1>5 DEF RowKnown
<1>7. Mixing \notin ctx'.inv => Agrees(ctx.segs, store')
  BY <1>1, <1>4 DEF AfterTranslation
<1> QED
  BY <1>1, <1>2, <1>3, <1>4, <1>5, <1>6, <1>7, SpeaksEnds, SpeaksAlign, LateStays

LEMMA ShortMixes ==
  ASSUME TypeInv, LostInv, SoundInv, ~setting.long, ShortHeard, MixShort,
         row'.status # "failed"
  PROVE  ShortHeard'
<1> USE StageNumbers
<1>1. /\ row' = row /\ run.at = 7 /\ run.step = "process" /\ store'.clip = store.clip
      /\ store'.saved = store.saved /\ store'.ckpt = store.ckpt
      /\ ctx'.inv = ctx.inv /\ ctx'.segs = ctx.segs
      /\ run'.step = "persist" /\ run'.at = 7 /\ run'.first = run.first
  BY MixShortThere, FailsThere DEF Continues
<1>2. Alive /\ Position = 7 /\ Alive' /\ Position' = 8 /\ LateObjects
  BY <1>1 DEF Alive, Position, At, LateObjects
<1>3. AfterTranslation /\ Speaks /\ RowKnown
  BY <1>2, LateKnown
<1>4. Same(ctx'.segs, ctx.segs) /\ Same(row.segs, ctx.segs)
  BY <1>1, <1>3 DEF RowKnown, Same
<1>5. RowKnown'
  BY <1>1, <1>4 DEF RowKnown
<1>6. Speaks' /\ \A s \in Segs : store'.out[s] = ctx.segs[s].trans
  BY <1>1, <1>3, SpeaksMix
<1>7. Mixing \notin ctx'.inv => Agrees(ctx.segs, store')
  BY <1>1, <1>3, <1>6 DEF AfterTranslation, Agrees
<1> QED
  BY <1>1, <1>2, <1>4, <1>5, <1>6, <1>7, LateStays

LEMMA ShortPersistsLate ==
  ASSUME TypeInv, LostInv, SoundInv, ~setting.long, ShortHeard, PersistStage,
         run.at >= Translating
  PROVE  ShortHeard'
<1> USE StageNumbers
<1>1. /\ store' = store /\ run.at \in 4 .. 7 /\ run.step = "persist" /\ At("persist")
      /\ ctx'.inv = ctx.inv \ {run.at} /\ ctx'.segs = ctx.segs
      /\ row'.segs = IF HasSegments(ctx.segs) THEN ctx.segs ELSE row.segs
      /\ run'.step = "save" /\ run'.at = run.at /\ run'.first = run.first
  BY PersistThere DEF Continues
<1>2. Alive /\ Position = run.at + 1 /\ Alive' /\ Position' = run.at + 1 /\ LateObjects
  BY <1>1 DEF Alive, Position, At, LateObjects
<1>3. Position > 4 /\ Position \in Int
  BY <1>1, <1>2
<1>4. AfterTranslation /\ Speaks /\ RowKnown /\ HasSegments(ctx.segs)
  BY <1>2, <1>3, LateKnown
<1>5. Same(ctx'.segs, ctx.segs) /\ Same(row'.segs, ctx.segs)
  BY <1>1, <1>4 DEF Same
<1>6. RowKnown'
  BY <1>1, <1>5 DEF RowKnown
<1>7. run.at = 5 => ctx.clips # {}
  BY <1>1, ShortRun, <1>2 DEF ContextInChain
<1>8. Mixing \notin ctx'.inv /\ ~(run'.at = Mixing /\ run'.step \in {"save", "done"}) =>
            Agrees(ctx.segs, store')
  BY <1>1, <1>4 DEF AfterTranslation
<1> QED
  BY <1>1, <1>2, <1>3, <1>4, <1>5, <1>6, <1>7, <1>8, SpeaksPersist, LateStays

LEMMA ShortSavesLate ==
  ASSUME TypeInv, LostInv, SoundInv, ~setting.long, ShortHeard, SaveCheckpoint,
         run.at >= Translating
  PROVE  ShortHeard'
<1> USE StageNumbers
<1>1. /\ row' = row /\ ctx' = ctx /\ run.at \in 4 .. 7 /\ run.step = "save"
      /\ store'.clip = store.clip /\ store'.made = store.made /\ store'.out = store.out
      /\ run'.first = run.first
      /\ \/ run.at = 7 /\ run'.step = "done" /\ run'.at = 7
         \/ run.at # 7 /\ run'.step = "boundary" /\ run'.at = run.at + 1
  BY SaveThere
<1>2. LateObjects
  BY <1>1, SaveThere DEF LateObjects
<1>3. Alive /\ Position = run.at + 1 /\ Alive' /\ Position' = run.at + 1
  BY <1>1 DEF Alive, Position, At
<1>4. Position > 4 /\ Position \in Int
  BY <1>1, <1>3
<1>5. AfterTranslation /\ Speaks /\ RowKnown
  BY <1>3, <1>4, LateKnown
<1>6. Same(ctx'.segs, ctx.segs) /\ Same(row.segs, ctx.segs)
  BY <1>1, <1>5 DEF RowKnown, Same, At
<1>7. RowKnown'
  BY <1>1, <1>6 DEF RowKnown
<1>8. Speaks'
  <2>1. AfterSynthesis' => AfterSynthesis
    BY <1>1 DEF AfterSynthesis
  <2> QED
    BY <1>1, <1>5, <2>1 DEF Speaks, At
<1>9. ASSUME Mixing \notin ctx'.inv, run.at # 7 PROVE Agrees(ctx.segs, store')
  <2>1. Agrees(ctx.segs, store)
    BY <1>1, <1>5, <1>9 DEF AfterTranslation
  <2>2. \A k \in store'.saved : \/ k \in store.saved /\ store'.ckpt[k] = store.ckpt[k]
                                \/ store'.ckpt[k] = ctx
    BY SaveThere, StoreParts
  <2>3. Same(ctx.segs, ctx.segs)
    BY DEF Same
  <2> QED
    BY <1>1, <2>1, <2>2, <2>3 DEF Agrees
<1> QED
  BY <1>1, <1>2, <1>3, <1>4, <1>6, <1>7, <1>8, <1>9, LateStays

\* What will be as good as the context is now.
FreshNext(segs) ==
    Done(segs) =>
        /\ Agrees(segs, store')
        /\ Live(Translating)' => Same(segs, store'.ckpt[Translating].segs)

LEMMA FreshNextIs ==
  /\ Fresh(ctx.segs)' <=> FreshNext(ctx'.segs)
  /\ Fresh(row.segs)' <=> FreshNext(row'.segs)
  /\ \A k \in Chain : Fresh(store.ckpt[k].segs)' <=> FreshNext(store'.ckpt[k].segs)
BY DEF Fresh, FreshNext

LEMMA FreshStays ==
  ASSUME ObjectsStay, store'.clip = store.clip, Live(Translating)' => Live(Translating),
         NEW segs, Fresh(segs)
  PROVE  FreshNext(segs)
<1>1. Agrees(segs, store) => Agrees(segs, store')
  BY DEF Agrees, ObjectsStay
<1> QED
  BY <1>1 DEF Fresh, FreshNext, ObjectsStay

LEMMA BlankIsFresh == \A segs : Blank(segs) => Fresh(segs) /\ FreshNext(segs)
BY NotBoth DEF Fresh, FreshNext

\* The context has the translation it goes on with, and everything made from one agrees with it.
LEMMA ShortEntersLate ==
  ASSUME TypeInv, ~setting.long, Alive, Alive', Position' \in Int, Position' > Translating,
         run'.first = run.first, ObjectsStay, RowIsFirst,
         row'.segs = row.segs, Speaks', RowKnown',
         Mixing \notin ctx'.inv /\ ~(run'.at = Mixing /\ run'.step \in {"save", "done"}) =>
            Agrees(ctx.segs, store)',
         Live(Translating) => Same(ctx'.segs, store.ckpt[Translating].segs),
         \A k \in Chain : Last(k) /\ Done(store.ckpt[k].segs) =>
            Same(ctx'.segs, store.ckpt[k].segs)
  PROVE  ShortHeard'
<1> USE StageNumbers
<1>1. \A k \in Chain : (Live(k)' <=> Live(k)) /\ (Last(k)' <=> Last(k))
  BY LivesStay DEF ObjectsStay
<1>2. RowIsFirst'
  BY <1>1, RowIsFirstStays DEF ObjectsStay, Chain
<1>3. (Live(Translating) => Same(ctx.segs, store.ckpt[Translating].segs))'
  BY <1>1 DEF ObjectsStay, Chain
<1>4. AfterTranslation'
  BY <1>1, <1>3 DEF AfterTranslation, ObjectsStay
<1> QED
  BY <1>2, <1>4 DEF ShortHeard

LEMMA ShortPreflight ==
  ASSUME TypeInv, TypeInv', LostInv, SoundInv, ~setting.long, ShortHeard, Preflight,
         run'.step # "idle"
  PROVE  ShortHeard'
<1> USE StageNumbers
<1>1. /\ store' = store /\ At("preflight") /\ run.step = "preflight" /\ ctx' = ctx
      /\ row'.segs = row.segs /\ run'.first = run.first /\ run'.at = EntryStage
      /\ run'.step = "boundary"
      /\ row'.stage = IF PreflightStage = Preparing THEN Preparing ELSE row.stage
  BY PreflightThere DEF Ended, At
<1>2. Alive /\ Alive' /\ ObjectsStay /\ run.first \in 0 .. 7 /\ Position = run'.at
      /\ Position' = Position
  BY <1>1, ShortRun, StoreStays DEF Alive, Position, At, EntryStage
<1>3. Position \in 1 .. 7 /\ (Position > 4 => run.first > 4)
  BY <1>1, <1>2 DEF Position
<1>4. ctx.segs = row.segs /\ ctx.clips = {}
  BY <1>1 DEF LostInv, InPreflight, SoundInv, ContextSpoken
<1>5. CASE Position <= 4
  <2>1. ContextFresh
    BY <1>2, <1>5 DEF ShortHeard
  <2>2. \A k \in Chain : Last(k)' <=> Last(k)
    BY <1>1, <1>2, LivesStay DEF ObjectsStay
  <2>3. (ContextLives => Fresh(ctx.segs))'
    <3>1. ContextLives' => ContextLives
      BY <1>1, <1>2 DEF ContextLives
    <3>2. Fresh(ctx.segs) => Fresh(ctx.segs)'
      <4>1. Live(4)' => Live(4)
        BY <1>1, <1>2, LivesStay DEF Chain
      <4> QED
        BY <1>1, <1>2, <4>1, FreshStays, FreshNextIs
    <3> QED
      BY <2>1, <3>1, <3>2 DEF ContextFresh
  <2>4. \A k \in Chain : k < Position' /\ Last(k)' /\ Done(store'.ckpt[k].segs) =>
            Same(ctx'.segs, store'.ckpt[k].segs)
    BY <1>1, <1>2, <2>1, <2>2 DEF ContextFresh
  <2>5. Same(row'.segs, ctx'.segs)
    BY <1>1, <1>4 DEF Same
  <2>6. ContextFresh'
    BY <1>1, <2>3, <2>4, <2>5 DEF ContextFresh, At
  <2> QED
    BY <1>1, <1>2, <1>3, <1>5, <2>6, EarlyStays
<1>6. CASE Position > 4
  <2>1. AfterTranslation /\ Speaks /\ RowKnown /\ RowIsFirst
    BY <1>2, <1>6, LateKnown DEF ShortHeard
  <2>2. Speaks'
    BY <1>1, <1>4, <2>1 DEF Speaks, At
  <2>3. RowKnown'
    BY <1>1, <1>4 DEF RowKnown, Same
  <2>4. Mixing \notin ctx'.inv => Agrees(ctx.segs, store)'
    BY <1>1, <2>1 DEF AfterTranslation
  <2> QED
    BY <1>1, <1>2, <1>3, <1>6, <2>1, <2>2, <2>3, <2>4, ShortEntersLate DEF AfterTranslation
<1> QED
  BY <1>3, <1>5, <1>6

-----------------------------------------------------------------------------
(* A short recording's stage begins.                                       *)

LEMMA ShortStageThere ==
  ASSUME TypeInv, LostInv, ~setting.long, BeginStage, run'.step # "idle"
  PROVE  /\ store' = store /\ ObjectsStay /\ store'.clip = store.clip
         /\ run.step = "boundary" /\ At("boundary") /\ run.at \in 1 .. 7
         /\ run.first \in 0 .. 7 /\ run.first <= run.at
         /\ row'.segs = row.segs /\ row'.stage = run.at /\ ctx' = ContextAfterRestore
         /\ run'.first = run.first /\ run'.at = run.at
         /\ run'.step = IF Restores THEN "persist" ELSE "process"
         /\ Alive /\ Alive' /\ Position = run.at
         /\ Position' = IF Restores THEN run.at + 1 ELSE run.at
         /\ Position \in Int /\ Position' \in Int
<1>1. /\ store' = store /\ run.step = "boundary" /\ At("boundary") /\ run.at \in 1 .. 7
      /\ row'.segs = row.segs /\ row'.stage = run.at /\ ctx' = ContextAfterRestore
      /\ run'.first = run.first /\ run'.at = run.at
      /\ run'.step = IF Restores THEN "persist" ELSE "process"
  BY BeginStageThere, PausesThere DEF Ended, Continues
<1>2. Alive /\ Alive'
  BY <1>1 DEF Alive
<1>3. run.first \in 0 .. 7 /\ run.first <= run.at
  BY <1>1, <1>2, ShortRun
<1>4. /\ Position = run.at
      /\ Position' = IF Restores THEN run.at + 1 ELSE run.at
  BY <1>1 DEF Position, At
<1>5. Position \in Int /\ Position' \in Int
  BY <1>1, <1>4
<1> QED
  BY <1>1, <1>2, <1>3, <1>4, <1>5, StoreStays

\* After translation.
LEMMA ShortBeginsLate ==
  ASSUME TypeInv, LostInv, SoundInv, OrderInv, ~setting.long, ShortHeard, BeginStage,
         run'.step # "idle", run.at >= Synthesizing
  PROVE  ShortHeard'
<1> USE StageNumbers
<1>1. /\ store' = store /\ ObjectsStay /\ At("boundary") /\ run.step = "boundary"
      /\ run.at \in 5 .. 7
      /\ row'.segs = row.segs /\ ctx' = ContextAfterRestore
      /\ run'.first = run.first /\ run'.at = run.at
      /\ run'.step = IF Restores THEN "persist" ELSE "process"
      /\ Alive /\ Alive' /\ Position = run.at /\ Position > 4 /\ Position' > 4
      /\ Position \in Int /\ Position' \in Int
  BY ShortStageThere
<1>2. AfterTranslation /\ Speaks /\ RowKnown /\ Same(row.segs, ctx.segs)
  BY <1>1, LateKnown DEF RowKnown
<1>3. LateObjects
  BY <1>1 DEF LateObjects, ObjectsStay
<1>4. CASE run.at \notin ctx.inv /\ run.at \in store.saved
  <2>1. /\ ctx' = store.ckpt[run.at] /\ ctx'.clips = Segs /\ Spoken
        /\ run.at = 7 => store.made
    BY <1>1, <1>4, RestoreThere, CheckpointsSpoken
  <2>2. Mixing \notin ctx.inv
    BY <1>1, <1>4 DEF OrderInv, Invalidated, AllAfter
  <2>3. Agrees(ctx.segs, store)
    BY <1>1, <1>2, <2>2 DEF AfterTranslation
  <2>4. Same(ctx'.segs, ctx.segs)
    BY <1>1, <1>4, <2>1, <2>3 DEF Agrees
  <2>5. \A s \in Segs : store'.clip[s] = ctx'.segs[s].trans
    BY <1>1, <2>1, <2>3, <2>4 DEF Agrees, Same, Spoken
  <2>6. store.made => \A s \in Segs : store'.out[s] = ctx'.segs[s].trans
    BY <1>1, <2>3, <2>4 DEF Agrees, Same
  <2>7. Speaks'
    BY <1>1, <2>1, <2>5, <2>6 DEF Speaks
  <2>8. Same(row'.segs, ctx'.segs)
    BY <1>1, <1>2, <2>4 DEF Same
  <2>9. RowKnown'
    BY <2>8 DEF RowKnown
  <2> QED
    BY <1>1, <1>3, <2>3, <2>4, <2>7, <2>9, LateStays
<1>5. CASE ~(run.at \notin ctx.inv /\ run.at \in store.saved)
  <2>1. /\ ctx'.segs = ctx.segs /\ ctx'.clips = ctx.clips /\ ctx'.inv = ctx.inv
        /\ Restores => run.at \notin ctx.inv /\ RestoredFromArtifacts
    BY <1>1, <1>5, RestoreThere
  <2>2. Restores => run.at = 7 /\ store.made
    BY <1>1, <2>1 DEF RestoredFromArtifacts
  <2>3. Mixing \notin ctx.inv => Agrees(ctx.segs, store)
    BY <1>1, <1>2 DEF AfterTranslation
  <2>4. Restores => \A s \in Segs : store.out[s] = ctx.segs[s].trans
    BY <2>1, <2>2, <2>3 DEF Agrees
  <2>5. AfterSynthesis' => AfterSynthesis
    BY <1>1, <2>2 DEF AfterSynthesis
  <2>6. Speaks'
    BY <1>1, <1>2, <2>1, <2>4, <2>5 DEF Speaks, At
  <2>7. Same(ctx'.segs, ctx.segs) /\ RowKnown'
    BY <1>1, <1>2, <2>1 DEF RowKnown, Same
  <2> QED
    BY <1>1, <1>3, <2>1, <2>3, <2>6, <2>7, LateStays
<1> QED
  BY <1>4, <1>5

\* A stage up to transcription, or translation, that is not restored.
LEMMA ShortProcesses ==
  ASSUME TypeInv, TypeInv', LostInv, SoundInv, OrderInv, ~setting.long, ShortHeard, BeginStage,
         run'.step # "idle", run.at <= Translating, ~Restores
  PROVE  ShortHeard'
<1> USE StageNumbers
<1>1. /\ store' = store /\ ObjectsStay /\ store'.clip = store.clip
      /\ At("boundary") /\ run.step = "boundary" /\ run.at \in 1 .. 4
      /\ run.first \in 0 .. 7
      /\ row'.segs = row.segs /\ row'.stage = run.at /\ ctx' = ContextAfterRestore
      /\ run'.first = run.first /\ run'.at = run.at /\ run'.step = "process"
      /\ Alive /\ Alive' /\ Position = run.at /\ Position' = run.at
  BY ShortStageThere
<1>2. ContextFresh
  BY <1>1 DEF ShortHeard
<1>3. ~(run.at \notin ctx.inv /\ run.at \in store.saved)
  BY TranslationRestores
<1>4. ctx'.segs = ctx.segs
  BY <1>1, <1>3, RestoreThere
<1>5. ASSUME run.at # run.first
      PROVE  run.at \notin store.saved /\ ~RestoredFromArtifacts
  <2>1. run.at \notin ctx.inv
    BY <1>1, <1>5 DEF OrderInv, Invalidated
  <2> QED
    BY <1>3, <2>1 DEF Restores
<1>6. ASSUME run.at # run.first, run.at \in {2, 3}
      PROVE  Blank(ctx.segs)
  <2>1. Whole(ctx.segs, setting.long)
    BY DEF SoundInv, SourcesSound, Sound
  <2>2. ASSUME Done(ctx.segs) PROVE FALSE
    <3>1. HasSegments(ctx.segs) /\ \A s \in Segs : ctx.segs[s].text > Textless
      BY <2>1, <2>2, SpokenIsTranslated, WholeIsAllOrNone
    <3> QED
      BY <1>5, <1>6, <3>1 DEF RestoredFromArtifacts
  <2> QED
    BY <2>1, <2>2, WholeIsAllOrNone
<1>7. \A k \in Chain : (Live(k)' <=> Live(k)) /\ (Last(k)' <=> Last(k))
  BY <1>1, LivesStay DEF ObjectsStay
<1>8. RowLives' <=> RowLives
  BY <1>1, LivesStay DEF ObjectsStay
<1>9. (ContextLives => Fresh(ctx.segs))'
  <2>1. ContextLives' => ContextLives
    BY <1>1 DEF ContextLives
  <2>2. Fresh(ctx.segs) => FreshNext(ctx.segs)
    BY <1>1, <1>7, FreshStays DEF Chain
  <2> QED
    BY <1>2, <1>4, <2>1, <2>2, FreshNextIs DEF ContextFresh
<1>10. \A k \in Chain : k < Position' /\ Last(k)' /\ Done(store'.ckpt[k].segs) =>
          Same(ctx'.segs, store'.ckpt[k].segs)
  BY <1>1, <1>2, <1>4, <1>7 DEF ContextFresh
<1>11. Position' = 4 => Same(row'.segs, ctx'.segs)
  BY <1>1, <1>2, <1>4 DEF ContextFresh, At
<1>12. run.at <= 1 => Same(row'.segs, ctx'.segs)
  BY <1>1, <1>2, <1>4 DEF ContextFresh
<1>13. run'.at >= 2 /\ run'.at # run'.first =>
          /\ run'.at \notin store'.saved
          /\ run'.at <= 3 => Blank(ctx'.segs)
  <2>1. run.at >= 2 /\ run.at # run.first => run.at \notin store.saved
    BY <1>5
  <2>2. run.at >= 2 /\ run.at <= 3 => run.at \in {2, 3}
    BY <1>1
  <2> QED
    BY <1>1, <1>4, <1>6, <2>1, <2>2
<1>14. ContextFresh'
  BY <1>1, <1>9, <1>10, <1>11, <1>12, <1>13 DEF ContextFresh, At
<1>15. row'.stage <= 3 \/ (Position = 4 /\ ~At("persist"))
  BY <1>1 DEF At
<1> QED
  BY <1>1, <1>14, <1>15, EarlyStays

\* A stage up to transcription that its checkpoint restores.
LEMMA ShortLoadsEarly ==
  ASSUME TypeInv, TypeInv', LostInv, SoundInv, OrderInv, ~setting.long, ShortHeard, BeginStage,
         run'.step # "idle", run.at <= Transcribing,
         run.at \notin ctx.inv, run.at \in store.saved
  PROVE  ShortHeard'
<1> USE StageNumbers
<1>1. Restores
  BY TranslationRestores
<1>2. /\ store' = store /\ ObjectsStay /\ store'.clip = store.clip
      /\ At("boundary") /\ run.step = "boundary" /\ run.at \in 1 .. 3
      /\ run.first \in 0 .. 7 /\ run.first <= run.at
      /\ row'.segs = row.segs /\ row'.stage = run.at /\ ctx' = ContextAfterRestore
      /\ run'.first = run.first /\ run'.at = run.at /\ run'.step = "persist"
      /\ Alive /\ Alive' /\ Position = run.at /\ Position' = run.at + 1
  BY <1>1, ShortStageThere
<1>3. ctx' = store.ckpt[run.at]
  BY <1>2, RestoreThere
<1>4. ContextFresh /\ SourcesFresh /\ RowIsFirst
  BY <1>2 DEF ShortHeard
<1>5. /\ \A k \in Chain : (Live(k)' <=> Live(k)) /\ (Last(k)' <=> Last(k))
      /\ RowLives' <=> RowLives /\ Begun = run.first
  BY <1>2, LivesStay DEF ObjectsStay
<1>6. Live(run.at)
  <2>1. run.first < run.at \/ run.first <= 1
    <3>1. run.first >= 2 => run.first # run.at
      BY <1>2 DEF OrderInv, Invalidated
    <3>2. run.first \in Int /\ run.at \in Int /\ run.first <= run.at
      BY <1>2
    <3> QED
      BY <3>1, <3>2
  <2>2. Begun = run.first /\ run.first \in Int /\ run.at \in Int
    BY <1>2 DEF Begun
  <2> QED
    BY <2>1, <2>2 DEF Live, Early
<1>7. (ContextLives => Fresh(ctx.segs))'
  <2>1. ASSUME ContextLives' PROVE FreshNext(ctx'.segs)
    <3>1. Last(run.at)
      BY <1>2, <1>6, <2>1 DEF ContextLives, Last
    <3>2. Fresh(store.ckpt[run.at].segs)
      BY <1>2, <1>4, <3>1 DEF SourcesFresh
    <3>3. Live(4)' => Live(4)
      BY <1>5 DEF Chain
    <3> QED
      BY <1>2, <1>3, <3>2, <3>3, FreshStays
  <2> QED
    BY <2>1, FreshNextIs
<1>8. ASSUME NEW k \in Chain, k < Position', Last(k)', Done(store'.ckpt[k].segs)
      PROVE  Same(ctx'.segs, store'.ckpt[k].segs)
  <2>1. Last(k) /\ k \in Int /\ k <= run.at
    BY <1>2, <1>5, <1>8
  <2>2. k = run.at
    <3>1. k < run.at => run.at \in {2, 3}
      BY <1>2, <2>1
    <3>2. ~(k < run.at)
      BY <2>1, <3>1 DEF Last
    <3> QED
      BY <1>2, <2>1, <3>2
  <2> QED
    BY <1>2, <1>3, <2>2, SameSegs
<1>9. ASSUME run.at <= 1, RowLives', Done(ctx'.segs) PROVE Same(row'.segs, ctx'.segs)
  <2>1. run.at = 1 /\ Last(1)
    BY <1>2, <1>5, <1>6, <1>9 DEF RowLives, Last
  <2> QED
    BY <1>2, <1>3, <1>4, <1>9, <2>1 DEF RowIsFirst
<1>10. ContextFresh'
  BY <1>2, <1>7, <1>8, <1>9 DEF ContextFresh, At
<1>11. Position \in Int /\ Position' \in Int /\ Position <= 4 /\ Position' <= 4 /\ row'.stage <= 3
  BY <1>2
<1> QED
  BY <1>2, <1>10, <1>11, EarlyStays

\* A stage up to transcription that is restored from what the context has.
LEMMA ShortKeepsEarly ==
  ASSUME TypeInv, TypeInv', LostInv, SoundInv, OrderInv, ~setting.long, ShortHeard, BeginStage,
         run'.step # "idle", run.at <= Transcribing, Restores, run.at \notin store.saved
  PROVE  ShortHeard'
<1> USE StageNumbers
<1>1. run.at \notin ctx.inv
  BY DEF Restores
<1>2. /\ store' = store /\ ObjectsStay /\ store'.clip = store.clip
      /\ At("boundary") /\ run.step = "boundary" /\ run.at \in 1 .. 3
      /\ run.first \in 0 .. 7 /\ run.first <= run.at
      /\ row'.segs = row.segs /\ row'.stage = run.at /\ ctx' = ContextAfterRestore
      /\ run'.first = run.first /\ run'.at = run.at /\ run'.step = "persist"
      /\ Alive /\ Alive' /\ Position = run.at /\ Position' = run.at + 1
  BY ShortStageThere
<1>3. ctx'.segs = ctx.segs
  BY <1>2, RestoreThere
<1>4. ContextFresh
  BY <1>2 DEF ShortHeard
<1>5. /\ \A k \in Chain : (Live(k)' <=> Live(k)) /\ (Last(k)' <=> Last(k))
      /\ RowLives' <=> RowLives
  BY <1>2, LivesStay DEF ObjectsStay
<1>6. (ContextLives => Fresh(ctx.segs))'
  <2>1. ContextLives' => ContextLives
    <3>1. run.first >= 2 => run.first # run.at
      BY <1>1, <1>2 DEF OrderInv, Invalidated
    <3>2. ASSUME NEW k \in {2, 3}, k >= Position, ContextLives' PROVE k \notin store.saved
      BY <1>2, <3>2 DEF ContextLives
    <3> QED
      BY <1>2, <3>1, <3>2 DEF ContextLives
  <2>2. Fresh(ctx.segs) => FreshNext(ctx.segs)
    BY <1>2, <1>5, FreshStays DEF Chain
  <2> QED
    BY <1>3, <1>4, <2>1, <2>2, FreshNextIs DEF ContextFresh
<1>7. ASSUME NEW k \in Chain, k < Position', Last(k)', Done(store'.ckpt[k].segs)
      PROVE  Same(ctx'.segs, store'.ckpt[k].segs)
  <2>1. Last(k) /\ k \in Int /\ k <= run.at /\ k \in store.saved
    BY <1>2, <1>5, <1>7 DEF Last, Live
  <2>2. k < Position
    BY <1>2, <2>1
  <2> QED
    BY <1>2, <1>3, <1>4, <1>7, <2>1, <2>2 DEF ContextFresh
<1>8. ASSUME run.at <= 1, RowLives', Done(ctx'.segs) PROVE Same(row'.segs, ctx'.segs)
  BY <1>2, <1>3, <1>4, <1>5, <1>8 DEF ContextFresh
<1>9. ContextFresh'
  BY <1>2, <1>6, <1>7, <1>8 DEF ContextFresh, At
<1>10. Position \in Int /\ Position' \in Int /\ Position <= 4 /\ Position' <= 4 /\ row'.stage <= 3
  BY <1>2
<1> QED
  BY <1>2, <1>9, <1>10, EarlyStays

\* The context has a translation already, and translation leaves it as it is.
LEMMA TranslationTaken ==
  ASSUME TypeInv, SoundInv, SoundInv', ~setting.long, ShortHeard, Alive, Alive',
         Position = Translating, ~At("persist"), Done(ctx.segs),
         store' = store, run'.first = run.first, run'.at = Translating, run'.step = "persist",
         ctx'.segs = ctx.segs, row'.segs = row.segs
  PROVE  ShortHeard'
<1> USE StageNumbers
<1>1. ObjectsStay /\ Position' = 5
  BY StoreStays DEF Position, At
<1>2. ContextFresh /\ SourcesFresh /\ RowIsFirst
  BY DEF ShortHeard
<1>3. ContextLives
  BY DEF ContextLives
<1>4. /\ Agrees(ctx.segs, store) /\ Same(row.segs, ctx.segs)
      /\ Live(4) => Same(ctx.segs, store.ckpt[4].segs)
  BY <1>2, <1>3 DEF ContextFresh, Fresh
<1>5. \A k \in Chain : Last(k) /\ Done(store.ckpt[k].segs) => Same(ctx'.segs, store.ckpt[k].segs)
  <2>1. \A k \in Chain : Last(k) => k < Position
    BY DEF Last
  <2> QED
    BY <1>2, <2>1 DEF ContextFresh
<1>6. Agrees(ctx.segs, store)'
  BY <1>4
<1>7. Named(ctx.segs, store.clip)'
  BY DEF SoundInv, SourcesSound, Sound
<1>8. Speaks'
  BY <1>6, <1>7, TakenSpeaks DEF AfterSynthesis
<1>9. RowKnown'
  BY <1>4 DEF RowKnown, At, Same
<1> QED
  BY <1>1, <1>2, <1>4, <1>5, <1>6, <1>8, <1>9, ShortEntersLate

\* The translation of the checkpoint.
LEMMA ShortLoadsTranslation ==
  ASSUME TypeInv, LostInv, SoundInv, SoundInv', OrderInv, ~setting.long, ShortHeard, BeginStage,
         run'.step # "idle", run.at = Translating,
         run.at \notin ctx.inv, run.at \in store.saved
  PROVE  ShortHeard'
<1> USE StageNumbers
<1>1. Restores
  BY TranslationRestores
<1>2. /\ store' = store /\ ObjectsStay
      /\ At("boundary") /\ run.step = "boundary"
      /\ run.first \in 0 .. 7 /\ run.first <= run.at
      /\ row'.segs = row.segs /\ ctx' = ContextAfterRestore
      /\ run'.first = run.first /\ run'.at = run.at /\ run'.step = "persist"
      /\ Alive /\ Alive' /\ Position = 4 /\ Position' = 5
  BY <1>1, ShortStageThere
<1>3. ctx' = store.ckpt[4]
  BY <1>2, RestoreThere DEF Chain
<1>4. ContextFresh /\ SourcesFresh /\ RowIsFirst
  BY <1>2 DEF ShortHeard
<1>5. Live(4)
  <2>1. run.first < 4
    BY <1>2 DEF OrderInv, Invalidated
  <2> QED
    BY <1>2, <2>1 DEF Live, Begun
<1>6. Agrees(store.ckpt[4].segs, store) /\ Done(store.ckpt[4].segs)
  BY <1>4, <1>5, CheckpointsSpoken DEF SourcesFresh
<1>7. Agrees(ctx.segs, store)' /\ Named(ctx.segs, store.clip)'
  BY <1>2, <1>3, <1>6 DEF SoundInv, SourcesSound, Sound
<1>8. Speaks'
  BY <1>2, <1>7, TakenSpeaks DEF AfterSynthesis
<1>9. Blank(row.segs) \/ Same(row.segs, store.ckpt[4].segs)
  <2>1. ContextLives
    BY <1>2 DEF ContextLives
  <2>2. Fresh(ctx.segs) /\ Same(row.segs, ctx.segs)
    BY <1>2, <1>4, <2>1 DEF ContextFresh, At
  <2>3. Blank(row.segs) \/ Done(row.segs)
    BY WholeIsAllOrNone DEF SoundInv, SourcesSound, Sound
  <2>4. ASSUME Done(row.segs) PROVE Same(row.segs, store.ckpt[4].segs)
    <3>1. Done(ctx.segs)
      BY <2>2, <2>4, SameIs
    <3>2. Same(ctx.segs, store.ckpt[4].segs)
      BY <1>5, <2>2, <3>1 DEF Fresh
    <3> QED
      BY <2>2, <3>2, SameIs
  <2> QED
    BY <2>3, <2>4
<1>10. RowKnown'
  BY <1>2, <1>3, <1>9 DEF RowKnown, At
<1>11. Live(4) => Same(ctx'.segs, store.ckpt[4].segs)
  BY <1>3, SameSegs
<1>12. ASSUME NEW k \in Chain, Last(k), Done(store.ckpt[k].segs)
       PROVE  Same(ctx'.segs, store.ckpt[k].segs)
  <2>1. Same(store.ckpt[k].segs, store.ckpt[4].segs)
    BY <1>4, <1>5, <1>12 DEF SourcesFresh, Fresh
  <2> QED
    BY <1>3, <2>1, SameIs
<1> QED
  BY <1>2, <1>4, <1>7, <1>8, <1>10, <1>11, <1>12, ShortEntersLate

LEMMA ShortBeginsStage ==
  ASSUME TypeInv, TypeInv', LostInv, SoundInv, SoundInv', OrderInv, ~setting.long, ShortHeard,
         BeginStage, run'.step # "idle"
  PROVE  ShortHeard'
<1> USE StageNumbers
<1>1. /\ store' = store /\ At("boundary") /\ run.at \in 1 .. 7
      /\ row'.segs = row.segs /\ ctx' = ContextAfterRestore
      /\ run'.first = run.first /\ run'.at = run.at
      /\ run'.step = IF Restores THEN "persist" ELSE "process"
      /\ Alive /\ Alive' /\ Position = run.at
  BY ShortStageThere
<1>2. CASE run.at = 4 /\ Restores /\ run.at \notin store.saved
  <2>1. ctx'.segs = ctx.segs
    BY <1>1, <1>2, RestoreThere
  <2>2. Done(ctx.segs)
    <3>1. Fits(ctx'.segs, run.at + 1)
      BY <1>1, <1>2, LostRestores
    <3> QED
      BY <1>2, <2>1, <3>1 DEF Fits, Done
  <2>3. ~At("persist")
    BY <1>1 DEF At
  <2> QED
    BY <1>1, <1>2, <2>1, <2>2, <2>3, TranslationTaken
<1>3. Restores => run.at \notin ctx.inv
  BY DEF Restores
<1> QED
  BY <1>1, <1>2, <1>3, ShortBeginsLate, ShortProcesses, ShortLoadsEarly, ShortKeepsEarly,
     ShortLoadsTranslation

-----------------------------------------------------------------------------
(* A short recording up to translation.                                    *)

LEMMA ShortEarlyStages ==
  ASSUME TypeInv, TypeInv', PaidInv, LostInv, SoundInv, ~setting.long, ShortHeard,
         Separate \/ Diarize \/ Transcribe, run'.step # "idle"
  PROVE  ShortHeard'
<1> USE StageNumbers
<1>1. /\ run.step = "process" /\ At("process") /\ run.at \in {1, 2, 3}
      /\ ObjectsStay /\ store'.clip = store.clip
      /\ row' = row /\ run'.step = "persist" /\ run'.at = run.at /\ run'.first = run.first
      /\ \/ run.at = 1 /\ ctx'.segs = ctx.segs
         \/ run.at = 2 /\ ctx'.segs = NewSegments(Textless)
         \/ run.at = 3 /\ ctx'.segs = NewSegments(run.no)
  BY EarlyStagesThere, PausesThere DEF Ended, Continues
<1>2. Alive /\ Alive' /\ Position = run.at /\ Position' = run.at + 1
  BY <1>1 DEF Alive, Position, At
<1>3. run.first \in 0 .. 7 /\ run.first <= run.at /\ run.first \in Int
  BY <1>1, <1>2, ShortRun
<1>4. ContextFresh /\ RowIsFirst
  BY <1>1, <1>2 DEF ShortHeard
<1>5. /\ \A k \in Chain : (Live(k)' <=> Live(k)) /\ (Last(k)' <=> Last(k))
      /\ RowLives' <=> RowLives
  BY <1>1, <1>2, LivesStay DEF ObjectsStay
<1>6. Position \in Int /\ Position' \in Int /\ Position <= 4 /\ Position' <= 4
  BY <1>1, <1>2
<1>7. CASE run.at = 1
  <2>1. ctx'.segs = ctx.segs /\ Same(row.segs, ctx.segs)
    BY <1>1, <1>4, <1>7 DEF ContextFresh
  <2>2. (ContextLives => Fresh(ctx.segs))'
    <3>1. ContextLives' => ContextLives
      BY <1>1, <1>2, <1>3, <1>7 DEF ContextLives, ObjectsStay
    <3>2. Fresh(ctx.segs) => FreshNext(ctx.segs)
      BY <1>1, <1>5, FreshStays DEF Chain
    <3> QED
      BY <1>4, <2>1, <3>1, <3>2, FreshNextIs DEF ContextFresh
  <2>3. ASSUME NEW k \in Chain, k < Position', Last(k)', Done(store'.ckpt[k].segs)
        PROVE  Same(ctx'.segs, store'.ckpt[k].segs)
    <3>1. k = 1 /\ Last(1)
      BY <1>2, <1>5, <1>7, <2>3
    <3>2. Same(row.segs, store.ckpt[1].segs)
      BY <1>1, <1>4, <2>3, <3>1 DEF RowIsFirst, ObjectsStay
    <3> QED
      BY <1>1, <2>1, <3>1, <3>2 DEF Same, ObjectsStay
  <2>4. ContextFresh'
    BY <1>1, <1>2, <1>7, <2>1, <2>2, <2>3 DEF ContextFresh, At
  <2> QED
    BY <1>1, <1>2, <1>6, <2>4, EarlyStays
<1>8. CASE run.at # 1
  <2>1. Blank(ctx'.segs)
    BY <1>1, <1>2, <1>8, RunNumber, TextsAreSound
  <2>2. (ContextLives => Fresh(ctx.segs))'
    BY <2>1, BlankIsFresh, FreshNextIs
  <2>3. ASSUME NEW k \in Chain, k < Position', Last(k)', Done(store'.ckpt[k].segs)
        PROVE  FALSE
    <3>1. Last(k) /\ Live(k) /\ k \in store.saved /\ Done(store.ckpt[k].segs) /\ k \in Int
          /\ k <= run.at
      BY <1>1, <1>2, <1>5, <2>3 DEF Last, Live, ObjectsStay
    <3>2. CASE run.at = run.first
      <4>1. Begun = run.first
        BY <1>2 DEF Begun
      <4> QED
        BY <1>1, <1>3, <1>8, <3>1, <3>2, <4>1 DEF Live, Early
    <3>3. CASE run.at # run.first
      <4>1. run.at \notin store.saved /\ Blank(ctx.segs)
        BY <1>1, <1>4, <1>8, <3>3 DEF ContextFresh
      <4>2. k < Position
        BY <1>1, <1>2, <3>1, <4>1
      <4>3. Same(ctx.segs, store.ckpt[k].segs)
        BY <1>4, <3>1, <4>2 DEF ContextFresh
      <4> QED
        BY <3>1, <4>1, <4>3, SameIs, NotBoth
    <3> QED
      BY <3>2, <3>3
  <2>4. ContextFresh'
    BY <1>1, <1>2, <1>8, <2>2, <2>3 DEF ContextFresh, At
  <2> QED
    BY <1>1, <1>2, <1>6, <2>4, EarlyStays
<1> QED
  BY <1>7, <1>8

LEMMA ShortTranslates ==
  ASSUME TypeInv, PaidInv, LostInv, SoundInv, SoundInv', ~setting.long, ShortHeard, Translate,
         run'.step # "idle"
  PROVE  ShortHeard'
<1> USE StageNumbers
<1>1. /\ store' = store /\ run.step = "process" /\ At("process") /\ run.at = 4 /\ row' = row
      /\ run'.step = "persist" /\ run'.at = 4 /\ run'.first = run.first
      /\ \/ Translatable(ctx.segs) = {} /\ ctx' = ctx
         \/ /\ Translatable(ctx.segs) # {} /\ NewlyTranslated(ctx'.segs)
            /\ ctx'.inv = ctx.inv \cup {5, 6, 7} /\ ctx'.clips = {}
  BY TranslateThere, PausesThere, FailsThere DEF Ended, Continues
<1>2. Alive /\ Alive' /\ Position = 4 /\ Position' = 5 /\ ~At("persist") /\ ObjectsStay
  BY <1>1, StoreStays DEF Alive, Position, At
<1>3. ContextFresh /\ RowIsFirst
  BY <1>2 DEF ShortHeard
<1>4. CASE Translatable(ctx.segs) = {}
  <2>1. Fits(ctx.segs, 4)
    BY <1>1, <1>2, ShortRun DEF ContextInChain
  <2>2. Done(ctx.segs)
    BY <1>4, <2>1 DEF Fits, Translatable, Done
  <2> QED
    BY <1>1, <1>2, <1>4, <2>2, TranslationTaken
<1>5. CASE Translatable(ctx.segs) # {}
  <2>1. /\ Blank(ctx.segs) /\ \A s \in Segs : ~ctx'.segs[s].url
        /\ ctx'.inv = ctx.inv \cup {5, 6, 7} /\ ctx'.clips = {}
    BY <1>1, <1>2, <1>5, TranslatesAll DEF SoundInv
  <2>2. Speaks'
    BY <1>1, <2>1 DEF Speaks, At, AfterSynthesis
  <2>3. Same(row.segs, ctx.segs)
    BY <1>2, <1>3 DEF ContextFresh
  <2>4. Blank(row.segs)
    BY <2>1, <2>3, SameIs
  <2>5. RowKnown'
    BY <1>1, <2>4 DEF RowKnown, At
  <2>6. ~Live(4)
    <3>1. CASE run.first = 4
      BY <1>2, <3>1 DEF Live, Early, Begun
    <3>2. CASE run.first # 4
      BY <1>1, <1>3, <3>2 DEF ContextFresh, Live
    <3> QED
      BY <3>1, <3>2
  <2>7. ASSUME NEW k \in Chain, Last(k), Done(store.ckpt[k].segs) PROVE FALSE
    <3>1. k < Position
      BY <1>2, <2>7 DEF Last
    <3>2. Same(ctx.segs, store.ckpt[k].segs)
      BY <1>3, <2>7, <3>1 DEF ContextFresh
    <3> QED
      BY <2>1, <2>7, <3>2, SameIs, NotBoth
  <2>8. Mixing \in ctx'.inv
    BY <2>1
  <2> QED
    BY <1>1, <1>2, <1>3, <2>2, <2>5, <2>6, <2>7, <2>8, ShortEntersLate
<1> QED
  BY <1>4, <1>5

LEMMA ShortPersistsEarly ==
  ASSUME TypeInv, TypeInv', LostInv, SoundInv, ~setting.long, ShortHeard, PersistStage,
         run.at <= Transcribing
  PROVE  ShortHeard'
<1> USE StageNumbers
<1>1. /\ store' = store /\ run.at \in 1 .. 3 /\ run.step = "persist" /\ At("persist")
      /\ ctx'.segs = ctx.segs /\ row'.stage = row.stage
      /\ row'.segs = IF run.at >= 2 /\ HasSegments(ctx.segs) THEN ctx.segs ELSE row.segs
      /\ run'.step = "save" /\ run'.at = run.at /\ run'.first = run.first
  BY PersistThere DEF Continues
<1>2. /\ Alive /\ Alive' /\ Position = run.at + 1 /\ Position' = run.at + 1
      /\ ObjectsStay /\ store'.clip = store.clip
  BY <1>1, StoreStays DEF Alive, Position, At
<1>3. Position \in Int /\ Position' \in Int /\ Position <= 4 /\ Position' <= 4
  BY <1>1, <1>2
<1>4. ContextFresh /\ RowIsFirst /\ SourcesFresh
  BY <1>2, <1>3 DEF ShortHeard
<1>5. /\ \A k \in Chain : (Live(k)' <=> Live(k)) /\ (Last(k)' <=> Last(k))
      /\ (RowLives' <=> RowLives)
      /\ Begun' = Begun /\ Begun = run.first
  BY <1>1, <1>2, LivesStay DEF ObjectsStay
<1>6. Live(4)' <=> Live(4)
  BY <1>5 DEF Chain
<1>7. (ContextLives => Fresh(ctx.segs))'
  <2>1. ContextLives' => ContextLives
    BY <1>1, <1>2 DEF ContextLives, ObjectsStay
  <2>2. Fresh(ctx.segs) => FreshNext(ctx.segs)
    BY <1>2, <1>6, FreshStays
  <2> QED
    BY <1>1, <1>4, <2>1, <2>2, FreshNextIs DEF ContextFresh
<1>8. \A k \in Chain : k < Position' /\ Last(k)' /\ Done(store'.ckpt[k].segs) =>
          Same(ctx'.segs, store'.ckpt[k].segs)
  BY <1>1, <1>2, <1>4, <1>5 DEF ContextFresh
<1>9. run.at = 3 => HasSegments(ctx.segs)
  <2>1. run.at = 3 => Fits(ctx.segs, 4)
    BY <1>1, <1>2, ShortRun DEF ContextInChain
  <2>2. ~Fits(NoSegments, 4)
    BY NothingFits
  <2> QED
    BY <2>1, <2>2 DEF HasSegments
<1>10. Position' = 4 => Same(row'.segs, ctx'.segs)
  BY <1>1, <1>2, <1>9 DEF Same
<1>11. run.at <= 1 /\ RowLives' /\ Done(ctx'.segs) => Same(row'.segs, ctx'.segs)
  BY <1>1, <1>4, <1>5 DEF ContextFresh
<1>12. ContextFresh'
  BY <1>1, <1>7, <1>8, <1>10, <1>11 DEF ContextFresh, At
<1>13. CASE row'.segs = row.segs
  BY <1>1, <1>2, <1>3, <1>12, <1>13, EarlyStays
<1>14. CASE run.at >= 2 /\ row'.segs = ctx.segs
  <2>1. RowIsFirst'
    <3>1. ASSUME Last(1)', Done(store'.ckpt[1].segs) PROVE Same(row'.segs, store'.ckpt[1].segs)
      <4>1. 1 < Position' /\ 1 \in Chain
        BY <1>1, <1>2, <1>14
      <4> QED
        BY <1>1, <1>8, <1>14, <3>1, <4>1
    <3> QED
      BY <3>1 DEF RowIsFirst
  <2>2. (Live(4) => Agrees(store.ckpt[4].segs, store))'
    BY <1>1, <1>4, <1>6 DEF SourcesFresh
  <2>3. ASSUME NEW k \in Chain, Last(k)' PROVE Fresh(store.ckpt[k].segs)'
    <3>1. Fresh(store.ckpt[k].segs)
      BY <1>4, <1>5, <2>3 DEF SourcesFresh
    <3>2. FreshNext(store'.ckpt[k].segs)
      BY <1>1, <1>2, <1>6, <3>1, FreshStays
    <3> QED
      BY <3>2, FreshNextIs
  <2>4. ~(row'.stage >= 4 \/ Begun' >= 4)
    <3>1. row.stage <= run.at /\ run.first <= run.at
      BY <1>1, <1>2, ShortRun DEF RowInChain
    <3>2. row.stage \in Int /\ run.first \in Int /\ run.at \in Int
      BY Numbers
    <3> QED
      BY <1>1, <1>5, <3>1, <3>2
  <2>5. RowLives' => Fresh(row.segs)'
    <3>1. RowLives => ContextLives
      <4>1. RowLives => run.first <= 1 /\ 2 \notin store.saved /\ 3 \notin store.saved
        BY <1>5 DEF RowLives, Early
      <4> QED
        BY <4>1 DEF ContextLives
    <3>2. RowLives => FreshNext(ctx.segs)
      BY <1>2, <1>4, <1>6, <3>1, FreshStays DEF ContextFresh
    <3> QED
      BY <1>5, <1>14, <3>2, FreshNextIs
  <2>6. SourcesFresh'
    BY <2>2, <2>3, <2>4, <2>5 DEF SourcesFresh
  <2> QED
    BY <1>2, <1>3, <1>12, <2>1, <2>6 DEF ShortHeard
<1> QED
  BY <1>1, <1>13, <1>14

LEMMA ShortSavesEarly ==
  ASSUME TypeInv, TypeInv', LostInv, SoundInv, ~setting.long, ShortHeard, SaveCheckpoint,
         run.at <= Transcribing
  PROVE  ShortHeard'
<1> USE StageNumbers
<1>1. /\ row' = row /\ ctx' = ctx /\ run.at \in 1 .. 3 /\ run.step = "save" /\ At("save")
      /\ store'.clip = store.clip /\ store'.made = store.made /\ store'.out = store.out
      /\ store'.mixed = store.mixed
      /\ run'.first = run.first /\ run'.step = "boundary" /\ run'.at = run.at + 1
  BY SaveThere
<1>2. Alive /\ Position = run.at + 1 /\ Alive' /\ Position' = run.at + 1
  BY <1>1 DEF Alive, Position, At
<1>3. Position \in Int /\ Position' \in Int /\ Position <= 4 /\ Position' <= 4
  BY <1>1, <1>2
<1>4. ContextFresh /\ RowIsFirst /\ SourcesFresh
  BY <1>2, <1>3 DEF ShortHeard
<1>5. Position' = 4 => Same(row'.segs, ctx'.segs)
  BY <1>1, <1>2, <1>4 DEF ContextFresh, At
<1>6. Begun' = Begun /\ Begun = run.first /\ run.first <= run.at /\ run.first \in Int
  BY <1>1, <1>2, ShortRun, Numbers DEF Begun
<1>7. CASE store'.saved = store.saved /\ store'.ckpt = store.ckpt
  <2>1. ObjectsStay
    BY <1>1, <1>7 DEF ObjectsStay
  <2>2. \A k \in Chain : (Live(k)' <=> Live(k)) /\ (Last(k)' <=> Last(k))
    BY <1>1, <1>2, <1>7, LivesStay
  <2>3. (ContextLives => Fresh(ctx.segs))'
    <3>1. ContextLives' => ContextLives
      BY <1>1, <1>2, <1>7 DEF ContextLives
    <3>2. Fresh(ctx.segs) => FreshNext(ctx.segs)
      BY <1>1, <2>1, <2>2, FreshStays DEF Chain
    <3> QED
      BY <1>1, <1>4, <3>1, <3>2, FreshNextIs DEF ContextFresh
  <2>4. \A k \in Chain : k < Position' /\ Last(k)' /\ Done(store'.ckpt[k].segs) =>
            Same(ctx'.segs, store'.ckpt[k].segs)
    BY <1>1, <1>2, <1>4, <1>7, <2>2 DEF ContextFresh
  <2>5. ContextFresh'
    BY <1>1, <1>5, <2>3, <2>4 DEF ContextFresh, At
  <2> QED
    BY <1>1, <1>2, <1>3, <2>1, <2>5, EarlyStays
<1>8. CASE /\ store'.saved = store.saved \cup {run.at} /\ store'.ckpt[run.at] = ctx
           /\ \A k \in Chain : k # run.at => store'.ckpt[k] = store.ckpt[k]
  <2>1. \A segs : Agrees(segs, store') <=> Agrees(segs, store)
    <3>1. \A k \in Int : k >= 5 => /\ k \in store'.saved <=> k \in store.saved
      BY <1>1, <1>8
    <3>2. \A k \in store'.saved : k \in Int /\ (k >= 5 => store'.ckpt[k] = store.ckpt[k])
      BY <1>1, <1>8, StoreParts
    <3>3. \A k \in store.saved : k \in Int
      BY StoreParts
    <3> QED
      BY <1>1, <3>1, <3>2, <3>3 DEF Agrees
  <2>2. ASSUME NEW k \in Chain, k # run.at
        PROVE  /\ Live(k)' <=> Live(k)
               /\ Last(k)' => Last(k)
    BY <1>6, <1>8, <2>2 DEF Live, Last, Early
  <2>3. (Live(4)' <=> Live(4)) /\ store'.ckpt[4] = store.ckpt[4]
    BY <1>1, <1>8, <2>2
  <2>4. \A segs : Fresh(segs) => FreshNext(segs)
    BY <2>1, <2>3 DEF Fresh, FreshNext
  <2>5. RowLives' => RowLives
    BY <1>6, <1>8 DEF RowLives, Early
  <2>6. ContextLives' => ContextLives
    BY <1>1, <1>2, <1>8 DEF ContextLives
  <2>7. ASSUME NEW a \in Chain, a = run.at, Last(a)' PROVE ContextLives
    <3>1. ASSUME NEW k \in {2, 3}, k >= Position PROVE k \notin store.saved
      BY <1>1, <1>2, <1>8, <2>7, <3>1 DEF Last
    <3> QED
      BY <1>2, <1>6, <3>1, Numbers DEF ContextLives
  <2>8. RowIsFirst'
    <3>1. ASSUME Last(1)', Done(store'.ckpt[1].segs), run.at # 1 PROVE FALSE
      <4>1. run.at \in {2, 3} /\ run.at \in store'.saved
        BY <1>1, <1>8, <3>1
      <4> QED
        BY <3>1, <4>1 DEF Last
    <3>2. ASSUME Last(1)', Done(store'.ckpt[1].segs), run.at = 1
          PROVE  Same(row'.segs, store'.ckpt[1].segs)
      <4>1. 2 \notin store.saved /\ 3 \notin store.saved
        BY <1>8, <3>2 DEF Last
      <4>2. RowLives
        BY <1>6, <3>2, <4>1 DEF RowLives, Early
      <4> QED
        BY <1>1, <1>4, <1>8, <3>2, <4>2 DEF ContextFresh
    <3> QED
      BY <3>1, <3>2 DEF RowIsFirst
  <2>9. (Live(4) => Agrees(store.ckpt[4].segs, store))'
    BY <1>4, <2>1, <2>3 DEF SourcesFresh
  <2>10. ASSUME NEW k \in Chain, Last(k)' PROVE Fresh(store.ckpt[k].segs)'
    <3>1. Fresh(store'.ckpt[k].segs)
      <4>1. CASE k = run.at
        BY <1>4, <1>8, <2>7, <2>10, <4>1 DEF ContextFresh
      <4>2. CASE k # run.at
        BY <1>4, <1>8, <2>2, <2>10, <4>2 DEF SourcesFresh
      <4> QED
        BY <4>1, <4>2
    <3>2. FreshNext(store'.ckpt[k].segs)
      BY <2>4, <3>1
    <3> QED
      BY <3>2, FreshNextIs
  <2>11. ((row.stage >= 4 \/ Begun >= 4) /\ Done(row.segs) => Agrees(row.segs, store))'
    BY <1>1, <1>4, <1>6, <2>1 DEF SourcesFresh
  <2>12. RowLives' => Fresh(row.segs)'
    <3>1. RowLives' => FreshNext(row.segs)
      BY <1>4, <2>4, <2>5 DEF SourcesFresh
    <3> QED
      BY <1>1, <3>1, FreshNextIs
  <2>13. SourcesFresh'
    BY <2>9, <2>10, <2>11, <2>12 DEF SourcesFresh
  <2>14. (ContextLives => Fresh(ctx.segs))'
    <3>1. ContextLives' => FreshNext(ctx.segs)
      BY <1>4, <2>4, <2>6 DEF ContextFresh
    <3> QED
      BY <1>1, <3>1, FreshNextIs
  <2>15. ASSUME NEW k \in Chain, k < Position', Last(k)', Done(store'.ckpt[k].segs)
         PROVE  Same(ctx'.segs, store'.ckpt[k].segs)
    <3>1. CASE k = run.at
      BY <1>1, <1>8, <3>1, SameSegs
    <3>2. CASE k # run.at
      BY <1>1, <1>2, <1>4, <1>8, <2>2, <2>15, <3>2 DEF ContextFresh
    <3> QED
      BY <3>1, <3>2
  <2>16. ContextFresh'
    BY <1>1, <1>5, <2>14, <2>15 DEF ContextFresh, At
  <2> QED
    BY <1>2, <1>3, <2>8, <2>13, <2>16 DEF ShortHeard
<1> QED
  BY <1>7, <1>8, SaveThere

LEMMA ShortEstimates ==
  ASSUME TypeInv, TypeInv', LostInv, ~setting.long, ShortHeard, Estimator
  PROVE  ShortHeard'
<1> USE StageNumbers
<1>1. /\ UNCHANGED <<setting, msg, store, ctx>> /\ row'.segs = row.segs
      /\ run'.step = run.step /\ run'.at = run.at /\ run'.first = run.first
      /\ InTheChain
      /\ row' = row \/ (row'.stage = run.seen /\ run.seen <= run.at)
  BY EstimatorThere
<1>2. /\ Alive /\ Alive' /\ Position' = Position /\ run.step # "preflight"
      /\ At("synth") => run.at = 5
  BY <1>1, AtSynth DEF Alive, InTheChain, Position, At
<1>3. Position \in Int /\ run.at \in Int /\ run.seen \in Int
  BY <1>2, ShortRun, Numbers
<1>4. ObjectsStay /\ store'.clip = store.clip
  BY <1>1, StoreStays
<1>5. /\ \A k \in Chain : (Live(k)' <=> Live(k)) /\ (Last(k)' <=> Last(k))
      /\ (RowLives' <=> RowLives)
      /\ Begun' = Begun
  BY <1>1, <1>2, LivesStay
<1>6. CASE Position <= 4
  <2>1. ContextFresh
    BY <1>2, <1>6 DEF ShortHeard
  <2>2. (ContextLives => Fresh(ctx.segs))'
    <3>1. ContextLives' => ContextLives
      BY <1>1, <1>2 DEF ContextLives
    <3>2. Fresh(ctx.segs) => FreshNext(ctx.segs)
      BY <1>4, <1>5, FreshStays DEF Chain
    <3> QED
      BY <1>1, <2>1, <3>1, <3>2, FreshNextIs DEF ContextFresh
  <2>3. ContextFresh'
    BY <1>1, <1>2, <1>5, <2>1, <2>2 DEF ContextFresh, At
  <2>4. \/ row'.stage = row.stage
        \/ row'.stage <= Transcribing
        \/ Position = Translating /\ ~At("persist")
    <3>1. CASE run.at <= 3
      BY <1>1, <1>3, <3>1
    <3>2. CASE run.at > 3
      <4>1. Position = run.at /\ ~At("persist")
        BY <1>2, <1>3, <1>6, <3>2 DEF Position, At
      <4> QED
        BY <1>3, <1>6, <3>2, <4>1
    <3> QED
      BY <1>3, <3>1, <3>2
  <2> QED
    BY <1>1, <1>2, <1>3, <1>4, <1>6, <2>3, <2>4, EarlyStays
<1>7. CASE Position > 4
  <2>1. AfterTranslation
    BY <1>2, <1>7 DEF ShortHeard
  <2>2. Speaks'
    BY <1>1, <2>1 DEF AfterTranslation, Speaks, AfterSynthesis, At
  <2>3. RowKnown'
    BY <1>1, <2>1 DEF AfterTranslation, RowKnown, At, Blank, Same
  <2>4. Mixing \notin ctx'.inv /\ ~(run'.at = Mixing /\ run'.step \in {"save", "done"}) =>
            Agrees(ctx.segs, store')
    BY <1>1, <2>1 DEF AfterTranslation
  <2>5. LateObjects /\ Same(ctx'.segs, ctx.segs)
    BY <1>1, SameSegs DEF LateObjects
  <2> QED
    BY <1>1, <1>2, <1>3, <1>7, <2>2, <2>3, <2>4, <2>5, LateStays
<1> QED
  BY <1>3, <1>6, <1>7

LEMMA AliveProcesses == ASSUME TypeInv, Alive PROVE row.status = "processing"
<1> QED
  BY DEF TypeInv, RunsCounted

LEMMA ShortMessages ==
  ASSUME TypeInv, TypeInv', OrderInv, ~setting.long, ShortHeard, Reconcile \/ Resume
  PROVE  ShortHeard'
<1> USE StageNumbers
<1>1. /\ ~Alive /\ store' = store /\ run' = run /\ row'.segs = row.segs
      /\ row'.stage = row.stage /\ setting' = setting
      /\ \/ msg'.start = NoStage /\ msg'.force
         \/ msg'.start = row.stage
  <2>1. CASE Reconcile
    BY <2>1, Standing DEF Reconcile
  <2>2. CASE Resume
    <3>1. ~Alive
      BY <2>2, AliveProcesses DEF Resume
    <3> QED
      BY <2>2, <3>1, Standing DEF Resume, RowType
  <2> QED
    BY <2>1, <2>2
<1>2. ~Alive' /\ ObjectsStay /\ store'.clip = store.clip
  BY <1>1, StoreStays DEF Alive
<1>3. Begun \in Int /\ Begun' \in Int /\ row.stage \in 0 .. 7 /\ msg.start \in Int
  BY BegunType, BegunTypeNext, Numbers
<1>4. Begun' = row.stage \/ (row.stage = 0 /\ Begun' = 1)
  BY <1>1, <1>2, <1>3 DEF Begun, FirstStage, ResumeStage
<1>5. Early \/ Begun <= Begun'
  <2>1. CASE msg.start # NoStage
    <3>1. Begun = msg.start /\ (msg.start >= 2 => msg.start <= row.stage)
      BY <1>1, <2>1 DEF Begun, FirstStage, OrderInv, NeverEarlier
    <3> QED
      BY <1>3, <1>4, <3>1 DEF Early
  <2>2. CASE msg.start = NoStage
    <3>1. Begun = 1 \/ Begun = row.stage
      BY <1>1, <2>2 DEF Begun, FirstStage, ResumeStage
    <3> QED
      BY <1>3, <1>4, <3>1 DEF Early
  <2> QED
    BY <2>1, <2>2
<1>6. /\ \A k \in Chain : (Live(k)' => Live(k)) /\ (Last(k)' => Last(k))
      /\ (RowLives' => RowLives)
  BY <1>1, <1>5, LivesNoMore
<1>7. SourcesFresh /\ OutputIsRow /\ RowIsFirst
  BY <1>1 DEF ShortHeard
<1>8. SourcesFresh'
  <2>1. (row'.stage >= Translating \/ Begun' >= Translating) /\ Done(row.segs)
            => Agrees(row.segs, store)
    <3>1. row'.stage >= 4 \/ Begun' >= 4 => row.stage >= 4
      BY <1>1, <1>3, <1>4
    <3> QED
      BY <1>7, <3>1 DEF SourcesFresh
  <2> QED
    BY <1>1, <1>2, <1>6, <1>7, <2>1, SourcesStay
<1>9. RowIsFirst'
  BY <1>1, <1>6, <1>7, RowIsFirstStays DEF Chain
<1>10. OutputIsRow'
  BY <1>1, <1>7 DEF OutputIsRow
<1> QED
  BY <1>2, <1>8, <1>9, <1>10 DEF ShortHeard

LEMMA MadeIsSpoken ==
  ASSUME SoundInv, OutputIsRow, store.made PROVE Done(row.segs)
<1> QED
  BY DEF SoundInv, StoreSpoken, OutputIsRow, Done

\* The final object is found: of a short or a long recording, it says what the rows hold.
LEMMA FindsHears ==
  ASSUME TypeInv, SoundInv, FindsOutput, UNCHANGED <<setting, msg, store>>, OutputIsRow
  PROVE  row'.status = "completed" /\ HeardIsShown'
<1>1. store.made /\ row'.segs = row.segs /\ row'.status = "completed"
  BY FindsThere
<1>2. Done(row.segs) /\ Whole(row.segs, setting.long)
  BY <1>1, MadeIsSpoken DEF SoundInv, SourcesSound, Sound
<1>3. ASSUME NEW s \in Segs
      PROVE  /\ row.segs[s].trans # NoTranslation /\ store.out[s] = row.segs[s].trans
             /\ ~setting.long => row.segs[s].trans.of = row.segs[s].text
  BY <1>1, <1>2, WholeIsAllOrNone DEF OutputIsRow, Done
<1> QED
  BY <1>1, <1>3 DEF HeardIsShown

LEMMA EndsWhole ==
  ASSUME Abandons, ~stale'
  PROVE  Ended /\ ~LeavesStale /\ ~Alive'
<1> QED
  BY EndsThere DEF Abandons, Ended, Alive

LEMMA ShortPauses ==
  ASSUME TypeInv, TypeInv', LostInv, SoundInv, OrderInv, ~setting.long, ShortHeard, Alive,
         NEW stage, Pauses(stage), ~stale', msg' = msg, ObjectsStay, store'.clip = store.clip,
         run.first <= stage \/ run.first <= 1,
         Position <= Translating =>
            \/ stage <= Transcribing
            \/ run.first >= Translating
            \/ Position = Translating /\ ~At("persist")
  PROVE  ShortHeard'
<1>1. Ended /\ ~LeavesStale /\ row'.segs = row.segs /\ row'.stage = stage
  BY PausesThere, EndsWhole
<1> QED
  BY <1>1, ShortEnds

LEMMA ShortPausesAtStage ==
  ASSUME TypeInv, TypeInv', LostInv, SoundInv, OrderInv, ~setting.long, ShortHeard,
         run.step \in {"boundary", "process"}, Pauses(run.at), ~stale', msg' = msg, store' = store
  PROVE  ShortHeard'
<1> USE StageNumbers
<1>1. Alive /\ Position = run.at /\ ~At("persist")
  BY DEF Alive, Position, At
<1>2. run.at \in Int /\ run.first <= run.at
  BY <1>1, ShortRun
<1>3. ObjectsStay /\ store'.clip = store.clip
  BY StoreStays
<1>4. Position <= 4 => run.at <= 3 \/ Position = 4
  BY <1>1, <1>2
<1> QED
  BY <1>1, <1>2, <1>3, <1>4, ShortPauses

LEMMA ShortPreflightPauses ==
  ASSUME TypeInv, TypeInv', LostInv, SoundInv, OrderInv, ~setting.long, ShortHeard, Preflight,
         run'.step = "idle", ~stale'
  PROVE  ShortHeard'
<1> USE StageNumbers
<1>1. /\ UNCHANGED <<msg, store>> /\ Abandons /\ row'.segs = row.segs
      /\ row'.stage = PreflightStage /\ run.step = "preflight"
  BY PreflightThere
<1>2. /\ Alive /\ run.first \in 0 .. 7 /\ Ended /\ ~LeavesStale
      /\ Position = IF run.first = 0 THEN 1 ELSE run.first
  BY <1>1, EndsWhole, Numbers DEF Alive, Position, At
<1>3. row'.stage = run.first \/ (row'.stage = 0 /\ run.first = 1)
  BY <1>1 DEF PreflightStage
<1>4. row'.stage \in Int /\ Position \in Int
  BY <1>2, <1>3
<1>5. run.first <= row'.stage \/ run.first <= 1
  BY <1>2, <1>3
<1>6. row'.stage <= 3 \/ run.first >= 4
  BY <1>2, <1>3
<1>7. ObjectsStay /\ store'.clip = store.clip
  BY <1>1, StoreStays
<1> QED
  BY <1>1, <1>2, <1>5, <1>6, <1>7, ShortEnds

LEMMA ShortSynthesisPauses ==
  ASSUME TypeInv, TypeInv', LostInv, SoundInv, OrderInv, ~setting.long, ShortHeard,
         SynthesisStops, row'.status # "failed", ~stale'
  PROVE  ShortHeard'
<1> USE StageNumbers
<1>1. /\ msg' = msg /\ ObjectsStay /\ Pauses(5) /\ run.step = "synth" /\ At("synth")
      /\ \A s \in Segs : store'.clip[s] \in {store.clip[s], ctx.segs[s].trans}
  BY StopsThere, FailsThere
<1>2. Alive /\ Position = 5
  BY <1>1, AtSynth DEF Alive, Position, At
<1>3. run.first <= 5
  BY <1>1, <1>2, AtSynth, ShortRun
<1>4. row'.segs = row.segs /\ row'.stage = 5 /\ Ended /\ ~LeavesStale
  BY <1>1, PausesThere, EndsWhole
<1> QED
  BY <1>1, <1>2, <1>3, <1>4, ShortEnds

LEMMA ShortCrashes ==
  ASSUME TypeInv, TypeInv', LostInv, SoundInv, OrderInv, ~setting.long, ShortHeard, Crash, ~stale'
  PROVE  ShortHeard'
<1>1. /\ msg' = msg /\ store' = store /\ row' = row /\ Alive /\ Ended /\ ~LeavesStale
  BY EndsWhole DEF Crash
<1>2. ObjectsStay /\ store'.clip = store.clip
  BY <1>1, StoreStays
<1> QED
  BY <1>1, <1>2, ShortEnds

\* A step of a stage leaves the status, or pauses or fails the task.
LEMMA StageStatus ==
  ASSUME TypeInv, LostInv, StageStep, row'.status # "failed"
  PROVE  Alive /\ row'.status \in {row.status, "paused"}
<1>1. CASE BeginStage
  BY <1>1, BeginStageThere, PausesThere DEF Alive
<1>2. CASE Separate \/ Diarize \/ Transcribe
  BY <1>2, EarlyStagesThere, PausesThere DEF Alive
<1>3. CASE Translate
  BY <1>3, TranslateThere, PausesThere, FailsThere DEF Alive
<1>4. CASE Synthesize
  BY <1>4, SynthesizeThere, FailsThere DEF Alive
<1>5. CASE \E s \in Segs : SpeakSegment(s) \/ CollectClip(s)
  BY <1>5, SpeakThere, CollectThere DEF Alive
<1>6. CASE SynthesisStops
  BY <1>6, StopsThere, PausesThere, FailsThere DEF Alive
<1>7. CASE SynthesisEnds \/ Align
  BY <1>7, SynthesisEndsThere, AlignThere, FailsThere DEF Alive
<1>8. CASE MixShort \/ MixChunk \/ JoinChunks
  BY <1>8, MixShortThere, MixChunkThere, JoinThere, FailsThere DEF Alive
<1>9. CASE PersistStage
  BY <1>9, PersistThere DEF Alive
<1>10. CASE SaveCheckpoint
  BY <1>10, SaveThere DEF Alive
<1> QED
  BY <1>1, <1>2, <1>3, <1>4, <1>5, <1>6, <1>7, <1>8, <1>9, <1>10 DEF StageStep

LEMMA ThreadsAreLong ==
  ASSUME TypeInv, LostInv, ~setting.long
  PROVE  ~ThreadStep /\ ~MainStep
<1>1. ~InPools /\ run.step \notin {"front", "pools", "drain"}
  BY InFrontKnown DEF InPools
<1>2. ~ThreadStep
  BY <1>1 DEF ThreadStep, StartJob, JobStops, SeparateChunk, DiarizeChunk, TranscribeChunk,
              TranslateChunk
<1>3. ~MainStep
  BY <1>1 DEF MainStep, TakeSeparated, TakeDiarized, TakeTranscribed, FrontJobRaises,
              TranslationRaises, FrontStart, FrontStops, FrontEnds, At
<1> QED
  BY <1>2, <1>3

LEMMA DoneIsTranslated ==
  ASSUME SoundInv, run.step = "done" PROVE run.at = Mixing /\ Done(ctx.segs)
<1> USE StageNumbers
<1>1. run.at = 7 /\ ctx.clips # {}
  BY DEF SoundInv, ContextSpoken, At
<1> QED
  BY <1>1 DEF SoundInv, ContextSpoken, AfterSynthesis

\* A run that is done has made the final object from its context, and the rows hold the same.
LEMMA CompletesHears ==
  ASSUME TypeInv, SoundInv, Complete, Speaks, RowKnown
  PROVE  HeardIsShown'
<1> USE StageNumbers
<1>1. /\ run.step = "done" /\ store' = store /\ setting' = setting /\ row'.segs = row.segs
  BY Standing DEF Complete, RowType
<1>2. run.at = 7 /\ Done(ctx.segs)
  BY <1>1, DoneIsTranslated
<1>3. Same(row.segs, ctx.segs) /\ \A s \in Segs : store.out[s] = ctx.segs[s].trans
  BY <1>1, <1>2 DEF RowKnown, Speaks
<1>4. Done(row.segs) /\ Whole(row.segs, setting.long)
  BY <1>2, <1>3, SameIs DEF SoundInv, SourcesSound, Sound
<1>5. ASSUME NEW s \in Segs
      PROVE  /\ row.segs[s].trans # NoTranslation /\ store.out[s] = row.segs[s].trans
             /\ ~setting.long => row.segs[s].trans.of = row.segs[s].text
  BY <1>3, <1>4, WholeIsAllOrNone DEF Done, Same
<1> QED
  BY <1>1, <1>5 DEF HeardIsShown

LEMMA ShortCompletes ==
  ASSUME TypeInv, LostInv, SoundInv, ~setting.long, ShortHeard, Complete
  PROVE  HeardIsShown'
<1> USE StageNumbers
<1>1. run.step = "done" /\ run.at = 7
  BY DoneIsTranslated DEF Complete
<1>2. Alive /\ Position = 8
  BY <1>1 DEF Alive, Position, At
<1> QED
  BY <1>2, LateKnown, CompletesHears

LEMMA ShortStages ==
  ASSUME TypeInv, TypeInv', PaidInv, LostInv, LostInv', SoundInv, SoundInv', OrderInv,
         ~setting.long, ShortHeard, StageStep, row'.status # "failed", ~stale'
  PROVE  ShortHeard'
<1> USE StageNumbers
<1>1. CASE BeginStage
  <2>1. CASE run'.step = "idle"
    <3>1. Pauses(run.at) /\ run.step = "boundary" /\ msg' = msg /\ store' = store
      BY <1>1, <2>1, BeginStageThere DEF Continues
    <3> QED
      BY <3>1, ShortPausesAtStage
  <2> QED
    BY <1>1, <2>1, ShortBeginsStage
<1>2. CASE Separate \/ Diarize \/ Transcribe
  <2>1. CASE run'.step = "idle"
    <3>1. Pauses(run.at) /\ run.step = "process" /\ msg' = msg
      BY <1>2, <2>1, EarlyStagesThere DEF Continues
    <3>2. store' = store
      BY <1>2, <2>1, GoesOnThere, Standing DEF Separate, Diarize, Transcribe, Continues
    <3> QED
      BY <3>1, <3>2, ShortPausesAtStage
  <2> QED
    BY <1>2, <2>1, ShortEarlyStages
<1>3. CASE Translate
  <2>1. CASE run'.step = "idle"
    <3>1. Pauses(run.at) /\ run.step = "process" /\ msg' = msg /\ store' = store
      BY <1>3, <2>1, TranslateThere, FailsThere DEF Continues
    <3> QED
      BY <3>1, ShortPausesAtStage
  <2> QED
    BY <1>3, <2>1, ShortTranslates
<1>4. CASE Synthesize
  BY <1>4, ShortSynthesize
<1>5. CASE \E s \in Segs : SpeakSegment(s) \/ CollectClip(s)
  BY <1>5, ShortSpeak, ShortCollect
<1>6. CASE SynthesisStops
  BY <1>6, ShortSynthesisPauses
<1>7. CASE SynthesisEnds \/ Align
  BY <1>7, ShortEndsOrAligns
<1>8. CASE MixShort
  BY <1>8, ShortMixes
<1>9. CASE MixChunk \/ JoinChunks
  BY <1>9, MixChunkThere, JoinThere
<1>10. CASE PersistStage
  <2>1. run.at \in 1 .. 7
    BY <1>10, PersistThere
  <2> QED
    BY <1>10, <2>1, ShortPersistsEarly, ShortPersistsLate
<1>11. CASE SaveCheckpoint
  <2>1. run.at \in 1 .. 7
    BY <1>11, SaveThere
  <2> QED
    BY <1>11, <2>1, ShortSavesEarly, ShortSavesLate
<1> QED
  BY <1>1, <1>2, <1>3, <1>4, <1>5, <1>6, <1>7, <1>8, <1>9, <1>10, <1>11 DEF StageStep

\* Every step on a short recording.
LEMMA ShortSteps ==
  ASSUME TypeInv, TypeInv', PaidInv, LostInv, LostInv', SoundInv, SoundInv', OrderInv,
         ~setting.long, ShortHeard, Next, row'.status # "failed", ~stale'
  PROVE  (row'.status = "completed" => HeardIsShown') /\ (Open' => ShortHeard')
<1>1. CASE ~Alive /\ (FindsOutput \/ Begins) /\ UNCHANGED <<setting, msg, store>>
  <2>1. CASE FindsOutput
    <3>1. OutputIsRow
      BY <1>1 DEF ShortHeard
    <3> QED
      BY <1>1, <2>1, <3>1, FindsHears DEF Open
  <2>2. CASE Begins
    <3>1. ShortHeard'
      BY <1>1, <2>2, ShortBegins
    <3>2. row'.status = "processing"
      BY <2>2, BeginsThere
    <3> QED
      BY <3>1, <3>2
  <2> QED
    BY <1>1, <2>1, <2>2
<1>2. CASE Reconcile \/ Resume
  <2>1. row'.status \in {"processing", "pending"}
    BY <1>2, Standing DEF Reconcile, Resume, RowType
  <2> QED
    BY <1>2, <2>1, ShortMessages
<1>3. CASE Complete
  <2>1. row'.status = "completed"
    BY <1>3, Standing DEF Complete, RowType
  <2> QED
    BY <1>3, <2>1, ShortCompletes DEF Open
<1>4. CASE Alive /\ row'.status = row.status /\ ShortHeard'
  BY <1>4, AliveProcesses
<1>5. CASE row'.status = "paused" /\ ShortHeard'
  BY <1>5
<1>6. CASE Crash
  BY <1>4, <1>6, ShortCrashes DEF Crash
<1>7. CASE Preflight
  <2>1. CASE run'.step = "idle"
    <3>1. row'.status = "paused"
      BY <1>7, <2>1, PreflightThere
    <3> QED
      BY <1>5, <1>7, <2>1, <3>1, ShortPreflightPauses
  <2>2. CASE run'.step # "idle"
    <3>1. row'.status = row.status /\ Alive
      BY <1>7, <2>2, PreflightThere DEF Alive, Ended
    <3> QED
      BY <1>4, <1>7, <2>2, <3>1, ShortPreflight
  <2> QED
    BY <2>1, <2>2
<1>8. CASE StageStep
  <2>1. ShortHeard'
    BY <1>8, ShortStages
  <2>2. Alive /\ row'.status \in {row.status, "paused"}
    BY <1>8, StageStatus
  <2> QED
    BY <1>4, <1>5, <2>1, <2>2
<1>9. CASE Estimator
  <2>1. Alive /\ row'.status = row.status
    BY <1>9, EstimatorThere DEF InTheChain, Alive
  <2> QED
    BY <1>4, <1>9, <2>1, ShortEstimates
<1>10. ~ThreadStep /\ ~MainStep
  BY ThreadsAreLong
<1> QED
  BY <1>1, <1>2, <1>3, <1>6, <1>7, <1>8, <1>9, <1>10 DEF Next, RunStep, Deliver, Redeliver

LEMMA LongKnown ==
  ASSUME TypeInv, PaidInv, LostInv, setting.long, Alive, run.step # "preflight"
  PROVE  run.at \in 4 .. 7 /\ run.step # "save"
<1> USE StageNumbers
<1>1. run.at >= 4
  BY DEF PaidInv, Alive
<1>2. run.at \in 0 .. 7
  BY Numbers
<1>3. run.step # "save"
  BY DEF LostInv, InTheChain, RowInChain, At
<1> QED
  BY <1>1, <1>2, <1>3

LEMMA LongGoesOn ==
  ASSUME Alive', run'.step \notin {"preflight", "front", "pools", "drain"}, RowKnown',
         Done(ctx'.segs) => Speaks' /\ ChunksSpeak'
  PROVE  LongHeard'
<1>1. Untouched'
  BY DEF Untouched, At
<1>2. Done(ctx.segs)' => Done(ctx'.segs)
  BY DEF Done
<1> QED
  BY <1>1, <1>2 DEF LongHeard

LEMMA LongBegins ==
  ASSUME TypeInv, SoundInv, setting.long, LongHeard, ~Alive,
         row.status \in {"pending", "processing"}, Begins, UNCHANGED <<setting, msg, store>>
  PROVE  LongHeard'
<1> USE StageNumbers
<1>1. /\ run'.step = "preflight" /\ run'.at = 0 /\ run'.first = FirstStage
      /\ ctx'.segs = row.segs /\ row'.segs = row.segs
  BY BeginsThere
<1>2. Alive' /\ ~At("save")'
  BY <1>1 DEF Alive, At
<1>3. Untouched'
  <2>1. setting.overlap /\ FirstStage <= 3 => NoClips
    BY DEF LongHeard, Untouched
  <2> QED
    BY <1>1, <1>2, <2>1 DEF Untouched, NoClips, At
<1>4. RowKnown'
  BY <1>1 DEF RowKnown, Same
<1>5. ASSUME Done(row.segs) PROVE Speaks' /\ ChunksSpeak'
  <2>1. \A s \in Segs : /\ store.clip[s] \in {NoTranslation, row.segs[s].trans}
                        /\ store.mixed[s] \in {NoTranslation, row.segs[s].trans}
    BY <1>5 DEF LongHeard
  <2>2. \A s \in Segs : row.segs[s].url => store.clip[s] # NoTranslation
    BY DEF SoundInv, SourcesSound, Sound, Named
  <2>3. ~At("synth")' /\ ~AfterSynthesis' /\ run'.at # 7
    BY <1>1 DEF At, AfterSynthesis
  <2>4. Speaks'
    BY <1>1, <2>1, <2>2, <2>3 DEF Speaks
  <2>5. ChunksSpeak'
    BY <1>1, <2>1, <2>3 DEF ChunksSpeak
  <2> QED
    BY <2>4, <2>5
<1>6. (Done(ctx.segs) => Speaks /\ ChunksSpeak)'
  BY <1>1, <1>5 DEF Done
<1> QED
  BY <1>2, <1>3, <1>4, <1>6 DEF LongHeard

LEMMA LongMessages ==
  ASSUME TypeInv, setting.long, LongHeard, Reconcile \/ Resume
  PROVE  LongHeard'
<1> USE StageNumbers
<1>1. /\ ~Alive /\ store' = store /\ run' = run /\ row'.segs = row.segs
      /\ row'.stage = row.stage /\ setting' = setting
      /\ \/ row.status = "processing"
         \/ row.status = "paused" /\ row'.status = "pending" /\ msg'.start = row.stage
  <2>1. CASE Reconcile
    BY <2>1 DEF Reconcile
  <2>2. CASE Resume
    <3>1. ~Alive
      BY <2>2, AliveProcesses DEF Resume
    <3> QED
      BY <2>2, <3>1, Standing DEF Resume, RowType
  <2> QED
    BY <2>1, <2>2
<1>2. ~Alive' /\ run.step = "idle" /\ row.stage \in 0 .. 7
  BY <1>1, Numbers DEF Alive
<1>3. Untouched'
  <2>1. CASE row.status = "processing"
    BY <1>1, <2>1 DEF LongHeard, Untouched
  <2>2. CASE row.status = "paused" /\ row'.status = "pending" /\ msg'.start = row.stage
    <3>1. FirstStage' = row.stage
      BY <1>2, <2>2 DEF FirstStage
    <3>2. setting.overlap /\ row.stage <= 3 => NoClips
      BY <1>1, <2>2 DEF LongHeard, Untouched
    <3> QED
      BY <1>1, <1>2, <2>2, <3>1, <3>2 DEF Untouched, NoClips, At
  <2> QED
    BY <1>1, <2>1, <2>2
<1>4. (OutputIsRow /\ (Done(row.segs) => \A s \in Segs :
            /\ store.clip[s] \in {NoTranslation, row.segs[s].trans}
            /\ store.mixed[s] \in {NoTranslation, row.segs[s].trans}))'
  BY <1>1 DEF LongHeard, OutputIsRow, Done
<1> QED
  BY <1>2, <1>3, <1>4 DEF LongHeard

LEMMA LongEnds ==
  ASSUME TypeInv, setting.long, LongHeard, Alive, Ended, ~LeavesStale, UNCHANGED <<setting, msg>>,
         ObjectsStay, \A s \in Segs : store'.clip[s] \in {store.clip[s], ctx.segs[s].trans},
         row'.segs = row.segs,
         setting.overlap => row'.status = "paused" /\ (row'.stage <= Transcribing => NoClips')
  PROVE  LongHeard'
<1> USE StageNumbers
<1>1. ~Alive' /\ run'.step = "idle"
  BY DEF Ended, Alive
<1>2. Untouched'
  BY <1>1 DEF Untouched, At
<1>3. OutputIsRow'
  BY DEF OutputIsRow, LeavesStale, ObjectsStay
<1>4. ASSUME Done(row.segs), NEW s \in Segs
      PROVE  /\ store'.clip[s] \in {NoTranslation, row.segs[s].trans}
             /\ store'.mixed[s] \in {NoTranslation, row.segs[s].trans}
  <2>1. Same(row.segs, ctx.segs)
    BY <1>4, NotBoth DEF LongHeard, RowKnown
  <2>2. Done(ctx.segs) /\ row.segs[s].trans = ctx.segs[s].trans
    BY <1>4, <2>1 DEF Same, Done
  <2>3. Speaks /\ ChunksSpeak
    BY <2>2 DEF LongHeard
  <2>4. store.clip[s] \in {NoTranslation, ctx.segs[s].trans}
    BY <2>3 DEF Speaks, LeavesStale
  <2>5. store.mixed[s] \in {NoTranslation, ctx.segs[s].trans}
    BY <2>3 DEF ChunksSpeak, LeavesStale
  <2> QED
    BY <2>2, <2>4, <2>5 DEF ObjectsStay
<1>5. (Done(row.segs) => \A s \in Segs :
            /\ store.clip[s] \in {NoTranslation, row.segs[s].trans}
            /\ store.mixed[s] \in {NoTranslation, row.segs[s].trans})'
  BY <1>4 DEF Done
<1> QED
  BY <1>1, <1>2, <1>3, <1>5 DEF LongHeard

LEMMA LongPreflight ==
  ASSUME TypeInv, setting.long, LongHeard, Preflight, run'.step # "idle"
  PROVE  LongHeard'
<1> USE StageNumbers
<1>1. /\ store' = store /\ setting' = setting /\ ctx' = ctx /\ row'.segs = row.segs
      /\ run.step = "preflight" /\ run'.first = run.first /\ run'.at = EntryStage
      /\ run'.step = IF run.first <= 3 THEN "front" ELSE "boundary"
  BY PreflightThere DEF Ended
<1>2. /\ Alive /\ Alive' /\ run.first \in 0 .. 7
      /\ run'.at = IF run.first <= 4 THEN 4 ELSE 5
  BY <1>1, Numbers DEF Alive, EntryStage
<1>3. RowKnown /\ (Done(ctx.segs) => Speaks /\ ChunksSpeak)
  BY <1>2 DEF LongHeard
<1>4. Untouched'
  <2>1. setting.overlap /\ run.first <= 3 => NoClips
    BY <1>1 DEF LongHeard, Untouched, At
  <2> QED
    BY <1>1, <1>2, <2>1 DEF Untouched, NoClips, At
<1>5. RowKnown'
  <2>1. run.first >= 5 => Same(row.segs, ctx.segs)
    BY <1>1, <1>3 DEF RowKnown, At
  <2>2. Blank(row.segs) \/ Same(row.segs, ctx.segs)
    BY <1>3 DEF RowKnown
  <2>3. run'.at >= 5 \/ At("save")' \/ (At("preflight")' /\ run'.first >= 5) => run.first >= 5
    BY <1>1, <1>2 DEF At
  <2> QED
    BY <1>1, <2>1, <2>2, <2>3 DEF RowKnown, Blank, Same
<1>6. ASSUME Done(ctx.segs) PROVE Speaks' /\ ChunksSpeak'
  <2>1. ~At("synth")' /\ ~AfterSynthesis' /\ run'.at # 7
    BY <1>1, <1>2 DEF At, AfterSynthesis
  <2> QED
    BY <1>1, <1>3, <1>6, <2>1 DEF Speaks, ChunksSpeak
<1>7. (Done(ctx.segs) => Speaks /\ ChunksSpeak)'
  BY <1>1, <1>6 DEF Done
<1> QED
  BY <1>2, <1>4, <1>5, <1>7 DEF LongHeard

\* In the front half nothing is said: it may only forget what the rows held.
LEMMA LongInFront ==
  ASSUME TypeInv, LostInv, LongHeard, run.step \in {"front", "pools", "drain"},
         run'.step \in {"pools", "drain"}, run'.at = run.at, setting' = setting,
         store'.clip = store.clip, ObjectsStay, ctx'.segs = ctx.segs,
         \A i \in ctx.inv : i \notin {Separating, Diarizing} => i \in ctx'.inv,
         row'.segs \in {row.segs, NewSegments(Textless)}
  PROVE  LongHeard'
<1> USE StageNumbers
<1>1. Alive /\ Alive' /\ run.at = 4
  BY InFrontKnown DEF Alive
<1>2. RowKnown /\ (Done(ctx.segs) => Speaks /\ ChunksSpeak)
  BY <1>1 DEF LongHeard
<1>3. Untouched'
  <2>1. setting.overlap => NoClips
    BY DEF LongHeard, Untouched
  <2> QED
    BY <1>1, <2>1 DEF Untouched, NoClips, At, ObjectsStay
<1>4. RowKnown'
  <2>1. ~At("save")' /\ ~At("preflight")'
    BY DEF At
  <2>2. Blank(row.segs) \/ Same(row.segs, ctx.segs)
    BY <1>2 DEF RowKnown
  <2>3. Blank(NewSegments(Textless))
    BY DEF Blank, NewSegments
  <2>4. CASE row'.segs = row.segs
    BY <1>1, <2>1, <2>2, <2>4 DEF RowKnown, Blank, Same
  <2>5. CASE row'.segs = NewSegments(Textless)
    BY <1>1, <2>1, <2>3, <2>5 DEF RowKnown, Blank
  <2> QED
    BY <2>4, <2>5
<1>5. ASSUME Done(ctx.segs) PROVE Speaks' /\ ChunksSpeak'
  <2>1. ~At("synth")' /\ ~AfterSynthesis' /\ run'.at # 7
    BY <1>1 DEF At, AfterSynthesis
  <2>2. /\ Synthesizing \notin ctx'.inv => Synthesizing \notin ctx.inv
        /\ Mixing \notin ctx'.inv => Mixing \notin ctx.inv
    OBVIOUS
  <2> QED
    BY <1>2, <1>5, <2>1, <2>2 DEF Speaks, ChunksSpeak, ObjectsStay
<1>6. (Done(ctx.segs) => Speaks /\ ChunksSpeak)'
  BY <1>5 DEF Done
<1> QED
  BY <1>1, <1>3, <1>4, <1>6 DEF LongHeard

LEMMA LongThreads ==
  ASSUME TypeInv, LostInv, setting.long, LongHeard, ThreadStep PROVE LongHeard'
<1>1. /\ UNCHANGED <<setting, row, ctx>> /\ run.step \in {"pools", "drain"}
      /\ run'.step = run.step /\ run'.at = run.at /\ ObjectsStay /\ store'.clip = store.clip
  BY ThreadsThere DEF InPools
<1> QED
  BY <1>1, LongInFront

LEMMA LongMainStays ==
  ASSUME TypeInv, LostInv, setting.long, LongHeard,
         \/ FrontStart
         \/ \E c \in Segs : TakeSeparated(c) \/ TakeDiarized(c) \/ TakeTranscribed(c)
         \/ \E k \in Job, c \in Segs : FrontJobRaises(k, c) \/ TranslationRaises(c)
  PROVE  LongHeard'
<1>1. CASE FrontStart
  <2>1. /\ UNCHANGED <<setting, store>> /\ run.step = "front" /\ run'.step = "pools"
        /\ run'.at = run.at /\ row'.segs = row.segs /\ ctx'.segs = ctx.segs
        /\ ctx.inv \subseteq ctx'.inv
    BY <1>1, FrontStartThere DEF Continues
  <2> QED
    BY <2>1, StoreStays, LongInFront
<1>2. CASE \E c \in Segs : TakeSeparated(c) \/ TakeDiarized(c) \/ TakeTranscribed(c)
  <2>1. PICK c \in Segs : TakeSeparated(c) \/ TakeDiarized(c) \/ TakeTranscribed(c)
    BY <1>2
  <2>2. /\ UNCHANGED <<setting, store, run>> /\ run.step = "pools" /\ ctx'.segs = ctx.segs
        /\ \A i \in ctx.inv : i \notin {Separating, Diarizing} => i \in ctx'.inv
        /\ row'.segs \in {row.segs, NewSegments(Textless)}
    BY <2>1, TakesThere
  <2> QED
    BY <2>2, StoreStays, LongInFront
<1>3. CASE \E k \in Job, c \in Segs : FrontJobRaises(k, c) \/ TranslationRaises(c)
  <2>1. PICK k \in Job, c \in Segs : FrontJobRaises(k, c) \/ TranslationRaises(c)
    BY <1>3
  <2>2. /\ UNCHANGED <<setting, row, store, ctx>> /\ run.step = "pools" /\ run'.step = "drain"
        /\ run'.at = run.at
    BY <2>1, RaisesThere DEF Continues
  <2> QED
    BY <2>2, StoreStays, LongInFront
<1> QED
  BY <1>1, <1>2, <1>3

LEMMA LongFrontEnds ==
  ASSUME TypeInv, PaidInv, LostInv, SoundInv, SoundInv', setting.long, LongHeard, FrontEnds
  PROVE  LongHeard'
<1> USE StageNumbers
<1>1. /\ store' = store /\ setting' = setting /\ run.step = "pools" /\ run'.step = "boundary"
      /\ run'.at = run.at /\ run.at = 4 /\ ctx'.segs = Merged /\ row'.segs = Merged
      /\ Assembled(Merged) /\ ctx'.inv = ctx.inv \ {3}
      /\ \A s \in Segs : pool.trans[s] # NoTranslation <=> setting.overlap
  BY FrontEndsThere DEF Continues, SoundInv
<1>2. Alive /\ Alive'
  BY <1>1 DEF Alive
<1>3. RowKnown'
  BY <1>1 DEF RowKnown, Same
<1>4. ~At("synth")' /\ ~AfterSynthesis' /\ run'.at # 7
  BY <1>1 DEF At, AfterSynthesis
<1>5. CASE setting.overlap
  <2>1. NoClips
    BY <1>1, <1>5 DEF LongHeard, Untouched
  <2>2. \A s \in Segs : ~ctx'.segs[s].url
    BY <1>1, <2>1 DEF SoundInv, SourcesSound, Sound, Named, NoClips
  <2>3. Speaks' /\ ChunksSpeak'
    BY <1>1, <1>4, <2>1, <2>2 DEF Speaks, ChunksSpeak, NoClips
  <2> QED
    BY <1>1, <1>2, <1>3, <2>3, LongGoesOn
<1>6. CASE ~setting.overlap
  <2>1. \A s \in Segs : ctx'.segs[s].trans = ctx.segs[s].trans /\ ctx'.segs[s].url = ctx.segs[s].url
    BY <1>1, <1>6 DEF Assembled
  <2>2. ASSUME Done(ctx'.segs) PROVE Speaks' /\ ChunksSpeak'
    <3>1. Done(ctx.segs)
      BY <2>1, <2>2 DEF Done
    <3>2. Speaks /\ ChunksSpeak
      BY <1>2, <3>1 DEF LongHeard
    <3> QED
      BY <1>1, <1>4, <2>1, <3>2 DEF Speaks, ChunksSpeak
  <2> QED
    BY <1>1, <1>2, <1>3, <2>2, LongGoesOn
<1> QED
  BY <1>5, <1>6

LEMMA LongBeginsStage ==
  ASSUME TypeInv, SoundInv, setting.long, LongHeard, BeginStage
  PROVE  LongHeard'
<1> USE StageNumbers
<1>1. /\ store' = store /\ ctx' = ctx /\ row'.segs = row.segs /\ run.step = "boundary"
      /\ run'.step = "process" /\ run'.at = run.at /\ run'.first = run.first
      /\ run'.mixed = run.mixed
  BY BeginStageThere DEF Continues
<1>2. Alive /\ Alive' /\ run.mixed \in Int
  BY <1>1, Standing DEF Alive, RunType
<1>3. RowKnown'
  <2>1. RowKnown /\ ~At("save")' /\ ~At("preflight")'
    BY <1>1, <1>2 DEF LongHeard, At
  <2> QED
    BY <1>1, <2>1 DEF RowKnown, Blank, Same
<1>4. ~(run.mixed > 0)
  BY <1>1 DEF SoundInv, ContextSpoken, At
<1>5. ASSUME Done(ctx'.segs) PROVE Speaks' /\ ChunksSpeak'
  <2>1. Speaks /\ ChunksSpeak
    BY <1>1, <1>2, <1>5 DEF LongHeard
  <2>2. ~At("synth")' /\ (AfterSynthesis' <=> AfterSynthesis)
    BY <1>1 DEF At, AfterSynthesis
  <2>3. Speaks'
    BY <1>1, <2>1, <2>2 DEF Speaks
  <2>4. \A c \in Segs : ~(c <= run'.mixed)
    BY <1>1, <1>2, <1>4 DEF Segs
  <2>5. ChunksSpeak'
    BY <1>1, <2>1, <2>4 DEF ChunksSpeak
  <2> QED
    BY <2>3, <2>5
<1> QED
  BY <1>1, <1>2, <1>3, <1>5, LongGoesOn

LEMMA LongTranslates ==
  ASSUME TypeInv, PaidInv, SoundInv, setting.long, LongHeard, Translate, run'.step # "idle"
  PROVE  LongHeard'
<1> USE StageNumbers
<1>1. /\ store' = store /\ row' = row /\ run.step = "process" /\ run.at = 4
      /\ run'.step = "persist" /\ run'.at = 4
      /\ \/ ctx' = ctx
         \/ /\ Translatable(ctx.segs) # {} /\ NewlyTranslated(ctx'.segs)
            /\ ctx'.inv = ctx.inv \cup {5, 6, 7}
  BY TranslateThere, PausesThere, FailsThere DEF Continues, Ended
<1>2. Alive /\ Alive' /\ ~At("save")' /\ ~At("preflight")' /\ ~At("synth")' /\ ~AfterSynthesis'
  BY <1>1 DEF Alive, At, AfterSynthesis
<1>3. RowKnown /\ (Done(ctx.segs) => Speaks /\ ChunksSpeak)
  BY <1>2 DEF LongHeard
<1>4. CASE ctx' = ctx
  <2>1. RowKnown'
    BY <1>1, <1>2, <1>3, <1>4 DEF RowKnown, Blank, Same
  <2>2. Done(ctx'.segs) => Speaks' /\ ChunksSpeak'
    BY <1>1, <1>2, <1>3, <1>4 DEF Speaks, ChunksSpeak
  <2> QED
    BY <1>1, <1>2, <2>1, <2>2, LongGoesOn
<1>5. CASE Translatable(ctx.segs) # {} /\ NewlyTranslated(ctx'.segs)
           /\ ctx'.inv = ctx.inv \cup {5, 6, 7}
  <2>1. Blank(ctx.segs) /\ \A s \in Segs : ~ctx'.segs[s].url
    BY <1>2, <1>5, TranslatesAll DEF SoundInv
  <2>2. Blank(row.segs)
    <3>1. CASE Same(row.segs, ctx.segs)
      BY <2>1, <3>1, SameIs
    <3> QED
      BY <1>3, <3>1 DEF RowKnown
  <2>3. RowKnown'
    BY <1>1, <1>2, <2>2 DEF RowKnown, Blank
  <2>4. Speaks' /\ ChunksSpeak'
    BY <1>1, <1>2, <1>5, <2>1 DEF Speaks, ChunksSpeak
  <2> QED
    BY <1>1, <1>2, <2>3, <2>4, LongGoesOn
<1> QED
  BY <1>1, <1>4, <1>5

\* Synthesis and alignment: chunks are not mixed yet.
LEMMA LongSpeaksOn ==
  ASSUME TypeInv, LongHeard, Alive, Alive', run.at \in {5, 6}, run'.at = run.at,
         run'.step \in {"process", "synth", "persist"}, Same(ctx'.segs, ctx.segs),
         row'.segs = row.segs \/ Same(row'.segs, ctx.segs), ctx'.inv = ctx.inv,
         store'.mixed = store.mixed, Done(ctx.segs) => (Speaks => Speaks')
  PROVE  LongHeard'
<1> USE StageNumbers
<1>1. RowKnown /\ (Done(ctx.segs) => Speaks /\ ChunksSpeak)
  BY DEF LongHeard
<1>2. Same(row.segs, ctx.segs)
  BY <1>1 DEF RowKnown
<1>3. Same(row'.segs, ctx'.segs)
  BY <1>2, SameIs
<1>4. RowKnown'
  BY <1>3 DEF RowKnown, Same
<1>5. ASSUME Done(ctx'.segs) PROVE Speaks' /\ ChunksSpeak'
  <2>1. Done(ctx.segs)
    BY <1>5, SameIs
  <2>2. Speaks' /\ ChunksSpeak
    BY <1>1, <2>1
  <2>3. \A s \in Segs : ctx'.segs[s].trans = ctx.segs[s].trans
    BY DEF Same
  <2>4. run'.at # 7
    OBVIOUS
  <2>5. ChunksSpeak'
    BY <2>2, <2>3, <2>4 DEF ChunksSpeak
  <2> QED
    BY <2>2, <2>5
<1> QED
  BY <1>4, <1>5, LongGoesOn

LEMMA RenamedIsSame ==
  ASSUME NEW others, NEW who, Renamed(others, who) PROVE Same(others, ctx.segs)
<1> QED
  BY DEF Renamed, Same

LEMMA LongSynthesis ==
  ASSUME TypeInv, LostInv, SoundInv, setting.long, LongHeard,
         \/ Synthesize \/ SynthesisEnds \/ Align
         \/ \E s \in Segs : SpeakSegment(s) \/ CollectClip(s),
         row'.status # "failed"
  PROVE  LongHeard'
<1> USE StageNumbers
<1>1. CASE Synthesize
  <2>1. /\ store' = store /\ run.step = "process" /\ run.at = 5 /\ run'.at = 5
        /\ run'.step \in {"persist", "synth"} /\ ctx'.inv = ctx.inv
        /\ \/ ~HasSegments(ctx.segs) /\ UNCHANGED <<row, ctx>>
           \/ /\ run'.step = "synth" /\ Renamed(ctx'.segs, Reusable)
              /\ row'.segs \in {row.segs, ctx'.segs}
    BY <1>1, SynthesizeThere, FailsThere DEF Continues
  <2>2. Alive /\ Alive'
    BY <2>1 DEF Alive
  <2>3. CASE ~HasSegments(ctx.segs) /\ UNCHANGED <<row, ctx>>
    <3>1. ~Done(ctx.segs)
      BY <2>3, SpokenIsTranslated
    <3> QED
      BY <2>1, <2>2, <2>3, <3>1, SameSegs, LongSpeaksOn
  <2>4. CASE /\ run'.step = "synth" /\ Renamed(ctx'.segs, Reusable)
             /\ row'.segs \in {row.segs, ctx'.segs}
    <3>1. Same(ctx'.segs, ctx.segs)
      BY <2>4, RenamedIsSame
    <3>2. Speaks => Speaks'
      BY <1>1, <2>4, SpeaksSynthesize
    <3> QED
      BY <2>1, <2>2, <2>4, <3>1, <3>2, LongSpeaksOn
  <2> QED
    BY <2>1, <2>3, <2>4
<1>2. CASE SynthesisEnds
  <2>1. /\ store' = store /\ row' = row /\ ctx' = ctx /\ run.step = "synth" /\ run.at = 5
        /\ run'.at = 5 /\ run'.step = "persist"
    BY <1>2, SynthesisEndsThere, AtSynth DEF Continues
  <2>2. Alive /\ Alive'
    BY <2>1 DEF Alive
  <2> QED
    BY <1>2, <2>1, <2>2, SameSegs, SpeaksEnds, LongSpeaksOn
<1>3. CASE Align
  <2>1. /\ store' = store /\ row' = row /\ ctx'.segs = ctx.segs /\ ctx'.inv = ctx.inv
        /\ run.step = "process" /\ run.at = 6 /\ run'.at = 6 /\ run'.step = "persist"
    BY <1>3, AlignThere, FailsThere DEF Continues
  <2>2. Alive /\ Alive'
    BY <2>1 DEF Alive
  <2> QED
    BY <1>3, <2>1, <2>2, SameSegs, SpeaksAlign, LongSpeaksOn
<1>4. ASSUME NEW s \in Segs, SpeakSegment(s) PROVE LongHeard'
  <2>1. /\ row' = row /\ run' = run /\ Renamed(ctx'.segs, {s}) /\ ctx'.inv = ctx.inv
        /\ run.step = "synth" /\ run.at = 5 /\ store'.mixed = store.mixed
    BY <1>4, SpeakThere, AtSynth DEF ObjectsStay
  <2>2. Alive /\ Alive'
    BY <2>1 DEF Alive
  <2>3. Same(ctx'.segs, ctx.segs)
    BY <2>1, RenamedIsSame
  <2>4. Speaks => Speaks'
    BY <1>4, SpeaksSpeak
  <2> QED
    BY <2>1, <2>2, <2>3, <2>4, LongSpeaksOn
<1>5. ASSUME NEW s \in Segs, CollectClip(s) PROVE LongHeard'
  <2>1. /\ store' = store /\ run' = run /\ ctx'.segs = ctx.segs /\ ctx'.inv = ctx.inv
        /\ run.step = "synth" /\ run.at = 5 /\ row'.segs \in {row.segs, ctx.segs}
    BY <1>5, CollectThere, AtSynth
  <2>2. Alive /\ Alive'
    BY <2>1 DEF Alive
  <2>3. Speaks => Speaks'
    BY <1>5, SpeaksCollect
  <2> QED
    BY <2>1, <2>2, <2>3, SameSegs, LongSpeaksOn
<1> QED
  BY <1>1, <1>2, <1>3, <1>4, <1>5

LEMMA MixingIsSpoken ==
  ASSUME SoundInv, run.at = Mixing, ctx.clips # {}
  PROVE  ctx.clips = Segs /\ Done(ctx.segs) /\ \A s \in Segs : store.clip[s] # NoTranslation
<1> USE StageNumbers
<1> QED
  BY DEF SoundInv, ContextSpoken, AfterSynthesis, Spoken

LEMMA LongMixes ==
  ASSUME TypeInv, SoundInv, setting.long, LongHeard, MixChunk, row'.status # "failed"
  PROVE  LongHeard'
<1> USE StageNumbers
<1>1. /\ row' = row /\ ctx' = ctx /\ run.step = "process" /\ run.at = 7 /\ ctx.clips # {}
      /\ run'.step = "process" /\ run'.at = 7 /\ run'.first = run.first
      /\ run'.mixed = run.mixed + 1 /\ run.mixed \in Nat /\ store'.clip = store.clip
      /\ \A s \in Segs :
            store'.mixed[s] =
               IF s = run.mixed + 1 /\ (7 \in ctx.inv \/ store.mixed[s] = NoTranslation)
               THEN IF s \in ctx.clips THEN store.clip[s] ELSE NoTranslation
               ELSE store.mixed[s]
  BY MixChunkThere, FailsThere
<1>2. Alive /\ Alive'
  BY <1>1 DEF Alive
<1>3. ctx.clips = Segs /\ Done(ctx.segs)
  BY <1>1, MixingIsSpoken
<1>4. RowKnown /\ Speaks /\ ChunksSpeak
  BY <1>2, <1>3 DEF LongHeard
<1>5. \A s \in Segs : store.clip[s] = ctx.segs[s].trans
  BY <1>1, <1>3, <1>4 DEF Speaks, AfterSynthesis
<1>6. RowKnown'
  BY <1>1, <1>4 DEF RowKnown, Same
<1>7. Speaks'
  BY <1>1, <1>3, <1>4, <1>5 DEF Speaks, At
<1>8. ChunksSpeak'
  <2>1. 7 \notin ctx.inv =>
            \A s \in Segs : store.mixed[s] \in {NoTranslation, ctx.segs[s].trans}
    BY <1>4 DEF ChunksSpeak
  <2>2. \A c \in Segs : c <= run.mixed => store.mixed[c] = ctx.segs[c].trans
    BY <1>1, <1>4 DEF ChunksSpeak, At
  <2>3. ASSUME NEW s \in Segs, 7 \notin ctx.inv
        PROVE  store'.mixed[s] \in {NoTranslation, ctx.segs[s].trans}
    BY <1>1, <1>3, <1>5, <2>1, <2>3
  <2>4. ASSUME NEW s \in Segs, s <= run.mixed + 1 PROVE store'.mixed[s] = ctx.segs[s].trans
    <3>1. CASE s = run.mixed + 1
      BY <1>1, <1>3, <1>5, <2>1, <3>1
    <3>2. CASE s # run.mixed + 1
      <4>1. s <= run.mixed
        BY <1>1, <2>4, <3>2 DEF Segs
      <4> QED
        BY <1>1, <2>2, <3>2, <4>1
    <3> QED
      BY <3>1, <3>2
  <2> QED
    BY <1>1, <2>3, <2>4 DEF ChunksSpeak
<1> QED
  BY <1>1, <1>2, <1>6, <1>7, <1>8, LongGoesOn

LEMMA LongJoins ==
  ASSUME TypeInv, setting.long, LongHeard, JoinChunks
  PROVE  LongHeard'
<1> USE StageNumbers
<1>1. /\ row' = row /\ run.step = "process" /\ run.at = 7 /\ run.mixed = NSegs
      /\ run'.step = "persist" /\ run'.at = 7 /\ run'.first = run.first
      /\ store'.clip = store.clip /\ store'.mixed = store.mixed /\ store'.out = store.mixed
      /\ ctx'.segs = ctx.segs /\ ctx'.clips = ctx.clips /\ ctx'.inv = ctx.inv
  BY JoinThere DEF Continues
<1>2. Alive /\ Alive'
  BY <1>1 DEF Alive
<1>3. RowKnown /\ (Done(ctx.segs) => Speaks /\ ChunksSpeak)
  BY <1>2 DEF LongHeard
<1>4. RowKnown'
  BY <1>1, <1>3 DEF RowKnown, Same
<1>5. ASSUME Done(ctx'.segs) PROVE Speaks' /\ ChunksSpeak'
  <2>1. \A c \in Segs : c <= run.mixed
    BY <1>1, PipelineAssumption DEF Segs
  <2>2. \A s \in Segs : store.mixed[s] = ctx.segs[s].trans
    BY <1>1, <1>3, <1>5, <2>1 DEF ChunksSpeak, At
  <2>3. Speaks'
    BY <1>1, <1>3, <1>5, <2>2 DEF Speaks, AfterSynthesis
  <2>4. ChunksSpeak'
    BY <1>1, <2>2 DEF ChunksSpeak, At
  <2> QED
    BY <2>3, <2>4
<1> QED
  BY <1>1, <1>2, <1>4, <1>5, LongGoesOn

LEMMA LongPersists ==
  ASSUME TypeInv, PaidInv, LostInv, SoundInv, setting.long, LongHeard, PersistStage
  PROVE  LongHeard'
<1> USE StageNumbers
<1>1. /\ store' = store /\ At("persist") /\ run.step = "persist" /\ run'.first = run.first
      /\ row'.segs = IF run.at >= 2 /\ HasSegments(ctx.segs) THEN ctx.segs ELSE row.segs
      /\ ctx'.segs = ctx.segs /\ ctx'.clips = ctx.clips /\ ctx'.inv = ctx.inv \ {run.at}
      /\ \/ run.at = 7 /\ run'.step = "done" /\ run'.at = run.at
         \/ run.at # 7 /\ run'.step = "boundary" /\ run'.at = run.at + 1
  BY PersistThere DEF Continues
<1>2. Alive /\ Alive'
  BY <1>1 DEF Alive
<1>3. run.at \in 4 .. 7
  BY <1>1, <1>2, LongKnown
<1>4. RowKnown /\ (Done(ctx.segs) => Speaks /\ ChunksSpeak)
  BY <1>2 DEF LongHeard
<1>5. Same(row'.segs, ctx'.segs)
  <2>1. CASE HasSegments(ctx.segs)
    BY <1>1, <1>3, <2>1, SameSegs
  <2>2. CASE ~HasSegments(ctx.segs)
    <3>1. Blank(ctx.segs)
      BY <2>2 DEF HasSegments, NoSegments, Blank
    <3>2. Same(row.segs, ctx.segs)
      BY <1>4, <3>1 DEF RowKnown, Blank, Same
    <3> QED
      BY <1>1, <2>2, <3>2
  <2> QED
    BY <2>1, <2>2
<1>6. RowKnown'
  BY <1>5 DEF RowKnown, Same
<1>7. ASSUME Done(ctx'.segs) PROVE Speaks' /\ ChunksSpeak'
  <2>1. Speaks /\ ChunksSpeak
    BY <1>1, <1>4, <1>7
  <2>2. run.at = 5 => ctx.clips # {}
    BY <1>1, <1>7 DEF SoundInv, ContextSpoken, AfterSynthesis
  <2>3. Speaks'
    BY <2>1, <2>2, SpeaksPersist
  <2>4. run'.step # "process" /\ run'.step # "persist" /\ (run'.at = 7 /\ run'.step = "done" => run.at = 7)
    BY <1>1
  <2>5. run.at = 7 => \A s \in Segs : store.mixed[s] = ctx.segs[s].trans
    BY <1>1, <2>1 DEF ChunksSpeak
  <2>6. run.at # 7 /\ 7 \notin ctx'.inv => 7 \notin ctx.inv
    BY <1>1
  <2>7. 7 \notin ctx'.inv =>
            \A s \in Segs : store.mixed[s] \in {NoTranslation, ctx.segs[s].trans}
    BY <2>1, <2>5, <2>6 DEF ChunksSpeak
  <2>8. ChunksSpeak'
    BY <1>1, <2>4, <2>5, <2>7 DEF ChunksSpeak, At
  <2> QED
    BY <2>3, <2>8
<1>8. run'.step \notin {"preflight", "front", "pools", "drain"}
  BY <1>1
<1> QED
  BY <1>2, <1>6, <1>7, <1>8, LongGoesOn

LEMMA LongEstimates ==
  ASSUME TypeInv, LostInv, setting.long, LongHeard, Estimator
  PROVE  LongHeard'
<1>1. /\ UNCHANGED <<store, ctx>> /\ row'.segs = row.segs
      /\ run'.step = run.step /\ run'.at = run.at /\ run'.first = run.first
      /\ run'.mixed = run.mixed /\ InTheChain
  BY EstimatorThere
<1>2. Alive /\ Alive' /\ run'.step \notin {"preflight", "front", "pools", "drain"}
  BY <1>1 DEF Alive, InTheChain
<1>3. RowKnown /\ (Done(ctx.segs) => Speaks /\ ChunksSpeak)
  BY <1>2 DEF LongHeard
<1>4. RowKnown'
  BY <1>1, <1>3 DEF RowKnown, Blank, Same, At
<1>5. Done(ctx'.segs) => Speaks' /\ ChunksSpeak'
  BY <1>1, <1>3 DEF Speaks, ChunksSpeak, At, AfterSynthesis
<1> QED
  BY <1>2, <1>4, <1>5, LongGoesOn

LEMMA LongCompletes ==
  ASSUME TypeInv, SoundInv, LongHeard, Complete
  PROVE  HeardIsShown'
<1>1. run.step = "done" /\ Alive
  BY DEF Complete, Alive
<1> QED
  BY <1>1, DoneIsTranslated, CompletesHears DEF LongHeard

LEMMA LongPauses ==
  ASSUME TypeInv, setting.long, LongHeard, Alive, NEW stage, Pauses(stage), ~stale',
         UNCHANGED <<setting, msg>>, ObjectsStay,
         \A s \in Segs : store'.clip[s] \in {store.clip[s], ctx.segs[s].trans},
         setting.overlap /\ stage <= Transcribing => NoClips'
  PROVE  LongHeard'
<1>1. /\ Ended /\ ~LeavesStale /\ row'.segs = row.segs /\ row'.stage = stage
      /\ row'.status = "paused"
  BY PausesThere, EndsWhole
<1> QED
  BY <1>1, LongEnds

LEMMA LongPreflightPauses ==
  ASSUME TypeInv, setting.long, LongHeard, Preflight, run'.step = "idle", ~stale'
  PROVE  LongHeard'
<1> USE StageNumbers
<1>1. /\ UNCHANGED <<setting, msg, store>> /\ Abandons /\ row'.segs = row.segs
      /\ row'.stage = PreflightStage /\ run.step = "preflight" /\ row'.status = "paused"
  BY PreflightThere
<1>2. Alive /\ run.first \in 0 .. 7 /\ Ended /\ ~LeavesStale
  BY <1>1, EndsWhole, Numbers DEF Alive
<1>3. row'.stage <= 3 => run.first <= 3
  BY <1>1, <1>2 DEF PreflightStage
<1>4. setting.overlap /\ row'.stage <= 3 => NoClips'
  <2>1. setting.overlap /\ run.first <= 3 => NoClips
    BY <1>1 DEF LongHeard, Untouched, At
  <2> QED
    BY <1>1, <1>3, <2>1 DEF NoClips
<1>5. ObjectsStay /\ store'.clip = store.clip
  BY <1>1, StoreStays
<1> QED
  BY <1>1, <1>2, <1>4, <1>5, LongEnds

LEMMA LongFrontStops ==
  ASSUME TypeInv, setting.long, LongHeard, FrontStops, row'.status # "failed", ~stale'
  PROVE  LongHeard'
<1>1. /\ UNCHANGED <<setting, msg, store>> /\ run.step = "drain" /\ Pauses(pool.stage)
  BY FrontStopsThere, FailsThere
<1>2. Alive
  BY <1>1 DEF Alive
<1>3. setting.overlap => NoClips'
  BY <1>1 DEF LongHeard, Untouched, NoClips
<1>4. ObjectsStay /\ store'.clip = store.clip
  BY <1>1, StoreStays
<1> QED
  BY <1>1, <1>2, <1>3, <1>4, LongPauses

LEMMA LongTranslationPauses ==
  ASSUME TypeInv, setting.long, LongHeard, Translate, run'.step = "idle",
         row'.status # "failed", ~stale'
  PROVE  LongHeard'
<1> USE StageNumbers
<1>1. /\ UNCHANGED <<setting, msg, store>> /\ run.step = "process" /\ Pauses(4)
  BY TranslateThere, FailsThere DEF Continues
<1>2. Alive
  BY <1>1 DEF Alive
<1>3. ObjectsStay /\ store'.clip = store.clip
  BY <1>1, StoreStays
<1>4. ~(4 <= 3)
  OBVIOUS
<1> QED
  BY <1>1, <1>2, <1>3, <1>4, LongPauses

LEMMA LongSynthesisPauses ==
  ASSUME TypeInv, setting.long, LongHeard, SynthesisStops, row'.status # "failed", ~stale'
  PROVE  LongHeard'
<1> USE StageNumbers
<1>1. /\ UNCHANGED <<setting, msg>> /\ run.step = "synth" /\ Pauses(5) /\ ObjectsStay
      /\ \A s \in Segs : store'.clip[s] \in {store.clip[s], ctx.segs[s].trans}
  BY StopsThere, FailsThere
<1>2. Alive
  BY <1>1 DEF Alive
<1>4. ~(5 <= 3)
  OBVIOUS
<1> QED
  BY <1>1, <1>2, <1>4, LongPauses

LEMMA LongCrashes ==
  ASSUME TypeInv, setting.long, LongHeard, Crash, ~stale', ~setting.overlap
  PROVE  LongHeard'
<1>1. /\ UNCHANGED <<setting, msg, store, row>> /\ Alive /\ Ended /\ ~LeavesStale
  BY EndsWhole DEF Crash
<1>2. ObjectsStay /\ store'.clip = store.clip
  BY <1>1, StoreStays
<1> QED
  BY <1>1, <1>2, LongEnds

LEMMA LongStages ==
  ASSUME TypeInv, PaidInv, LostInv, SoundInv, setting.long, LongHeard, StageStep,
         row'.status # "failed", ~stale'
  PROVE  LongHeard'
<1> USE StageNumbers
<1>1. CASE BeginStage
  BY <1>1, LongBeginsStage
<1>2. CASE Separate \/ Diarize \/ Transcribe
  <2>1. run.step = "process" /\ run.at <= 3 /\ Alive
    BY <1>2, EarlyStagesThere DEF Alive
  <2> QED
    BY <2>1, LongKnown
<1>3. CASE Translate
  BY <1>3, LongTranslates, LongTranslationPauses
<1>4. CASE Synthesize \/ SynthesisEnds \/ Align \/ \E s \in Segs : SpeakSegment(s) \/ CollectClip(s)
  BY <1>4, LongSynthesis
<1>5. CASE SynthesisStops
  BY <1>5, LongSynthesisPauses
<1>6. CASE MixShort
  BY <1>6, MixShortThere
<1>7. CASE MixChunk
  BY <1>7, LongMixes
<1>8. CASE JoinChunks
  BY <1>8, LongJoins
<1>9. CASE PersistStage
  BY <1>9, LongPersists
<1>10. CASE SaveCheckpoint
  BY <1>10, SaveThere
<1> QED
  BY <1>1, <1>2, <1>3, <1>4, <1>5, <1>6, <1>7, <1>8, <1>9, <1>10 DEF StageStep

LEMMA FrontStatus ==
  ASSUME TypeInv, PaidInv, LostInv, SoundInv, ThreadStep \/ MainStep, row'.status # "failed"
  PROVE  Alive /\ row'.status \in {row.status, "paused"}
<1>1. CASE ThreadStep
  BY <1>1, ThreadsThere DEF InPools, Alive
<1>2. CASE FrontStart \/ FrontEnds
  BY <1>2, FrontStartThere, FrontEndsThere DEF Alive, SoundInv
<1>3. CASE \E c \in Segs : TakeSeparated(c) \/ TakeDiarized(c) \/ TakeTranscribed(c)
  BY <1>3, TakesThere DEF Alive
<1>4. CASE \E k \in Job, c \in Segs : FrontJobRaises(k, c) \/ TranslationRaises(c)
  BY <1>4, RaisesThere DEF Alive
<1>5. CASE FrontStops
  BY <1>5, FrontStopsThere, PausesThere, FailsThere DEF Alive
<1>6. CASE \E c \in Segs : TranslationRaises(c)
  BY <1>4, <1>6, JobNames
<1> QED
  BY <1>1, <1>2, <1>3, <1>4, <1>5, <1>6 DEF MainStep

\* Every step on a long recording, unless it dies with overlapped translation on.
LEMMA LongSteps ==
  ASSUME TypeInv, PaidInv, LostInv, SoundInv, SoundInv', setting.long, LongHeard, Next,
         row'.status # "failed", ~stale', Crash => ~setting.overlap
  PROVE  (row'.status = "completed" => HeardIsShown') /\ (Open' => LongHeard')
<1>1. CASE /\ ~Alive /\ row.status \in {"pending", "processing"} /\ (FindsOutput \/ Begins)
           /\ UNCHANGED <<setting, msg, store>>
  <2>1. CASE FindsOutput
    <3>1. OutputIsRow
      BY <1>1 DEF LongHeard
    <3> QED
      BY <1>1, <2>1, <3>1, FindsHears DEF Open
  <2>2. CASE Begins
    <3>1. LongHeard'
      BY <1>1, <2>2, LongBegins
    <3>2. row'.status = "processing"
      BY <2>2, BeginsThere
    <3> QED
      BY <3>1, <3>2
  <2> QED
    BY <1>1, <2>1, <2>2
<1>2. CASE Reconcile \/ Resume
  <2>1. row'.status \in {"processing", "pending"}
    BY <1>2, Standing DEF Reconcile, Resume, RowType
  <2> QED
    BY <1>2, <2>1, LongMessages
<1>3. CASE Complete
  <2>1. row'.status = "completed"
    BY <1>3, Standing DEF Complete, RowType
  <2> QED
    BY <1>3, <2>1, LongCompletes DEF Open
<1>4. CASE Alive /\ row'.status \in {row.status, "paused"} /\ LongHeard'
  BY <1>4, AliveProcesses
<1>5. CASE Crash
  BY <1>4, <1>5, LongCrashes DEF Crash
<1>6. CASE Preflight
  <2>1. LongHeard'
    BY <1>6, LongPreflight, LongPreflightPauses
  <2>2. Alive /\ row'.status \in {row.status, "paused"}
    BY <1>6, PreflightThere DEF Alive
  <2> QED
    BY <1>4, <2>1, <2>2
<1>7. CASE StageStep
  <2>1. LongHeard'
    BY <1>7, LongStages
  <2> QED
    BY <1>4, <1>7, <2>1, StageStatus
<1>8. CASE ThreadStep \/ MainStep
  <2>1. LongHeard'
    <3>1. CASE \E c \in Segs : TranslationRaises(c)
      BY <3>1, LongMainStays, JobNames
    <3> QED
      BY <1>8, <3>1, LongThreads, LongMainStays, LongFrontStops, LongFrontEnds DEF MainStep
  <2> QED
    BY <1>4, <1>8, <2>1, FrontStatus
<1>9. CASE Estimator
  <2>1. Alive /\ row'.status = row.status
    BY <1>9, EstimatorThere DEF InTheChain, Alive
  <2> QED
    BY <1>4, <1>9, <2>1, LongEstimates
<1> QED
  BY <1>1, <1>2, <1>3, <1>5, <1>6, <1>7, <1>8, <1>9 DEF Next, RunStep, Deliver, Redeliver

LEMMA HeardSame == ASSUME HeardInv, UNCHANGED vars PROVE HeardInv'
<1>1. /\ setting' = setting /\ row' = row /\ msg' = msg /\ store' = store /\ run' = run
      /\ ctx' = ctx /\ pool' = pool /\ stale' = stale /\ left' = left
  BY DEF vars
<1>2. Begun' = Begun /\ Position' = Position /\ (Alive' <=> Alive) /\ FirstStage' = FirstStage
  BY <1>1 DEF Begun, Position, Alive, FirstStage, ResumeStage, At
<1>3. \A k : (Live(k)' <=> Live(k)) /\ (Last(k)' <=> Last(k))
  BY <1>1, <1>2 DEF Live, Last, Early
<1>4. /\ RowLives' <=> RowLives
      /\ ContextLives' <=> ContextLives
  BY <1>1, <1>2 DEF RowLives, ContextLives, Early
<1>5. SourcesFresh' <=> SourcesFresh
  BY <1>1, <1>2, <1>3, <1>4 DEF SourcesFresh, Fresh, Agrees, Done, Same
<1>6. ContextFresh' <=> ContextFresh
  BY <1>1, <1>2, <1>3, <1>4 DEF ContextFresh, Fresh, Agrees, Done, Same, At, Blank
<1>7. /\ OutputIsRow' <=> OutputIsRow
      /\ RowIsFirst' <=> RowIsFirst
  BY <1>1, <1>3 DEF OutputIsRow, RowIsFirst, Done, Same
<1>8. /\ Speaks' <=> Speaks
      /\ RowKnown' <=> RowKnown
      /\ ChunksSpeak' <=> ChunksSpeak
  BY <1>1 DEF Speaks, RowKnown, ChunksSpeak, AfterSynthesis, At, Blank, Same
<1>9. AfterTranslation' <=> AfterTranslation
  BY <1>1, <1>3, <1>8 DEF AfterTranslation, Agrees, Done, Same
<1>10. ShortHeard' <=> ShortHeard
  BY <1>2, <1>5, <1>6, <1>7, <1>9 DEF ShortHeard
<1>11. Untouched' <=> Untouched
  BY <1>1, <1>2 DEF Untouched, NoClips, At
<1>12. LongHeard' <=> LongHeard
  BY <1>1, <1>2, <1>7, <1>8, <1>11 DEF LongHeard, Done
<1>13. /\ Exempt' <=> Exempt
       /\ Open' <=> Open
       /\ HeardIsShown' <=> HeardIsShown
  BY <1>1 DEF Exempt, Crashed, Open, HeardIsShown
<1> QED
  BY <1>1, <1>10, <1>12, <1>13 DEF HeardInv

-----------------------------------------------------------------------------
(* The invariant, and what it says of a completed task.                    *)

LEMMA HeardInit == Init => HeardInv
<1> SUFFICES ASSUME Init PROVE HeardInv
  OBVIOUS
<1> USE StageNumbers
<1>1. /\ ~Alive /\ row.status = "pending" /\ row.segs = NoSegments /\ store.saved = {}
      /\ ~store.made
      /\ \A s \in Segs : store.clip[s] = NoTranslation /\ store.mixed[s] = NoTranslation
  BY DEF Init, Alive, NoRun
<1>2. Blank(row.segs) /\ ~Done(row.segs)
  BY <1>1, NotBoth DEF Blank, NoSegments
<1>3. \A k \in Chain : ~Live(k) /\ ~Last(k)
  BY <1>1 DEF Live, Last
<1>4. OutputIsRow
  BY <1>1 DEF OutputIsRow
<1>5. SourcesFresh
  BY <1>2, <1>3 DEF SourcesFresh, Fresh, Chain
<1>6. RowIsFirst
  BY <1>3 DEF RowIsFirst, Chain
<1>7. ShortHeard
  BY <1>1, <1>4, <1>5, <1>6 DEF ShortHeard
<1>8. Untouched
  BY <1>1 DEF Untouched, NoClips, Alive, At
<1>9. LongHeard
  BY <1>1, <1>2, <1>4, <1>8 DEF LongHeard
<1> QED
  BY <1>1, <1>7, <1>9 DEF HeardInv

\* Nothing happens to a task that is completed.
LEMMA CompletedStays ==
  ASSUME TypeInv, row.status = "completed"
  PROVE  ~Next
<1>1. ~Alive
  BY DEF TypeInv, RunsCounted
<1>2. run.step = "idle"
  BY <1>1 DEF Alive
<1>3. ~StageStep
  BY <1>2 DEF StageStep, BeginStage, Separate, Diarize, Transcribe, Translate, Synthesize,
              SpeakSegment, CollectClip, SynthesisStops, SynthesisEnds, Align, MixShort, MixChunk,
              JoinChunks, PersistStage, SaveCheckpoint, Processing, At
<1>4. ~ThreadStep
  BY <1>2 DEF ThreadStep, StartJob, JobStops, SeparateChunk, DiarizeChunk, TranscribeChunk,
              TranslateChunk, InPools
<1>5. ~MainStep
  BY <1>2 DEF MainStep, TakeSeparated, TakeDiarized, TakeTranscribed, FrontJobRaises,
              TranslationRaises, FrontStart, FrontStops, FrontEnds, At
<1>6. ~Deliver /\ ~Redeliver /\ ~Reconcile /\ ~Resume /\ ~Crash /\ ~Complete /\ ~Preflight
      /\ ~Estimator
  BY <1>1, <1>2 DEF Deliver, Redeliver, Reconcile, Resume, Crash, Complete, Preflight, Estimator,
                    EstimatorReads, EstimatorWrites
<1> QED
  BY <1>3, <1>4, <1>5, <1>6 DEF Next, RunStep

LEMMA NextHistory ==
  ASSUME TypeInv, Next
  PROVE  setting' = setting /\ (Crash => Crashed')
<1>1. setting' = setting
  BY ThreadHistory, StageHistory
     DEF Next, RunStep, Deliver, Redeliver, Reconcile, Resume, Crash, Preflight, Complete, Estimator,
         EstimatorReads, EstimatorWrites
<1>2. Crash => Crashed'
  <2>1. left \in LeftType
    BY Standing
  <2>2. left.crash \in Int /\ left.crash <= MaxCrashes /\ MaxCrashes \in Int
    BY <2>1, PipelineAssumption DEF LeftType
  <2>3. Crash => left'.crash = left.crash - 1
    BY <2>1 DEF Crash, LeftType
  <2> QED
    BY <2>2, <2>3 DEF Crashed
<1> QED
  BY <1>1, <1>2

LEMMA HeardInductive ==
  TypeInv /\ TypeInv' /\ PaidInv /\ LostInv /\ LostInv' /\ SoundInv /\ SoundInv' /\ OrderInv
    /\ HeardInv /\ [Next]_vars => HeardInv'
<1> SUFFICES ASSUME TypeInv, TypeInv', PaidInv, LostInv, LostInv', SoundInv, SoundInv', OrderInv,
                    HeardInv, [Next]_vars
             PROVE  HeardInv'
  OBVIOUS
<1>1. CASE Exempt'
  BY <1>1 DEF HeardInv
<1>2. CASE row'.status = "failed"
  BY <1>2 DEF HeardInv, Open
<1>3. CASE ~Exempt' /\ row'.status # "failed" /\ Next
  <2>1. ~Exempt
    BY <1>3, ExemptStays
  <2>2. row.status # "completed" /\ row.status # "failed"
    BY <1>3, CompletedStays, FailedStays
  <2>3. Open
    BY <2>2, Standing DEF Open, RowType, Statuses
  <2>4. ~stale' /\ setting' = setting
    BY <1>3, NextHistory DEF Exempt
  <2>5. setting.long => (Crash => ~setting.overlap)
    BY <1>3, <2>4, NextHistory DEF Exempt
  <2>6. CASE setting.long
    <3>1. LongHeard
      BY <2>1, <2>3, <2>6 DEF HeardInv
    <3>2. (row'.status = "completed" => HeardIsShown') /\ (Open' => LongHeard')
      BY <1>3, <2>4, <2>5, <2>6, <3>1, LongSteps
    <3> QED
      BY <2>4, <2>6, <3>2 DEF HeardInv
  <2>7. CASE ~setting.long
    <3>1. ShortHeard
      BY <2>1, <2>3, <2>7 DEF HeardInv
    <3>2. (row'.status = "completed" => HeardIsShown') /\ (Open' => ShortHeard')
      BY <1>3, <2>4, <2>7, <3>1, ShortSteps
    <3> QED
      BY <2>4, <2>7, <3>2 DEF HeardInv
  <2> QED
    BY <2>6, <2>7
<1>4. CASE UNCHANGED vars
  BY <1>4, HeardSame
<1> QED
  BY <1>1, <1>2, <1>3, <1>4

LEMMA HeardInvariant == Spec => []HeardInv
<1>1. Init => HeardInv
  BY HeardInit
<1>2. TypeInv /\ TypeInv' /\ PaidInv /\ LostInv /\ LostInv' /\ SoundInv /\ SoundInv' /\ OrderInv
        /\ HeardInv /\ [Next]_vars => HeardInv'
  BY HeardInductive
<1> QED
  BY <1>1, <1>2, TypeInvariant, PaidInvariant, LostInvariant, SoundInvariant, OrderInvariant, PTL
     DEF Spec

\* What a listener hears is what the transcript shows, for any number of segments, crashes, pauses
\* and errors: a completed task whose row, checkpoints, clips, mixed chunks and final object were
\* not left of two translations by a run that ended too early (and, with overlapped translation, by
\* a crash) says in every segment of the final audio the translation its row holds, in a short
\* recording the translation of the text its row holds.
THEOREM HeardIsWhatIsShownAlways == Spec => []CompletedSpeaksTranslation
<1>1. HeardInv => CompletedSpeaksTranslation
  BY DEF HeardInv, CompletedSpeaksTranslation, Exempt
<1> QED
  BY <1>1, HeardInvariant, PTL
=============================================================================
