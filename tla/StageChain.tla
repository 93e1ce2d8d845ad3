----------------------------- MODULE StageChain -----------------------------
(***************************************************************************)
(* The stages of a run, one after the other.  A short recording takes them *)
(* all, each with its pause check, its checkpoint or artifacts to restore  *)
(* from and a checkpoint to leave behind; a long one takes the last three  *)
(* or four, with neither.                                                  *)
(*                                                                         *)
(* A stage is a few steps, since a run may die between any two of them:    *)
(* begin and restore, process, write the rows, save the checkpoint.        *)
(***************************************************************************)
EXTENDS Pipeline

At(step) == run.step = step
Goes(step) == run' = [run EXCEPT !.step = step]
Short == ~setting.long

Translatable(segs) == {s \in Segs : segs[s].text > Textless /\ segs[s].trans = NoTranslation}
Translated(segs) == {s \in Segs : segs[s].trans # NoTranslation}
HasSegments(segs) == segs # NoSegments

-----------------------------------------------------------------------------
(* Restoring a stage (short recordings).                                   *)

\* The checkpoint replaces the whole context, its invalidated stages included, and is kept
\* even if the stage then finds it of no use.
Loaded == IF run.at \in store.saved THEN store.ckpt[run.at] ELSE ctx

\* Without a checkpoint, each stage looks for what an earlier run left behind.
RestoredFromArtifacts ==
    CASE run.at = Separating -> store.tracks
      [] run.at = Diarizing -> HasSegments(ctx.segs)
      [] run.at = Transcribing -> HasSegments(ctx.segs) /\ \A s \in Segs : ctx.segs[s].text > Textless
      [] run.at = Translating -> HasSegments(ctx.segs) /\ Translatable(ctx.segs) = {}
      [] run.at = Mixing -> ctx.out /\ store.made
      [] OTHER -> FALSE

WithArtifacts == IF run.at = Separating THEN [ctx EXCEPT !.tracks = TRUE] ELSE ctx

\* Only translation checks what its checkpoint restored.
RestoredIsValid ==
    run.at = Translating => HasSegments(Loaded.segs) /\ Translatable(Loaded.segs) = {}

Restores ==
    /\ run.at \notin ctx.inv
    /\ IF run.at \in store.saved THEN RestoredIsValid ELSE RestoredFromArtifacts

ContextAfterRestore ==
    IF run.at \in ctx.inv THEN ctx
    ELSE IF run.at \in store.saved THEN Loaded
    ELSE IF RestoredFromArtifacts THEN WithArtifacts ELSE ctx

\* A long recording does not look at the pause request here, and restores nothing.
BeginStage ==
    /\ At("boundary")
    /\ \/ /\ Short /\ SpendPause
          /\ Pauses(run.at)
       \/ /\ Short
          /\ row' = [row EXCEPT !.stage = run.at]
          /\ ctx' = ContextAfterRestore
          /\ Goes(IF Restores THEN "persist" ELSE "process")
          /\ UNCHANGED <<stale, left>>
       \/ /\ ~Short
          /\ row' = [row EXCEPT !.stage = run.at]
          /\ Goes("process")
          /\ UNCHANGED <<ctx, stale, left>>
    /\ UNCHANGED <<setting, msg, store, pool>>

-----------------------------------------------------------------------------
(* The stages themselves.                                                  *)

Processing(stage) == At("process") /\ run.at = stage

Separate ==
    /\ Processing(Separating)
    /\ store' = [store EXCEPT !.tracks = TRUE]
    /\ ctx' = [ctx EXCEPT !.tracks = TRUE]
    /\ Goes("persist")
    /\ UNCHANGED <<setting, row, msg, pool, stale, left>>

\* Diarization pauses the task if the token of its model is missing or unreadable.
Diarize ==
    /\ Processing(Diarizing)
    /\ \/ SpendPause /\ Pauses(Diarizing)
       \/ /\ ctx' = [ctx EXCEPT !.segs = NewSegments(Textless)]
          /\ Goes("persist")
          /\ UNCHANGED <<row, stale, left>>
    /\ UNCHANGED <<setting, msg, store, pool>>

Transcribe ==
    /\ Processing(Transcribing)
    /\ ctx' = [ctx EXCEPT !.segs = NewSegments(run.no)]
    /\ Goes("persist")
    /\ UNCHANGED <<setting, row, msg, store, pool, stale, left>>

Pay(who) == [s \in Segs |-> IF s \in who /\ run.paid[s] < 2 THEN run.paid[s] + 1 ELSE run.paid[s]]

\* Only segments with a text and without a translation are sent.  What a run has translated
\* when the provider makes it pause is lost with its context, or when a segment cannot be
\* translated and the task fails.
Translate ==
    LET pending == Translatable(ctx.segs) IN
    /\ Processing(Translating)
    /\ \/ /\ pending # {} /\ SpendPause
          /\ Pauses(Translating)
       \/ /\ pending # {} /\ SpendError
          /\ Fails
       \/ /\ run' = [run EXCEPT !.step = "persist", !.paid = Pay(pending)]
          /\ ctx' =
               IF pending = {} THEN ctx
               ELSE [ctx EXCEPT
                       !.segs = [s \in Segs |->
                           IF s \in pending
                           THEN [ctx.segs[s] EXCEPT
                                    !.trans = [of |-> ctx.segs[s].text, by |-> run.no],
                                    !.url = FALSE]
                           ELSE ctx.segs[s]],
                       !.clips = {}, !.out = FALSE,
                       !.inv = @ \cup {Synthesizing, Aligning, Mixing}]
          /\ UNCHANGED <<row, stale, left>>
    /\ UNCHANGED <<setting, msg, store, pool>>

Reusable_ByName == {s \in Translated(ctx.segs) : store.clip[s] # NoTranslation}

\* A clip is taken over if the segment names it; if synthesis was not invalidated, the
\* object under the segment's own name is enough.
Reusable ==
    {s \in Translated(ctx.segs) :
        /\ store.clip[s] # NoTranslation
        /\ ctx.segs[s].url \/ Synthesizing \notin ctx.inv}

WithUrls(who) ==
    [s \in Segs |-> IF s \in who THEN [ctx.segs[s] EXCEPT !.url = TRUE] ELSE ctx.segs[s]]

\* The voices are prepared, and the rows written, before the first clip is asked for.
Synthesize ==
    /\ Processing(Synthesizing)
    /\ \/ /\ ~HasSegments(ctx.segs)
          /\ Goes("persist")
          /\ UNCHANGED <<row, ctx, stale>>
       \/ /\ HasSegments(ctx.segs) /\ Translated(ctx.segs) = {}
          /\ Fails
       \/ /\ Translated(ctx.segs) # {}
          /\ ctx' = [ctx EXCEPT !.clips = Reusable, !.aligned = FALSE,
                                !.segs = WithUrls(Reusable)]
          /\ row' = IF Reusable = Translated(ctx.segs) THEN row
                    ELSE [row EXCEPT !.segs = WithUrls(Reusable)]
          /\ Goes("synth")
          /\ UNCHANGED stale
    /\ UNCHANGED <<setting, msg, store, pool, left>>

Uncollected == {s \in Translated(ctx.segs) : s \notin ctx.clips}
Unspoken == {s \in Uncollected : ~ctx.segs[s].url}

SpokenBy(who) == [s \in Segs |-> IF s \in who THEN ctx.segs[s].trans ELSE store.clip[s]]

\* A thread uploads the clip, then names it in the segments it shares with the main thread.
SpeakSegment(s) ==
    /\ At("synth") /\ s \in Unspoken
    /\ store' = [store EXCEPT !.clip = SpokenBy({s})]
    /\ ctx' = [ctx EXCEPT !.segs = WithUrls({s})]
    /\ UNCHANGED <<setting, row, msg, run, pool, stale, left>>

\* The main thread takes a finished clip and writes the rows at the end of each batch.
CollectClip(s) ==
    /\ At("synth") /\ s \in Uncollected \ Unspoken
    /\ ctx' = [ctx EXCEPT !.clips = @ \cup {s}]
    /\ row' = IF \/ Cardinality(ctx.clips \cup {s}) % SynthBatch = 0
                 \/ Uncollected = {s}
              THEN [row EXCEPT !.segs = ctx.segs] ELSE row
    /\ UNCHANGED <<setting, msg, store, run, pool, stale, left>>

\* A provider that asks for a pause, or an error, ends the stage once the clips that were
\* under way are uploaded; after an error those that were waiting are made as well.
SynthesisStops ==
    /\ At("synth") /\ Unspoken # {}
    /\ \E done \in SUBSET Unspoken : store' = [store EXCEPT !.clip = SpokenBy(done)]
    /\ \/ SpendPause /\ Pauses(Synthesizing)
       \/ SpendError /\ Fails
    /\ UNCHANGED <<setting, msg, pool>>

SynthesisEnds ==
    /\ At("synth") /\ Uncollected = {}
    /\ Goes("persist")
    /\ UNCHANGED <<setting, row, msg, store, ctx, pool, stale, left>>

Align ==
    /\ Processing(Aligning)
    /\ \/ /\ ctx.clips = {} \/ ~HasSegments(ctx.segs)
          /\ Fails
       \/ /\ ctx.clips # {} /\ HasSegments(ctx.segs)
          /\ ctx' = [ctx EXCEPT !.aligned = TRUE]
          /\ Goes("persist")
          /\ UNCHANGED <<row, stale>>
    /\ UNCHANGED <<setting, msg, store, pool, left>>

\* What the clips of the context say, as the mixer downloads them.
Heard == [s \in Segs |-> IF s \in ctx.clips THEN store.clip[s] ELSE NoTranslation]

\* Without a background track the final mix is made of the clips alone.
MixShort ==
    /\ Short /\ Processing(Mixing)
    /\ \/ /\ ctx.clips = {}
          /\ Fails
          /\ UNCHANGED store
       \/ /\ ctx.clips # {}
          /\ store' = [store EXCEPT !.made = TRUE, !.bg = ctx.tracks, !.out = Heard]
          /\ ctx' = [ctx EXCEPT !.out = TRUE]
          /\ Goes("persist")
          /\ UNCHANGED <<row, stale>>
    /\ UNCHANGED <<setting, msg, pool, left>>

\* A long recording is mixed chunk by chunk, and a chunk that exists is kept unless mixing was
\* invalidated.
MixChunk ==
    LET c == run.mixed + 1 IN
    /\ ~Short /\ Processing(Mixing) /\ run.mixed < NSegs
    /\ \/ /\ ctx.clips = {}
          /\ Fails
          /\ UNCHANGED store
       \/ /\ ctx.clips # {}
          /\ store' = IF Mixing \notin ctx.inv /\ store.mixed[c] # NoTranslation THEN store
                      ELSE [store EXCEPT !.mixed[c] = Heard[c]]
          /\ run' = [run EXCEPT !.mixed = c]
          /\ UNCHANGED <<row, ctx, stale>>
    /\ UNCHANGED <<setting, msg, pool, left>>

JoinChunks ==
    /\ ~Short /\ Processing(Mixing) /\ run.mixed = NSegs
    /\ store' = [store EXCEPT !.made = TRUE, !.bg = TRUE, !.out = store.mixed]
    /\ ctx' = [ctx EXCEPT !.out = TRUE]
    /\ Goes("persist")
    /\ UNCHANGED <<setting, row, msg, pool, stale, left>>

-----------------------------------------------------------------------------
(* After a stage, restored or processed.                                   *)

NextStage_NoEnd == run' = [run EXCEPT !.step = "boundary", !.at = @ + 1]
NextStage ==
    run' = IF run.at = Mixing THEN [run EXCEPT !.step = "done"]
           ELSE [run EXCEPT !.step = "boundary", !.at = @ + 1]

\* The rows are replaced by the context's segments, from diarization on and if there are any.
WritesRows(segs) == row' = [row EXCEPT !.segs = IF HasSegments(segs) THEN segs ELSE @]

PersistStage ==
    /\ At("persist")
    /\ ctx' = [ctx EXCEPT !.inv = @ \ {run.at}]
    /\ IF run.at >= Diarizing THEN WritesRows(ctx.segs) ELSE UNCHANGED row
    /\ IF Short THEN Goes("save") ELSE NextStage
    /\ UNCHANGED <<setting, msg, store, pool, stale, left>>

\* A checkpoint that cannot be saved is skipped; an older one stays.
SaveCheckpoint ==
    /\ At("save")
    /\ \/ /\ store' = [store EXCEPT !.saved = @ \cup {run.at}, !.ckpt[run.at] = ctx]
          /\ UNCHANGED left
       \/ /\ left.unsaved > 0
          /\ left' = [left EXCEPT !.unsaved = @ - 1]
          /\ UNCHANGED store
    /\ NextStage
    /\ UNCHANGED <<setting, row, msg, ctx, pool, stale>>

-----------------------------------------------------------------------------
(* The progress estimator, a thread beside the stages.                     *)

Opaque == {Separating, Diarizing, Transcribing, Aligning, Mixing}

\* It takes the stage from the hooks, and writes it to the row later, whatever stage the run
\* is in by then.  Simplified: it leaves the front half of a long recording alone, as it does while
\* the current stage reports items.  Between two stages' reports it may put the row back to a front
\* stage (tasks.py:306-311), from which the reconciler would do more again.
EstimatorReads ==
    /\ run.step \in {"process", "persist", "save"} /\ run.at \in Opaque
    /\ row.stage = run.at /\ run.seen # run.at
    /\ run' = [run EXCEPT !.seen = run.at]
    /\ UNCHANGED <<setting, row, msg, store, ctx, pool, stale, left>>

EstimatorWrites ==
    /\ Alive /\ run.seen # NoStage /\ row.status = "processing"
    /\ row' = [row EXCEPT !.stage = run.seen]
    /\ run' = [run EXCEPT !.seen = NoStage]
    /\ UNCHANGED <<setting, msg, store, ctx, pool, stale, left>>

StageStep ==
    \/ BeginStage \/ Separate \/ Diarize \/ Transcribe \/ Translate \/ Synthesize
    \/ (\E s \in Segs : SpeakSegment(s) \/ CollectClip(s))
    \/ SynthesisStops \/ SynthesisEnds \/ Align \/ MixShort \/ MixChunk \/ JoinChunks
    \/ PersistStage \/ SaveCheckpoint
Estimator == EstimatorReads \/ EstimatorWrites
=============================================================================
