----------------------------- MODULE LongAudio -----------------------------
(***************************************************************************)
(* The front half of a long recording: its chunks pass separation,         *)
(* diarization and transcription in three thread pools, a fourth one may   *)
(* translate finished chunks meanwhile, and the main thread takes the      *)
(* results in whatever order they come, submits what follows and puts the  *)
(* transcript together.                                                    *)
(*                                                                         *)
(* A job is queued, running, finished (ok, failed or paused) and taken by  *)
(* the main thread, or cancelled while it is queued.  Which queued job a   *)
(* free thread takes is left open.  Leaving the front half, by its end or  *)
(* by an error, waits for the four pools.                                  *)
(***************************************************************************)
EXTENDS StageChain

Separation == 1
Diarization == 2
Transcription == 3
Overlapped == 4
FrontJob == 1 .. 3

Jobs(k, states) == {c \in Segs : pool.job[k][c] \in states}
Busy == {"queued", "running"}
Workers(k) == IF k = Overlapped THEN 1 ELSE StageWorkers

\* The job of chunk c in pool k is now in the state given.
Now(job, k, c, state) == [job EXCEPT ![k][c] = state]
Cancelled(job, pools) ==
    [k \in Job |-> [c \in Segs |->
        IF k \in pools /\ job[k][c] = "queued" THEN "cancelled" ELSE job[k][c]]]

\* What is invalidated takes what comes after it along.
Cascade(inv) ==
    LET front == inv \cap {Separating, Diarizing, Transcribing}
    IN  IF front = {} THEN inv ELSE inv \cup {s \in Chain : \E f \in front : f < s}

\* The chunks whose separation is submitted before any result is taken.
FirstChunks_OneMore == 1 .. (IF MaxInFlight + 1 < NSegs THEN MaxInFlight + 1 ELSE NSegs)
FirstChunks == 1 .. (IF MaxInFlight < NSegs THEN MaxInFlight ELSE NSegs)

FrontStart ==
    /\ At("front")
    /\ LET inv == Cascade(ctx.inv) IN
           /\ ctx' = [ctx EXCEPT !.inv = inv]
           /\ pool' = [NoPool EXCEPT
                !.job[Separation] = [c \in Segs |-> IF c \in FirstChunks THEN "queued" ELSE "none"],
                !.next = Cardinality(FirstChunks) + 1,
                !.redo = inv \cap FrontJob]
    /\ row' = [row EXCEPT !.stage = Separating]
    /\ Goes("pools")
    /\ UNCHANGED <<setting, msg, store, stale, left>>

-----------------------------------------------------------------------------
(* The threads.                                                            *)

InPools == run.step \in {"pools", "drain"}

StartJob(k, c) ==
    /\ InPools /\ pool.job[k][c] = "queued"
    /\ Cardinality(Jobs(k, {"running"})) < Workers(k)
    /\ pool' = [pool EXCEPT !.job = Now(@, k, c, "running")]
    /\ UNCHANGED <<setting, row, msg, store, run, ctx, stale, left>>

\* The artifact of an earlier run is used unless its stage was invalidated.
Reuses(k, c) ==
    /\ k \notin pool.redo
    /\ CASE k = Separation -> c \in store.sep
         [] k = Diarization -> c \in store.dia
         [] k = Transcription -> store.tra[c] # 0
         [] k = Overlapped -> FALSE

\* A thread looks at the pause request only if it has work to do, and the provider of a
\* translation may ask for a pause.
JobStops(k, c) ==
    /\ InPools /\ pool.job[k][c] = "running" /\ ~Reuses(k, c)
    /\ \/ /\ SpendPause
          /\ pool' = [pool EXCEPT !.job = Now(@, k, c, "paused")]
       \/ /\ SpendError
          /\ pool' = [pool EXCEPT !.job = Now(@, k, c, "failed")]
    /\ UNCHANGED <<setting, row, msg, store, run, ctx, stale>>

SeparateChunk(c) ==
    /\ InPools /\ pool.job[Separation][c] = "running"
    /\ store' = [store EXCEPT !.sep = @ \cup {c}]
    /\ pool' = [pool EXCEPT !.job = Now(@, Separation, c, "ok")]
    /\ UNCHANGED <<setting, row, msg, run, ctx, stale, left>>

DiarizeChunk(c) ==
    /\ InPools /\ pool.job[Diarization][c] = "running"
    /\ store' = [store EXCEPT !.dia = @ \cup {c}]
    /\ pool' = [pool EXCEPT !.job = Now(@, Diarization, c, "ok")]
    /\ UNCHANGED <<setting, row, msg, run, ctx, stale, left>>

TranscribeChunk(c) ==
    LET text == IF Reuses(Transcription, c) THEN store.tra[c] ELSE run.no IN
    /\ InPools /\ pool.job[Transcription][c] = "running"
    /\ store' = [store EXCEPT !.tra[c] = text]
    /\ pool' = [pool EXCEPT !.job = Now(@, Transcription, c, "ok"), !.text[c] = text]
    /\ UNCHANGED <<setting, row, msg, run, ctx, stale, left>>

\* The translation goes into the segments of the chunk's payload, in memory only.
TranslateChunk(c) ==
    /\ InPools /\ pool.job[Overlapped][c] = "running"
    /\ pool' = [pool EXCEPT !.job = Now(@, Overlapped, c, "ok"),
                            !.trans[c] = [of |-> pool.text[c], by |-> run.no]]
    /\ run' = [run EXCEPT !.paid = Pay({c})]
    /\ UNCHANGED <<setting, row, msg, store, ctx, stale, left>>

-----------------------------------------------------------------------------
(* The main thread.                                                        *)

\* The stage of the row goes forward only: a stage that a later one has overtaken reports
\* its items, not its progress.
Reported(stage) == IF pool.started > stage THEN row.stage ELSE stage

TakeSeparated(c) ==
    /\ At("pools") /\ pool.job[Separation][c] = "ok"
    /\ pool' = [pool EXCEPT
            !.job = Now(Now(@, Separation, c, "taken"), Diarization, c, "queued"),
            !.started = IF @ < Diarizing THEN Diarizing ELSE @]
    /\ row' = [row EXCEPT !.stage =
                 IF pool.started < Diarizing THEN Diarizing ELSE Reported(Separating)]
    /\ ctx' = IF Jobs(Separation, {"taken"}) \cup {c} = Segs
              THEN [ctx EXCEPT !.inv = @ \ {Separating}] ELSE ctx
    /\ UNCHANGED <<setting, msg, store, run, stale, left>>

\* The last chunk diarized replaces the rows by segments without text or translation.
TakeDiarized(c) ==
    LET all == Jobs(Diarization, {"taken"}) \cup {c} = Segs
        segs == NewSegments(Textless) IN
    /\ At("pools") /\ pool.job[Diarization][c] = "ok"
    /\ pool' = [pool EXCEPT
            !.job = Now(Now(@, Diarization, c, "taken"), Transcription, c, "queued"),
            !.started = Transcribing]
    /\ row' = [row EXCEPT
            !.stage = IF pool.started < Transcribing THEN Transcribing ELSE Reported(Diarizing),
            !.segs = IF all THEN segs ELSE @]
    /\ ctx' = IF all THEN [ctx EXCEPT !.inv = @ \ {Diarizing}] ELSE ctx
    /\ UNCHANGED <<setting, msg, store, run, stale, left>>

MoreChunks_NotLast == pool.next < NSegs
MoreChunks == pool.next <= NSegs

\* A chunk that is transcribed makes room for the next one.
TakeTranscribed(c) ==
    /\ At("pools") /\ pool.job[Transcription][c] = "ok"
    /\ pool' = [pool EXCEPT
            !.job = [k \in Job |-> [d \in Segs |->
                IF k = Transcription /\ d = c THEN "taken"
                ELSE IF k = Overlapped /\ d = c /\ setting.overlap THEN "queued"
                ELSE IF k = Separation /\ d = pool.next /\ MoreChunks THEN "queued"
                ELSE @[k][d]]],
            !.next = IF MoreChunks THEN @ + 1 ELSE @]
    /\ row' = [row EXCEPT !.stage = Transcribing]
    /\ UNCHANGED <<setting, msg, store, run, ctx, stale, left>>

\* What was queued is cancelled and the error waits for the pools.  A front job that ends
\* badly leaves the queued translations to run; a failed translation cancels everything.
Raises(pools, state, stage) ==
    /\ pool' = [pool EXCEPT !.job = Cancelled(@, pools), !.error = state, !.stage = stage]
    /\ Goes("drain")
    /\ UNCHANGED <<setting, row, msg, store, ctx, stale, left>>

FrontJobRaises(k, c) ==
    /\ At("pools") /\ k \in FrontJob /\ pool.job[k][c] \in {"failed", "paused"}
    /\ Raises(FrontJob, pool.job[k][c], k)

TranslationRaises(c) ==
    /\ At("pools") /\ pool.job[Overlapped][c] \in {"failed", "paused"}
    /\ Raises(Job, pool.job[Overlapped][c], Translating)

Drained == \A k \in Job : Jobs(k, Busy) = {}

FrontStops_AtOnce ==
    /\ At("drain")
    /\ IF pool.error = "paused" THEN Pauses(pool.stage) ELSE Fails
    /\ UNCHANGED <<setting, msg, store, pool, left>>
FrontStops ==
    /\ At("drain") /\ Drained
    /\ IF pool.error = "paused" THEN Pauses(pool.stage) ELSE Fails
    /\ UNCHANGED <<setting, msg, store, pool, left>>

Merged_FromRows == [s \in Segs |-> [ctx.segs[s] EXCEPT !.text = pool.text[s]]]

\* The transcript, with what the context still holds of an earlier run: a translation where
\* there is none, and the name of a clip.
Merged ==
    [s \in Segs |->
        [text |-> pool.text[s],
         trans |-> IF pool.trans[s] # NoTranslation THEN pool.trans[s] ELSE ctx.segs[s].trans,
         url |-> ctx.segs[s].url]]

FrontEnds ==
    /\ At("pools") /\ Drained
    /\ Jobs(Transcription, {"taken"}) = Segs
    /\ Jobs(Overlapped, {"failed", "paused"}) = {}
    /\ ctx' = [ctx EXCEPT !.segs = Merged, !.inv = @ \ {Transcribing}]
    /\ row' = [row EXCEPT !.stage = Transcribing, !.segs = Merged]
    /\ Goes("boundary")
    /\ UNCHANGED <<setting, msg, store, pool, stale, left>>

ThreadStep ==
    \/ (\E k \in Job, c \in Segs : StartJob(k, c) \/ JobStops(k, c))
    \/ (\E c \in Segs : SeparateChunk(c) \/ DiarizeChunk(c) \/ TranscribeChunk(c) \/ TranslateChunk(c))
MainStep ==
    \/ (\E c \in Segs : TakeSeparated(c) \/ TakeDiarized(c) \/ TakeTranscribed(c))
    \/ (\E k \in Job, c \in Segs : FrontJobRaises(k, c)) \/ (\E c \in Segs : TranslationRaises(c))
    \/ FrontStart \/ FrontStops \/ FrontEnds
=============================================================================
