---------------------------- MODULE TaskPipeline ----------------------------
(***************************************************************************)
(* The runs of one task over its recording: the shared beginning and end   *)
(* of a run (Pipeline), the stages (StageChain) and the front half of a    *)
(* long recording (LongAudio), with pauses, crashes, redeliveries and the  *)
(* restarts of the reconciler between them.                                *)
(***************************************************************************)
EXTENDS LongAudio

RunStep == Preflight \/ StageStep \/ ThreadStep \/ MainStep \/ Complete
Next ==
    \/ Deliver \/ Redeliver \/ Reconcile \/ Resume \/ Crash
    \/ RunStep \/ Estimator

Spec == Init /\ [][Next]_vars /\ WF_vars(RunStep)

-----------------------------------------------------------------------------
(* Safety                                                                  *)

Crashed == left.crash < MaxCrashes

HeardIsShown ==
    \A s \in Segs :
        /\ row.segs[s].trans # NoTranslation
        /\ store.out[s] = row.segs[s].trans
        /\ ~setting.long => row.segs[s].trans.of = row.segs[s].text

\* What a listener hears is what the transcript shows: when a task is completed, every segment
\* of the final audio says the translation its row holds, made (in a short recording) from the
\* text its row holds.  Between the provider call and the
\* row lie the context, the checkpoints, the clips under fixed names, the mixed chunks and the
\* final object, each of which a later run may take over from an earlier one.  It may be wrong
\* in two cases only: a run that had replaced a translation ended before it could replace what
\* was made from the old one, or one of a long recording died with overlapped translation on,
\* which invalidates nothing.
CompletedSpeaksTranslation ==
    row.status = "completed" /\ ~stale /\ ~(setting.long /\ setting.overlap /\ Crashed) =>
        HeardIsShown

\* The same without the exceptions, as the design promises it.
SkipsOnlyValidResults == row.status = "completed" => HeardIsShown

\* A run pays the provider at most once for the translation of a segment: what the pool
\* translated while other chunks were under way reaches the transcript, and neither the merge
\* with the rows nor the translation stage asks for it again.
PaidOncePerRun == \A s \in Segs : run.paid[s] <= 1

\* The chunks between the submission of their separation and the taking of their transcript
\* never outnumber PCT_CHUNK_PIPELINE_MAX_IN_FLIGHT, whatever order the results come in.
InFlightBounded ==
    Cardinality({c \in Segs : /\ pool.job[Separation][c] # "none"
                              /\ pool.job[Transcription][c] # "taken"}) <= MaxInFlight

\* No thread of the front half outlives it: when the run has gone on, paused or failed, nothing
\* is queued or running that could still write an artifact or pay a provider.
PoolsDrained == ~InPools => Drained

\* The only runs that fail without an error of their own are those that start after what they
\* need was lost: a short recording resumed or restarted at alignment or mixing, where the
\* clips are gone, and a long one resumed at translation after the overlapped translation
\* paused it, where the rows have no transcript yet.
FailsOnlyFromLostState ==
    row.status = "failed" /\ left.error = MaxErrors =>
        \/ ~setting.long /\ msg.force /\ FirstStage \in {Aligning, Mixing}
        \/ setting.long /\ setting.overlap /\ FirstStage >= Translating

-----------------------------------------------------------------------------
(* Liveness                                                                *)

\* Every run comes to its end: however results, errors and pause requests fall between the
\* pools and the main thread, nobody waits for a job that was cancelled or never submitted.
RunSettles == Alive ~> ~Alive
=============================================================================
