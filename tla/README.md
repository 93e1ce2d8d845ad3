# A TLA+ model of PodFlow's podcast translator

PodFlow takes an uploaded podcast, runs it through a pipeline of seven stages
(separation, diarization, transcription, translation, synthesis, alignment,
mixing) on Celery workers, and hands back a translated recording. This
directory holds the TLA+ modules that model the program in
`src/podcast_translator/src` and the page in `src/podcast_translator/frontend`,
the TLC configurations that check them, and the TLAPS proofs about them. Paths
below are relative to `src/podcast_translator/src` unless they say otherwise.

## 1. The system

### Components, their state and their operations

| Component | State it keeps | Operations | What makes it correct |
|---|---|---|---|
| Task requests (`services/task_service.py`) | none of its own: it writes the task row, Redis keys, objects and the broker | create, pause, resume, delete, read | a request leaves all or nothing, never strands a task, never gives quota out twice |
| Broker (`workers/celery_app.py`) | queue of messages; a message stays unacknowledged until its run returns | deliver, acknowledge, return (worker lost), restore (visibility timeout) | external |
| Pipeline worker (`workers/tasks.py`) | its message, the stage it is in, its hooks, the estimator thread | one long run per message | at most one run per generation has effect; every run ends in completed, failed or paused |
| Ownership (`workers/task_liveness.py`, `workers/heartbeat_helper.py`) | `task:<id>:worker-lock`, `task:<id>:heartbeat` | acquire, renew, check, release, expire | a lock belongs to a run that exists |
| Task runtime service (`services/task_runtime_service.py`) | the task row and its segments | `mark_*`, `persist_pipeline_state`, rebuilding the context | only the current generation moves the row |
| Stall reconciler (same file) | `stall-suspected-at`, `reap-lock`, `dispatch-guard`, `auto-resume-count` | scan, suspect, confirm, re-dispatch, give up | a dead run is replaced or failed, a live one left alone |
| Pause requests (`pipeline/pause.py`) | `task:<id>:pause-requested` | set, read, consume | a request stops the run at the next boundary |
| Stage chain (`pipeline/base_stage.py`, `orchestrator.py`, `checkpoint.py`, `context.py`) | the context of a run, one checkpoint object per stage | restore or process a stage, write the rows, save the checkpoint | a later run goes on from results that belong together |
| Long-audio pipeline (`pipeline/long_audio.py`) | chunks, four thread pools, chunk artifacts | separate, diarize, transcribe and translate chunks in overlap, merge, mix by chunk | bounded, drained when left, pays once |
| Translation (`pipeline/stages/s4_translation.py`) | the batch in progress | batch, ask, check, retry, split | one translation per line, at its line |
| Synthesis (`pipeline/stages/s5_voice_clone_tts.py`, `pipeline/voice_providers.py`) | units, voices, a thread pool, clips | reuse, prepare voices, speak, fall back | a clip says its lines, in the voice asked for |
| Alignment, mixing (`s6_temporal_alignment.py`, `s7_final_mixing.py`) | the cursor of the timeline | place, compress, mix | no overlap, everything once |
| Quota (`services/quota_service.py`) | `monthly_used` | consume, refund | used = uploads that count |
| API keys and preflight (`services/user_api_key_service.py`, `services/provider_preflight_service.py`) | the key and its mark, a cache of verdicts per process | save, verify, resolve, ask the provider | no verdict serves another key |
| Progress feed and page (`api/v1/tasks.py`, `core/redis.py`, `frontend/src/stores/task-store.ts`, `hooks/useTaskProgress.ts`, `lib/websocket.ts`) | a Redis channel per task, a socket, the status shown | publish, snapshot, subscribe, poll, merge, notify | the page catches up with the row and tells the end once |

### How they meet

Three shared stores, none of which has a transaction with another:

- **Postgres**: the task row, its segments, the user's counter. A run's
  transactions lock the task row and compare `run_generation` with the
  generation of its message; requests read it without a lock. A SQLAlchemy
  session keeps the attributes of an object it has loaded until a commit or a
  rollback expires them, which decides what several of these read.
- **Redis**: the runtime keys, the pause request, the channel of the task.
- **The object store**: sources, artifacts, clips, checkpoints and the final
  audio, under names that do not tell which run wrote them.

Besides, Celery's queue carries a task, a start stage, `force_resume` and a
generation from requests and scans to workers.

### What is hard

Interleavings of a run, a request and a scan between two of their steps; a
second delivery; the death of worker, helper, API process or beat between a
commit and what should follow it; results of an earlier run found by a later
one; thread pools whose results, errors and pauses arrive in any order;
values that are read, waited upon and used; three writers who publish what
they have read. `PROJECT.json` lists 40 such hazards at their lines with the
properties that watch them. Two have no property and say why.

## 2. Modules

| Module | What it is |
|---|---|
| `TaskRun` | one task: row, keys, queue, workers and helpers, requests, scans, time and failures |
| `TaskLifecycle` | the abstract life of a task: status, generation, refunds; `TaskRun` implements it |
| `Pipeline` | what a task keeps while its recording is processed, and how a run begins and ends on it |
| `StageChain` | the stages one after the other, with restoring and saving |
| `LongAudio` | the front half of a long recording: chunks, pools, main thread |
| `TaskPipeline` | composes the three: the runs of one task, with pauses, crashes, redelivery, re-dispatch |
| `Translation`, `Synthesis`, `Alignment` | the inside of three stages; each extends the one before |
| `Dubbing` | composes them: one run after an earlier one |
| `Account` | an upload with its quota, object, row and message, and its rollback |
| `Credentials` | the user's API key, its verification, the caches of verdicts |
| `Service` | composes both with the runs that need a key and give quota back |
| `Page` | the feed and the page of a task |
| `MCTaskRun`, `MCPipeline`, `MCDubbing`, `MCService`, `MCPage` | instances for TLC |
| `TaskRun_proofs`, `TaskRunLifecycle_proofs` | theorems about `TaskRun`: types, generations and who executes; the life the owner is promised |
| `TaskPipeline_proofs`, `TaskPipelineResume_proofs`, `TaskPipelineHeard_proofs` | theorems about `TaskPipeline`: types, pools and payments; what a later run finds; what is heard in the end |
| `Dubbing_proofs` | theorems about `Dubbing` |
| `Service_proofs`, `Page_proofs` | theorems about the others |

The modules cut the system where it is loosely coupled. `TaskRun` knows who may
run and leaves out what a run computes. `TaskPipeline` knows what a run leaves
behind and takes from `TaskRun` that one run is alive at a time. `Dubbing`
opens three of `TaskPipeline`'s stages. `Service` has short runs and many tasks.
`Page` keeps only the status of the row.

A definition `Op_Word` is `Op` with a plausible mistake in it (a dropped guard,
an off-by-one, a swapped order). No specification uses one: each property of
each passing run names in `PROJECT.json` one such mistake that makes TLC find
the property violated.

### TaskRun

`task` is the row (`quiet` stands for "last_activity_at is older than the stall
timeout", `resumable` for an error message with one of the resumable markers).
`redis` holds the keys; the lock and the heartbeat hold the id of their owner's
message, because an owner token is an id with its generation. `queue` is what
the broker may deliver; `sourceObject` and `finalObject` are the recording and
the final audio in the object store. `wk`, `cl` and `rec` hold the program counter and the
local variables of every worker, request and scan. `faults` counts the uses of
each bound.

One action is one database transaction or one Redis command; between two of
them anybody may run. A worker: `Deliver`, `CheckGeneration`, `Acquire`,
`ClearDispatchGuard`, `TakeSnapshot`, `LookForFinalOutput`, `MarkProcessing`,
`Preflight`; for each stage `Boundary`, (`ConsumePauseRequest`,)
`EnsureOwnership` and `StageHook`, `StageReports` and `StageEnds`; in the end
`MarkCompleted`, `MarkFailed` or `MarkPaused`, `ClearKeys`, `CleanupArtifacts`,
`Release`, `Ack`. The owner: `RequestPause`, `RequestResume`, `RequestDelete`
and what follows them. A scan: `Scan`, `Observe`, `TakeReapLock`,
`RecheckHeartbeat`, `RecheckLock`, `RecheckGuard`, `AdvanceGeneration`, then
`Redispatch` or `GiveUp`. The world: `HelperTick`, the expiry of each key
(`PauseRequestExpires` after 24 hours), `GoesQuiet`, and `Crash`, `RequestDies`, `ScanDies`, `Redeliver`, `HelperDies`.

Some details decide much and are easy to miss: `_clear_task_runtime_keys`
deletes the lock without asking who owns it; `delete_task` removes recording and
final audio while the row still stands (`DeleteClearKeys`, then `DeleteRow`); a
worker whose heartbeat helper does not start gives its lock back and leaves the
task as it was (`Acquire`); a long recording consumes a pause request also in
the middle of a stage, between two chunks (`StageEnds`); a scan's `SELECT ... FOR UPDATE`
returns the object its session has already loaded, with the old attributes;
`AsyncSessionLocal` expires rows on commit and the tests' sessions do not
(constant `ExpireOnCommit`).

Abstracted: stage 0 stands for uploaded and preparing, stages 1 to `LastStage`
for the pipeline; the three transactions at the end of a stage are one; Redis
and Postgres answer. `PauseChecked` is the set of stages that call
`raise_if_user_paused`.

### Pipeline, StageChain, LongAudio, TaskPipeline

The question is what a later run finds of an earlier one, so text, translation
and clip are not content but provenance: the number of the run that made them,
and for a translation and a clip the transcript they are of. `row` is status,
current stage and the rows of the segments, `store` the objects (tracks, chunk
artifacts, clips under fixed names, checkpoints, mixed chunks, the final
object), `ctx` the context of the run in memory with its set `inv` of
invalidated stages, `pool` the executors of the front half, `msg` the message
with its start stage and `force_resume`, `run` the step and stage of the run.

A run begins with `Deliver` or `Redeliver` (`FindsOutput` or `Begins`), goes
through `Preflight`, and takes each stage in the steps between which it may die:
`BeginStage` (pause, restore), the stage itself, `PersistStage` (the rows),
`SaveCheckpoint`. Synthesis is a pool: `SpeakSegment`, `CollectClip`,
`SynthesisStops`, `SynthesisEnds`. The front half of a long recording has a
main thread (`TakeSeparated`, `TakeDiarized`, `TakeTranscribed`, `Raises`,
`FrontStops`, `FrontEnds`) and threads (`StartJob`, `JobStops`,
`SeparateChunk`, `DiarizeChunk`, `TranscribeChunk`, `TranslateChunk`).
`EstimatorReads` and `EstimatorWrites` are the progress thread, which may write
a stage the run has left. `Crash`, `Pauses`, `Fails` and `Complete` end a run;
`Resume` and `Reconcile` send the next message.

`stale` is a history variable: a run ended while something it had replaced in
memory was still old in the store.

Simplified: a long recording has one segment per chunk; which queued job a free
thread takes is open; objects can be read and written except checkpoints, whose
failures the code skips. The estimator leaves the pools of the front half alone:
between the reports of two of its stages it may in the code put the row back to
an earlier front stage (`workers/tasks.py:306-311`), where a re-dispatch would
then begin.

### Translation, Synthesis, Alignment, Dubbing

A translation is the number of the line whose text it translates, so that an
answer in the wrong place can be told from one in the right place. The provider
may answer with any sequence of ids of any length near the right one, in any
order, or fail in one of three ways; `Answered` parses, checks and orders,
`ProviderFails` retries, splits or pauses, `WriteBatch` writes. In `Synthesis`
lines are merged into units (`FirstOf`), clips of an earlier run taken over
(`Existing`, `Reuse`), voices prepared by mode, provider and reference
(`PrepareVoice`, which may refuse or pause), and the pool runs (`StartJob`, `Speak`, `CallFails`,
`Collect`...). `Alignment` places the clips one after the other with the
compression of the code, in whole numbers.

### Account, Credentials, Service

Requests and runs read and write `monthly_used` in two steps, through sessions
that keep what they loaded. `create_task` is seven steps forward (limit, quota,
object, row, message) and four back, each of which may fail once a fault is
left; `broken` marks the uploads for which the code does not manage its
compensation, and `stale` that the counter was written from an outdated value.
Keys are numbers in the order they were saved; `valid` those the provider takes,
`accepted` those it has been asked about and has taken; `cache` is per process.

### Page

`row` is pending, processing, paused or ended; a resume commits it before its run
is dispatched (`resuming`), and `ResumeRefused` puts it back. A message that is
delivered again may open a row that had ended (`Reopens`, history `reopened`).
`hand` is what each of the writers (the run's hooks, the estimator, the API) has
read of its commit and not yet published; `wire` the socket, `polls` the
responses under way, each with the status it was made from. `Receive` and
`Answered` are the store's two ways to merge, with the regression rule for
messages and none for responses.

## 3. Runs

A task that has settled, with no message left, may rest, and a page that shows
the end asks for nothing more: no run treats deadlock as an error
(`CHECK_DEADLOCK FALSE`); where the system must not rest, a property says so.
Workers are symmetric in `TaskRun`, and no run with symmetry checks liveness.

| Run | Instance | Checks |
|---|---|---|
| `Resume` | 2 workers, 1 request at a time, 2 stages, 2 resumes, 1 pause, 1 refused dispatch | `TypeOK`, `SettledQuiescent`, `PauseLands`, `RefundedIffFailed`, `SourceKept`, `CompletedHasOutput`, refinement `FollowsLifecycle` |
| `Faults` | 2 workers, 1 request, 1 resume, 1 crash of a worker or request, 1 redelivery | `OneExecutor`, `LockHasRun`, `MessagesBehind`, `FencedRow` |
| `Reconciler` | 2 workers, 1 scan, 2 more generations, 1 helper death | `SettledQuiescent`, `OneMessagePerGeneration`, `FencedRow` |
| `Stall` | 1 worker, 1 scan, 3 more generations, 1 crash of worker or scan, 1 refused dispatch, fairness | `StalledRunEnds` |
| `Pipeline` | short and long recordings, 2 segments, 1 crash, 2 pauses, 1 lost checkpoint, 1 error | `TypeOK`, `CompletedSpeaksTranslation`, `PaidOncePerRun`, `FailsOnlyFromLostState` |
| `Chunks` | long recordings of 3 chunks, 2 in flight, 1 pause, 1 error, fairness | `InFlightBounded`, `PoolsDrained`, `RunSettles` |
| `Dubbing` | 3 lines in batches of 2, two recordings, nine settings of voices, clips of an earlier run, 2 failing clips | `TypeOK`, `TranslationsInPlace`, `ClipsSayTheirLines`, `OnePlaceEach`, `LateOnlyAfterLong`, `RequiredVoiceIsCloned`, `CallsBounded`, `DubbingEnds` |
| `Service` | 2 or 3 uploads (2 at a time), limit 1, quota 2, up to 2 mishaps; or 1 upload, 2 keys, 1 revocation | `TypeOK`, `QuotaConserved`, `ActiveWithinLimit`, `AllOrNothing`, `PreflightAsked`, `VerifiedIsAccepted` |
| `Page` | 2 messages and 2 responses under way, 1 pause or reopening, 1 failure of the socket, fairness | `TypeOK`, `ToldOnce`, `OnlyResponsesUnsettle`, `PageCatchesUp` |
| `CrashRetry` | 1 worker, 1 crash, no reconciler | `Attended`, violated |
| `ResumeCap` | 1 worker, 1 scan, the session factory as it is, fairness | `GivenUpTaskFails`, violated |
| `StaleClips` | a short recording, 1 crash, 2 pauses | `SkipsOnlyValidResults`, violated |

### What they show

`Resume`: without crashes the task is what its owner is promised in
`TaskLifecycle`: pending, processing, one of three ends, a refund with the
failure and only then, a resume only from paused and always as a new
generation; through two resumes in which the old run and the new one overlap.
`Faults` and `Reconciler`: the lock and the ownership checks admit one of two
copies of a message, and the generation is a fence: an old run may go on
computing but never changes status, stage or generation. `Stall`: with the
reconciler a task whose worker died is processed again or given up. This run
and `Reconciler` use `ExpireOnCommit = FALSE`, the setting of the tests.

`Pipeline`: a completed task's audio speaks what its transcript shows, unless a
run ended before it could replace what it had invalidated (`stale`) or a long
recording with overlapped translation crashed. A segment is paid for once per
run. A run fails without an error of its own only where section 5 says that
state is lost. `Chunks`: however results, errors and pauses fall between the
pools and the main thread, chunks in flight stay bounded, nobody waits for a
job that was cancelled, and no thread outlives the front half.

`Dubbing`: answers in any order and any split end at the right line; a clip is
taken over only for what it says, save for half-redone units (section 5); units
are placed once, in order, without overlap, and late only after a clip that was
too long to compress; a required voice is never replaced by a preset one but
for the two cases the property names; splitting costs a bounded number of calls.

`Service`: the counter is right whenever no write was based on an outdated
value; parallel uploads pass the limit by what is under way together and no
more; uploads leave all or nothing but for the compensations named in section
5; no verdict serves another key than the one it is about.

`Page`: an end is told once, only a response can take a page back from it, and
the page catches up again and again, except that it may stay at "paused", and at
the end of a row that is opened again.

### The three disagreements

- `CrashRetry`: a comment in `run_pipeline_task` promises that a killed
  worker's lock expires quickly rather than wedging retries. The returned
  message does not wait for that: it meets the lock, is skipped as a duplicate
  and acknowledged. With the reconciler off, its default, the task stays in
  processing.
- `ResumeCap`: the commit at the resume cap expires the row the next line
  reads. The test of that path passes, with sessions that do not expire.
- `StaleClips`: `ARCHITECTURE.md` says that stages skip themselves when a valid
  checkpoint or artifact exists. What is invalid is known to the context of one
  run only, so a later run takes an old checkpoint for valid, and the transcript
  of a completed task is of one translation and its audio of another.

### Bounds

Two workers are the old run and the new one, or two copies of a message. Two
stages are a boundary in the middle and the last stage. Two resumes give three
generations, so an old run, a current one and a message to come may coexist.
One crash, redelivery, refused dispatch or helper death each occurs at every
step where it can, and `Faults` and `Stall` combine two. `MaxAutoResumes` is 1,
the default, so the cap is reached; `MaxGen` bounds resumes and re-dispatches.

One crash and two pauses give a task four runs, enough for one that makes
results, one that replaces some, one that loses its context and one that mixes
what is left: the trace of `StaleClips` needs all four. Two segments let one be
done and the other not. Three chunks with two in flight let a chunk wait for
another to be transcribed. `StageWorkers` is 1, so that jobs queue.

Three lines in batches of two give a whole batch, which can be split, and a
rest; one recording has a unit of two lines, the other three single ones. The
provider's answers include ones too short, too long, repeated and out of range.
Durations 5 and 6 against lines of 2 to 4 units of time are within and beyond
the factor 1.3, 1.5. Two failing calls exhaust the retries of one clip.

Two uploads at a time are enough for a read between another's read and write; a
third meets the limit the first two passed together. Two keys are one replaced
by the other. On the page, two messages and two responses can each overtake.
`Len(wire) <= MaxWire` drops nothing: who would publish more waits. `MaxTurns`
counts pauses and reopenings together: each gives a page one more end to rest at.

### Fairness

`TaskRun.FairSpec`: the broker delivers, a live process takes its next step,
beat starts scans, time passes, and (`SF StageEnds`) a stage does not report
progress forever, since the time limits of the Celery task end it. Nothing is
assumed of requests, crashes, redeliveries and refusals. `TaskPipeline`:
`WF RunStep`, a live run takes steps, in some thread; the estimator is not
needed. `Dubbing`: `WF Next`, the same for one run. `Page`: weak fairness of
each response slot: the page polls as its interval says, asks again when it was
told to, and responses arrive; nothing is assumed of the socket and the owner.

## 4. Theorems

They hold for every value of the constants, under the named assumptions, which
only give the constants their types and which TLC evaluates on the instances.
Where a theorem assumes more, of a constant (`ASSUME ... PROVE`) or of what has
gone wrong so far (`Once`, `faults.crashes = 0`), the statement is false without
it, and what the code then does is in section 5 or the subject of another run.

### TaskRun_proofs

- `TypeCorrect`: `TypeOK` is not inductive: `Crash` and `Redeliver` put the
  message of a busy worker into the queue, so `TypeInv` adds that a busy worker
  has a message.
- `Fence`: `FencedRow`. A step that moves a worker is a step of that worker, and
  those of its steps that write the row begin with `Current`, except the
  clean-up, which only forgets the source.
- `NeverAhead`, `OneRunPerGeneration`, `GenerationGrows`: under `OneWriter` (one
  request at a time and no scans, or one scan and no requests). The invariant
  `GenerationInv`: a request or scan that has read the row is up to date until
  it commits, and between its commit and its dispatch every message there is
  belongs to an earlier generation. Without `OneWriter` the statements are
  false, so the assumption is what the code needs from its environment.

Who executes; of requests and scans nothing is assumed here, any number at once:

- `NoLockOfNobody` (`LockHasRun`). "A busy worker has the lock's message" is not
  inductive, since the worker may be one that has yet to ask for the lock and
  drop its message; `LockHeld` asks for a worker between its `SET NX` and the
  end of its `finally` block (`Holding`). The control flow of
  `run_pipeline_task` is stated once (`Follows`, `WorkerMoves`), and a step
  that leaves `Holding` is shown to be `Release` (or a crash).
- `OutputOfCompleted` (`CompletedHasOutput`), from `OutputInv`: who is about to
  complete the row (`Finishing`) has made the object or seen it. For no crash so
  far: a delete request that dies between the object and the row leaves a
  completed row without output.
- `OneExecutorOfTwoCopies` (`OneExecutor`): one redelivery at most and no helper
  death. `ExecutorInv` holds while the first generation lasts. It counts the
  copies of the message that somebody may still act on (`CopiesCounted`): a
  redelivery adds one, and whatever shows that a run has ended (`SomeSpent`)
  has taken one away. The live run has lock and helper while another copy is
  about (`LiveHasLock`), and so it is alone (`OneLive`). Once the other copy is
  spent the lock may be anybody's, since it is deleted unasked, and nobody is
  left to take it. With a third copy somebody is.

### TaskRunLifecycle_proofs

Of `OneRequest` (no scans, one request at a time: the setting of `Resume`) and,
in the last theorem, also of `OneScan`. Two requests, or a request and a scan,
that overlap break generations (section 5). `Once`, no crash and no redelivery
so far, is the setting of the abstract life, which knows neither; refused
dispatches, helper deaths, expiring keys and overlapping runs are included.

- `ConsumedPauseLands` (`PauseLands`), `RefundOnce` (`RefundedIffFailed`),
  `SourceOfUnfinished` (`SourceKept`: the recording is in the row and in the
  store until the task has ended, or a delete request that has removed it is
  about to drop the row). None is inductive without all program
  counters: `LifeInv` says for each worker of the row's generation what the row
  is at its step (`InTurn`: pending while it starts, processing on duty), for
  the request what it has seen (`RequestInTurn`), and what refunds and source
  are for each status (`BooksKept`). It rests on `GenerationInv` and on
  `HeldOnce`: a message is in the queue or with one worker.
- `ImplementsLifecycle` (`FollowsLifecycle`): `TaskRun` implements
  `TaskLifecycle` under its refinement mapping, for `MaxCrashes = 0` and
  `MaxRedeliveries = 0`. Initial states map to initial states, and each step to
  the abstract step or a stutter: `Orderly` gives each row-writing step the
  status from which its abstract counterpart starts.
- `SettledIsQuiet` (`SettledQuiescent`), for requests and for scans. For scans
  it needs `ScanInv`: a scan that gives a task up has advanced the generation
  to one of which there is no message (`ScanInOrder`), so a run of the row's
  generation (`Leading`) has an unfinished row.

### TaskPipeline_proofs

- `TypeCorrect`. The type of a run's number bounds how many runs a task can
  have, so this is more than types: `RunsCounted` says that a run begins only
  after a crash or a pause has been spent on the one before, and that a pause
  a thread knows of is already spent (`PauseKnown`).
- `NoThreadOutlives` (`PoolsDrained`) and `ChunksInFlightBounded`
  (`InFlightBounded`), from `FrontInv`. The bound needs `InOrder`: chunks enter
  separation in order, a chunk enters a pool only when its result of the pool
  before was taken. Then the taking of a transcript removes one chunk from those
  in flight and lets at most one in.
- `PaysOnce` (`PaidOncePerRun`), from `PaidInv`: a run pays in the pool, whose
  results `Merged` takes over, or in the translation stage, which asks only for
  what is missing. A chunk is queued for overlap once, when its transcript is
  taken (`OverlapPaid`); before its translation stage a short recording has
  paid nothing (`BeforeTranslation`).

### TaskPipelineResume_proofs

- `OnlyLostRunsFail` (`FailsOnlyFromLostState`) and `StagesFindTheirInput`. Why
  a run does not fail at alignment is a fact about the rows, objects and
  contexts of all runs before it. `Fits` says what the segments must hold for a
  stage; `LostInv` says that they do wherever the next run may be told to begin
  (`RowKept`: the row's stage and the message's), in each checkpoint for the
  stage after it (`CheckpointsKept`, with the clips), and in the context at each
  step (`InPreflight`, `InFront`, `ContextInChain`). That the estimator writes
  the row's stage late is harmless because it only goes back, and never before
  the first stage of the run (`Floor`), so that what fits there fits
  (`FitsDown`). The two exceptions are where this breaks: the clips of a context
  are in no row (`LacksClips`), and overlapped translation pauses a task at
  translation while its rows have no transcript (`Kept`). A front-half error is
  one that was spent when its job failed (`PoolKept`).
- Two invariants that the next module rests on. `SoundInv`: each source is whole
  by itself. Segments are translated together or not at all (`Whole`), and in a
  short recording hold the translation of their own text; a clip they name is in
  the store (`Named`); what comes after synthesis has all clips, and the final
  object is made only of all of them (`StoreSpoken`, `ContextSpoken`).
  `OrderInv`, of short recordings: which stages a context or a checkpoint counts
  as invalid (`Invalidated`, seen from the stage the run is at, `Position`), and
  that a run begins no earlier than the one before it once that began after
  separation (`NeverEarlier`).

### TaskPipelineHeard_proofs

- `HeardIsWhatIsShownAlways` (`CompletedSpeaksTranslation`), from `HeardInv`.
  "All sources are of one translation" is not invariant: an older checkpoint, an
  older row or an older final object may be there while a run is at work. So the
  invariant says it only of what may still be taken over. Three notions carry
  it. `Live` checkpoints are those no run to come would have replaced before it
  got to them; `Last` is the one up to transcription that hides the earlier
  ones. `Agrees(segs, objects)`: checkpoints from synthesis on, clips and the
  final object are of the translation `segs` hold. `Fresh`: they agree, and so
  does the live translation checkpoint.
  - A short recording up to translation (`SourcesFresh`, `ContextFresh`):
    whatever the run may begin with, or restore next, is fresh. From there on
    (`AfterTranslation`): the context agrees with everything unless mixing is
    invalid, a clip is of another translation only while synthesis is invalid,
    and the rows hold the context's translation or none. An idle task whose
    final object exists has the rows it was made from (`OutputIsRow`).
  - A long recording (`LongHeard`) restores no checkpoint, but keeps clips and
    mixed chunks under fixed names (`Speaks`, `ChunksSpeak`). With overlapped
    translation, which invalidates nothing, there is no clip yet when the front
    half runs (`Untouched`), unless a run has died, the exception of the
    property.
  - A run that ends loses the context. If it leaves nothing stale (`LeavesStale`
    is false), what was true of the context is true of the rows and the store
    (`ShortEnds`, `LongEnds`); if it does, `stale` exempts all that follows
    (`ExemptStays`). The step that completes the task has just mixed the
    context's clips (`CompletesHears`), or takes the object of an earlier run
    (`FindsHears`).

  `SoundInv`, `OrderInv` and `HeardInv` were checked with TLC before they were
  proved, on short and on long recordings of one and of two segments, with two
  or three crashes, two to four pauses and up to one unsaved checkpoint.

### Dubbing_proofs

Lines, batches, threads, retries and recordings of any number and length.
`FirstOf` is recursive over lines, `Ascending` and `InOrder` (the code's list
comprehensions and `sort`) are chosen by what they return. That each is what it
should be is proved by induction over numbers, in two lemmas (`LeastMember`,
`Induction`) which rest on the library's theorem that the finite subsets of a
set are well-founded: a set of numbers has a least one, because the segments
`1 .. n` of its members have.

- `TranslationsStayInPlace` (`TranslationsInPlace`) and `SplittingIsBounded`
  (`CallsBounded`), from `TranslationKept`. What is left of a batch is a row of
  ranges that goes on where the answers end (`Row`), so that the answers, which
  are joined as they come, are those of the first texts, and the last of them
  completes the batch. `BatchKept` also counts: each answer and each split has
  cost `MaxAttempts` calls at most, and with `g` answers and `r` ranges left
  there were `g` of the one and at most `g + r - 1` of the other.
- `PlacedClipsSayTheirLines` (`ClipsSayTheirLines`), from `OldKept` and
  `ClipsKept`: a line that names a clip still has its old translation, and when
  translation is over with nothing changed every line has. So what is taken over
  says its unit, or the unit is half redone; what is spoken is named by its unit
  and overwrites no other.
- `EveryUnitHasOnePlace` (`OnePlaceEach`), from `PlacesKept` and `TimelineKept`:
  while no error waits, each unit has one clip in the context or a job that was
  not collected, and sorting loses none.
- `OnlyLongClipsMakeLate` (`LateOnlyAfterLong`), for scripts whose lines do not
  overlap (`LinesApart`; where they do, the property is false, since a line may
  begin before the clip of the one before can have ended). `LateKept` follows
  the lateness back: the clip before was late itself or was far too long.
- `RequiredVoicesAreCloned` (`RequiredVoiceIsCloned`), from `VoicesKept`: no
  such voice is ever "preset", and no job of one leaves the tier "clone".
- `DubbingTypeCorrect` (`TypeOK`).

### Service_proofs

- `QuotaIsConserved`: each step keeps the counter equal to the number of charged
  uploads, or sets `stale` or `broken`. Invariant `Counts`.
- `LimitIsKept`: `LimitInv`, by counting the uploads under way (`Moves`).
- `AllIsOrNothingIs`: `UploadInv`, what exists of an upload at each step of its
  request (`NotBegun`, `Whole`).
- `PreflightHasAsked`, `MarkIsTrue`: `KeyInv`, every verdict in a cache or beside
  a key is of a key the provider has taken (`Remembered`), and a run keeps the
  key it was asked for (`SameKey`).
- `TypeCorrect`.

### Page_proofs

- `ToldAtMostOnce`: `EndsAgree`, a final status anywhere (shown, told, under way
  or about to be published) is the row's, unless the row was opened again; with it, being told of it once is
  remembered (`Told`).
- `OnlyResponses`: from the types, by cases on who changes the page.
- `TypeCorrect`.

### Only model-checked

Liveness (`StalledRunEnds`, `RunSettles`, `DubbingEnds`, `PageCatchesUp`): its
proofs need fairness and `ENABLED`, which TLAPS does not handle. Every safety
invariant and action property of the passing runs has a theorem.

## 5. Limits of the code worth knowing

What the runs met while the properties were being stated. Properties name these
cases as exceptions, or bounds keep them out; each is checked for what remains.

Task runs:

- With two redeliveries of one message `OneExecutor` fails: all copies share the
  owner token, so one that ends releases the lock of another. After a resume one
  redelivery is enough, because the paused run's `_clear_task_runtime_keys`
  deletes the lock the resumed run has taken (`workers/tasks.py:480`,
  `task_runtime_service.py:490`); the same race strands the resumed task.
- The redelivered message of a resume runs a failed task again, and a second
  failure refunds again (`workers/tasks.py:534`).
- With two requests at a time `SettledQuiescent` and `OneMessagePerGeneration`
  fail: `resume_task` and `delete_task` check a row they have not locked.
- The later stages of a long recording never look at the pause request
  (`pipeline/long_audio.py:1182`).
- A delete request that dies after it removed the objects leaves a completed row
  without output, or a paused one that can be resumed without its recording
  (`services/task_service.py:254`).
- A pause request that nobody consumes within 24 hours is gone
  (`services/task_service.py:214`).

Pipeline:

- Invalidated stages live in the context only, and end with its run.
- `_complete_if_final_output_exists` completes a task with an old final object
  after its rows were rewritten.
- Overlapped translation invalidates nothing, so a redelivery after a crash
  keeps clips and mixed chunks of the translation before.
- In a long recording nothing after the front half honours the invalidation of
  translation, and the merge carries old translations onto new text.
- State is lost for: a short recording resumed at alignment or mixing (no clips:
  fails), one resumed at diarization or later without its checkpoint (mixed
  without background), a long one paused by the provider in overlapped
  translation (resumes at translation, no transcript: fails).
- The estimator's late write moves the row's stage back, and with it a resume.

Dubbing:

- A unit is taken over by the clip its first line names
  (`s5_voice_clone_tts.py:763`), though another of its lines may have been
  translated anew (`HalfRedone`).
- A merged clip is compared with the length of its first line only
  (`s6_temporal_alignment.py:97`).
- A required voice is a preset one for a speaker the context does not know, and
  for cosyvoice with enrollment switched off.

Accounts and keys:

- `consume_quota` adds to the value loaded at authentication (`stale`).
- A dispatch that failed for its caller may have been sent: its run can fail
  before the row is deleted, and both refund. A row whose refresh failed after
  its commit stays pending without message or object. A request that dies
  between consuming and rolling back keeps the quota (`broken`).
- A resume does not ask for the limit of active tasks.
- `verify_api_key` marks whatever key stands in the row when the probe returns
  (`overtaken`), and a change of the address alone keeps the mark
  (`user_api_key_service.py:60`; addresses are not modelled). The translation
  stage resolves the key again, so it may be charged to a newer one than the
  preflight has checked. A process trusts a revoked key until its verdict expires. A run
  resumed before translation is not asked for the translation key.

Page:

- Two overlapping polls read "paused"; the first is shown, the owner resumes,
  a fresh response shows "pending", and the second one takes the page back to
  "paused", where polling and socket stop (`frontend/src/hooks/useTaskProgress.ts:50`).
- A page that shows the end of a task neither polls nor listens
  (`useTaskProgress.ts:45`). When a message delivered again takes a failed row
  back to processing (`task_runtime_service.py:227`), the page goes on showing
  "failed", also when the second run completes the task, until it is opened
  anew: without `reopened` TLC finds that in `PageCatchesUp`. The comment at
  `task-store.ts:39-42`, that a failed task can return to processing, is true of
  the row and of a page that asks. Late responses of two ends may have the user
  told of one of them twice.
- What is published between snapshot and subscription is lost
  (`api/v1/tasks.py:181`); polling makes up for it.

## 6. Not modelled

- Login, SMS codes, tokens, WeChat: a few Redis keys with expiry, one request
  at a time. Speaker configuration and gender: pure functions over labels. API
  routers and schemas: no state. ETA and percentages: arithmetic over clocks.
- Audio: models, reference clips, cutting, volumes; matching speakers across
  chunks and cutting core segments of chunks, which decide content.
- The rate limiter of synthesis (`s5_voice_clone_tts.py:63`): waited for once per
  unit, while retries and fallbacks pass it by; it delays and changes no result.
- The voice sweep, a scan over several tasks in one session, messages from
  before generations, mock mode, `ws_manager` and `update_task_progress` (no
  caller), `long_audio.py:647-818` (dead).
- The encryption of keys, the HTTP of probes, prompts.
