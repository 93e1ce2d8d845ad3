\* Short and long recordings: a run may die, be paused, lose a checkpoint and fail.
CONSTANTS
  NSegs = 2
  MaxInFlight = 1
  StageWorkers = 1
  SynthBatch = 1
  Settings <- ShortAndLong
  MaxCrashes = 1
  MaxPauses = 2
  MaxUnsaved = 1
  MaxErrors = 1
SPECIFICATION Spec
INVARIANTS TypeOK CompletedSpeaksTranslation PaidOncePerRun FailsOnlyFromLostState
\* A settled task is a state the system rests in.
CHECK_DEADLOCK FALSE
