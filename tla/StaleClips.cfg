\* A short recording paused twice and killed once.
CONSTANTS
  NSegs = 1
  MaxInFlight = 1
  StageWorkers = 1
  SynthBatch = 1
  Settings <- ShortOnly
  MaxCrashes = 1
  MaxPauses = 2
  MaxUnsaved = 0
  MaxErrors = 0
SPECIFICATION Spec
INVARIANTS SkipsOnlyValidResults
\* A settled task is a state the system rests in.
CHECK_DEADLOCK FALSE
