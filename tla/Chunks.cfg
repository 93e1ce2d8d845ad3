\* A long recording with more chunks than may be in flight: results, errors and pause
\* requests in every order, no crash.
CONSTANTS
  NSegs = 3
  MaxInFlight = 2
  StageWorkers = 1
  SynthBatch = 1
  Settings <- LongOnly
  MaxCrashes = 0
  MaxPauses = 1
  MaxUnsaved = 0
  MaxErrors = 1
SPECIFICATION Spec
INVARIANTS InFlightBounded PoolsDrained
PROPERTIES RunSettles
\* A settled task is a state the system rests in.
CHECK_DEADLOCK FALSE
