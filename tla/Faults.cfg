\* One process may die, one message may be delivered twice.
CONSTANTS
  Workers = {w1, w2}
  Clients = {c1}
  Scanners = {}
  LastStage = 1
  PauseChecked = {1}
  ExpireOnCommit = TRUE
  MaxAutoResumes = 1
  MaxGen = 1
  MaxCrashes = 1
  MaxRedeliveries = 1
  MaxHelperDeaths = 0
  MaxSendFailures = 0
  MaxPauses = 0
SPECIFICATION Spec
SYMMETRY WorkerSymmetry
INVARIANTS OneExecutor LockHasRun MessagesBehind
PROPERTIES FencedRow
\* A settled task with no message left is a state the system rests in.
CHECK_DEADLOCK FALSE
