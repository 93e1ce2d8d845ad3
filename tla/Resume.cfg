\* Pause, resume, delete and refused dispatches; no process fails.
CONSTANTS
  Workers = {w1, w2}
  Clients = {c1}
  Scanners = {}
  LastStage = 2
  PauseChecked = {1, 2}
  ExpireOnCommit = TRUE
  MaxAutoResumes = 1
  MaxGen = 2
  MaxCrashes = 0
  MaxRedeliveries = 0
  MaxHelperDeaths = 0
  MaxSendFailures = 1
  MaxPauses = 1
SPECIFICATION Spec
SYMMETRY WorkerSymmetry
INVARIANTS TypeOK SettledQuiescent PauseLands RefundedIffFailed SourceKept CompletedHasOutput
PROPERTIES FollowsLifecycle
\* A settled task with no message left is a state the system rests in.
CHECK_DEADLOCK FALSE
