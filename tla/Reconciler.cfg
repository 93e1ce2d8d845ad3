\* The stall reconciler over a live worker whose heartbeat helper dies.
CONSTANTS
  Workers = {w1, w2}
  Clients = {}
  Scanners = {s1}
  LastStage = 1
  PauseChecked = {1}
  ExpireOnCommit = FALSE
  MaxAutoResumes = 1
  MaxGen = 2
  MaxCrashes = 0
  MaxRedeliveries = 0
  MaxHelperDeaths = 1
  MaxSendFailures = 0
  MaxPauses = 0
SPECIFICATION Spec
SYMMETRY WorkerSymmetry
INVARIANTS SettledQuiescent OneMessagePerGeneration
PROPERTIES FencedRow
\* A settled task with no message left is a state the system rests in.
CHECK_DEADLOCK FALSE
