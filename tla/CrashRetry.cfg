\* A worker dies; the reconciler is off, as by default.
CONSTANTS
  Workers = {w1}
  Clients = {}
  Scanners = {}
  LastStage = 1
  PauseChecked = {1}
  ExpireOnCommit = TRUE
  MaxAutoResumes = 1
  MaxGen = 0
  MaxCrashes = 1
  MaxRedeliveries = 0
  MaxHelperDeaths = 0
  MaxSendFailures = 0
  MaxPauses = 0
SPECIFICATION Spec
INVARIANTS Attended
\* A settled task with no message left is a state the system rests in.
CHECK_DEADLOCK FALSE
