\* The reconciler under fairness, with the session factory of the tests
\* (expire_on_commit=False).
CONSTANTS
  Workers = {w1}
  Clients = {}
  Scanners = {s1}
  LastStage = 1
  PauseChecked = {1}
  ExpireOnCommit = FALSE
  MaxAutoResumes = 1
  MaxGen = 3
  MaxCrashes = 1
  MaxRedeliveries = 0
  MaxHelperDeaths = 0
  MaxSendFailures = 1
  MaxPauses = 0
SPECIFICATION FairSpec
PROPERTIES StalledRunEnds
\* A settled task with no message left is a state the system rests in.
CHECK_DEADLOCK FALSE
