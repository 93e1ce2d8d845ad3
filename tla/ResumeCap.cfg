\* The reconciler with the session factory of core/database.py.
CONSTANTS
  Workers = {w1}
  Clients = {}
  Scanners = {s1}
  LastStage = 1
  PauseChecked = {1}
  ExpireOnCommit = TRUE
  MaxAutoResumes = 1
  MaxGen = 3
  MaxCrashes = 1
  MaxRedeliveries = 0
  MaxHelperDeaths = 0
  MaxSendFailures = 0
  MaxPauses = 0
SPECIFICATION FairSpec
PROPERTIES GivenUpTaskFails
\* A settled task with no message left is a state the system rests in.
CHECK_DEADLOCK FALSE
