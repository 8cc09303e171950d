CONSTANTS
  j1 = j1
  j2 = j2
  r1 = r1
  r2 = r2
  NULL = NULL
  Jobs = {j1}
  Runners = {r1, r2}
  Clients <- MCClients
  KeyOf <- KeyPerJob
  RunnerLabels <- MCRunnerLabels
  JobLabels <- MCLabels
  FaultKinds = {"db"}
  MaxFaults = 1
  CrashPoints = {}
  SlowRequests = FALSE
SPECIFICATION Spec
SYMMETRY Symmetry
PROPERTIES
  AbandonedJobHasMovedOn
