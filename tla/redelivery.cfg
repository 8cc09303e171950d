CONSTANTS
  j1 = j1
  j2 = j2
  r1 = r1
  r2 = r2
  NULL = NULL
  Jobs = {j1, j2}
  Runners = {r1}
  Clients <- MCClients
  KeyOf <- OneKey
  RunnerLabels <- MCRunnerLabels
  JobLabels <- MCLabels
  FaultKinds = {}
  MaxFaults = 0
  CrashPoints = {}
  SlowRequests = FALSE
SPECIFICATION Spec
INVARIANTS
  NoSecondBuild
