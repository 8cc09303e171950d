\* One job, two runners; at most one of them dies or the scheduler is restarted.
CONSTANTS
  j1 = j1
  j2 = j2
  r1 = r1
  r2 = r2
  NULL = NULL
  Jobs = {j1}
  Runners = {r1, r2}
  Clients <- MCClients
  KeyOf <- KeyPerJob
  RunnerLabels <- MCRunnerLabels
  JobLabels <- MCLabels
  FaultKinds = {"agent", "scheduler"}
  MaxFaults = 1
  CrashPoints = {"recover", "dequeue", "load", "list", "assign", "assigning", "requeue", "ack"}
  SlowRequests = FALSE
SPECIFICATION Spec

INVARIANTS
  NoDoubleExecution
  ResultIsTheHolders
PROPERTIES
  EveryJobFinishes
