\* One job, two runners, one fault of any kind anywhere.
CONSTANTS
  j1 = j1
  j2 = j2
  r1 = r1
  r2 = r2
  NULL = NULL
  Jobs = {j1}
  Runners = {r1, r2}
  Clients <- MCClients
  KeyOf <- KeyPerJob
  RunnerLabels <- MCRunnerLabels
  JobLabels <- MCLabels
  FaultKinds = {"agent", "network", "reply", "client", "scheduler", "api", "redis", "db"}
  MaxFaults = 1
  CrashPoints = {"recover", "dequeue", "load", "list", "assign", "assigning", "dispatch", "undo", "undoing", "requeue", "push", "ack", "reaping"}
  SlowRequests = TRUE
SPECIFICATION Spec

INVARIANTS
  SuccessWasEarned
  WorkIsInflight
PROPERTIES
  LostLeaseStopsWork
  CancelRescues
