CONSTANTS
  j1 = j1
  j2 = j2
  r1 = r1
  r2 = r2
  NULL = NULL
  Jobs = {j1}
  Runners = {r1, r2}
  Clients <- MCClients
  KeyOf <- KeyPerJob
  RunnerLabels <- MCRunnerLabels
  JobLabels <- MCLabels
  FaultKinds = {"scheduler"}
  MaxFaults = 1
  CrashPoints = {"recover", "dequeue", "load", "list", "assign", "assigning", "dispatch", "undo", "undoing", "requeue", "push", "ack", "reaping"}
  SlowRequests = FALSE
SPECIFICATION Spec
SYMMETRY Symmetry
INVARIANTS
  QueuedJobIsQueued
