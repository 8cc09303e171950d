\* Two jobs on two runners; machines die and the scheduler is restarted.
CONSTANTS
  j1 = j1
  j2 = j2
  r1 = r1
  r2 = r2
  NULL = NULL
  Jobs = {j1, j2}
  Runners = {r1, r2}
  Clients <- MCClients
  KeyOf <- KeyPerJob
  RunnerLabels <- MCRunnerLabels
  JobLabels <- MCLabels
  FaultKinds = {"agent", "scheduler"}
  MaxFaults = 2
  CrashPoints = {"recover", "dequeue", "load", "list", "assign", "assigning", "requeue", "ack"}
  SlowRequests = FALSE
SPECIFICATION Spec
SYMMETRY Symmetry
CHECK_DEADLOCK FALSE
INVARIANTS
  QueuedJobIsQueued
  AssignedJobIsDelivered
  RunningJobIsExecuted
  RowsAgree
  BusyRunnerIsReleased
