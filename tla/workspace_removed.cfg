\* A live agent is reaped and the job comes to another agent of the machine.
CONSTANTS
  MaxAttempts = 2
  FaultKinds = {"silence"}
  MaxFaults = 1
SPECIFICATION HostSpec
INVARIANT WorkspaceStays
CHECK_DEADLOCK FALSE
