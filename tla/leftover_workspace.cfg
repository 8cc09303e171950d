\* An agent dies and the job comes back to its machine.
CONSTANTS
  MaxAttempts = 2
  FaultKinds = {"death"}
  MaxFaults = 1
SPECIFICATION HostSpec
INVARIANT FreshWorkspace
CHECK_DEADLOCK FALSE
