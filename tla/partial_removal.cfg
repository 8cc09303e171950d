\* A live agent is reaped and cannot remove all that its container wrote; the job comes
\* back to the machine.
CONSTANTS
  MaxAttempts = 2
  FaultKinds = {"silence", "files"}
  MaxFaults = 2
SPECIFICATION HostSpec
INVARIANT NothingLeftToFind
CHECK_DEADLOCK FALSE
