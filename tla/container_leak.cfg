\* No fault at all: the context ends while the container is created.
CONSTANTS
  MaxAttempts = 1
  FaultKinds = {}
  MaxFaults = 0
SPECIFICATION HostSpec
INVARIANT NoContainerLeft
CHECK_DEADLOCK FALSE
