\* The defaults, in seconds; two of: a heartbeat hangs, the runner dies.
CONSTANTS
  AgentTimeout = 45
  ServerTimeout = 45
  Second = 1
  Delay = 2
  HTTPTimeout = 40
  MaxAge = 70
  FaultKinds = {"hang", "death"}
  MaxFaults = 2
SPECIFICATION TimingSpec
INVARIANTS TimingTypeOK LiveRunnerIsKept SilenceIsSeen CancelIsHeeded
