\* The defaults, in seconds; one heartbeat request gets no answer.
CONSTANTS
  AgentTimeout = 45
  ServerTimeout = 45
  Second = 1
  Delay = 2
  HTTPTimeout = 40
  MaxAge = 120
  FaultKinds = {"hang"}
  MaxFaults = 1
SPECIFICATION TimingSpec
INVARIANT HungRunnerIsKept
