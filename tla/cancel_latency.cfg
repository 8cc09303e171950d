\* The defaults, in half seconds, no fault.
CONSTANTS
  AgentTimeout = 90
  ServerTimeout = 90
  Second = 2
  Delay = 4
  HTTPTimeout = 80
  MaxAge = 200
  FaultKinds = {}
  MaxFaults = 0
SPECIFICATION TimingSpec
INVARIANT CancelWithinBusyInterval
