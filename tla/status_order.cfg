\* No fault at all: reports overtake each other.
CONSTANTS
  Jobs = {j1}
  Runners = {r1}
  KeyOf <- KeyPerJob
  NULL = NULL
  MaxTakeBacks = 0
  Attempts = 3
  FaultKinds = {}
  MaxFaults = 0
SPECIFICATION StatusSpec
INVARIANT OutcomeIsShown
CHECK_DEADLOCK FALSE
