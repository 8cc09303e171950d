\* One job, taken back at most once; whatever goes wrong between the API and GitHub.
CONSTANTS
  Jobs = {j1}
  Runners = {r1}
  KeyOf <- KeyPerJob
  NULL = NULL
  MaxTakeBacks = 1
  Attempts = 3
  FaultKinds = {"5xx", "hang", "refused", "db", "api"}
  MaxFaults = 2
SPECIFICATION StatusSpec
INVARIANTS NoFalseOutcome
PROPERTY OutcomeIsPosted
CHECK_DEADLOCK FALSE
