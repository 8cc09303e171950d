\* Two goroutines, one reinstallation; no use of a token outlasts the margin.
CONSTANTS
  Repos = {p}
  Callers = {c1, c2}
  Lifetime = 3
  Margin = 1
  MaxUse = 1
  TokenAttempts = 3
  Flaky = TRUE
  MaxInstalls = 2
  MaxTime = 5
SPECIFICATION AppSpec
INVARIANTS TokenFits NeverExpiresInUse
CHECK_DEADLOCK FALSE
