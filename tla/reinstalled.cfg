\* The app is reinstalled while the old id is cached.
CONSTANTS
  Repos = {p}
  Callers = {c1}
  Lifetime = 4
  Margin = 1
  MaxUse = 1
  TokenAttempts = 3
  Flaky = FALSE
  MaxInstalls = 2
  MaxTime = 1
SPECIFICATION AppSpec
PROPERTY SelfCorrects
CHECK_DEADLOCK FALSE
