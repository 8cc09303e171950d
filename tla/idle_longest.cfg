\* Two runners, alike and reliable.
CONSTANTS
  Runners = {1, 2}
  LabelsOf <- AllAlike
  Needs = {{"linux"}}
  NULL = NULL
  Unreliable = FALSE
SPECIFICATION ChoiceSpec
INVARIANT IdleLongestWins
CHECK_DEADLOCK FALSE
