\* Three runners, one with a GPU, that come and go.
CONSTANTS
  Runners = {1, 2, 3}
  LabelsOf <- GpuPool
  Needs = {{"linux"}, {"gpu"}}
  NULL = NULL
  Unreliable = TRUE
SPECIFICATION ChoiceSpec
INVARIANTS ChoiceIsLeastRecent PassedOverOnce
PROPERTY EveryRunnerWorks
CHECK_DEADLOCK FALSE
