\* An instance starts while a rollback of two steps runs.
CONSTANTS
  Instances = {i1}
  Files = 2
  Steps = 2
  MaxRollbacks = 1
  MaxCrashes = 0
  Overlap = TRUE
SPECIFICATION MSpec
INVARIANT SchemaAgrees
CHECK_DEADLOCK FALSE
