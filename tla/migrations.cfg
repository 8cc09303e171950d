\* Three instances start together; rollbacks run while no instance migrates.
CONSTANTS
  Instances = {i1, i2, i3}
  Files = 3
  Steps = 2
  MaxRollbacks = 2
  MaxCrashes = 2
  Overlap = FALSE
SPECIFICATION MSpec
INVARIANTS SchemaAgrees AppliedInOrder AppliedOnce
PROPERTY RaceHasAWinner
CHECK_DEADLOCK FALSE
