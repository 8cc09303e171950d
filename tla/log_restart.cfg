\* A second attempt counts its chunks from 1 again.
CONSTANTS
  Runners = {r1, r2}
  NULL = NULL
  MaxAttempts = 2
  MaxLines = 2
  ChunkCap = 2
  MaxFaults = 1
  FaultKinds = {"death"}
SPECIFICATION LogSpec
INVARIANT AcceptedIsStored
CHECK_DEADLOCK FALSE
