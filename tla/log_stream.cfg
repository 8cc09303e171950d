\* Two attempts on one or two runners, with losses, delays and deaths.
CONSTANTS
  Runners = {r1, r2}
  NULL = NULL
  MaxAttempts = 2
  MaxLines = 2
  ChunkCap = 2
  MaxFaults = 2
  FaultKinds = {"lost", "late", "death", "silence"}
SPECIFICATION LogSpec
INVARIANTS LogsInOrder EveryLineIsKept
PROPERTY CloseReturns
CHECK_DEADLOCK FALSE
