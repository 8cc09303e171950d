\* Two attempts of one job on one machine: agents die, are reaped while they live so
\* that attempts overlap, and removals fail or stop half way.
CONSTANTS
  MaxAttempts = 2
  FaultKinds = {"death", "silence", "docker", "files"}
  MaxFaults = 3
SPECIFICATION HostSpec
INVARIANTS NoStateCarriedOver NoDirectoryLeft OwnContainer
PROPERTY AbandonedStops
CHECK_DEADLOCK FALSE
