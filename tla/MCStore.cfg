CONSTANTS
  j1 = j1
  j2 = j2
  r1 = r1
  r2 = r2
  c1 = c1
  c2 = c2
  NULL = NULL
  Jobs = {j1, j2}
  Runners = {r1, r2}
  Clients = {c1, c2}
  KeyOf <- MCKeyOf
SPECIFICATION StoreSpec
SYMMETRY Symmetry
INVARIANTS
  StoreTypeOK
  OwnerMatchesStatus
  BusyIffHolding
  OneActivePerKey
PROPERTIES
  RunnerMovesAreLegal
  ImplementsLifecycle
