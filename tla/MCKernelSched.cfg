SPECIFICATION Spec
CONSTANTS
  read = read
  fetch = fetch
  write = write
  MaxCalls = 3
  Window = 1
  MaxTurns = 1
  MaxRetries = 0
  MaxInputs = 0
  MaxBoundaries = 1
  Tools = {read, write}
  SharedTools = {read}
  SafeTools = {read}
  EndTurnTools = {}
  PolicyChain = FALSE
  Compacts = TRUE
  Faults = {}
INVARIANTS
  TypeOK
  SpeculationIsSafe
  BarrierHolds
  AsksResolveFirst
  WindowAccounting
