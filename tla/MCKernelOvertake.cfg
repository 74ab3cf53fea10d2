SPECIFICATION Spec
CONSTANTS
  read = read
  fetch = fetch
  write = write
  MaxCalls = 3
  Window = 4
  MaxTurns = 1
  MaxRetries = 0
  MaxInputs = 0
  MaxBoundaries = 0
  Tools = {write}
  SharedTools = {}
  SafeTools = {}
  EndTurnTools = {}
  PolicyChain = FALSE
  Compacts = FALSE
  Faults = {}
INVARIANTS
  ExclusiveInOrder
