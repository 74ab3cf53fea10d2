SPECIFICATION Spec
CONSTANTS
  read = read
  fetch = fetch
  write = write
  MaxCalls = 1
  Window = 4
  MaxTurns = 3
  MaxRetries = 0
  MaxInputs = 0
  MaxBoundaries = 1
  Tools = {write}
  SharedTools = {}
  SafeTools = {}
  EndTurnTools = {}
  PolicyChain = FALSE
  Compacts = TRUE
  Faults = {}
INVARIANTS
  NextRequestAnswersCalls
