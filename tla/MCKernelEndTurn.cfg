SPECIFICATION Spec
CONSTANTS
  read = read
  fetch = fetch
  write = write
  MaxCalls = 1
  Window = 4
  MaxTurns = 2
  MaxRetries = 0
  MaxInputs = 0
  MaxBoundaries = 0
  Tools = {read}
  SharedTools = {read}
  SafeTools = {read}
  EndTurnTools = {read}
  PolicyChain = FALSE
  Compacts = FALSE
  Faults = {}
INVARIANTS
  EndTurnHonoured
