SPECIFICATION Spec
CONSTANTS
  read = read
  fetch = fetch
  write = write
  MaxCalls = 2
  Window = 4
  MaxTurns = 2
  MaxRetries = 0
  MaxInputs = 1
  MaxBoundaries = 0
  Tools = {read, write}
  SharedTools = {read}
  SafeTools = {read}
  EndTurnTools = {read}
  PolicyChain = TRUE
  Compacts = FALSE
  Faults = {"abort"}
INVARIANTS
  NextRequestAnswersCalls
  DraftsSettled
