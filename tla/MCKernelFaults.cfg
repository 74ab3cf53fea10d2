SPECIFICATION FairSpec
CONSTANTS
  read = read
  fetch = fetch
  write = write
  MaxCalls = 2
  Window = 1
  MaxTurns = 1
  MaxRetries = 1
  MaxInputs = 0
  MaxBoundaries = 0
  Tools = {read, write}
  SharedTools = {read}
  SafeTools = {read}
  EndTurnTools = {}
  PolicyChain = FALSE
  Compacts = FALSE
  Faults = {"abort", "store", "hook"}
INVARIANTS
  NoEffectBeforeIntent
  VerdictsRecordedOnce
  ExecutionsSettled
PROPERTIES
  AbortEndsRun
  ImplementsTurnLog
