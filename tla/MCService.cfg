SPECIFICATION Spec
CONSTANTS
  m = m
  Steers = {m}
  Requests = {"run", "runFirst", "resume", "reopen", "abort", "approve"}
  MaxRequests = 3
  MaxRuns = 3
  MaxOpens = 2
  MaxWork = 1
INVARIANTS
  OneOpenRun
  RunsAreKnown
  SteersHaveOneFate
PROPERTIES
  RunsEnd
CHECK_DEADLOCK FALSE
