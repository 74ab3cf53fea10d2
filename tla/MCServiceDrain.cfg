SPECIFICATION Spec
CONSTANTS
  m = m
  Steers = {m}
  Requests = {"run", "resume"}
  MaxRequests = 3
  MaxRuns = 3
  MaxOpens = 2
  MaxWork = 1
PROPERTIES DrainedStartsNothing
CHECK_DEADLOCK FALSE
