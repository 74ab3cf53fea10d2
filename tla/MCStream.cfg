SPECIFICATION Spec
CONSTANTS
  Followers = {"follower"}
  Callers = {"caller"}
  Kinds = {"text", "hidden", "terminal"}
  MaxLog = 3
  MaxClients = 1
  MaxConnections = 2
  MaxDeaths = 1
  MayAnswerAside = TRUE
INVARIANTS
  SeenOnceInOrder
  MissesNothing
  RunStreamIsWhole
PROPERTIES
  CatchesUp
CHECK_DEADLOCK FALSE
