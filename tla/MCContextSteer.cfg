SPECIFICATION Spec
CONSTANTS
  MaxLog = 8
  MaxInputs = 3
  MaxTurnCalls = 2
  MaxProse = 1
  MaxAbandons = 1
  MaxCuts = 2
  KeepRounds = 1
  KeepResults = 0
  CallIds = {}
  DecidesFirst = TRUE
  HookSays = {"kept", "vetoed"}
  MaxVetoes = 1
PROPERTY VetoDropsOneInput
CHECK_DEADLOCK FALSE
