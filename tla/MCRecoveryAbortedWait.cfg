SPECIFICATION Spec
CONSTANTS
  Kinds <- EffectsOnly
  MaxCalls = 2
  MaxRuns = 2
  MaxBreaks = 1
  MaxInputs = 2
  MaxTurns = 1
  MaxVoids = 0
  Policies = 0
  Faults = {"abort"}
INVARIANTS
  RequestsAnswerCalls
