SPECIFICATION Spec
CONSTANTS
  Kinds <- EffectsOnly
  MaxCalls = 2
  MaxRuns = 1
  MaxBreaks = 1
  MaxInputs = 1
  MaxTurns = 1
  MaxVoids = 1
  Policies = 2
  Faults = {}
INVARIANTS
  CommitBeforeEffect
  RequestsAnswerCalls
