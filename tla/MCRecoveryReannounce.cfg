SPECIFICATION Spec
CONSTANTS
  Kinds <- EffectsOnly
  MaxCalls = 1
  MaxRuns = 1
  MaxBreaks = 1
  MaxInputs = 1
  MaxTurns = 1
  MaxVoids = 0
  Policies = 2
  Faults = {}
INVARIANTS
  StoredOnce
