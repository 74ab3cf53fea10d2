SPECIFICATION Spec
CONSTANTS
  Kinds <- EffectsOnly
  MaxCalls = 1
  MaxRuns = 1
  MaxBreaks = 1
  MaxInputs = 1
  MaxTurns = 2
  MaxVoids = 1
  Policies = 2
  Faults = {}
INVARIANTS
  VoidedNeverExecutes
