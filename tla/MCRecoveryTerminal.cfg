SPECIFICATION Spec
CONSTANTS
  Kinds <- EffectsOnly
  MaxCalls = 1
  MaxRuns = 2
  MaxBreaks = 0
  MaxInputs = 2
  MaxTurns = 1
  MaxVoids = 0
  Policies = 0
  Faults = {"abort"}
INVARIANTS
  TerminalIsLast
