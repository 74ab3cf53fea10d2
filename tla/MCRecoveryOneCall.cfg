SPECIFICATION FairSpec
CONSTANTS
  Kinds <- AllKinds
  MaxCalls = 1
  MaxRuns = 2
  MaxBreaks = 1
  MaxInputs = 2
  MaxTurns = 1
  MaxVoids = 0
  Policies = 2
  Faults = {"abort", "leave"}
INVARIANTS
  HandlerAtMostOnce
  ApprovedBeforeEffect
  OneOfEach
  RefusalMeansNoEffect
PROPERTIES
  OpenRunEnds
