SPECIFICATION Spec
CONSTANTS
  Kinds <- AllKinds
  MaxCalls = 1
  MaxRuns = 1
  MaxBreaks = 2
  MaxInputs = 1
  MaxTurns = 2
  MaxVoids = 1
  Policies = 0
  Faults = {"leave", "hook"}
INVARIANTS
  HandlerAtMostOnce
  RequestsAnswerCalls
  ApprovedBeforeEffect
  OneOfEach
  RefusalMeansNoEffect
  CommitBeforeEffect
