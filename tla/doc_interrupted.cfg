SPECIFICATION Spec
CONSTANTS
  Resumer = {r1}
  Key = {"search", "analyze", "recommend"}
  InitialPlan <- ReadThenAnalyze
  RevisedPlan <- ReadThenAnalyze
  MaxPlans = 2
  MaxSteps = 5
  MaxToolCalls = 5
  MaxCallAttempts = 3
  MaxFaults = 1
  SlowHolders = FALSE
  DeadlineMayPass = FALSE
  None = None
  Orphan = Orphan
CHECK_DEADLOCK FALSE
INVARIANT
  FailedStepWasTried
