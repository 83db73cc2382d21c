SPECIFICATION Spec
CONSTANTS
  Resumer = {r1, r2}
  Key = {"send"}
  InitialPlan <- JustSend
  RevisedPlan <- JustSend
  MaxPlans = 1
  MaxSteps = 3
  MaxToolCalls = 3
  MaxCallAttempts = 2
  MaxFaults = 0
  SlowHolders = TRUE
  DeadlineMayPass = FALSE
  None = None
  Orphan = Orphan
CHECK_DEADLOCK FALSE
PROPERTY
  EveryTransitionLeaseProtected
