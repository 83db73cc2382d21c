SPECIFICATION Spec
CONSTANTS
  Resumer = {r1}
  Key = {"scan"}
  InitialPlan <- ScanOnly
  RevisedPlan <- ScanOnly
  MaxPlans = 2
  MaxSteps = 14
  MaxToolCalls = 14
  MaxCallAttempts = 10
  MaxFaults = 0
  SlowHolders = FALSE
  DeadlineMayPass = FALSE
  None = None
  Orphan = Orphan
CHECK_DEADLOCK FALSE
INVARIANT
  PollNeverRefused
