\* One request after another, with no promise that another comes; a crash or a
\* failed transaction at any point, and a wall-clock budget that may run out.
SPECIFICATION FairSpec
CONSTANTS
  Resumer = {r1}
  Key = {"search", "analyze", "send", "scan", "odd"}
  InitialPlan <- AnalyzeThenSend
  RevisedPlan <- AgainThenOdd
  MaxPlans = 3
  MaxSteps = 4
  MaxToolCalls = 5
  MaxCallAttempts = 4
  MaxFaults = 1
  SlowHolders = FALSE
  DeadlineMayPass = TRUE
  None = None
  Orphan = Orphan
CHECK_DEADLOCK FALSE
INVARIANT
  LoopPrevented
PROPERTIES
  CancellationHonoured
  
  
