\* Two requests whose leases may expire while they work.
SPECIFICATION Spec
CONSTANTS
  Resumer = {r1, r2}
  Key = {"search", "send"}
  InitialPlan <- SearchThenSend
  RevisedPlan <- SearchThenSend
  MaxPlans = 2
  MaxSteps = 3
  MaxToolCalls = 3
  MaxCallAttempts = 2
  MaxFaults = 0
  SlowHolders = TRUE
  DeadlineMayPass = FALSE
  None = None
  Orphan = Orphan
SYMMETRY ResumerSymmetry
CHECK_DEADLOCK FALSE
INVARIANTS
  TypeOK
  ApprovalSpentOnce
  ExecutionsCharged
  CompletedMeansDone
PROPERTIES
  ImplementsLedger
  OnlyADecisionReopens
  DependenciesFirst
  UnknownOutcomeAwaitsReview
