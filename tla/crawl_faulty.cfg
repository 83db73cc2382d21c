\* Two runs of one board begun by the timer and by scan requests; one fault anywhere.
SPECIFICATION Spec
CONSTANTS
  MaxRuns = 2
  Job = {a, b}
  Worker = {w1}
  Actors = {"timer", "scan"}
  CompleteScan = TRUE
  MaxDeliver = 2
  MaxResultDeliver = 2
  MaxChunks = 2
  MaxTasks = 2
  MaxFaults = 1
  SlowConsumers = FALSE
  ApiMayCrash = FALSE
INVARIANTS TypeOK MissingMeansUnseen ClosedByTwoRuns
SYMMETRY JobSymmetry
CHECK_DEADLOCK FALSE
