\* One run, crawled once, closes a job: its final chunk is saved twice.
SPECIFICATION Spec
CONSTANTS
  MaxRuns = 2
  Job = {a}
  Worker = {w1}
  Actors = {"timer"}
  CompleteScan = TRUE
  MaxDeliver = 2
  MaxResultDeliver = 2
  MaxChunks = 1
  MaxTasks = 2
  MaxFaults = 1
  SlowConsumers = FALSE
  ApiMayCrash = FALSE
INVARIANT TwoAbsences
CHECK_DEADLOCK FALSE
