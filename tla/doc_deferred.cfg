\* A selection whose publish failed does not stay deferred.
SPECIFICATION Spec
CONSTANTS
  MaxRuns = 1
  Job = {a}
  Worker = {w1}
  Actors = {"session"}
  CompleteScan = TRUE
  MaxDeliver = 2
  MaxResultDeliver = 2
  MaxChunks = 1
  MaxTasks = 1
  MaxFaults = 1
  SlowConsumers = FALSE
  ApiMayCrash = FALSE
PROPERTY DeferredStays
CHECK_DEADLOCK FALSE
