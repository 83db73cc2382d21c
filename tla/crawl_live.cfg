\* A search session and its runs, fairly scheduled, with one fault anywhere.
SPECIFICATION FairSpec
CONSTANTS
  MaxRuns = 2
  Job = {a}
  Worker = {w1}
  Actors = {"session"}
  CompleteScan = TRUE
  MaxDeliver = 2
  MaxResultDeliver = 2
  MaxChunks = 1
  MaxTasks = 2
  MaxFaults = 1
  SlowConsumers = FALSE
  ApiMayCrash = TRUE
PROPERTIES RunEnds SessionSettles
CHECK_DEADLOCK FALSE
