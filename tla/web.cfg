\* The modules of the web application, one at a time.
SPECIFICATION WebSpec
CONSTANTS
  Tab = {t1, t2}
  MaxEdits = 3
  AgentEdit = {a1}
  MaxRevision = 4
  MaxQueue = 2
  MaxOpens = 2
  MaxLost = 1
  Nothing = Nothing
  Stage = {"Saved", "Preparing"}
  MaxChanges = 3
  MaxMoves = 1
  MaxFlights = 2
  MaxFailures = 1
  MaxReloads = 1
  Keep = Keep
  Job = {j1}
  AgentKey = {k1}
  MaxEditsMade = 3
  MaxAlerts = 2
  MaxSessions = 2
  MaxRerankings = 1
  MaxPages = 2
  MaxCalls = 2
  MaxDrops = 1
  Listing <- Listings
  MaxCards = 2
  MaxArrivals = 4
  Unset = Unset
  MaxOpenings = 2
  MaxRequests = 1
  DigestRequest = {r1, r2}
  Interval = 2
  MaxTime = 4
  MaxLosses = 1
  Executors = 2
  Workers = 2
  Concurrency = {1, 2}
  MaxBatches = 4
  MaxRunCalls = 3
  MaxFaults = 1
  ToolStep = {"create_search_strategy", "revise_search_strategy", "prepare_application", "prepare_interview", "update_application_state", "request_source_scan",
              "get_application_state", "search_jobs"}
  RunSteps = 4
  ArtifactType = {"evaluation", "resume"}
  MaxTries = 2
  MaxHitches = 1
CHECK_DEADLOCK FALSE
INVARIANTS
  WebTypeOK
  SavedMeansStored
  ScreenMeetsRow
  DismissalsMatch
  StrategiesWellFormed
  ShownTogether
  RestoreYields
  LineageEarned
  StepHasItsData
  OneDigestAWeek
  MarkedMeansDelivered
  AttemptsCharged
  BatchesSuffice
  PreparedMeansComplete
  MovesAreRecorded
  MovesLead
PROPERTIES
  SavedEditsStay
  ImplementsDocument
  UnsavedIsNoticed
  DoneIsShown
  OnlyWantedDigests
  ResultsKept
