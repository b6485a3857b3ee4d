SPECIFICATION Spec
SYMMETRY Symmetry
CONSTANTS
  j1 = j1
  j2 = j2
  w1 = w1
  w2 = w2
  NoJob = NoJob
  Jobs <- TwoJobs
  Workers <- TwoWorkers
  MaxCredits = 2
  MaxUsage = 2
  MaxRevision = 1
  MaxCrashes = 0
INVARIANTS
  OneWorkerPerJob
  QueueMatchesStatus
  OneActiveJob
  StopIsHonoured
  SettlementFits
  FinishedIsSettled
