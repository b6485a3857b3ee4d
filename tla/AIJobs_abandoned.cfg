SPECIFICATION FairSpec
CONSTANTS
  j1 = j1
  j2 = j2
  w1 = w1
  w2 = w2
  NoJob = NoJob
  Jobs <- OneJob
  Workers <- TwoWorkers
  MaxCredits = 2
  MaxUsage = 1
  MaxRevision = 1
  MaxCrashes = 1
PROPERTIES
  AbandonedJobsEnd
