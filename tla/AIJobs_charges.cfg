SPECIFICATION FairSpec
CONSTANTS
  j1 = j1
  j2 = j2
  w1 = w1
  w2 = w2
  NoJob = NoJob
  Jobs <- OneJob
  Workers <- TwoWorkers
  MaxCredits = 3
  MaxUsage = 3
  MaxRevision = 2
  MaxCrashes = 2
PROPERTIES
  ChargesAsAuthorized
  QueueDrains
