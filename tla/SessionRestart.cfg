\* A crash or a drain at any point, and jobs that hang for ever, with a database that works.
SPECIFICATION FairSpec
CONSTANTS
  p1 = p1  p2 = p2  d1 = d1  d2 = d2  w1 = w1  w2 = w2
  Product <- Products
  DevProducts = {}
  Worker <- OneWorker
  NoProduct = NoProduct
  MaxInflight = 2
  MaxDevInflight = 1
  MaxQuestionRounds = 1
  PublicStages <- OneStage
  Restorable = TRUE
  ArchiveMayFail = FALSE
  MaxRuns = 2
  MaxBatch = 1
  MaxReports = 0
  MaxCrashes = 1
INVARIANTS ArchiveMirrorsStore EndingIsLast
PROPERTIES EveryRunEnds EveryEndIsTold
