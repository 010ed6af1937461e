\* A finished session is expected to have been announced.
SPECIFICATION Spec
CONSTANTS
  p1 = p1  p2 = p2  d1 = d1  d2 = d2  w1 = w1  w2 = w2
  Product <- OneProduct
  DevProducts = {}
  Worker <- OneWorker
  NoProduct = NoProduct
  MaxInflight = 2
  MaxDevInflight = 1
  MaxQuestionRounds = 1
  PublicStages <- OneStage
  Restorable = TRUE
  ArchiveMayFail = FALSE
  MaxRuns = 1
  MaxBatch = 1
  MaxReports = 0
  MaxCrashes = 1
SYMMETRY Symmetry
INVARIANTS FinishedWereAnnounced
