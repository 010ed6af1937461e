\* Rows left behind by a failed write are restored as well.
SPECIFICATION Spec
CONSTANTS
  p1 = p1  p2 = p2  d1 = d1  d2 = d2  w1 = w1  w2 = w2
  Product <- Products
  DevProducts = {}
  Worker <- OneWorker
  NoProduct = NoProduct
  MaxInflight = 1
  MaxDevInflight = 1
  MaxQuestionRounds = 1
  PublicStages <- OneStage
  Restorable = TRUE
  ArchiveMayFail = TRUE
  MaxRuns = 2
  MaxBatch = 1
  MaxReports = 0
  MaxCrashes = 1
SYMMETRY Symmetry
INVARIANTS RestoredWithinLimit
