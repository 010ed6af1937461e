\* Sandbox runs next to those of the backend; writes to the archive fail, a restart finds stale rows.
SPECIFICATION Spec
CONSTANTS
  p1 = p1  p2 = p2  d1 = d1  d2 = d2  w1 = w1  w2 = w2
  Product <- WithSandbox
  DevProducts <- Sandbox
  Worker <- OneWorker
  NoProduct = NoProduct
  MaxInflight = 2
  MaxDevInflight = 1
  MaxQuestionRounds = 0
  PublicStages <- OneStage
  Restorable = TRUE
  ArchiveMayFail = TRUE
  MaxRuns = 2
  MaxBatch = 2
  MaxReports = 1
  MaxCrashes = 1
SYMMETRY Symmetry
INVARIANTS
  CapacityMatchesWork
  NoStrandedSession
  WithinLimits
