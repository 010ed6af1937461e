\* One product and three runs of it, two workers: late threads, questions and answers; no crash.
SPECIFICATION Spec
CONSTANTS
  p1 = p1  p2 = p2  d1 = d1  d2 = d2  w1 = w1  w2 = w2
  Product <- OneProduct
  DevProducts = {}
  Worker <- TwoWorkers
  NoProduct = NoProduct
  MaxInflight = 2
  MaxDevInflight = 1
  MaxQuestionRounds = 1
  PublicStages <- OneStage
  Restorable = TRUE
  ArchiveMayFail = FALSE
  MaxRuns = 3
  MaxBatch = 1
  MaxReports = 0
  MaxCrashes = 0
SYMMETRY Symmetry
INVARIANTS
  TypeOK
  FuturesAreTheRuns
  TimesOutOnlyOverdue
  QuestionRoundsBounded
  WithinLimits
PROPERTIES
  LifecycleSpec
