\* Two products in one request and one row of diagnoses, each diagnosed a second time.
SPECIFICATION Spec
CONSTANTS
  MaxWaiting = 1
  p1 = p1  p2 = p2  a1 = a1
  NoRow = NoRow
  NoCall = NoCall
  Product <- Products
  AsyncCaller <- Threads
  MaxRuns = 3
  MaxRounds <- Silent
  MaxProgress <- Silent
  MaxRetries <- OnceEach
  ArchiveMayFail = FALSE
  MaxLate = 0
  MaxCrashes = 0
INVARIANTS OverallStatus
\* Every product may have ended.
CHECK_DEADLOCK FALSE
