\* A restart of the AI server after writes to its archive have failed.
SPECIFICATION Spec
CONSTANTS
  MaxWaiting = 1
  p1 = p1  p2 = p2  a1 = a1
  NoRow = NoRow
  NoCall = NoCall
  Product <- First
  AsyncCaller <- Threads
  MaxRuns = 3
  MaxRounds <- Rounds
  MaxProgress <- Silent
  MaxRetries <- Silent
  ArchiveMayFail = TRUE
  MaxLate = 0
  MaxCrashes = 1
INVARIANTS OnlyWrongRequestsConflict
\* Every product may have ended.
CHECK_DEADLOCK FALSE
