\* One product: requests and callbacks are lost, late and repeated.
SPECIFICATION FairSpec
CONSTANTS
  MaxWaiting = 1
  p1 = p1  p2 = p2  a1 = a1
  NoRow = NoRow
  NoCall = NoCall
  Product <- First
  AsyncCaller <- Threads
  MaxRuns = 3
  MaxRounds <- Rounds
  MaxProgress <- Progress
  MaxRetries <- Retries
  ArchiveMayFail = FALSE
  MaxLate = 1
  MaxCrashes = 0
PROPERTIES ProgressForward LifecycleSpec EveryProductSettles
\* Every product may have ended.
CHECK_DEADLOCK FALSE
