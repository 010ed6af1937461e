\* One product, with questions and a second diagnosis: everything is lost, late and repeated,
\* the AI server restarts and writes to its archive fail.
SPECIFICATION Spec
CONSTANTS
  MaxWaiting = 1
  p1 = p1  p2 = p2  a1 = a1
  NoRow = NoRow
  NoCall = NoCall
  Product <- First
  AsyncCaller <- Threads
  MaxRuns = 3
  MaxRounds <- Rounds
  MaxProgress <- Silent
  MaxRetries <- Retries
  ArchiveMayFail = TRUE
  MaxLate = 1
  MaxCrashes = 1
INVARIANTS AsksWhatAIWaitsFor FirstResumeFits ResultOfLastRun RunIdFitsStatus
\* Every product may have ended.
CHECK_DEADLOCK FALSE
