\* Two starts of the batch program over one cache, with one kill or failed write.
SPECIFICATION FairSpec
CONSTANTS
  NumWindows = 2
  Batches <- MCBatches
  MaxRetries = 2
  SemanticAttempts = 2
  RepairAttempts = 1
  MaxRuns = 2
  MaxMishaps = 1
  NoEntry = NoEntry
CHECK_DEADLOCK FALSE
INVARIANTS EveryMemoryAccounted
PROPERTIES OutputStays RunEnds
