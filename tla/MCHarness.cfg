SPECIFICATION FairSpec
CONSTANTS
  NO_CPUS = 3
  no_runs = 3
  batch_size = 2
  MAX_ASID = 2
  Tests <- SpareTests
  limit = 2
  Interesting <- InterestingResults
INVARIANTS Isolated PrefetchNeverFails HistogramExact RestoredWithoutSpares NeverAllHeldUp
PROPERTIES RegroupsQuietly Completes
CHECK_DEADLOCK FALSE
