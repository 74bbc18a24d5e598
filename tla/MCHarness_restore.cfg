SPECIFICATION Spec
CONSTANTS
  NO_CPUS = 3
  no_runs = 3
  batch_size = 2
  MAX_ASID = 2
  Tests <- RestoreTests
  limit = 2
  Interesting <- InterestingResults
INVARIANT PagetablesRestored
CHECK_DEADLOCK FALSE
