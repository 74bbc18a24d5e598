SPECIFICATION FairSpec
CONSTANTS
  NO_CPUS = 3
  MaxJobs = 2
INVARIANTS QuietAtReturn NoLostWakeup
PROPERTIES Dispatched AlwaysReturns
