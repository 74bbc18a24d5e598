SPECIFICATION FairSpec
CONSTANTS
  CPU = {c1, c2, c3}
  MaxLosses = 1
INVARIANTS DecExact UnlockNeverWaits NoLostWakeup
PROPERTIES IsALock Progress
