SPECIFICATION Spec
CONSTANTS
  NoVar = NoVar
  Jobs <- SomeJobs
  Regions = {0, 14}
  Offsets <- SomeOffsets
INVARIANTS PinsHold AcceptedIsUsable
CHECK_DEADLOCK FALSE
