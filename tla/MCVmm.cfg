SPECIFICATION Spec
CONSTANTS
  CPU = {c1, c2}
  Boss = c1
  NoCPU = NoCPU
  Fanout = 2
  MaxPages = 12
  Batches = 2
  Layouts <- LayoutsRun
  Heap <- HeapRun
  TestPages = {6}
  Settings <- SettingsRun
INVARIANTS TypeOK MappedAsAsked PointersStable
PROPERTY BreakBeforeMake
CHECK_DEADLOCK FALSE
