SPECIFICATION Spec
CONSTANTS
  CPU = {c1, c2}
  Boss = c1
  NoCPU = NoCPU
  Fanout = 2
  MaxPages = 12
  Batches = 1
  Layouts <- LayoutsId
  Heap <- HeapId
  TestPages = {6}
  Settings <- SettingsId
INVARIANT MappedAsAsked
CHECK_DEADLOCK FALSE
