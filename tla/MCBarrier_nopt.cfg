SPECIFICATION FairSpec
CONSTANTS
  c1 = c1
  c2 = c2
  c3 = c3
  NoCPU = NoCPU
  cpubar = cpubar
  vcpubar = vcpubar
  CPU = {c1, c2, c3}
  Bar <- BarMixed
  Size <- SizeMixed
  Groups <- GroupsMixed
  IterMax = 1
  PGTABLE = FALSE
INVARIANTS NoMixedPhases StuckForWantOfCaller
PROPERTY AllReturn
CHECK_DEADLOCK FALSE
