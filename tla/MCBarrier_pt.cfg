SPECIFICATION FairSpec
CONSTANTS
  c1 = c1
  c2 = c2
  c3 = c3
  NoCPU = NoCPU
  cpubar = cpubar
  vcpubar = vcpubar
  CPU = {c1, c2, c3}
  Bar <- Bar2
  Size <- Size2
  Groups <- Groups2
  IterMax = 1
  PGTABLE = TRUE
INVARIANTS CountExact IterStable
PROPERTIES Rendezvous AllReturn
CHECK_DEADLOCK FALSE
