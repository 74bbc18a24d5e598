SPECIFICATION FairSpec
CONSTANTS
  NO_CPUS = 3
  MaxTicket = 2
INVARIANTS MutualExclusion SomebodyMoves
PROPERTIES FirstComeFirstServed NoStarvation
