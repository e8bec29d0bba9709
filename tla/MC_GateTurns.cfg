SPECIFICATION FairSpec
CONSTANTS
  g1 = g1
  g2 = g2
  g3 = g3
  Gates <- MCGates
  Cap <- MCCap
  MaxMemories = 2
  MaxStops = 1
  MaxUpsets = 2
INVARIANTS Counted
PROPERTIES InOrder LiveLeft Decided
CHECK_DEADLOCK FALSE
