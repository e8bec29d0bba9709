SPECIFICATION FairSpec
CONSTANTS
  gated = gated
  ungated = ungated
  reader = reader
  Keys <- MCKeys
  Gated <- MCGated
  Ungated <- MCUngated
  Races = {}
  MaxSteps = 1
  MaxUpsets = 1
INVARIANTS GateFirst PROPERTIES LostOver EndsOnce StepEnds
CHECK_DEADLOCK FALSE
