SPECIFICATION FairSpec
CONSTANTS
  NLives = 2
  NSlots = 2
  Cap = 1
  Reserve = 0
  LeaseIds = {1, 2, 3, 4, 5, 6, 7, 8, 9, 10, 11, 12, 13, 14}
  MaxSteps = 1
  MaxOutside = 2
INVARIANTS   SlotKept
PROPERTIES ComesBack Served
