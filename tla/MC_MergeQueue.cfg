SPECIFICATION FairSpec
CONSTANTS
  r1 = r1
  r2 = r2
  Records <- MCRecords
  Start <- MCStart
  Faults = {}
  MergeTries = 2
  MaxSeq = 1
  MaxUpsets = 2
INVARIANTS OnlyApproved OwnHead
PROPERTIES Tested QueueMoves
