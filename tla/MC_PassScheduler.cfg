SPECIFICATION FairSpec
CONSTANTS
  t1 = t1
  t2 = t2
  Tasks <- MCTasks
  None = None
  Gap = 2
  StormPasses = 1
  StormWindow = 5
  StormQuiet = 5
  Delay = 1
  MaxAsks = 4
  AskUntil = 9
  MaxNow = 14
CHECK_DEADLOCK FALSE
INVARIANTS
  NoOverlap
  SomethingAsks
  StormBounded
PROPERTIES
  QueuedStarts
