SPECIFICATION FairSpec
CONSTANTS
  stalled1 = stalled1
  stalled2 = stalled2
  release = release
  Keys <- MCPair
  Tasks <- MCTasks
  Sort <- MCSort
  Limit <- MCLimit
  None = None
  StartUntil = 1
  MaxNow = 2
  MaxIds = 2
  MaxTurns = 2
  MaxUpsets = 1
CHECK_DEADLOCK FALSE
PROPERTIES
  WakeEnds
