SPECIFICATION FairSpec
CONSTANTS
  d1 = d1
  d2 = d2
  Devices <- MCDevices
  Lease = 2
  OpMax = 1
  Races = {}
  MaxPosts = 2
  MaxUpsets = 1
INVARIANTS
  OneHolder
  SomeoneWins
PROPERTIES
  NeverStuck
CHECK_DEADLOCK FALSE
