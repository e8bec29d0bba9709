SPECIFICATION FairSpec
CONSTANTS
  close = close
  merge = merge
  Keys <- MCKeys
  OffPass <- MCOffPass
  None = None
  MaxAttempts = 2
  Backoff = 1
  KeepMs = 2
  Bound = 1
  Margin = 1
  Linger = 1
  StartUntil = 4
  MaxNow = 7
  MaxUpsets = 1
CHECK_DEADLOCK FALSE
INVARIANTS
  OwnResult
PROPERTIES
  ImplementsRetries
  EntryEnds
