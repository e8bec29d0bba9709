SPECIFICATION Spec
CONSTANTS
  MaxTriages = 1
  ReviewFixCap = 0
  ConflictFixCap = 0
  MaxOutside = 2
  Outcomes <- MCOutcomes
INVARIANTS LabelFollows 
PROPERTIES WindsDown RowsAreDue Settles
CHECK_DEADLOCK FALSE
