SPECIFICATION Spec
CONSTANTS
  s1 = s1
  s2 = s2
  Sessions <- MCSessions
  NoLease = NoLease
  LeaseMs = 2
  StepMs = 1
  MaxNow = 2
  MaxEntries = 2
  Races = {"lapsed-save", "blind-save"}
SYMMETRY MCSymmetry
INVARIANTS
  OneActor
  ActsOnWholeLedger
PROPERTIES
  NothingLost
