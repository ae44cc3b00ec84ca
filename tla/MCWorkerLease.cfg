SPECIFICATION FairSpec
CONSTANTS
  n1 = n1
  w1 = w1
  Owners <- MCOwners
  Sizes <- MCSizes
  Web <- MCWeb
  MaxBytes = 3
INVARIANTS
  AdmissionHeld
  ResultAfterEnd
PROPERTIES
  NoGrowthInQuarantine
  CallsEnd
  QuarantineLifts
CHECK_DEADLOCK FALSE
