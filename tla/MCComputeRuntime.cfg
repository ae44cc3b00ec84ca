SPECIFICATION FairSpec
CONSTANTS
  q1 = q1
  q2 = q2
  c1 = c1
  c2 = c2
  r1 = r1
  r2 = r2
  None = None
  Starts <- TwoStarts
  Cancels <- TwoCancels
  Runs <- TwoRuns
  MaxProgress = 1
  MaxBoundary = 1
  MaxFailures = 1
INVARIANTS
  AckIsFinal
  OutcomeIsVerdict
PROPERTIES
  KeepsJobPromises
  StartsSettle
CHECK_DEADLOCK FALSE
