SPECIFICATION FairSpec
CONSTANTS
  j1 = j1
  j2 = j2
  m1 = m1
  m2 = m2
  None = None
  Jobs <- TwoJobs
  Models <- TwoModels
  MaxCommits = 2
  MaxAsks = 2
INVARIANTS
  OneWorker
  EndsAsAsked
  RestartsContinue
PROPERTIES
  StopsWhenAsked
  KeepsServicePromises
CHECK_DEADLOCK FALSE
