SPECIFICATION FairSpec
CONSTANTS
  h1 = h1
  h2 = h2
  h3 = h3
  c1 = c1
  c2 = c2
  None = None
  Handlers <- ThreeHandlers
  Contents <- TwoContents
  Expected <- MCExpected
  MaxRev = 2
  MaxFaults = 1
INVARIANTS
  ReleasesFollowApprovals
  TurnsKeepRevisions
  TurnsKeepApproval
PROPERTIES
  RequestsEnd
CHECK_DEADLOCK FALSE
