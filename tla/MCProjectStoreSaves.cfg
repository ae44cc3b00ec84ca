SPECIFICATION Spec
CONSTANTS
  h1 = h1
  h2 = h2
  h3 = h3
  c1 = c1
  c2 = c2
  None = None
  Handlers <- ThreeHandlers
  Contents <- TwoContents
  Expected <- NoExpected
  MaxRev = 3
  MaxFaults = 0
INVARIANTS
  SavedStays
CHECK_DEADLOCK FALSE
