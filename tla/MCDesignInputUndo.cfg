SPECIFICATION Spec
CONSTANTS
  p1 = p1
  p2 = p2
  r1 = r1
  r2 = r2
  v1 = v1
  v2 = v2
  plain = plain
  edited = edited
  approved = approved
  None = None
  Pages <- OnePage
  Ids <- MCIds
  Inputs <- MCInputs
  Others <- TwoOthers
  Initial <- MCInitial
  Invalid <- MCInvalid
  Locked <- NoLocked
  MaxPlans = 1
  MaxRequests = 2
  MaxUndo = 2
  MaxCommits = 4
  MaxForeign = 1
PROPERTIES
  UndoKeepsOtherEdits
CHECK_DEADLOCK FALSE
