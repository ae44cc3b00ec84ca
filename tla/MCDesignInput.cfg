SPECIFICATION Spec
CONSTANTS
  p1 = p1
  p2 = p2
  r1 = r1
  r2 = r2
  v1 = v1
  v2 = v2
  plain = plain
  edited = edited
  approved = approved
  None = None
  Pages <- TwoPages
  Ids <- MCIds
  Inputs <- MCInputs
  Others <- MCOthers
  Initial <- MCInitial
  Invalid <- MCInvalid
  Locked <- MCLocked
  MaxPlans = 1
  MaxRequests = 2
  MaxUndo = 2
  MaxCommits = 5
  MaxForeign = 1
SYMMETRY Alike
INVARIANTS
  TypeOK
  StacksAgree
  NeverStale
  Restorable
  ReceiptsTrue
CHECK_DEADLOCK FALSE
