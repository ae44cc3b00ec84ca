\* One row may be pending, as two callers never fill four; one result is cached.
CONSTANTS
  None = None
  Base = Base
  After = After
  Keys <- MCKeys
  Callers <- MCCallers
  Rows = {r1, r2}
  Requests = {q1, q2}
  MaxActive = 1
  MaxCached = 1
  MaxApplications = 2
SYMMETRY MCSymmetry
SPECIFICATION Spec
INVARIANTS EveryChangeReceipted RetryPossible SubscribersServed
