SPECIFICATION Spec
CONSTANTS
  NoTrial = NoTrial
  EndTime = 80
  OutputDt = 32
  InitialDt = 16
  MinDt = 4
  MaxLevel = 1
  MaxInternal = 8
  Interval = 2
  Runs = 3
INVARIANTS TypeOK Trajectory RowsOnTime RecoveryMatches
PROPERTIES CancelStops RunsEnd
CHECK_DEADLOCK FALSE
