SPECIFICATION Spec
CONSTANTS
  j1 = j1
  j2 = j2
  j3 = j3
  c1 = c1
  i1 = i1
  i2 = i2
  None = None
  Limit = 2
  Jobs <- MCJobs
  Cases <- MCCases
  Inputs <- MCInputs
INVARIANTS HandedOutFits OneComputation
PROPERTIES LateAnswersDropped TurnComes
CHECK_DEADLOCK FALSE
