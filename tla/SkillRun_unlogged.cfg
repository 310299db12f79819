SPECIFICATION Spec
CONSTANTS
  MaxSteps = 2
  MinInterval = 1
  None = None
  MaxRuns = 1
  MaxTime = 1
INVARIANTS
  SentInputsAreLogged
CHECK_DEADLOCK FALSE
