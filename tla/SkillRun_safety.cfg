SPECIFICATION Spec
CONSTANTS
  MaxSteps = 2
  MinInterval = 1
  None = None
  MaxRuns = 2
  MaxTime = 2
INVARIANTS
  TypeOK
  AtMostOneLateInput
  AmortisedRate
  InputsAccounted
  StopsAreFinal
  EventLinks
  OneAuthority
CHECK_DEADLOCK FALSE
