SPECIFICATION Spec
CONSTANTS
  MaxTaskAttempts = 2
  MaxActionAttempts = 3
  MaxSnapshotAttempts = 5
  MaxSteps = 2
  None = None
  MaxCalls = 2
INVARIANTS
  TypeOK
  NoBlindInput
  OneOpenTask
  PlansFollowVerdicts
  ReportTellsTheState
PROPERTIES
  KeepsTheContract
CHECK_DEADLOCK FALSE
