SPECIFICATION Spec
SYMMETRY MCSymmetry
CONSTANTS
  TaskIds = {a, b}
  reach = reach
  talk = talk
  cond1 = cond1
  cond2 = cond2
  Skills <- MCSkills
  Conditions <- MCConditions
  EventIds = {e1, e2}
  Specs <- MCSpecs
  Sink = "sqlite"
  UniqueTaskIds = TRUE
  None = None
  MaxSubmissions = 2
  MaxRestarts = 1
INVARIANTS
  TypeOK
  FifoAccounting
  TimeoutBudget
  ResultClosesItsOwnTask
  AcknowledgedIsRecorded
  EventsAgreeWithTasks
PROPERTIES
  ClosingIsFinal
  RefinesContract
CHECK_DEADLOCK FALSE
