SPECIFICATION Spec
CONSTANTS
  MaxRequests = 2
  None = None
  MaxCycles = 3
  MaxEvidence = 4
  MaxDeaths = 1
INVARIANTS
  TypeOK
  ObservationIsOfItsCycle
  FeedDiscipline
  AnswersEchoRequests
PROPERTIES
  ReturnsTheLastRecord
  FilesAreFinal
CHECK_DEADLOCK FALSE
