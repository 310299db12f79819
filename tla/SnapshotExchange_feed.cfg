SPECIFICATION Spec
CONSTANTS
  MaxRequests = 2
  None = None
  MaxCycles = 2
  MaxEvidence = 3
  MaxDeaths = 1
INVARIANTS
  ValidRelayIsReadable
CHECK_DEADLOCK FALSE
