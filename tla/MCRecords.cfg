SPECIFICATION Spec
CONSTANTS
  None = None
  Error = Error
INVARIANT TypeOK
PROPERTIES StoresKeepWhatTheyTook ReportsTellTheRun
CHECK_DEADLOCK FALSE
