SPECIFICATION Spec
CONSTANT None = None
INVARIANTS TypeOK ReadersShowWhatWasDeclared
PROPERTY ChangesReachWhatRestsOnThem
CHECK_DEADLOCK FALSE
