SPECIFICATION Spec
CONSTANT None = None
INVARIANTS TypeOK InterruptedCommandsRecover
PROPERTY WorkByHandSurvives
CHECK_DEADLOCK FALSE
