SPECIFICATION Spec
CONSTANT None = None
PROPERTY EveryLoopEnds
CHECK_DEADLOCK FALSE
