SPECIFICATION RewrittenSpec
CONSTANT None = None
PROPERTY FrozenCorpusIsNotRewritten
CHECK_DEADLOCK FALSE
