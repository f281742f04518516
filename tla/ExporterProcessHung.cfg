SPECIFICATION Spec
CONSTANT MaxConns = 2
INVARIANT CloseAlwaysRuns
CHECK_DEADLOCK FALSE
