SPECIFICATION FairSpec
CONSTANT MaxConns = 2
INVARIANTS
  StartupOrder
  CleanExitIsComplete
PROPERTIES
  FirstCauseDecides
  NothingAfterStop
  ShutdownEnds
CHECK_DEADLOCK FALSE
