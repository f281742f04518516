SPECIFICATION FairSpec
CONSTANTS
  NTasks = 4
  MaxConcurrent = 2
  MaxRequests = 3
  Window = 4
  MaxAttempts = 2
  MaxBackoffTicks = 2
INVARIANTS
  WindowLimit
  ThrottledOnlyWhenFull
  SlotsInUse
PROPERTY
  PollEnds
