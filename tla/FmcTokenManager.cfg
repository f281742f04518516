SPECIFICATION FairSpec
CONSTANTS
  Requests = {r1, r2}
  Nobody = Nobody
  MaxRefreshes = 2
  MaxTokens = 4
INVARIANTS
  OneAuthAtATime
  RejectedOnce
  RefreshesWithinLimit
  NoDeadPair
PROPERTIES
  ReauthsOnce
  EveryRequestEnds
CHECK_DEADLOCK FALSE
