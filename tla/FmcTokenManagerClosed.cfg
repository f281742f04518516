SPECIFICATION Spec
CONSTANTS
  Requests = {r1, r2}
  Nobody = Nobody
  MaxRefreshes = 2
  MaxTokens = 4
INVARIANT ClosedHoldsNoToken
CHECK_DEADLOCK FALSE
