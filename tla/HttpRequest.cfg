SPECIFICATION Spec
CONSTANTS
  Timeout = 4
  BaseDelay = 1
  CapDelay = 3
  MaxAttempts = 3
  MaxWait = 5
  RetryAfters = {0, 2, 5}
INVARIANTS
  NeverCutShort
  TimeBounded
