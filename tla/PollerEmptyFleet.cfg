SPECIFICATION Spec
CONSTANTS
  Interval = 10
  MaxBackoff = 30
  FetchMax = 2
  MaxFailures = 2
  MaxDevices = 1
  MaxErrors = 2
  AgeCap = 13
  NoEntry = NoEntry
INVARIANT EmptyFleetIsSuccess
CHECK_DEADLOCK FALSE
