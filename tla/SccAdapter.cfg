SPECIFICATION FairSpec
CONSTANTS
  Devices = {d1, d2}
  TheLicense = license
  Spacing = 2
  Late = 1
  MaxAttempts = 2
  MaxBackoffTicks = 1
  InventoryInterval = 2
  LicenseInterval = 3
  CertificateInterval = 3
  Never = Never
INVARIANTS
  WaitIsBounded
  EmptyIsGenuine
PROPERTIES
  RateHolds
  DueRefreshesRun
  FetchEnds
CHECK_DEADLOCK FALSE
