SPECIFICATION FairDiscovery
CONSTANTS
  Devices = {d1, d2, d3}
  Junk = {junk}
  PageLimit = 3
  MaxPages = 3
  MaxFleet = 4
  Caps = {1, 2}
  Interval = 1
INVARIANT
  DiscoveryTypeOK
PROPERTIES
  ListIsComplete
  FailureKeepsList
  CatchesUp
