SPECIFICATION Spec
CONSTANTS
  Devices <- MCDevices
  MetricFamilies <- MCFamilies
  Fleets <- MCFleets
  Environments <- MCEnvironments
  EnvFiles <- MCEnvFiles
  Replies <- MCReplies
  HealthLists <- MCHealthLists
  Inventories <- MCInventories
  Licenses <- MCLicenses
  Certificates <- MCCertificates
  Unset = Unset
  Whitespace = Whitespace
  Malformed = Malformed
INVARIANTS
  NothingInvented
  NothingLostSilently
  HealthyIsQuiet
  WindowIsNewest
  RefusalsBounded
  AcceptedIsUsable
  NothingIgnoredSilently
