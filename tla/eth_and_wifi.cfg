CONSTANTS
  NumInterfaces = 2
  WifiIfaces = {2}
  LinkedAtBoot = {}
  Ssids = {home}
  OpenSsids = {}
  NoSsid = NoSsid
  NumDisks = 1
  GroupSize <- OneDiskSize
  GroupBytes <- OneDiskBytes
  GroupFirst <- OneDiskFirst
  NumUsers = 0
  MaxNames = 0
  NetworkOnly = FALSE
  LINK_MAX_RETRIES = 1
  MAX_RETRIES = 1
  DNS_MAX_RETRIES = 1
SPECIFICATION Spec
CHECK_DEADLOCK FALSE
INVARIANTS
  DiskScreensOnline
  OnlineIsEarned
  EffectsAreRecorded
PROPERTY
  Provisions
