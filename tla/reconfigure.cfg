CONSTANTS
  NumInterfaces = 2
  WifiIfaces = {2}
  LinkedAtBoot = {}
  Ssids = {home, cafe}
  OpenSsids = {cafe}
  NoSsid = NoSsid
  NumDisks = 1
  GroupSize <- OneDiskSize
  GroupBytes <- OneDiskBytes
  GroupFirst <- OneDiskFirst
  NumUsers = 0
  MaxNames = 0
  NetworkOnly = TRUE
  LINK_MAX_RETRIES = 1
  MAX_RETRIES = 2
  DNS_MAX_RETRIES = 1
SPECIFICATION FairSpec
CHECK_DEADLOCK FALSE
INVARIANTS
  WifiScreensReady
  NetworkOnlyNeverInstalls
PROPERTIES
  BringsUp
  BringUpSettles
  WpsEnds
