CONSTANTS
  NumInterfaces = 1
  WifiIfaces = {}
  LinkedAtBoot = {1}
  Ssids = {home}
  OpenSsids = {}
  NoSsid = NoSsid
  NumDisks = 6
  GroupSize <- MixedSize
  GroupBytes <- MixedBytes
  GroupFirst <- MixedFirst
  NumUsers = 2
  MaxNames = 1
  NetworkOnly = FALSE
  LINK_MAX_RETRIES = 1
  MAX_RETRIES = 1
  DNS_MAX_RETRIES = 1
SPECIFICATION Spec
CHECK_DEADLOCK FALSE
INVARIANTS
  TypeOK
  SelectionConsistent
  SshKeysAskedFor
