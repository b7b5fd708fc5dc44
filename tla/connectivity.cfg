CONSTANTS
  PublicDns = {public}
  LanDns = {lan}
  Gateway = gateway
  IP_ATTEMPTS = 2
  ROUTE_ATTEMPTS = 2
  MAX_RETRIES = 2
  DNS_MAX_RETRIES = 2
SPECIFICATION FairSpec
CHECK_DEADLOCK FALSE
PROPERTIES
  RepairFindsResolver
  BringsUp
  BringUpEnds
