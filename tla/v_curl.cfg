CONSTANTS
  PublicDns = {public}
  LanDns = {}
  Gateway = gateway
  IP_ATTEMPTS = 2
  ROUTE_ATTEMPTS = 2
  MAX_RETRIES = 2
  DNS_MAX_RETRIES = 2
SPECIFICATION Spec
CHECK_DEADLOCK FALSE
INVARIANT CurlResolves
