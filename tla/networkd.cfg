CONSTANTS
  Interfaces = {eth, wlan}
  Persisted = {eth}
  Given <- MCGiven
  IP_ATTEMPTS = 3
  ROUTE_ATTEMPTS = 1
  MAX_RETRIES = 2
  SESSIONS = 1
  RESTARTS = 1
SPECIFICATION FairSpec
CHECK_DEADLOCK FALSE
INVARIANTS
  AbortCleans
  PrimaryIsConfigured
PROPERTIES
  BringsUp
  BringUpEnds
