CONSTANTS
  Key = {1, 2, 3}
  Other = 9
  Initial <- MCInitial
  Listings <- MCListings
  IMPORTS = 3
  CRASHES = 2
SPECIFICATION Spec
CHECK_DEADLOCK FALSE
INVARIANTS
  SoundImports
  AtMostOnce
