CONSTANTS
  AP = {1, 2, 3, 4}
  Named = {1, 2, 3}
  Signal <- MCSignal
  Protection <- MCProtection
  LoadFirst = {4}
  LoadLast = {2, 4}
  WEAKEST <- MCWeakest
  Links = {1, 2, 3}
  Virtual = {1}
  Wireless = {2}
  WirelessName = {}
  Type801 = {3}
  PREPARE_ATTEMPTS = 2
SPECIFICATION FairSpec
CHECK_DEADLOCK FALSE
INVARIANTS
  ListsWhatWasHeard
  ListedOnce
  StrongestFirst
  InterfacesOrdered
PROPERTY
  DetectionEnds
