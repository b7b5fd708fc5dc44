CONSTANTS
  Devices = {1, 2, 3, 4, 5, 6}
  Keys = {0, 1, 2, 3}
  SIZE_SIMILARITY_THRESHOLD = 10
  Family <- MCFamily
  Bytes <- MCBytes
  Model <- MCModel
  UnknownModel = 0
  TinySize = 1
  Bus <- MCBus
  RemovableFlag = {5}
  Backed = {1, 2, 3, 4, 5}
  Volumes <- MCVolumes
SPECIFICATION Spec
CHECK_DEADLOCK FALSE
INVARIANT
  RunningSystemSpared
