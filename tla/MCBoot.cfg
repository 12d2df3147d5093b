SPECIFICATION BootFairSpec
CONSTANTS
  RamSizes = {2048, 3132, 16384, 33000, 351232}
  ExtraAreas = {0, 6}
  Supports = {{}, {"e820"}, {"e801"}, {"88"}, {"e820", "e801", "88"}}
  Ends = {"ebx", "carry"}
  BiosFlags = {FALSE, TRUE}
  Devices = {0, 1, 14}
  Exceptions = {0, 14}
INVARIANTS
  BootTypeOK
  NothingClobbered
  DetectedMemory
  PoolsInRam
  HandlersReady
PROPERTIES
  Booted
  TicksTaken
CHECK_DEADLOCK FALSE
