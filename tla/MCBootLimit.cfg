SPECIFICATION BootSpec
CONSTANTS
  RamSizes = {524288}
  ExtraAreas = {0}
  Supports = {{"e801"}}
  Ends = {"ebx"}
  BiosFlags = {FALSE}
  Devices = {0, 1}
  Exceptions = {}
INVARIANT
  NothingClobbered
CHECK_DEADLOCK FALSE
