SPECIFICATION Spec
CONSTANTS
  Devices = {radio}
  Exclusive = {radio}
  Clients = {c1}
  MaxSets = 1
  MaxRuntimes = 3
  MaxFaults = 2
  Glitches = TRUE
  Refusals = FALSE
  Hiccups = FALSE
INVARIANTS FaultedSetReleasesDevice
