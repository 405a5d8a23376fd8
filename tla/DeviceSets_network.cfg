SPECIFICATION Spec
CONSTANTS
  Devices = {receiver}
  Exclusive = {}
  Clients = {c1}
  MaxSets = 2
  MaxRuntimes = 4
  MaxFaults = 2
  Glitches = TRUE
  Refusals = TRUE
  Hiccups = FALSE
PROPERTY FaultSurfaces
