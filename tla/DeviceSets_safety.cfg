SPECIFICATION Spec
CONSTANTS
  Devices = {radio}
  Exclusive = {radio}
  Clients = {c1, c2}
  MaxSets = 2
  MaxRuntimes = 4
  MaxFaults = 2
  Glitches = TRUE
  Refusals = TRUE
  Hiccups = TRUE
SYMMETRY ClientSymmetry
INVARIANTS TypeOK NoRadioLeftOpen OneSetPerRadio DeadStreamIsKnown ChangesAnnounced
PROPERTIES RemovedStaysRemoved
