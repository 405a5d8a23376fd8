SPECIFICATION Spec
CONSTANTS
  Clients = {c1, c2}
  Patches <- OneLane
  Centers <- Away
  Keepers = {"recording"}
  Streams = {1}
  First <- TwoLanes
  Runtimes = {r1, r2, r3}
  MaxCalls = 3
  MaxBatches = 2
  MaxOvertakes = 1
  MaxTroubles = 1
INVARIANT NoEmbrace
SYMMETRY Symmetric
CHECK_DEADLOCK FALSE
