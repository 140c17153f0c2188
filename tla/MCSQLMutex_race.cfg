\* One client crashes, two wait for its row to expire.
CONSTANTS
  Clients = {c1, c2, c3}
  TTL = 7
  RefreshInterval = 3
  MaxDelay = 1
  MaxTime = 12
  Faults = {"crash"}
  MaxFaults = 1
SPECIFICATION Spec
SYMMETRY ClientSymmetry
INVARIANTS MutualExclusion
CHECK_DEADLOCK FALSE
