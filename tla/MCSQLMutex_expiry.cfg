\* One client holds the mutex for some refreshes.
CONSTANTS
  Clients = {c1, c2}
  TTL = 7
  RefreshInterval = 3
  MaxDelay = 1
  MaxTime = 12
  Faults = {}
  MaxFaults = 0
SPECIFICATION Spec
SYMMETRY ClientSymmetry
INVARIANTS ExpiresUnlessRefreshed
CHECK_DEADLOCK FALSE
