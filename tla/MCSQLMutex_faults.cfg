\* Any one fault, until rows have expired and the mutex has been at rest again.  The clock stops at MaxTime.
CONSTANTS
  Clients = {c1, c2, c3}
  TTL = 7
  RefreshInterval = 3
  MaxDelay = 1
  MaxTime = 18
  Faults = {"crash", "delete", "refresh"}
  MaxFaults = 1
SPECIFICATION Spec
SYMMETRY ClientSymmetry
INVARIANTS TypeOK ExclusiveUntilLapse FaultFreeRefreshed
PROPERTIES ImplementsService
CHECK_DEADLOCK FALSE
