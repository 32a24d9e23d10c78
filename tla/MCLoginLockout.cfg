CONSTANTS
  c1 = c1
  c2 = c2
  c3 = c3
  Clients = {c1, c2, c3}
  IPs = {"ip"}
  Threshold = 2
  LockoutDuration = 2
  EmailLimit = 3
  IpLimit = 3
  Window = 1
  PurgeAge = 1
  RecorderOnTenant = TRUE
  MaxTime = 3
  MaxFailures = 3
SYMMETRY ClientSymmetry
CHECK_DEADLOCK FALSE
SPECIFICATION Spec
INVARIANT CountsAreComplete
INVARIANT LockStopsGuessing
INVARIANT OneLockEvent
