CONSTANTS
  c1 = c1
  c2 = c2
  Clients = {c1, c2}
  MaxConnections = 1
  AttemptLimit = 2
  LinkTtl = 1
  DeviceMax = 1
  SessionMax = 1
  Start = 10
  MaxTime = 12
  MaxSecrets = 4
  MaxResets = 2
  MaxPasswords = 3
SYMMETRY ClientSymmetry
CHECK_DEADLOCK FALSE
SPECIFICATION Spec
 
INVARIANT SignedInIsEntitled
