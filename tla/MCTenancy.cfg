CONSTANTS
  s1 = s1
  r1 = r1
  r2 = r2
  NoKey = NoKey
  OtherKey = OtherKey
  Sites = {s1}
  Requests = {r1, r2}
  Modes = {"control", "fixed"}
  FixedSite = s1
  MaxConnections = 2
  MaxChanges = 2
  MaxFaults = 1
SPECIFICATION FairSpec
INVARIANT ResourcesAccounted
INVARIANT TenantChangesTakeEffect
PROPERTY EveryRequestEnds
