CONSTANTS
  a = a
  b = b
  Targets = {a, b}
  Catalogs <- DistinctNames
  Refreshing = TRUE
  MaxRunFors = 1
  MaxReloads = 2
  MaxFaults = 1
  MaxExpiries = 1
SPECIFICATION FairSpec
INVARIANT SessionsFollowJobs
INVARIANT EachJobItsTick
PROPERTY LoopServes
