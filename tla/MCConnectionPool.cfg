CONSTANTS
  t1 = t1
  t2 = t2
  t3 = t3
  Threads = {t1, t2, t3}
  MaxConnections = 1
  MaxCalls = 1
  MaxDrops = 2
  MaxFaults = 2
SPECIFICATION FairSpec
INVARIANT SlotsAccounted
INVARIANT NoLostWakeup
INVARIANT WorkRunsAtMostOnce
INVARIANT IdleLossIsMasked
PROPERTY EveryCallReturns
