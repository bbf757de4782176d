SPECIFICATION FairSpec
CONSTANTS
  Thread = {t1, t2, t3, t4}
  PoolSize = 2
  MaxCalls = 2
INVARIANTS
  CapacityBound
  NoLostWakeup
  FreedOnlyWhenDrained
PROPERTIES
  Served
  ShutdownEnds
