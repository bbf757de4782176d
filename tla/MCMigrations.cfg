SPECIFICATION FairSpec
CONSTANTS
  r1 = r1
  r2 = r2
  Replica = {r1, r2}
  Version = {0, 1, 2}
  NoTxn = {1}
  Files <- MCFiles
  MaxFaults = 3
  Nobody = Nobody
  Orphan = Orphan
INVARIANTS
  EffectsMatchRecords
  BootedMeansMigrated
PROPERTIES
  InOrder
  Converges
