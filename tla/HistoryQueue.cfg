SPECIFICATION FairSpec
CONSTANTS
  d1 = d1
  d2 = d2
  s1 = s1
  Devices = {d1, d2}
  Shards = {s1}
  ShardOf <- MCShardOf
  Slots = 2
  PerShard = 2
  BatchSize = 2
  MaxReports = 2
INVARIANT TypeOK
INVARIANT NothingLost
INVARIANT WrittenOnce
INVARIANT InOrder
PROPERTY KeepsPromise
PROPERTY SoonWritten
CHECK_DEADLOCK FALSE
