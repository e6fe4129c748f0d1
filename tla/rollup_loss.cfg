SPECIFICATION Safe
CONSTANTS
  None = None
  Bands = {b1}
  Tiers <- MCTiers
  BatchSize = 1
  Ages = {0, 1}
  MaxTime = 6
  MaxScans = 2
  MaxAborts = 1
  MaxDeletes = 1
  AtBucket = 2
  PerScan = 2
  MaxPoints = 2
  Grains <- MCGrains
INVARIANT HistoryKept
