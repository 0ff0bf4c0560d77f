SPECIFICATION Spec
CONSTANTS
  Labels <- OneLabel
  Kinds <- MetricOnly
  CacheMax = 1
  ReconnectInterval = 2
  MaxRecords = 2
  MaxLosses = 2
  LossyFlush = 1
PROPERTY SpillDrains
