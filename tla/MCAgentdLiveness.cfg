SPECIFICATION Spec
CONSTANTS
  Labels <- TwoLabels
  Kinds <- AllButSpan
  CacheMax = 2
  ReconnectInterval = 2
  MaxRecords = 2
  MaxLosses = 2
  LossyFlush = 0
PROPERTY SpillDrains
PROPERTY BackOnline
