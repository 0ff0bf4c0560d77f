SPECIFICATION Spec
CONSTANTS
  Labels <- OneLabel
  Kinds <- OtelOnly
  CacheMax = 1
  ReconnectInterval = 2
  MaxRecords = 1
  MaxLosses = 1
  LossyFlush = 1
PROPERTY ConsumedMeansStored
