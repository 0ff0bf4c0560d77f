SPECIFICATION Spec
CONSTANTS
  Labels = {a, b}
  Kinds <- ReplayedKinds
  CacheMax = 1
  ReconnectInterval = 2
  MaxRecords = 3
  MaxLosses = 2
  LossyFlush = 1
INVARIANT TypeOK
INVARIANT AckedKept
INVARIANT CopiesBounded
PROPERTY ConsumedMeansStored
SYMMETRY LabelSymmetry
