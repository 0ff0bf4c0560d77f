SPECIFICATION Spec
CONSTANTS
  Labels <- TwoLabels
  MaxSamples = 3
  MaxRuns = 2
  ReconnectInterval = 2
  MaxLosses = 3
INVARIANT TypeOK
INVARIANT SamplesKept
INVARIANT CopiesBounded
PROPERTY DrainsWhileRunning
CHECK_DEADLOCK FALSE
