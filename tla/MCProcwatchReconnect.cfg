SPECIFICATION Spec
CONSTANTS
  Labels <- OneLabel
  MaxSamples = 1
  MaxRuns = 1
  ReconnectInterval = 2
  MaxLosses = 0
INVARIANT ReconnectSurvived
CHECK_DEADLOCK FALSE
