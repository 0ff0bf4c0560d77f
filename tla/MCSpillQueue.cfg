SPECIFICATION Spec
CONSTANTS
  MaxRecords = 4
  MaxFaults = 3
  ReconnectInterval = 2
  Faults <- RewindFaults
INVARIANT TypeOK
INVARIANT NothingLost
PROPERTY ImplementsQueue
