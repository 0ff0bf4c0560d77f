SPECIFICATION Spec
CONSTANTS
  MaxRecords = 4
  MaxFaults = 2
  ReconnectInterval = 2
  Faults <- AbandonFaults
INVARIANT AtMostOnceInOrder
INVARIANT LossConfinedToClaim
