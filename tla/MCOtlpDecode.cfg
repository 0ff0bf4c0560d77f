SPECIFICATION Spec
CONSTANTS
  Labels = {a, b}
  NoLabel = none
  MaxPending = 2
  MaxContainers = 2
  MaxFields = 11
INVARIANT TypeOK
INVARIANT RefusedLeavesNothing
INVARIANT OwnContext
INVARIANT EarlierScopesKept
SYMMETRY LabelSymmetry
CHECK_DEADLOCK FALSE
