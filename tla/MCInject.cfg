CONSTANTS
  Procs = {p1, p2}
  First = p1
  Labels = {a, b}
  GivenSizes = {0, 2}
  Given <- Containers
  Edits <- Rebuilds
  Width <- Digits
  Room = 6
  MaxExecs = 2
SPECIFICATION Spec
SYMMETRY Symmetry
INVARIANTS TypeOK AgentOnce OwnPidKey LabelAgrees LabelSurvives
CHECK_DEADLOCK FALSE
