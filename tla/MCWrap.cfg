CONSTANTS
  child = child
  pid1 = pid1
  pid2 = pid2
  Pids = {child, pid1, pid2}
  Root = child
  Outside = outside
  Tasks = {leader, worker}
  Leader = leader
  KidsMax = 1
  MaxTicks <- Ticks
SPECIFICATION Spec
INVARIANTS TypeOK NeverOvercharged OncePerRound StableSampled ExitReportsChild
CHECK_DEADLOCK FALSE
PROPERTY WrapperEnds
