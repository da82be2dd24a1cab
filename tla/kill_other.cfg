SPECIFICATION Spec
CONSTANTS
  p1 = p1
  p2 = p2
  p3 = p3
  m = m
  d = d
  c = c
  NULL = NULL
  Pcb <- MCPcb
  UserSem <- MCUserSem
  DevSem <- MCDevSem
  Clock = c
  Prio <- MCPrio
  MinSem <- MCMinSem
  MaxSem = 1
  MaxSoft = 3
  Support <- MCSupport
SYMMETRY PcbSymmetry
INVARIANTS
  NobodyElseLost
CHECK_DEADLOCK FALSE
