SPECIFICATION Spec
CONSTANTS
  p1 = p1
  p2 = p2
  p3 = p3
  p4 = p4
  p5 = p5
  m = m
  d = d
  c = c
  NULL = NULL
  Pcb <- MCFivePcb
  UserSem <- MCNoUserSem
  DevSem <- MCNoDevSem
  Clock = c
  Prio <- MCPrio
  MinSem <- MCOpenOrNot
  MaxSem = 1
  MaxSoft = 3
  Support <- MCAllSupport
SYMMETRY FivePcbSymmetry
INVARIANTS
  BlockedSorted
PROPERTIES
  FirstComeFirstServed
  ReadyInTurn
  WokenInOrder
CONSTRAINT ThreeGenerations
CHECK_DEADLOCK FALSE
