SPECIFICATION Spec
CONSTANTS
  p1 = p1
  p2 = p2
  p3 = p3
  m = m
  d = d
  c = c
  NULL = NULL
  Pcb <- MCPcb
  UserSem <- MCUserSem
  DevSem <- MCDevSem
  Clock = c
  Prio <- MCPrio
  MinSem <- MCMinSem
  MaxSem = 1
  MaxSoft = 3
  Support <- MCSupport
SYMMETRY PcbSymmetry
INVARIANTS
  TypeOK
  PlacedOnce
  BlockedWhereItSays
  NoLostWakeup
  ProcessCountExact
  SoftBlockNeverShort
  OneTree
  FinderFinds
PROPERTIES
  ImplementsNucleusSpec
  SoftBlockDriftsByKills
  DebtByKillsOnly
  OnlyKillersGetLost
  KillerKills
  FirstIsWoken
CHECK_DEADLOCK FALSE
