SPECIFICATION Spec
CONSTANTS
  p1 = p1
  p2 = p2
  p3 = p3
  NULL = NULL
  MAXPROC = 3
  Pcb <- MCPcb
  Key <- MCKey
  p_prio <- MCPrio
INVARIANTS
  TypeOK
  KeysAscending
  DescriptorsPartitioned
  ActiveIffWaiting
  BlockedWhereItSays
PROPERTIES
  ImplementsAslSpec
