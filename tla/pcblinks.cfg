SPECIFICATION Spec
CONSTANTS
  p1 = p1
  p2 = p2
  p3 = p3
  p4 = p4
  q1 = q1
  q2 = q2
  pcbFree_h = pcbFree_h
  NULL = NULL
  Pcb <- MCPcb
  Queue <- MCQueue
  p_prio <- MCPrio
SYMMETRY MCSymmetry
INVARIANTS
  TypeOK
  LinksInverse
  OneSentinelPerCircle
  ParentsAgree
PROPERTIES
  ImplementsPcbSpec
