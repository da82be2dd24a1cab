---------------------------- MODULE MCNucleus ------------------------------
(***************************************************************************)
(* Nucleus on small instances.                                             *)
(***************************************************************************)
EXTENDS Killer

CONSTANTS p1, p2, p3, m, d, c

MCPcb     == {p1, p2, p3}
MCUserSem == {m}
MCDevSem  == {d}
MCNoDevSem == {}
MCPrio    == {0, 1}
MCSupport == {TRUE, FALSE}
MCNoSupport == {FALSE}
MCMinSem  == -2

(***************************************************************************)
(* The PCBs are interchangeable: the free list is a set, and Init starts   *)
(* from any of them.  Only used where no liveness is checked.              *)
(***************************************************************************)
PcbSymmetry == Permutations(MCPcb)
=============================================================================
