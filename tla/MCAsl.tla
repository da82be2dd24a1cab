------------------------------- MODULE MCAsl -------------------------------
(***************************************************************************)
(* Asl with three PCBs and descriptors and four keys.                      *)
(***************************************************************************)
EXTENDS Asl, TLC

CONSTANTS p1, p2, p3

MCPcb  == {p1, p2, p3}
MCKey  == 1 .. 4
MCPrio == p1 :> 0 @@ p2 :> 1 @@ p3 :> 1
=============================================================================
