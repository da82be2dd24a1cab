---------------------------- MODULE MCPcbLinks -----------------------------
(***************************************************************************)
(* PcbLinks with four PCBs of two priorities and two process queues.       *)
(***************************************************************************)
EXTENDS PcbLinks, TLC

CONSTANTS p1, p2, p3, p4, q1, q2

MCPcb   == {p1, p2, p3, p4}
MCQueue == {q1, q2}
MCSymmetry == Permutations({p1, p4}) \cup Permutations({p2, p3}) \cup Permutations(MCQueue)
MCPrio  == p1 :> 0 @@ p2 :> 1 @@ p3 :> 1 @@ p4 :> 0
=============================================================================
