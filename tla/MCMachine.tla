----------------------------- MODULE MCMachine -----------------------------
(***************************************************************************)
(* Machine with three processes, two devices of line 3 and the transmitter *)
(* of terminal 0, the unit that config_machine.json enables and p2test     *)
(* commands.                                                               *)
(***************************************************************************)
EXTENDS Machine, TLC

MCInstalled ==
  {[line |-> 3, dev |-> 0, sub |-> "dev"],
   [line |-> 3, dev |-> 1, sub |-> "dev"],
   [line |-> 7, dev |-> 0, sub |-> "trans"]}

MCSymmetry == Permutations(Proc)
=============================================================================
