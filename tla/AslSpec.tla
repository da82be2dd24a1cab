------------------------------ MODULE AslSpec ------------------------------
(***************************************************************************)
(* What the active semaphore list promises its users (asl.h): every key    *)
(* has a priority queue of blocked PCBs, and a PCB that is not blocked can *)
(* always be blocked.  There are no descriptors here; module Asl           *)
(* implements this with MAXPROC of them, and module Nucleus uses queues    *)
(* like these.                                                             *)
(***************************************************************************)
EXTENDS ProcQueue

CONSTANTS
  Key,     \* addresses of semaphores
  Pcb,
  p_prio,  \* the priorities of the PCBs, fixed while they are blocked
  NULL

VARIABLES
  waiting,   \* waiting[k]: the PCBs blocked on k, in the order of service
  p_semAdd,
  ret        \* what the last call returned

vars == <<waiting, p_semAdd, ret>>

Init ==
  /\ waiting = [k \in Key |-> <<>>]
  /\ p_semAdd = [p \in Pcb |-> NULL]
  /\ ret = NULL

InsertBlocked(k, p) ==
  /\ p_semAdd[p] = NULL
  /\ waiting' = [waiting EXCEPT ![k] = InsertProcQ(@, p, p_prio)]
  /\ p_semAdd' = [p_semAdd EXCEPT ![p] = k]
  /\ ret' = 0

(***************************************************************************)
(* insertBlocked may refuse, and changes nothing, when every PCB is        *)
(* blocked already and no two of them on one semaphore.                    *)
(***************************************************************************)
RefuseBlocked(k) ==
  /\ waiting[k] = <<>>
  /\ \A p \in Pcb : p_semAdd[p] # NULL
  /\ \A p, q \in Pcb : p # q => p_semAdd[p] # p_semAdd[q]
  /\ ret' = 1
  /\ UNCHANGED <<waiting, p_semAdd>>

RemoveBlocked(k) ==
  IF waiting[k] = <<>>
  THEN ret' = NULL /\ UNCHANGED <<waiting, p_semAdd>>
  ELSE LET p == Head(waiting[k])
       IN  /\ waiting' = [waiting EXCEPT ![k] = Tail(@)]
           /\ p_semAdd' = [p_semAdd EXCEPT ![p] = NULL]
           /\ ret' = p

OutBlocked(p) ==
  IF p_semAdd[p] = NULL
  THEN ret' = NULL /\ UNCHANGED <<waiting, p_semAdd>>
  ELSE /\ waiting' = [waiting EXCEPT ![p_semAdd[p]] = OutProcQ(@, p)]
       /\ p_semAdd' = [p_semAdd EXCEPT ![p] = NULL]
       /\ ret' = p

HeadBlocked(k) ==
  /\ ret' = IF waiting[k] = <<>> THEN NULL ELSE Head(waiting[k])
  /\ UNCHANGED <<waiting, p_semAdd>>

Next ==
  \/ \E k \in Key, p \in Pcb : InsertBlocked(k, p)
  \/ \E k \in Key : RefuseBlocked(k) \/ RemoveBlocked(k) \/ HeadBlocked(k)
  \/ \E p \in Pcb : OutBlocked(p)

Spec == Init /\ [][Next]_vars
=============================================================================
