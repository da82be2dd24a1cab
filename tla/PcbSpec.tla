------------------------------ MODULE PcbSpec ------------------------------
(***************************************************************************)
(* What pcb.h promises of the PCBs: a first-in first-out list of the free  *)
(* ones, any number of process queues, every PCB in at most one of them,   *)
(* and families, in which every PCB is a child of at most one other and    *)
(* the children of a PCB are in the order of their birth.  Module PcbLinks *)
(* implements it with the pointers of pcb.c and listx.h.                   *)
(*                                                                         *)
(* A user frees a PCB only when it is in no queue and has no parent and no *)
(* children, as p1test does.                                               *)
(***************************************************************************)
EXTENDS ProcQueue, FiniteSets

CONSTANTS
  Pcb,
  Queue,   \* the process queues, named by their list heads
  p_prio,  \* the priorities of the PCBs, fixed while they are queued
  NULL

VARIABLES free, queue, children, ret

vars == <<free, queue, children, ret>>

InUse     == Pcb \ ToSet(free)
Queued(p) == \E h \in Queue : p \in ToSet(queue[h])
Parents(p) == {x \in Pcb : p \in ToSet(children[x])}

Init ==
  /\ free \in {f \in [1 .. Cardinality(Pcb) -> Pcb] : ToSet(f) = Pcb}
  /\ queue = [h \in Queue |-> <<>>]
  /\ children = [p \in Pcb |-> <<>>]
  /\ ret = NULL

AllocPcb ==
  /\ ret' = IF free = <<>> THEN NULL ELSE Head(free)
  /\ free' = IF free = <<>> THEN free ELSE Tail(free)

FreePcb(p) ==
  /\ ret' = NULL
  /\ p \in InUse /\ ~ Queued(p) /\ children[p] = <<>> /\ Parents(p) = {}
  /\ free' = Append(free, p)

(***************************************************************************)
(* A PCB that stands in a queue, this one or another, is taken out first.  *)
(***************************************************************************)
PutProcQ(h, p) ==
  /\ ret' = NULL
  /\ p \in InUse
  /\ queue' = [g \in Queue |->
                 IF g = h THEN InsertProcQ(OutProcQ(queue[h], p), p, p_prio)
                 ELSE OutProcQ(queue[g], p)]

RemoveProcQ(h) ==
  /\ ret' = IF queue[h] = <<>> THEN NULL ELSE Head(queue[h])
  /\ queue' = [queue EXCEPT ![h] = IF @ = <<>> THEN @ ELSE Tail(@)]

TakeProcQ(h, p) ==   \* outProcQ
  /\ p \in InUse
  /\ ret' = IF p \in ToSet(queue[h]) THEN p ELSE NULL
  /\ queue' = [queue EXCEPT ![h] = OutProcQ(@, p)]

-----------------------------------------------------------------------------
(***************************************************************************)
(* The families.  OutChild(p) and a second InsertChild take p away from    *)
(* the parent it has.                                                      *)
(***************************************************************************)
Leave(p) == [x \in Pcb |-> OutProcQ(children[x], p)]

InsertChild(prnt, p) ==
  /\ ret' = NULL
  /\ prnt \in InUse /\ p \in InUse
  /\ children' = [Leave(p) EXCEPT ![prnt] = Append(@, p)]

RemoveChild(p) ==
  /\ p \in InUse
  /\ ret' = IF children[p] = <<>> THEN NULL ELSE Head(children[p])
  /\ children' = [children EXCEPT ![p] = IF @ = <<>> THEN @ ELSE Tail(@)]

OutChild(p) ==
  /\ p \in InUse
  /\ ret' = IF Parents(p) = {} THEN NULL ELSE p
  /\ children' = Leave(p)

-----------------------------------------------------------------------------
(***************************************************************************)
(* An operation on one of the three leaves the other two as they are.      *)
(***************************************************************************)
Next ==
  \/ /\ UNCHANGED <<queue, children>>
     /\ AllocPcb \/ \E p \in Pcb : FreePcb(p)
  \/ /\ UNCHANGED <<free, children>>
     /\ \E h \in Queue : \/ RemoveProcQ(h)
                         \/ \E p \in Pcb : PutProcQ(h, p) \/ TakeProcQ(h, p)
  \/ /\ UNCHANGED <<free, queue>>
     /\ \E p \in Pcb : \/ RemoveChild(p) \/ OutChild(p)
                       \/ \E prnt \in Pcb : InsertChild(prnt, p)

Spec == Init /\ [][Next]_vars
=============================================================================
