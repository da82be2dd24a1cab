----------------------------- MODULE ProcQueue -----------------------------
(***************************************************************************)
(* The process queues of phase1/pcb.c as pure operators.                   *)
(*                                                                         *)
(* A process queue is a circular doubly linked list threaded through the   *)
(* p_list field of the PCBs.  Here it is the sequence of the PCBs met when *)
(* the list is walked from its sentinel; module PcbLinks has the pointers. *)
(* prio is the array of the p_prio fields: a larger number is served       *)
(* first, and PCBs of one priority are served in order of arrival.         *)
(***************************************************************************)
EXTENDS Integers, SequencesExt

(***************************************************************************)
(* Mutants: always at the tail; before the first PCB of the same priority. *)
(***************************************************************************)
InsertPosTail(q, p, prio) == Len(q) + 1
InsertPosLifo(q, p, prio) ==
  LET notHigher == SelectInSeq(q, LAMBDA c : prio[c] <= prio[p])
  IN  IF notHigher # 0 THEN notHigher ELSE Len(q) + 1

(***************************************************************************)
(* Where insertProcQ links p: before the first PCB of a lower priority,    *)
(* else behind the last PCB of p's own priority, else at the tail.         *)
(***************************************************************************)
InsertPos(q, p, prio) ==
  LET lower == SelectInSeq(q, LAMBDA c : prio[c] < prio[p])
      equal == SelectLastInSeq(q, LAMBDA c : prio[c] = prio[p])
  IN  CASE lower # 0               -> lower
        [] lower = 0 /\ equal # 0  -> equal + 1
        [] OTHER                   -> Len(q) + 1

(***************************************************************************)
(* insertProcQ(head, p) for a PCB p that is linked in no queue.            *)
(***************************************************************************)
InsertProcQ(q, p, prio) == InsertAt(q, InsertPos(q, p, prio), p)

(***************************************************************************)
(* outProcQ(head, p): p is unlinked wherever it stands; when it is not in  *)
(* the queue the queue is unchanged (the C function returns NULL).         *)
(***************************************************************************)
OutProcQ(q, p) == RemoveFirst(q, p)

(***************************************************************************)
(* What is left of a queue when every PCB of D has been taken out of it,   *)
(* one outProcQ after another: the others keep their order.                *)
(***************************************************************************)
Without(q, D) ==
  LET kept[k \in 0 .. Len(q)] ==
        IF k = 0 THEN <<>>
        ELSE IF q[k] \in D THEN kept[k - 1]
        ELSE Append(kept[k - 1], q[k])
  IN  kept[Len(q)]

(***************************************************************************)
(* The PCBs of w inserted into q one after another, the first of w first.  *)
(***************************************************************************)
InsertAll(q, w, prio) ==
  LET filled[k \in 0 .. Len(w)] ==
        IF k = 0 THEN q ELSE InsertProcQ(filled[k - 1], w[k], prio)
  IN  filled[Len(w)]

(***************************************************************************)
(* The queue in the order the scheduler promises to serve it.              *)
(***************************************************************************)
IsPrioSorted(q, prio) ==
  \A i, j \in DOMAIN q : i < j => prio[q[i]] >= prio[q[j]]

=============================================================================
