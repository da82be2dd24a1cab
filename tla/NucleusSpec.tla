---------------------------- MODULE NucleusSpec -----------------------------
(***************************************************************************)
(* What the nucleus promises, in sets: a process is free, ready, running   *)
(* or waiting for one semaphore.  There are no queues, counters,           *)
(* descriptors or devices here, and the scheduler may pick any ready       *)
(* process; a semaphore serves the highest priorities first.  Where the    *)
(* code leaves its intended course (a ready process is killed, the ready   *)
(* queue is empty, a handler returns) the machine has halted.              *)
(***************************************************************************)
EXTENDS Integers

CONSTANTS Pcb, UserSem, SoftSem, Clock, Prio, NULL

VARIABLES
  free, parent, prio,
  ready, running,
  waiting,   \* waiting[s]: the processes blocked on semaphore s
  sem,       \* the values of the semaphores that processes use
  halted

vars == <<free, parent, prio, ready, running, waiting, sem, halted>>

Init ==
  \E root \in Pcb :
    /\ free = Pcb \ {root}
    /\ parent = [p \in Pcb |-> NULL]
    /\ prio = [p \in Pcb |-> 0]
    /\ ready = {}
    /\ running = root
    /\ waiting = [s \in UserSem \cup SoftSem |-> {}]
    /\ sem \in [UserSem -> {0, 1}]
    /\ halted = FALSE

Progeny(p) ==   \* the least set with p and the children of its members
  {x \in Pcb : \A S \in SUBSET Pcb :
                 (p \in S /\ \A y \in Pcb : parent[y] \in S => y \in S) => x \in S}

Schedule(R) ==  \* one of R runs next
  \/ /\ R = {}
     /\ ready' = {} /\ running' = NULL /\ halted' = TRUE
  \/ \E p \in R : ready' = R \ {p} /\ running' = p /\ halted' = FALSE

Create(p, pr) ==
  /\ p \in free
  /\ free' = free \ {p}
  /\ parent' = [parent EXCEPT ![p] = running]
  /\ prio' = [prio EXCEPT ![p] = pr]
  /\ ready' = ready \cup {p}
  /\ UNCHANGED <<running, waiting, sem, halted>>

(***************************************************************************)
(* The caller of a kill is not ready afterwards: scheduler() replaces it   *)
(* and its state is not saved.                                             *)
(***************************************************************************)
Kill(v) ==
  /\ v \notin free
  /\ free' = free \cup Progeny(v)
  /\ parent' = [x \in Pcb |-> IF x \in Progeny(v) THEN NULL ELSE parent[x]]
  /\ waiting' = [s \in UserSem \cup SoftSem |-> waiting[s] \ Progeny(v)]
  /\ IF Progeny(v) \cap ready = {} THEN Schedule(ready)
     ELSE halted' = TRUE /\ UNCHANGED <<ready, running>>
  /\ UNCHANGED <<prio, sem>>

Halt == halted' = TRUE /\ UNCHANGED <<ready, running, waiting>>

Block(s) ==
  /\ waiting' = [waiting EXCEPT ![s] = @ \cup {running}]
  /\ Schedule(ready)

P(s) ==
  /\ sem' = [sem EXCEPT ![s] = @ - 1]
  /\ IF sem[s] <= 0 THEN Block(s)
     ELSE UNCHANGED <<ready, running, waiting, halted>>
  /\ UNCHANGED <<free, parent, prio>>

(***************************************************************************)
(* A command to a device, or NSYS7: the caller always waits.               *)
(***************************************************************************)
Wait(s) == Block(s) /\ UNCHANGED <<free, parent, prio, sem>>

V(s) ==
  /\ sem' = [sem EXCEPT ![s] = @ + 1]
  /\ IF sem[s] + 1 <= 0 /\ waiting[s] # {}
     THEN \E p \in waiting[s] :
            /\ \A q \in waiting[s] : prio[p] >= prio[q]
            /\ waiting' = [waiting EXCEPT ![s] = @ \ {p}]
            /\ ready' = ready \cup {p}
     ELSE UNCHANGED <<ready, waiting>>
  /\ UNCHANGED <<free, parent, prio, running, halted>>

Tick ==
  /\ ready' = ready \cup waiting[Clock]
  /\ waiting' = [waiting EXCEPT ![Clock] = {}]
  /\ UNCHANGED <<free, parent, prio, running, sem, halted>>

Preempt ==
  /\ Schedule(ready \cup {running})
  /\ UNCHANGED <<free, parent, prio, waiting, sem>>

Next ==
  /\ ~ halted
  /\ \/ \E p \in Pcb, pr \in Prio : Create(p, pr)
     \/ \E v \in Pcb : Kill(v)
     \/ \E s \in UserSem : P(s) \/ V(s)
     \/ \E s \in SoftSem : Wait(s)
     \/ Tick
     \/ Preempt
     \/ Halt /\ UNCHANGED <<free, parent, prio, sem>>

Spec == Init /\ [][Next]_vars
=============================================================================
