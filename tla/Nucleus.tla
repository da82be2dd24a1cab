------------------------------ MODULE Nucleus ------------------------------
(***************************************************************************)
(* The phase 2 nucleus: processes that are created, blocked, woken and     *)
(* killed by the system calls of exceptions.c, dispatched by scheduler.c,  *)
(* and moved between queues by the interrupt handlers of interrupts.c, on  *)
(* top of the PCB and semaphore lists of phase 1.                          *)
(*                                                                         *)
(* The nucleus runs on one processor with interrupts masked, so a handler  *)
(* is one step: from the exception to the LDST that leaves the kernel.     *)
(* The interleaving is that of the processes and the devices: in every     *)
(* state in which a process runs it may make any system call or fault, and *)
(* any timer or busy device may interrupt it.                              *)
(*                                                                         *)
(* Abstracted: the processor states and the registers, the CPU times, the  *)
(* pids (a pid names one live PCB), the order of the free list (any free   *)
(* PCB may be allocated) and of siblings.  A semaphore descriptor exists   *)
(* while its queue is not empty; module Asl has the two descriptor lists.  *)
(***************************************************************************)
EXTENDS ProcQueue, FiniteSets

CONSTANTS
  Pcb,       \* the entries of pcbFree_table
  UserSem,   \* addresses of the semaphores that processes use with P and V
  DevSem,    \* addresses of device_semaphores[0 .. 47]
  Clock,     \* address of the pseudo-clock semaphore
  Prio,      \* the priorities a process may be created with
  Support,   \* whether it may be given a support structure
  NULL,
  MinSem,    \* bounds for model checking, on the value of a semaphore
  MaxSem,
  MaxSoft    \* and on softblockcount

SoftSem == DevSem \cup {Clock}
Sem     == UserSem \cup SoftSem
MAXPROC == Cardinality(Pcb)

ASSUME PcbAssumption   == IsFiniteSet(Pcb) /\ Pcb # {}
ASSUME SemAssumption   == /\ UserSem \cap SoftSem = {}
                          /\ Clock \notin DevSem
                          /\ IsFiniteSet(Sem)
ASSUME NULLAssumption  == NULL \notin Pcb /\ NULL \notin Sem
ASSUME PrioAssumption  == Prio \subseteq Int /\ 0 \in Prio
ASSUME SupportAssumption == Support \subseteq BOOLEAN
ASSUME BoundAssumption == /\ MinSem \in Int /\ MinSem < 0
                          /\ MaxSem \in Int
                          /\ MaxSoft \in Int

VARIABLES
  pcbFree_h,        \* the free PCBs
  p_parent, p_child, p_prio, p_semAdd,
  p_supportStruct,  \* does the PCB have a support structure?
  readyQueue,
  procq,            \* s_procq of the descriptor of each semaphore
  sem,              \* the semaphores' values
  processCount, softblockcount, current_process,
  dev,              \* "busy" from the command until the interrupt
  cpu               \* "run", or why no process runs any more:
                    \* "nullstate": scheduler() loaded the state of PCB NULL
                    \* "returned": the exception handler returned, no LDST
                    \* "badlist": a PCB was freed inside the ready queue

tree   == <<p_parent, p_child>>
queues == <<readyQueue, procq>>
counts == <<processCount, softblockcount>>
vars   == <<pcbFree_h, p_parent, p_child, p_prio, p_semAdd, p_supportStruct,
            readyQueue, procq, sem, processCount, softblockcount,
            current_process, dev, cpu>>

Live    == Pcb \ pcbFree_h
Running == cpu = "run"

-----------------------------------------------------------------------------
(***************************************************************************)
(* The state in which main's scheduler() has dispatched the first process. *)
(***************************************************************************)
Init ==
  \E root \in Pcb :
    /\ pcbFree_h = Pcb \ {root}
    /\ p_parent = [p \in Pcb |-> NULL]
    /\ p_child = [p \in Pcb |-> {}]
    /\ p_prio = [p \in Pcb |-> 0]
    /\ p_semAdd = [p \in Pcb |-> NULL]
    /\ p_supportStruct = [p \in Pcb |-> FALSE]
    /\ readyQueue = <<>>
    /\ procq = [s \in Sem |-> <<>>]
    /\ sem \in {f \in [Sem -> 0 .. 1] : \A s \in SoftSem : f[s] = 0}
    /\ processCount = 1
    /\ softblockcount = 0
    /\ current_process = root
    /\ dev = [d \in DevSem |-> "idle"]
    /\ cpu = "run"

(***************************************************************************)
(* scheduler() with q in the ready queue: its head runs next.  The         *)
(* emptiness test stands behind the LDST and is never reached: with an     *)
(* empty queue the state of PCB NULL is loaded.                            *)
(***************************************************************************)
DispatchAnyway(q) == \* mutant: PCB NULL taken for a process
  /\ readyQueue' = IF q = <<>> THEN q ELSE Tail(q)
  /\ current_process' = IF q = <<>> THEN NULL ELSE Head(q)
  /\ cpu' = "run"

DispatchPeek(q) ==   \* mutant: the PCB stays in the ready queue
  /\ readyQueue' = q
  /\ current_process' = IF q = <<>> THEN NULL ELSE Head(q)
  /\ cpu' = IF q = <<>> THEN "nullstate" ELSE "run"

DispatchLast(q) ==   \* mutant: list_prev, the last one runs next
  /\ readyQueue' = IF q = <<>> THEN q ELSE SubSeq(q, 1, Len(q) - 1)
  /\ current_process' = IF q = <<>> THEN NULL ELSE q[Len(q)]
  /\ cpu' = IF q = <<>> THEN "nullstate" ELSE "run"

Dispatch(q) ==
  /\ readyQueue' = IF q = <<>> THEN q ELSE Tail(q)
  /\ current_process' = IF q = <<>> THEN NULL ELSE Head(q)
  /\ cpu' = IF q = <<>> THEN "nullstate" ELSE "run"

Resume == UNCHANGED <<current_process, cpu>>   \* LDST of the interrupted state

Return ==             \* the handler returns to code that does not expect it
  /\ cpu' = "returned"
  /\ UNCHANGED current_process

-----------------------------------------------------------------------------
(***************************************************************************)
(* NSYS1.  With no free PCB the caller gets -1 and nothing changes.        *)
(***************************************************************************)
AddChildNot(p) == UNCHANGED tree   \* mutant: insertChild is forgotten

AddChild(p) ==       \* allocPcb emptied p's lists; insertChild links it
  /\ p_parent' = [p_parent EXCEPT ![p] = current_process]
  /\ p_child' = [p_child EXCEPT ![p] = {}, ![current_process] = @ \cup {p}]

CreateProcess(p, prio, support) ==
  /\ Running
  /\ p \in pcbFree_h
  /\ pcbFree_h' = pcbFree_h \ {p}
  /\ AddChild(p)
  /\ p_prio' = [p_prio EXCEPT ![p] = prio]
  /\ p_semAdd' = [p_semAdd EXCEPT ![p] = NULL]
  /\ p_supportStruct' = [p_supportStruct EXCEPT ![p] = support]
  /\ readyQueue' = InsertProcQ(readyQueue, p, p_prio')
  /\ processCount' = processCount + 1
  /\ Resume
  /\ UNCHANGED <<procq, sem, softblockcount, dev>>

-----------------------------------------------------------------------------
(***************************************************************************)
(* The PCBs processKiller(p) reaches: p and all its progeny.               *)
(***************************************************************************)
Subtree(p) ==
  {x \in Pcb : \A S \in SUBSET Pcb :
                 (p \in S /\ \A y \in S : p_child[y] \subseteq S) => x \in S}

(***************************************************************************)
(* The victims leave the tree and their semaphores' queues and are freed.  *)
(* No semaphore is incremented for them.  outBlocked has cleared p_semAdd  *)
(* when processKiller looks at it, so softblockcount falls only for a      *)
(* victim whose p_semAdd names a queue it is not in.                       *)
(***************************************************************************)
NotQueued(D) == {x \in D : /\ p_semAdd[x] \in SoftSem
                           /\ x \notin ToSet(procq[p_semAdd[x]])}

CutOff(p, D) ==
  /\ p_parent' = [x \in Pcb |-> IF x \in D THEN NULL ELSE p_parent[x]]
  /\ p_child' = [x \in Pcb |-> IF x \in D THEN {} ELSE p_child[x] \ {p}]

KillCountOne(D) == processCount - 1   \* mutant: one decrement for the subtree
KillCount(D)    == processCount - Cardinality(D)

Kill(p) ==
  LET D == Subtree(p)
  IN  /\ pcbFree_h' = pcbFree_h \cup D
      /\ CutOff(p, D)
      /\ p_semAdd' = [x \in Pcb |-> IF x \in D THEN NULL ELSE p_semAdd[x]]
      /\ procq' = [s \in Sem |-> Without(procq[s], D)]
      /\ processCount' = KillCount(D)
      /\ softblockcount' = softblockcount - Cardinality(NotQueued(D))
      /\ UNCHANGED <<p_prio, p_supportStruct, sem, dev>>

(***************************************************************************)
(* processKiller(p) and then scheduler().  processKiller never takes a PCB *)
(* out of the ready queue: freePcb relinks the node of a ready victim into *)
(* the free list while its neighbours still point at it.  The model stops  *)
(* there, with the ready queue as it was.                                  *)
(***************************************************************************)
KillAndSchedule(p) ==
  /\ Kill(p)
  /\ IF Subtree(p) \cap ToSet(readyQueue) = {}
     THEN Dispatch(readyQueue)
     ELSE cpu' = "badlist" /\ UNCHANGED <<readyQueue, current_process>>

(***************************************************************************)
(* findProcess: the search starts at the root of the caller's tree.        *)
(***************************************************************************)
Findable == UNION {Subtree(r) : r \in {x \in Pcb : /\ p_parent[x] = NULL
                                          /\ current_process \in Subtree(x)}}

(***************************************************************************)
(* NSYS2 with pid 0, and with the pid of target; target = NULL stands for  *)
(* a pid that no live process has.  The caller's state is not saved.       *)
(***************************************************************************)
TerminateSelf == Running /\ KillAndSchedule(current_process)

TerminateProcess(target) ==
  /\ Running
  /\ target \in Findable
  /\ KillAndSchedule(target)

TerminateUnknown(target) ==
  /\ Running
  /\ target \notin Findable
  /\ Return
  /\ UNCHANGED <<pcbFree_h, tree, p_prio, p_semAdd, p_supportStruct, queues,
                 sem, counts, dev>>

(***************************************************************************)
(* passUpOrDie of a process without a support structure.  With one, the    *)
(* support level's handler is loaded and the nucleus keeps its state.      *)
(***************************************************************************)
Die ==
  /\ Running
  /\ ~ p_supportStruct[current_process]
  /\ KillAndSchedule(current_process)

-----------------------------------------------------------------------------
(***************************************************************************)
(* insertBlocked(s, current_process) and scheduler(), behind a decrement   *)
(* that left s negative.  insertBlocked fails when s has no descriptor yet *)
(* and all MAXPROC are taken; its callers ignore that.                     *)
(***************************************************************************)
AslFullEarly(s) ==   \* mutant: one descriptor is missing
  /\ procq[s] = <<>>
  /\ Cardinality({t \in Sem : procq[t] # <<>>}) >= MAXPROC - 1

AslFull(s) ==
  /\ procq[s] = <<>>
  /\ Cardinality({t \in Sem : procq[t] # <<>>}) >= MAXPROC

BlockOn(s) ==
  /\ p_semAdd' = [p_semAdd EXCEPT ![current_process] = s]
  /\ procq' = IF AslFull(s) THEN procq
              ELSE [procq EXCEPT ![s] = InsertProcQ(@, current_process, p_prio)]
  /\ Dispatch(readyQueue)

(***************************************************************************)
(* NSYS3.                                                                  *)
(***************************************************************************)
Passeren(s) ==
  /\ Running
  /\ sem[s] > MinSem
  /\ sem' = [sem EXCEPT ![s] = @ - 1]
  /\ \/ /\ sem[s] > 0
        /\ Resume
        /\ UNCHANGED <<p_semAdd, queues>>
     \/ /\ sem[s] <= 0
        /\ BlockOn(s)
  /\ UNCHANGED <<pcbFree_h, tree, p_prio, p_supportStruct, counts, dev>>

(***************************************************************************)
(* removeBlocked(s): the first waiter, if any; it joins the ready queue.   *)
(***************************************************************************)
WakeLast(s) ==       \* mutant: the waiter taken is the last one
  LET q == procq[s]
  IN  IF q = <<>> THEN UNCHANGED <<p_semAdd, queues>>
      ELSE /\ p_semAdd' = [p_semAdd EXCEPT ![q[Len(q)]] = NULL]
           /\ procq' = [procq EXCEPT ![s] = SubSeq(q, 1, Len(q) - 1)]
           /\ readyQueue' = InsertProcQ(readyQueue, q[Len(q)], p_prio)

Wake(s) ==
  LET q == procq[s]
  IN  IF q = <<>> THEN UNCHANGED <<p_semAdd, queues>>
      ELSE /\ p_semAdd' = [p_semAdd EXCEPT ![Head(q)] = NULL]
           /\ procq' = [procq EXCEPT ![s] = Tail(q)]
           /\ readyQueue' = InsertProcQ(readyQueue, Head(q), p_prio)

(***************************************************************************)
(* NSYS4.  The caller goes on running.                                     *)
(***************************************************************************)
MustWakeStrict(s) == sem[s] + 1 < 0   \* mutant: < for <=
MustWake(s) == sem[s] + 1 <= 0

Verhogen(s) ==
  /\ Running
  /\ sem[s] < MaxSem
  /\ sem' = [sem EXCEPT ![s] = @ + 1]
  /\ IF MustWake(s) THEN Wake(s) ELSE UNCHANGED <<p_semAdd, queues>>
  /\ Resume
  /\ UNCHANGED <<pcbFree_h, tree, p_prio, p_supportStruct, counts, dev>>

(***************************************************************************)
(* semaphoreP, the P of NSYS5 and NSYS7.  When it does not block, doIO and *)
(* waitForClock return through a syscallHandler that has no LDST for them. *)
(***************************************************************************)
SoftBlockNot == softblockcount' = softblockcount   \* mutant: not counted
SoftBlock    == softblockcount' = softblockcount + 1

(***************************************************************************)
(* Nothing ever raises the semaphore of a device or of the clock, and no   *)
(* one tests more than its sign (DeviceInterrupt takes the value for an    *)
(* address, where no semaphore is), so the model stops counting at MinSem. *)
(* What bounds these calls is softblockcount, which killed waiters raise.  *)
(***************************************************************************)
Lowered(s) == IF sem[s] > MinSem THEN sem[s] - 1 ELSE MinSem

SemaphoreP(s) ==
  /\ softblockcount < MaxSoft
  /\ sem' = [sem EXCEPT ![s] = Lowered(s)]
  /\ IF sem[s] > 0
     THEN Return /\ UNCHANGED <<p_semAdd, queues, softblockcount>>
     ELSE BlockOn(s) /\ SoftBlock
  /\ UNCHANGED <<pcbFree_h, tree, p_prio, p_supportStruct, processCount>>

DoIO(d) ==
  /\ Running
  /\ SemaphoreP(d)
  /\ dev' = [dev EXCEPT ![d] = "busy"]

DoIOBadLine ==       \* a command address of no device line: a0 = -1, no LDST
  /\ Running
  /\ Return
  /\ UNCHANGED <<pcbFree_h, tree, p_prio, p_semAdd, p_supportStruct, queues,
                 sem, counts, dev>>

WaitForClock ==
  /\ Running
  /\ SemaphoreP(Clock)
  /\ UNCHANGED dev

(***************************************************************************)
(* NSYS10: to the tail of the ready queue, whatever the priorities.        *)
(***************************************************************************)
Yield ==
  /\ Running
  /\ Dispatch(Append(readyQueue, current_process))
  /\ UNCHANGED <<pcbFree_h, tree, p_prio, p_semAdd, p_supportStruct, procq,
                 sem, counts, dev>>

-----------------------------------------------------------------------------
(***************************************************************************)
(* The interrupt handlers.  Interrupts come while a process runs, so       *)
(* current_process is never NULL and the other branch is never taken.      *)
(***************************************************************************)
PLTInterrupt ==
  /\ Running
  /\ Dispatch(InsertProcQ(readyQueue, current_process, p_prio))
  /\ UNCHANGED <<pcbFree_h, tree, p_prio, p_semAdd, p_supportStruct, procq,
                 sem, counts, dev>>

(***************************************************************************)
(* The device's command is acknowledged.  removeBlocked gets the VALUE of  *)
(* the semaphore for its address: 0 is NULL, and a small negative number   *)
(* is the address of no semaphore, so nobody is ever found.                *)
(***************************************************************************)
DeviceInterrupt(d) ==
  /\ Running
  /\ dev[d] = "busy"
  /\ dev' = [dev EXCEPT ![d] = "idle"]
  /\ Resume
  /\ UNCHANGED <<pcbFree_h, tree, p_prio, p_semAdd, p_supportStruct, queues,
                 sem, counts>>

(***************************************************************************)
(* Every waiter of the pseudo-clock joins the ready queue, in the order of *)
(* its queue.  The value of the semaphore is left as it is.                *)
(***************************************************************************)
ClockWaitersReversed == Reverse(procq[Clock])   \* mutant: taken from the tail
ClockWaitersFirst ==   \* mutant: only the head is woken
  IF procq[Clock] = <<>> THEN <<>> ELSE <<Head(procq[Clock])>>
ClockWaiters == procq[Clock]

IntervalTimerInterrupt ==
  /\ Running
  /\ p_semAdd' = [p \in Pcb |-> IF p \in ToSet(ClockWaiters) THEN NULL
                                ELSE p_semAdd[p]]
  /\ procq' = [procq EXCEPT ![Clock] = Without(@, ToSet(ClockWaiters))]
  /\ softblockcount' = softblockcount - Len(ClockWaiters)
  /\ readyQueue' = InsertAll(readyQueue, ClockWaiters, p_prio)
  /\ Resume
  /\ UNCHANGED <<pcbFree_h, tree, p_prio, p_supportStruct, sem, processCount,
                 dev>>

-----------------------------------------------------------------------------
(***************************************************************************)
(* The alternatives are the cases of syscallHandler (NSYS6, 8 and 9 answer *)
(* the caller and change nothing that is modelled; the wrong a0 and the    *)
(* other exceptions are Die, or are passed up) and the handlers of         *)
(* interruptHandler.                                                       *)
(***************************************************************************)
Next ==
  \/ \E p \in Pcb, prio \in Prio, support \in Support :
        CreateProcess(p, prio, support)
  \/ TerminateSelf
  \/ \E target \in Live : TerminateProcess(target)
  \/ \E target \in Live \cup {NULL} : TerminateUnknown(target)
  \/ Die
  \/ \E s \in UserSem : Passeren(s) \/ Verhogen(s)
  \/ \E d \in DevSem : DoIO(d) \/ DeviceInterrupt(d)
  \/ DoIOBadLine
  \/ WaitForClock
  \/ Yield
  \/ PLTInterrupt
  \/ IntervalTimerInterrupt

Spec == Init /\ [][Next]_vars

(***************************************************************************)
(* The interval timer is a free-running hardware timer that is reloaded at *)
(* every interrupt, and a running process never masks it: as long as some  *)
(* process runs, the next tick comes.                                      *)
(***************************************************************************)
FairSpec == Spec /\ WF_vars(IntervalTimerInterrupt)

-----------------------------------------------------------------------------
(***************************************************************************)
(* Properties.                                                             *)
(***************************************************************************)
TypeOK ==
  /\ pcbFree_h \in SUBSET Pcb
  /\ p_parent \in [Pcb -> Pcb \cup {NULL}]
  /\ p_child \in [Pcb -> SUBSET Pcb]
  /\ p_prio \in [Pcb -> Prio]
  /\ p_semAdd \in [Pcb -> Sem \cup {NULL}]
  /\ p_supportStruct \in [Pcb -> BOOLEAN]
  /\ readyQueue \in Seq(Pcb)
  /\ procq \in [Sem -> Seq(Pcb)]
  /\ sem \in [Sem -> Int]
  /\ processCount \in Int
  /\ softblockcount \in Int
  /\ current_process \in Pcb \cup {NULL}
  /\ dev \in [DevSem -> {"idle", "busy"}]
  /\ cpu \in {"run", "nullstate", "returned", "badlist"}
  /\ Running => current_process \in Pcb

(***************************************************************************)
(* A PCB is in at most one place: running, free, or once in one queue.     *)
(* insertProcQ would silently unlink a PCB that another queue still counts *)
(* on, and a free PCB in a queue is handed out again by allocPcb while it  *)
(* is queued, so every queue of the nucleus depends on this.               *)
(***************************************************************************)
Placed ==
  /\ IsInjective(readyQueue)
  /\ \A s \in Sem : IsInjective(procq[s])
  /\ \A s, t \in Sem : s # t => ToSet(procq[s]) \cap ToSet(procq[t]) = {}
  /\ \A s \in Sem : ToSet(procq[s]) \cap ToSet(readyQueue) = {}
  /\ \A s \in Sem : ToSet(procq[s]) \cap (pcbFree_h \cup {current_process}) = {}
  /\ ToSet(readyQueue) \cap (pcbFree_h \cup {current_process}) = {}
  /\ current_process \notin pcbFree_h

PlacedOnce == cpu # "badlist" => Placed

(***************************************************************************)
(* p_semAdd names the one semaphore whose queue holds the PCB, and no      *)
(* other PCB has one: outBlocked and processKiller find a victim's queue   *)
(* by it.  It fails when insertBlocked fails, whose result passeren and    *)
(* semaphoreP drop: MAXPROC descriptors are enough for MAXPROC PCBs.       *)
(***************************************************************************)
BlockedWhereItSays ==
  \A p \in Pcb, s \in Sem : p_semAdd[p] = s <=> p \in ToSet(procq[s])

(***************************************************************************)
(* A semaphore of the processes never has more waiters than its value      *)
(* owes, and nobody waits for a device or the clock unless its semaphore   *)
(* is negative: no process sleeps on a semaphore that is open, whatever    *)
(* mixture of P, V, clock ticks and killed waiters came before.            *)
(***************************************************************************)
NoLostWakeup ==
  /\ \A s \in UserSem : Len(procq[s]) <= IF sem[s] < 0 THEN - sem[s] ELSE 0
  /\ \A s \in SoftSem : procq[s] # <<>> => sem[s] < 0

(***************************************************************************)
(* What the value of a semaphore of the processes owes beyond its waiters: *)
(* it grows by one for each waiter that is killed and by nothing else, and *)
(* it is paid by a V only when nobody waits.  As long as no waiter is      *)
(* killed a negative value is therefore the number of the waiters.         *)
(***************************************************************************)
Debt(s) == (IF sem[s] < 0 THEN - sem[s] ELSE 0) - Len(procq[s])

DebtByKillsOnly ==
  [][\A s \in UserSem :
       \/ Debt(s)' = Debt(s) + Cardinality(ToSet(procq[s]) \cap pcbFree_h')
       \/ procq[s] = <<>> /\ Debt(s)' = Debt(s) - 1]_vars

(***************************************************************************)
(* processCount counts the PCBs in use, also behind the recursive kills.   *)
(* The scheduler means to halt the machine by it.                          *)
(***************************************************************************)
ProcessCountExact == processCount = Cardinality(Live)

(***************************************************************************)
(* softblockcount is never below the number of processes that wait for a   *)
(* device or the clock: while one of them waits, a scheduler that goes by  *)
(* the count would wait for it and not report a deadlock.                  *)
(***************************************************************************)
SoftBlocked == {p \in Pcb : \E s \in SoftSem : p \in ToSet(procq[s])}

SoftBlockNeverShort == Cardinality(SoftBlocked) <= softblockcount

(***************************************************************************)
(* By how much the count is too high: it grows apart from the number of    *)
(* those who wait with every one of them that is killed, by one, and by    *)
(* nothing else.  P's of devices and the clock, ticks that wake several    *)
(* and kills of others keep the difference as it is.                       *)
(***************************************************************************)
SoftBlockDriftsByKills ==
  [][softblockcount' - Cardinality(SoftBlocked')
       = softblockcount - Cardinality(SoftBlocked)
           + Cardinality(SoftBlocked \cap pcbFree_h')]_vars

(***************************************************************************)
(* Parents and child lists agree, free PCBs are out of the tree, and the   *)
(* search of findProcess reaches every live process: a pid that exists can *)
(* be terminated by any process.                                           *)
(***************************************************************************)
OneTree ==
  /\ \A p, c \in Pcb : c \in p_child[p] <=> p_parent[c] = p
  /\ \A p \in pcbFree_h : p_parent[p] = NULL /\ p_child[p] = {}
  /\ Running => Live \subseteq Findable

(***************************************************************************)
(* Blocked processes stand in the order of their priorities, so that the   *)
(* head of a semaphore's queue is a right choice.  (The ready queue is not *)
(* so: Yield appends to it.)                                               *)
(***************************************************************************)
BlockedSorted == \A s \in Sem : IsPrioSorted(procq[s], p_prio)

Before(q, x, y) == \E i, j \in DOMAIN q : i < j /\ q[i] = x /\ q[j] = y

(***************************************************************************)
(* First come, first served: waiters never overtake one another, and one   *)
(* that arrives stands behind all waiters that do not have a lower         *)
(* priority.                                                               *)
(***************************************************************************)
FirstComeFirstServed ==
  [][\A s \in Sem : \A x, y \in ToSet(procq'[s]) :
       /\ Before(procq[s], x, y) => Before(procq'[s], x, y)
       /\ /\ x \in ToSet(procq[s])
          /\ y \notin ToSet(procq[s])
          /\ p_prio[x] >= p_prio[y]
          => Before(procq'[s], x, y)]_vars

(***************************************************************************)
(* A wakeup takes the first waiter: whoever leaves a queue alive stood     *)
(* before all that stay.                                                   *)
(***************************************************************************)
FirstIsWoken ==
  [][\A s \in Sem : \A x \in ToSet(procq[s]) \ (ToSet(procq'[s]) \cup pcbFree_h') :
       \A y \in ToSet(procq'[s]) : Before(procq[s], x, y)]_vars

(***************************************************************************)
(* Behind queues, counters and descriptors the nucleus does what module    *)
(* NucleusSpec says of sets of processes: a kill takes exactly the progeny *)
(* and nobody else off its semaphore, V wakes one waiter of the highest    *)
(* priority if somebody waits, a tick wakes all waiters of the clock.      *)
(***************************************************************************)
Abstract == INSTANCE NucleusSpec WITH
  free <- pcbFree_h, parent <- p_parent, prio <- p_prio,
  ready <- ToSet(readyQueue), running <- current_process,
  waiting <- [s \in Sem |-> ToSet(procq[s])],
  sem <- [s \in UserSem |-> sem[s]], halted <- ~ Running

ImplementsNucleusSpec == Abstract!Spec

(***************************************************************************)
(* A live process that neither runs nor is in a queue will never run.      *)
(* This happens to the caller of a kill only, when it survives it; and who *)
(* is lost stays so until it is killed.                                    *)
(***************************************************************************)
Lost == {p \in Live : /\ p # current_process
                      /\ p \notin ToSet(readyQueue)
                      /\ \A s \in Sem : p \notin ToSet(procq[s])}

OnlyKillersGetLost ==
  [][/\ \A p \in Lost' \ Lost : p = current_process /\ pcbFree_h' # pcbFree_h
     /\ Lost \ Lost' \subseteq pcbFree_h']_vars

(***************************************************************************)
(* Ready processes never overtake one another, and the one dispatched, or  *)
(* any other that leaves the ready queue alive, stood before all that      *)
(* stay.                                                                   *)
(***************************************************************************)
ReadyInTurn ==
  [][\A y \in ToSet(readyQueue) \cap ToSet(readyQueue') :
       \A x \in ToSet(readyQueue) :
         /\ x \in ToSet(readyQueue') /\ Before(readyQueue, x, y)
              => Before(readyQueue', x, y)
         /\ x \notin ToSet(readyQueue') => Before(readyQueue, x, y)]_vars

(***************************************************************************)
(* Processes that a tick wakes together are ready in the order in which    *)
(* they waited: one insertProcQ after another does not mix them up, though *)
(* the ready queue they go to need not be sorted.                          *)
(***************************************************************************)
WokenInOrder ==
  [][\A s \in Sem : \A x, y \in ToSet(procq[s]) \cap ToSet(readyQueue') :
       Before(procq[s], x, y) => Before(readyQueue', x, y)]_vars

(***************************************************************************)
(* A process that waits for the pseudo-clock is woken (or killed), or the  *)
(* machine stops: the tick takes all waiters, those of low priority too,   *)
(* before which processes of a higher one may wait again and again.        *)
(***************************************************************************)
ClockWaitersWoken ==
  \A p \in Pcb : p \in ToSet(procq[Clock])
                   ~> p \notin ToSet(procq[Clock]) \/ ~ Running

-----------------------------------------------------------------------------
(***************************************************************************)
(* Statements of the repository that the code does not keep.               *)
(***************************************************************************)

(***************************************************************************)
(* scheduler.c:40-61 halts, panics or waits when the ready queue is empty; *)
(* it never loads the state of a PCB that does not exist.                  *)
(***************************************************************************)
SchedulerIdles == cpu # "nullstate"

(***************************************************************************)
(* inizialize.c:21: softblockcount is the number of blocked processes; as  *)
(* scheduler.c uses it, of those that wait for a device or the clock.      *)
(***************************************************************************)
SoftBlockExact == softblockcount = Cardinality(SoftBlocked)

(***************************************************************************)
(* interrupts.h:12-13: the device interrupt performs a V on the device's   *)
(* semaphore to unblock the waiting PCB.                                   *)
(***************************************************************************)
DeviceInterruptWakes ==
  [][\A d \in DevSem : /\ dev[d] = "busy" /\ dev'[d] = "idle"
                       /\ procq[d] # <<>>
                       => Len(procq'[d]) < Len(procq[d])]_vars

(***************************************************************************)
(* exceptions.h:8: processKiller kills p and all its progeny.  A process   *)
(* that was killed is not in line for the processor any more.              *)
(***************************************************************************)
KilledNotReady == ToSet(readyQueue) \cap pcbFree_h = {}

(***************************************************************************)
(* exceptions.h:8 again: it kills no one else.  Every live process runs or *)
(* is in a queue from which it will run.                                   *)
(***************************************************************************)
NobodyElseLost ==
  Running => \A p \in Live : \/ p = current_process
                             \/ p \in ToSet(readyQueue)
                             \/ \E s \in Sem : p \in ToSet(procq[s])
=============================================================================
