--------------------------- MODULE NucleusProofs ---------------------------
(***************************************************************************)
(* Theorems about the nucleus, for any number of PCBs and semaphores, any  *)
(* priorities and any assignment of support structures.                    *)
(***************************************************************************)
EXTENDS Nucleus, ProcQueueProofs, FiniteSetTheorems

(***************************************************************************)
(* processKiller stays within the PCB table.                               *)
(***************************************************************************)
LEMMA SubtreeType ==
  ASSUME NEW p
  PROVE  Subtree(p) \subseteq Pcb /\ Cardinality(Subtree(p)) \in Nat
<1>1. Subtree(p) \subseteq Pcb
  BY DEF Subtree
<1>2. IsFiniteSet(Subtree(p))
  BY <1>1, PcbAssumption, FS_Subset
<1> QED BY <1>1, <1>2, FS_CardinalityType

(***************************************************************************)
(* scheduler() runs the head of the queue, or nobody.                      *)
(***************************************************************************)
LEMMA DispatchType ==
  ASSUME NEW q \in Seq(Pcb), Dispatch(q)
  PROVE  /\ readyQueue' \in Seq(Pcb)
         /\ current_process' \in Pcb \cup {NULL}
         /\ cpu' \in {"run", "nullstate", "returned", "badlist"}
         /\ cpu' = "run" => current_process' \in Pcb
<1>1. CASE q = <<>>
  BY <1>1 DEF Dispatch
<1>2. CASE q # <<>>
  <2>1. Head(q) \in Pcb /\ Tail(q) \in Seq(Pcb)
    BY <1>2, HeadTailPlaces
  <2> QED BY <1>2, <2>1 DEF Dispatch
<1> QED BY <1>1, <1>2

(***************************************************************************)
(* The priorities are numbers, as the lemmas on insertProcQ need them.     *)
(***************************************************************************)
LEMMA PrioType == TypeOK => p_prio \in [Pcb -> Int]
  BY PrioAssumption DEF TypeOK

(***************************************************************************)
(* processKiller and the scheduler() behind it keep the types, whether or  *)
(* not a victim was ready.                                                 *)
(***************************************************************************)
LEMMA KillType ==
  ASSUME TypeOK, NEW p, KillAndSchedule(p)
  PROVE  TypeOK'
<1> DEFINE D == Subtree(p)
<1>1. D \subseteq Pcb /\ Cardinality(D) \in Nat
  BY SubtreeType
<1>2. Cardinality(NotQueued(D)) \in Nat
  <2>1. NotQueued(D) \subseteq Pcb
    BY <1>1 DEF NotQueued
  <2> QED BY <2>1, PcbAssumption, FS_Subset, FS_CardinalityType
<1>3. /\ pcbFree_h' = pcbFree_h \cup D
      /\ CutOff(p, D)
      /\ p_semAdd' = [x \in Pcb |-> IF x \in D THEN NULL ELSE p_semAdd[x]]
      /\ procq' = [s \in Sem |-> Without(procq[s], D)]
      /\ processCount' = processCount - Cardinality(D)
      /\ softblockcount' = softblockcount - Cardinality(NotQueued(D))
      /\ UNCHANGED <<p_prio, p_supportStruct, sem, dev>>
  BY DEF KillAndSchedule, Kill, KillCount
<1> HIDE DEF D
<1>4. /\ readyQueue' \in Seq(Pcb)
      /\ current_process' \in Pcb \cup {NULL}
      /\ cpu' \in {"run", "nullstate", "returned", "badlist"}
      /\ cpu' = "run" => current_process' \in Pcb
  <2>1. CASE Dispatch(readyQueue)
    BY <2>1, DispatchType DEF TypeOK
  <2>2. CASE cpu' = "badlist" /\ UNCHANGED <<readyQueue, current_process>>
    BY <2>2 DEF TypeOK
  <2> QED BY <2>1, <2>2 DEF KillAndSchedule
<1>5. p_parent' \in [Pcb -> Pcb \cup {NULL}] /\ p_child' \in [Pcb -> SUBSET Pcb]
  BY <1>3 DEF CutOff, TypeOK
<1>6. procq' \in [Sem -> Seq(Pcb)]
  <2>1. \A s \in Sem : Without(procq[s], D) \in Seq(Pcb)
    BY WithoutProperties DEF TypeOK
  <2> QED BY <1>3, <2>1
<1>7. p_semAdd' \in [Pcb -> Sem \cup {NULL}] /\ pcbFree_h' \in SUBSET Pcb
  BY <1>1, <1>3 DEF TypeOK
<1>8. processCount' \in Int /\ softblockcount' \in Int
  BY <1>1, <1>2, <1>3 DEF TypeOK
<1> QED BY <1>3, <1>4, <1>5, <1>6, <1>7, <1>8 DEF TypeOK, Running

(***************************************************************************)
(* passeren and semaphoreP block the caller.                               *)
(***************************************************************************)
LEMMA BlockOnType ==
  ASSUME TypeOK, Running, NEW s \in Sem, BlockOn(s)
  PROVE  /\ p_semAdd' \in [Pcb -> Sem \cup {NULL}]
         /\ procq' \in [Sem -> Seq(Pcb)]
         /\ readyQueue' \in Seq(Pcb)
         /\ current_process' \in Pcb \cup {NULL}
         /\ cpu' \in {"run", "nullstate", "returned", "badlist"}
         /\ cpu' = "run" => current_process' \in Pcb
<1>1. current_process \in Pcb /\ procq \in [Sem -> Seq(Pcb)]
  BY DEF TypeOK
<1>2. InsertProcQ(procq[s], current_process, p_prio) \in Seq(Pcb)
  <2>1. procq[s] \in Seq(Pcb)
    BY <1>1
  <2> QED BY <1>1, <2>1, PrioType, InsertProcQProperties
<1>3. procq' \in [Sem -> Seq(Pcb)]
  <2>1. CASE procq' = procq
    BY <1>1, <2>1
  <2>2. CASE procq' = [procq EXCEPT ![s] = InsertProcQ(@, current_process, p_prio)]
    BY <1>1, <1>2, <2>2
  <2> QED BY <2>1, <2>2 DEF BlockOn
<1>4. p_semAdd' \in [Pcb -> Sem \cup {NULL}]
  BY <1>1 DEF BlockOn, TypeOK
<1>5. Dispatch(readyQueue) /\ readyQueue \in Seq(Pcb)
  BY DEF BlockOn, TypeOK
<1> QED BY <1>3, <1>4, <1>5, DispatchType

(***************************************************************************)
(* verhogen wakes a waiter.                                                *)
(***************************************************************************)
LEMMA WakeType ==
  ASSUME TypeOK, NEW s \in Sem, Wake(s)
  PROVE  /\ p_semAdd' \in [Pcb -> Sem \cup {NULL}]
         /\ procq' \in [Sem -> Seq(Pcb)]
         /\ readyQueue' \in Seq(Pcb)
<1> DEFINE q == procq[s]
<1>1. q \in Seq(Pcb) /\ procq \in [Sem -> Seq(Pcb)]
  BY DEF TypeOK
<1>2. CASE q = <<>>
  BY <1>2 DEF Wake, TypeOK, queues
<1>3. CASE q # <<>>
  <2>1. /\ p_semAdd' = [p_semAdd EXCEPT ![Head(q)] = NULL]
        /\ procq' = [procq EXCEPT ![s] = Tail(q)]
        /\ readyQueue' = InsertProcQ(readyQueue, Head(q), p_prio)
    BY <1>3 DEF Wake
  <2>2. Head(q) \in Pcb /\ Tail(q) \in Seq(Pcb)
    BY <1>1, <1>3, HeadTailPlaces
  <2> HIDE DEF q
  <2>3. readyQueue' \in Seq(Pcb)
    <3>1. readyQueue \in Seq(Pcb)
      BY DEF TypeOK
    <3> QED BY <2>1, <2>2, <3>1, PrioType, InsertProcQProperties
  <2>4. procq' \in [Sem -> Seq(Pcb)]
    BY <1>1, <2>1, <2>2
  <2>5. p_semAdd' \in [Pcb -> Sem \cup {NULL}]
    BY <2>1, <2>2 DEF TypeOK
  <2> QED BY <2>3, <2>4, <2>5
<1> QED BY <1>2, <1>3

(***************************************************************************)
(* doIO and waitForClock, without their devices.                           *)
(***************************************************************************)
LEMMA SemaphorePType ==
  ASSUME TypeOK, Running, NEW s \in Sem, SemaphoreP(s),
         dev' \in [DevSem -> {"idle", "busy"}]
  PROVE  TypeOK'
<1>1. /\ sem' = [sem EXCEPT ![s] = Lowered(s)]
      /\ UNCHANGED <<pcbFree_h, tree, p_prio, p_supportStruct, processCount>>
  BY DEF SemaphoreP
<1>2. sem' \in [Sem -> Int]
  <2>1. Lowered(s) \in Int
    BY BoundAssumption DEF Lowered, TypeOK
  <2> QED BY <1>1, <2>1 DEF TypeOK
<1>3. CASE sem[s] > 0
  <2>1. Return /\ UNCHANGED <<p_semAdd, queues, softblockcount>>
    BY <1>3 DEF SemaphoreP
  <2> QED BY <1>1, <1>2, <2>1 DEF TypeOK, Return, tree, queues, Running
<1>4. CASE ~ (sem[s] > 0)
  <2>1. BlockOn(s) /\ softblockcount' = softblockcount + 1
    BY <1>4 DEF SemaphoreP, SoftBlock
  <2>2. softblockcount' \in Int
    BY <2>1 DEF TypeOK
  <2> QED BY <1>1, <1>2, <2>1, <2>2, BlockOnType DEF TypeOK, tree, Running
<1> QED BY <1>3, <1>4

(***************************************************************************)
(* No handler takes the nucleus out of its types.                          *)
(***************************************************************************)
LEMMA TypeStep == TypeOK /\ [Next]_vars => TypeOK'
<1> SUFFICES ASSUME TypeOK, [Next]_vars PROVE TypeOK'
  OBVIOUS
<1>1. ASSUME NEW p \in Pcb, NEW prio \in Prio, NEW support \in Support,
             CreateProcess(p, prio, support)
      PROVE  TypeOK'
  <2>1. current_process \in Pcb /\ support \in BOOLEAN
    BY <1>1, SupportAssumption DEF CreateProcess, TypeOK
  <2>2. /\ p_parent' \in [Pcb -> Pcb \cup {NULL}]
        /\ p_child' \in [Pcb -> SUBSET Pcb]
    <3>1. p_parent' = [p_parent EXCEPT ![p] = current_process]
      BY <1>1 DEF CreateProcess, AddChild
    <3>2. p_child' = [p_child EXCEPT ![p] = {}, ![current_process] = @ \cup {p}]
      BY <1>1 DEF CreateProcess, AddChild
    <3> QED BY <2>1, <3>1, <3>2 DEF TypeOK
  <2>3. p_prio' \in [Pcb -> Prio] /\ p_prio' \in [Pcb -> Int]
    BY <1>1, PrioAssumption DEF CreateProcess, TypeOK
  <2>4. readyQueue' \in Seq(Pcb)
    <3>1. readyQueue \in Seq(Pcb) /\ readyQueue' = InsertProcQ(readyQueue, p, p_prio')
      BY <1>1 DEF CreateProcess, TypeOK
    <3> QED BY <2>3, <3>1, InsertProcQProperties
  <2>5. /\ p_semAdd' \in [Pcb -> Sem \cup {NULL}]
        /\ p_supportStruct' \in [Pcb -> BOOLEAN]
        /\ pcbFree_h' \in SUBSET Pcb
        /\ processCount' \in Int
    BY <1>1, <2>1 DEF CreateProcess, TypeOK
  <2>6. UNCHANGED <<procq, sem, softblockcount, dev, current_process, cpu>>
    BY <1>1 DEF CreateProcess, Resume
  <2> QED BY <2>2, <2>3, <2>4, <2>5, <2>6 DEF TypeOK, Running
<1>2. CASE TerminateSelf
  BY <1>2, KillType DEF TerminateSelf
<1>3. ASSUME NEW target, TerminateProcess(target) PROVE TypeOK'
  BY <1>3, KillType DEF TerminateProcess
<1>4. ASSUME NEW target, TerminateUnknown(target) PROVE TypeOK'
  BY <1>4 DEF TerminateUnknown, TypeOK, Return, Running, tree, queues, counts
<1>5. CASE Die
  BY <1>5, KillType DEF Die
<1>6. ASSUME NEW s \in UserSem, Passeren(s) PROVE TypeOK'
  <2>1. s \in Sem /\ sem' \in [Sem -> Int]
    BY <1>6 DEF Passeren, TypeOK, Sem
  <2>2. UNCHANGED <<pcbFree_h, tree, p_prio, p_supportStruct, counts, dev>>
    BY <1>6 DEF Passeren
  <2>3. CASE Resume /\ UNCHANGED <<p_semAdd, queues>>
    BY <2>1, <2>2, <2>3 DEF TypeOK, Resume, Running, tree, queues, counts
  <2>4. CASE BlockOn(s)
    <3>1. Running
      BY <1>6 DEF Passeren
    <3> QED BY <2>1, <2>2, <2>4, <3>1, BlockOnType
            DEF TypeOK, Running, tree, counts
  <2> QED BY <1>6, <2>3, <2>4 DEF Passeren
<1>7. ASSUME NEW s \in UserSem, Verhogen(s) PROVE TypeOK'
  <2>1. s \in Sem /\ sem' \in [Sem -> Int]
    BY <1>7 DEF Verhogen, TypeOK, Sem
  <2>2. /\ UNCHANGED <<pcbFree_h, tree, p_prio, p_supportStruct, counts, dev>>
        /\ UNCHANGED <<current_process, cpu>>
    BY <1>7 DEF Verhogen, Resume
  <2>3. CASE UNCHANGED <<p_semAdd, queues>>
    BY <2>1, <2>2, <2>3 DEF TypeOK, Running, tree, queues, counts
  <2>4. CASE Wake(s)
    BY <2>1, <2>2, <2>4, WakeType DEF TypeOK, Running, tree, counts
  <2> QED BY <1>7, <2>3, <2>4 DEF Verhogen
<1>8. ASSUME NEW d \in DevSem, DoIO(d) PROVE TypeOK'
  <2>1. d \in Sem /\ Running /\ SemaphoreP(d)
    BY <1>8 DEF DoIO, Sem, SoftSem
  <2>2. dev' \in [DevSem -> {"idle", "busy"}]
    BY <1>8 DEF DoIO, TypeOK
  <2> QED BY <2>1, <2>2, SemaphorePType
<1>9. ASSUME NEW d \in DevSem, DeviceInterrupt(d) PROVE TypeOK'
  BY <1>9 DEF DeviceInterrupt, TypeOK, Resume, Running, tree, queues, counts
<1>10. CASE DoIOBadLine
  BY <1>10 DEF DoIOBadLine, TypeOK, Return, Running, tree, queues, counts
<1>11. CASE WaitForClock
  <2>1. Clock \in Sem /\ Running /\ SemaphoreP(Clock)
    BY <1>11 DEF WaitForClock, Sem, SoftSem
  <2>2. dev' \in [DevSem -> {"idle", "busy"}]
    BY <1>11 DEF WaitForClock, TypeOK
  <2> QED BY <2>1, <2>2, SemaphorePType
<1>12. CASE Yield
  <2>1. current_process \in Pcb /\ readyQueue \in Seq(Pcb)
    BY <1>12 DEF Yield, TypeOK
  <2>2. Append(readyQueue, current_process) \in Seq(Pcb)
    BY <2>1
  <2>3. Dispatch(Append(readyQueue, current_process))
    BY <1>12 DEF Yield
  <2>4. UNCHANGED <<pcbFree_h, tree, p_prio, p_semAdd, p_supportStruct, procq,
                    sem, counts, dev>>
    BY <1>12 DEF Yield
  <2> QED BY <2>2, <2>3, <2>4, DispatchType DEF TypeOK, Running, tree, counts
<1>13. CASE PLTInterrupt
  <2> DEFINE q == InsertProcQ(readyQueue, current_process, p_prio)
  <2>1. current_process \in Pcb /\ readyQueue \in Seq(Pcb)
    BY <1>13 DEF PLTInterrupt, TypeOK
  <2>2. q \in Seq(Pcb)
    BY <2>1, PrioType, InsertProcQProperties
  <2>3. Dispatch(q)
    BY <1>13 DEF PLTInterrupt
  <2>4. UNCHANGED <<pcbFree_h, tree, p_prio, p_semAdd, p_supportStruct, procq,
                    sem, counts, dev>>
    BY <1>13 DEF PLTInterrupt
  <2> HIDE DEF q
  <2> QED BY <2>2, <2>3, <2>4, DispatchType DEF TypeOK, Running, tree, counts
<1>14. CASE IntervalTimerInterrupt
  <2> DEFINE w == procq[Clock]
  <2>1. Clock \in Sem /\ w \in Seq(Pcb) /\ Len(w) \in Nat
    BY DEF Sem, SoftSem, TypeOK
  <2>2. /\ p_semAdd' = [p \in Pcb |-> IF p \in ToSet(w) THEN NULL ELSE p_semAdd[p]]
        /\ procq' = [procq EXCEPT ![Clock] = Without(w, ToSet(w))]
        /\ softblockcount' = softblockcount - Len(w)
        /\ readyQueue' = InsertAll(readyQueue, w, p_prio)
        /\ UNCHANGED <<current_process, cpu>>
        /\ UNCHANGED <<pcbFree_h, tree, p_prio, p_supportStruct, sem,
                       processCount, dev>>
    BY <1>14 DEF IntervalTimerInterrupt, ClockWaiters, Resume
  <2> HIDE DEF w
  <2>3. Without(w, ToSet(w)) \in Seq(Pcb)
    BY <2>1, WithoutProperties
  <2>4. readyQueue' \in Seq(Pcb)
    <3>1. readyQueue \in Seq(Pcb)
      BY DEF TypeOK
    <3> QED BY <2>1, <2>2, <3>1, PrioType, InsertAllProperties
  <2>5. procq' \in [Sem -> Seq(Pcb)]
    BY <2>1, <2>2, <2>3 DEF TypeOK
  <2>6. p_semAdd' \in [Pcb -> Sem \cup {NULL}] /\ softblockcount' \in Int
    BY <2>1, <2>2 DEF TypeOK
  <2> QED BY <2>2, <2>4, <2>5, <2>6 DEF TypeOK, Running, tree
<1>15. CASE UNCHANGED vars
  BY <1>15 DEF vars, TypeOK, Running
<1> QED
  BY <1>1, <1>2, <1>3, <1>4, <1>5, <1>6, <1>7, <1>8, <1>9, <1>10, <1>11, <1>12,
     <1>13, <1>14, <1>15 DEF Next

(***************************************************************************)
(* The state that main leaves behind is well typed.                        *)
(***************************************************************************)
LEMMA TypeInit == Init => TypeOK
<1> SUFFICES ASSUME Init PROVE TypeOK
  OBVIOUS
<1>1. <<>> \in Seq(Pcb)
  OBVIOUS
<1> QED BY <1>1, PrioAssumption DEF Init, TypeOK, Running

(***************************************************************************)
(* The variables keep their types, and while the processor runs a process  *)
(* it is a PCB: the handlers may use current_process without a test for    *)
(* NULL, as they do.                                                       *)
(***************************************************************************)
THEOREM TypeCorrect == Spec => []TypeOK
<1>1. Init => TypeOK
  BY TypeInit
<1>2. TypeOK /\ [Next]_vars => TypeOK'
  BY TypeStep
<1> QED BY <1>1, <1>2, PTL DEF Spec

-----------------------------------------------------------------------------
(***************************************************************************)
(* The semaphores are of two kinds.                                        *)
(***************************************************************************)
LEMMA SemKinds ==
  /\ Sem = UserSem \cup SoftSem
  /\ UserSem \cap SoftSem = {}
  BY SemAssumption DEF Sem

(***************************************************************************)
(* Taking waiters out makes no semaphore owe more.                         *)
(***************************************************************************)
LEMMA ShorterQueues ==
  ASSUME TypeOK, NoLostWakeup, sem' = sem,
         \A s \in Sem : procq'[s] \in Seq(Pcb) /\ Len(procq'[s]) <= Len(procq[s])
  PROVE  NoLostWakeup'
<1>1. \A s \in Sem : procq[s] \in Seq(Pcb) /\ sem[s] \in Int
  BY DEF TypeOK
<1>2. ASSUME NEW s \in UserSem
      PROVE  Len(procq'[s]) <= IF sem'[s] < 0 THEN - sem'[s] ELSE 0
  <2>1. s \in Sem
    BY SemKinds
  <2>2. Len(procq[s]) \in Nat /\ Len(procq'[s]) \in Nat /\ sem[s] \in Int
    BY <1>1, <2>1
  <2>3. Len(procq[s]) <= IF sem[s] < 0 THEN - sem[s] ELSE 0
    BY DEF NoLostWakeup
  <2> QED BY <2>1, <2>2, <2>3
<1>3. ASSUME NEW s \in SoftSem, procq'[s] # <<>> PROVE sem'[s] < 0
  <2>1. s \in Sem
    BY SemKinds
  <2>2. procq[s] \in Seq(Pcb) /\ procq'[s] \in Seq(Pcb) /\ Len(procq'[s]) <= Len(procq[s])
    BY <1>1, <2>1
  <2>3. procq[s] # <<>>
    BY <1>3, <2>2, EmptySeq
  <2> QED BY <2>3 DEF NoLostWakeup
<1> QED BY <1>2, <1>3 DEF NoLostWakeup

(***************************************************************************)
(* A process that blocks on a semaphore of the processes lengthens the     *)
(* queue by one at most and has lowered a value that was not positive.     *)
(***************************************************************************)
LEMMA BlockKeepsOwed ==
  ASSUME TypeOK, Running, NoLostWakeup, NEW s \in UserSem,
         sem' = [sem EXCEPT ![s] = @ - 1], BlockOn(s), ~ (sem[s] > 0)
  PROVE  NoLostWakeup'
<1> s \in Sem /\ s \notin SoftSem
  BY SemKinds
<1>1. /\ procq \in [Sem -> Seq(Pcb)]
      /\ sem \in [Sem -> Int]
      /\ current_process \in Pcb
  BY DEF TypeOK
<1>2. Len(procq'[s]) <= Len(procq[s]) + 1 /\ Len(procq'[s]) \in Nat
  <2>1. procq[s] \in Seq(Pcb) /\ Len(procq[s]) \in Nat
    BY <1>1
  <2>2. CASE procq' = procq
    BY <2>1, <2>2
  <2>3. CASE procq' = [procq EXCEPT ![s] = InsertProcQ(@, current_process, p_prio)]
    <3>1. procq'[s] = InsertProcQ(procq[s], current_process, p_prio)
      BY <1>1, <2>3
    <3>2. Len(InsertProcQ(procq[s], current_process, p_prio)) = Len(procq[s]) + 1
      BY <1>1, <2>1, PrioType, InsertProcQProperties
    <3> QED BY <2>1, <3>1, <3>2
  <2> QED BY <2>2, <2>3 DEF BlockOn
<1>3. ASSUME NEW t \in Sem, t # s PROVE procq'[t] = procq[t] /\ sem'[t] = sem[t]
  BY <1>1, <1>3 DEF BlockOn
<1>4. Len(procq[s]) <= - sem[s] /\ sem'[s] = sem[s] - 1 /\ sem[s] \in Int
  BY <1>1 DEF NoLostWakeup
<1>5. Len(procq[s]) \in Nat
  BY <1>1
<1>6. Len(procq'[s]) <= - sem'[s] /\ sem'[s] < 0
  BY <1>2, <1>4, <1>5
<1>7. ASSUME NEW t \in UserSem
      PROVE  Len(procq'[t]) <= IF sem'[t] < 0 THEN - sem'[t] ELSE 0
  <2>1. t \in Sem
    BY SemKinds
  <2>2. Len(procq[t]) <= IF sem[t] < 0 THEN - sem[t] ELSE 0
    BY DEF NoLostWakeup
  <2> QED BY <1>3, <1>6, <2>1, <2>2
<1>8. ASSUME NEW t \in SoftSem, procq'[t] # <<>> PROVE sem'[t] < 0
  <2>1. t \in Sem /\ t # s
    BY SemKinds
  <2> QED BY <1>3, <1>8, <2>1 DEF NoLostWakeup
<1> QED BY <1>7, <1>8 DEF NoLostWakeup

(***************************************************************************)
(* One that waits for a device or the clock leaves its semaphore negative. *)
(***************************************************************************)
LEMMA SoftBlockKeepsOwed ==
  ASSUME TypeOK, NoLostWakeup, NEW s \in SoftSem, SemaphoreP(s)
  PROVE  NoLostWakeup'
<1> s \in Sem /\ s \notin UserSem
  BY SemKinds
<1>1. /\ procq \in [Sem -> Seq(Pcb)]
      /\ sem \in [Sem -> Int]
  BY DEF TypeOK
<1>2. sem' = [sem EXCEPT ![s] = Lowered(s)]
  BY DEF SemaphoreP
<1>3. ASSUME NEW t \in Sem, t # s PROVE procq'[t] = procq[t] /\ sem'[t] = sem[t]
  BY <1>1, <1>2, <1>3 DEF SemaphoreP, BlockOn, queues
<1>4. procq'[s] # <<>> => sem'[s] < 0
  <2>1. CASE sem[s] > 0
    <3>1. procq'[s] = procq[s]
      BY <2>1 DEF SemaphoreP, queues
    <3>2. procq[s] # <<>> => sem[s] < 0
      BY DEF NoLostWakeup
    <3>3. sem[s] \in Int
      BY <1>1
    <3> QED BY <2>1, <3>1, <3>2, <3>3
  <2>2. CASE ~ (sem[s] > 0)
    <3>1. sem[s] \in Int /\ MinSem \in Int /\ MinSem < 0
      BY <1>1, BoundAssumption
    <3>2. sem'[s] = Lowered(s)
      BY <1>1, <1>2
    <3> QED BY <2>2, <3>1, <3>2 DEF Lowered
  <2> QED BY <2>1, <2>2
<1>5. ASSUME NEW t \in UserSem
      PROVE  Len(procq'[t]) <= IF sem'[t] < 0 THEN - sem'[t] ELSE 0
  <2>1. t \in Sem /\ t # s
    BY SemKinds
  <2>2. Len(procq[t]) <= IF sem[t] < 0 THEN - sem[t] ELSE 0
    BY DEF NoLostWakeup
  <2> QED BY <1>3, <2>1, <2>2
<1>6. ASSUME NEW t \in SoftSem, procq'[t] # <<>> PROVE sem'[t] < 0
  <2>1. t \in Sem
    BY SemKinds
  <2> QED BY <1>3, <1>4, <1>6, <2>1 DEF NoLostWakeup
<1> QED BY <1>5, <1>6 DEF NoLostWakeup

(***************************************************************************)
(* No handler adds a waiter without lowering the semaphore, and none       *)
(* raises a semaphore that owes a wakeup without taking a waiter out.      *)
(***************************************************************************)
LEMMA NoLostWakeupStep == TypeOK /\ NoLostWakeup /\ [Next]_vars => NoLostWakeup'
<1> SUFFICES ASSUME TypeOK, NoLostWakeup, [Next]_vars PROVE NoLostWakeup'
  OBVIOUS
<1>1. /\ procq \in [Sem -> Seq(Pcb)]
      /\ sem \in [Sem -> Int]
      /\ \A s \in Sem : Len(procq[s]) \in Nat
  BY DEF TypeOK
<1>2. ASSUME UNCHANGED <<procq, sem>> PROVE NoLostWakeup'
  BY <1>2 DEF NoLostWakeup
<1>3. ASSUME NEW p, KillAndSchedule(p) PROVE NoLostWakeup'
  <2>1. /\ procq' = [s \in Sem |-> Without(procq[s], Subtree(p))]
        /\ sem' = sem
    BY <1>3 DEF KillAndSchedule, Kill
  <2>2. ASSUME NEW s \in Sem
        PROVE  procq'[s] \in Seq(Pcb) /\ Len(procq'[s]) <= Len(procq[s])
    <3>1. procq'[s] = Without(procq[s], Subtree(p)) /\ procq[s] \in Seq(Pcb)
      BY <1>1, <2>1
    <3> QED BY <3>1, WithoutProperties
  <2> QED BY <2>1, <2>2, ShorterQueues
<1>4. ASSUME NEW s \in SoftSem, SemaphoreP(s) PROVE NoLostWakeup'
  BY <1>4, SoftBlockKeepsOwed
<1>5. ASSUME NEW s \in UserSem, Passeren(s) PROVE NoLostWakeup'
  <2>1. s \in Sem /\ Running /\ sem' = [sem EXCEPT ![s] = @ - 1]
    BY <1>5 DEF Passeren, Sem
  <2>2. CASE sem[s] > 0 /\ procq' = procq
    <3>1. sem[s] \in Int /\ sem'[s] = sem[s] - 1
      BY <1>1, <2>1
    <3>2. ASSUME NEW t \in Sem, t # s PROVE sem'[t] = sem[t]
      BY <1>1, <2>1, <3>2
    <3>3. \A t \in UserSem : t \in Sem
      BY SemKinds
    <3>4. \A t \in SoftSem : t \in Sem /\ t # s
      BY SemKinds
    <3>5. ASSUME NEW t \in UserSem
          PROVE  Len(procq'[t]) <= IF sem'[t] < 0 THEN - sem'[t] ELSE 0
      <4>1. Len(procq[t]) <= IF sem[t] < 0 THEN - sem[t] ELSE 0
        BY DEF NoLostWakeup
      <4> QED BY <2>2, <3>1, <3>2, <3>3, <4>1
    <3> QED BY <2>2, <3>2, <3>4, <3>5 DEF NoLostWakeup
  <2>3. CASE sem[s] <= 0 /\ BlockOn(s)
    <3>1. ~ (sem[s] > 0)
      BY <1>1, <2>1, <2>3
    <3> QED BY <2>1, <2>3, <3>1, BlockKeepsOwed
  <2> QED BY <1>5, <2>2, <2>3 DEF Passeren, queues
<1>6. ASSUME NEW s \in UserSem, Verhogen(s) PROVE NoLostWakeup'
  <2>1. s \in Sem /\ sem' = [sem EXCEPT ![s] = @ + 1] /\ procq[s] \in Seq(Pcb)
    BY <1>1, <1>6 DEF Verhogen, Sem
  <2>2. sem[s] \in Int /\ Len(procq[s]) \in Nat /\ sem'[s] = sem[s] + 1
    BY <1>1, <2>1
  <2>3. Len(procq[s]) <= IF sem[s] < 0 THEN - sem[s] ELSE 0
    BY <2>1 DEF NoLostWakeup
  <2>4. /\ \A t \in UserSem \ {s} : sem'[t] = sem[t]
        /\ \A t \in SoftSem : t \in Sem /\ t # s /\ sem'[t] = sem[t]
    BY <1>1, <2>1, SemKinds
  <2>5. CASE procq[s] = <<>> \/ ~ MustWake(s)
    <3>1. procq' = procq
      BY <1>6, <2>5 DEF Verhogen, Wake, queues
    <3>2. Len(procq[s]) <= IF sem'[s] < 0 THEN - sem'[s] ELSE 0
      <4>1. CASE procq[s] = <<>>
        <5>1. Len(procq[s]) = 0
          BY <4>1
        <5> QED BY <2>2, <5>1
      <4>2. CASE ~ MustWake(s)
        BY <2>2, <2>3, <4>2 DEF MustWake
      <4> QED BY <2>5, <4>1, <4>2
    <3> QED BY <2>1, <2>4, <3>1, <3>2 DEF NoLostWakeup
  <2>6. CASE procq[s] # <<>> /\ MustWake(s)
    <3>1. procq' = [procq EXCEPT ![s] = Tail(procq[s])]
      BY <1>6, <2>6 DEF Verhogen, Wake
    <3>2. procq'[s] = Tail(procq[s])
      BY <1>1, <2>1, <3>1
    <3>3. Len(procq'[s]) = Len(procq[s]) - 1
      BY <2>1, <2>6, <3>2, HeadTailPlaces
    <3>4. Len(procq'[s]) <= IF sem'[s] < 0 THEN - sem'[s] ELSE 0
      BY <2>2, <2>3, <3>3
    <3>5. /\ \A t \in UserSem \ {s} : procq'[t] = procq[t]
          /\ \A t \in SoftSem : procq'[t] = procq[t]
      BY <1>1, <2>4, <3>1, SemKinds
    <3> QED BY <2>4, <3>4, <3>5 DEF NoLostWakeup
  <2> QED BY <2>5, <2>6
<1>7. CASE IntervalTimerInterrupt
  <2>1. /\ procq' = [procq EXCEPT ![Clock] = Without(@, ToSet(ClockWaiters))]
        /\ sem' = sem /\ Clock \in Sem
    BY <1>7 DEF IntervalTimerInterrupt, Sem, SoftSem
  <2>2. ASSUME NEW s \in Sem
        PROVE  procq'[s] \in Seq(Pcb) /\ Len(procq'[s]) <= Len(procq[s])
    <3>1. CASE s = Clock
      <4>1. procq'[s] = Without(procq[s], ToSet(ClockWaiters)) /\ procq[s] \in Seq(Pcb)
        BY <1>1, <2>1, <3>1
      <4> QED BY <4>1, WithoutProperties
    <3>2. CASE s # Clock
      BY <1>1, <2>1, <3>2
    <3> QED BY <3>1, <3>2
  <2> QED BY <2>1, <2>2, ShorterQueues
<1>8. ASSUME NEW p, NEW prio, NEW support, CreateProcess(p, prio, support)
      PROVE  NoLostWakeup'
  BY <1>2, <1>8 DEF CreateProcess
<1>9. ASSUME NEW target, TerminateUnknown(target) PROVE NoLostWakeup'
  BY <1>2, <1>9 DEF TerminateUnknown, queues
<1>10. ASSUME NEW d, DeviceInterrupt(d) PROVE NoLostWakeup'
  BY <1>2, <1>10 DEF DeviceInterrupt, queues
<1>11. CASE DoIOBadLine \/ Yield \/ PLTInterrupt \/ UNCHANGED vars
  BY <1>2, <1>11 DEF DoIOBadLine, Yield, PLTInterrupt, vars, queues
<1>12. CASE TerminateSelf \/ Die
  BY <1>3, <1>12 DEF TerminateSelf, Die
<1>13. ASSUME NEW target, TerminateProcess(target) PROVE NoLostWakeup'
  BY <1>3, <1>13 DEF TerminateProcess
<1>14. ASSUME NEW d \in DevSem, DoIO(d) PROVE NoLostWakeup'
  BY <1>4, <1>14 DEF DoIO, SoftSem
<1>15. CASE WaitForClock
  BY <1>4, <1>15 DEF WaitForClock, SoftSem
<1> QED
  BY <1>5, <1>6, <1>7, <1>8, <1>9, <1>10, <1>11, <1>12, <1>13, <1>14, <1>15
     DEF Next

(***************************************************************************)
(* No process sleeps on an open semaphore, whatever happened before.       *)
(***************************************************************************)
THEOREM NoWakeupIsLost == Spec => []NoLostWakeup
<1>1. Init => TypeOK /\ NoLostWakeup
  <2>1. Len(<<>>) = 0
    OBVIOUS
  <2>2. ASSUME Init PROVE NoLostWakeup
    <3>1. ASSUME NEW s \in Sem PROVE procq[s] = <<>> /\ sem[s] \in 0 .. 1
      BY <2>2 DEF Init
    <3> QED BY <2>1, <3>1, SemKinds DEF NoLostWakeup
  <2> QED BY <2>2, TypeInit
<1>2. TypeOK /\ NoLostWakeup /\ [Next]_vars => (TypeOK /\ NoLostWakeup)'
  BY TypeStep, NoLostWakeupStep
<1> QED BY <1>1, <1>2, PTL DEF Spec

-----------------------------------------------------------------------------
(***************************************************************************)
(* Where the PCBs are.  PlacedOnce is inductive only together with         *)
(* BlockedWhereItSays: a PCB that blocks must be in no queue already, and  *)
(* a descriptor is always left for it because no two queues share a PCB.   *)
(***************************************************************************)
PlaceInv == TypeOK /\ PlacedOnce /\ BlockedWhereItSays

(***************************************************************************)
(* The PCBs of a queue are PCBs.                                           *)
(***************************************************************************)
LEMMA ToSetType ==
  ASSUME NEW T, NEW q \in Seq(T)
  PROVE  ToSet(q) \subseteq T
  BY DEF ToSet

(***************************************************************************)
(* An empty queue holds no PCB, and none twice.                            *)
(***************************************************************************)
LEMMA ToSetEmpty == ToSet(<<>>) = {} /\ IsInjective(<<>>)
  BY DEF ToSet, IsInjective

(***************************************************************************)
(* The process that scheduler() runs leaves the queue for good.            *)
(***************************************************************************)
LEMMA DispatchPlaces ==
  ASSUME NEW q \in Seq(Pcb), IsInjective(q), Dispatch(q)
  PROVE  /\ IsInjective(readyQueue')
         /\ ToSet(readyQueue') \subseteq ToSet(q)
         /\ current_process' \in ToSet(q) \cup {NULL}
         /\ current_process' \notin ToSet(readyQueue')
         /\ cpu' # "badlist"
<1>1. CASE q = <<>>
  BY <1>1, ToSetEmpty DEF Dispatch
<1>2. CASE q # <<>>
  BY <1>2, HeadTailPlaces DEF Dispatch
<1> QED BY <1>1, <1>2

(***************************************************************************)
(* While a process runs, one PCB at least is not blocked, so a semaphore   *)
(* descriptor is free: insertBlocked does not fail.                        *)
(***************************************************************************)
LEMMA DescriptorLeft ==
  ASSUME TypeOK, Running, Placed, NEW s
  PROVE  ~ AslFull(s)
<1> DEFINE W == {t \in Sem : procq[t] # <<>>}
           T == Pcb \ {current_process}
           f == [t \in W |-> Head(procq[t])]
<1>1. procq \in [Sem -> Seq(Pcb)] /\ current_process \in Pcb
  BY DEF TypeOK
<1>2. ASSUME NEW t \in W
      PROVE  Head(procq[t]) \in Pcb /\ Head(procq[t]) \in ToSet(procq[t])
  BY <1>1, HeadTailPlaces
<1>3. ASSUME NEW t \in W PROVE Head(procq[t]) \in T
  BY <1>2 DEF Placed
<1>4. f \in Injection(W, T)
  <2>1. f \in [W -> T]
    BY <1>3
  <2>2. ASSUME NEW a \in W, NEW b \in W, f[a] = f[b] PROVE a = b
    BY <1>2, <2>2 DEF Placed
  <2> HIDE DEF f, W, T
  <2>3. DOMAIN f = W
    BY <2>1
  <2> QED BY <2>1, <2>2, <2>3 DEF Injection, IsInjective
<1>5. IsFiniteSet(T) /\ Cardinality(T) = MAXPROC - 1
  BY <1>1, PcbAssumption, FS_RemoveElement DEF MAXPROC
<1>6. Cardinality(W) <= MAXPROC - 1 /\ Cardinality(W) \in Nat
  <2> HIDE DEF f, W, T
  <2> QED BY <1>4, <1>5, FS_Injection, FS_CardinalityType
<1>7. MAXPROC \in Nat
  BY PcbAssumption, FS_CardinalityType DEF MAXPROC
<1> HIDE DEF W
<1>8. ~ (Cardinality(W) >= MAXPROC)
  BY <1>6, <1>7
<1> QED BY <1>8 DEF AslFull, W

(***************************************************************************)
(* A killed subtree is taken out of every queue.                           *)
(***************************************************************************)
LEMMA KillPlaces ==
  ASSUME PlaceInv, Running, NEW p, KillAndSchedule(p)
  PROVE  PlacedOnce' /\ BlockedWhereItSays'
<1> DEFINE D == Subtree(p)
<1>1. /\ readyQueue \in Seq(Pcb)
      /\ procq \in [Sem -> Seq(Pcb)]
      /\ p_semAdd \in [Pcb -> Sem \cup {NULL}]
      /\ D \subseteq Pcb
  BY SubtreeType DEF PlaceInv, TypeOK
<1>2. /\ pcbFree_h' = pcbFree_h \cup D
      /\ p_semAdd' = [x \in Pcb |-> IF x \in D THEN NULL ELSE p_semAdd[x]]
      /\ procq' = [s \in Sem |-> Without(procq[s], D)]
  BY DEF KillAndSchedule, Kill
<1>3. Placed
  BY DEF PlaceInv, PlacedOnce, Running
<1>4. \/ cpu' = "badlist"
      \/ D \cap ToSet(readyQueue) = {} /\ Dispatch(readyQueue)
  BY DEF KillAndSchedule
<1> HIDE DEF D
<1>5. ASSUME NEW s \in Sem
      PROVE  /\ ToSet(procq'[s]) = ToSet(procq[s]) \ D
             /\ IsInjective(procq'[s])
             /\ ToSet(procq[s]) \subseteq Pcb
  <2>1. procq'[s] = Without(procq[s], D) /\ procq[s] \in Seq(Pcb)
    BY <1>1, <1>2
  <2>2. IsInjective(procq[s])
    BY <1>3 DEF Placed
  <2> QED BY <2>1, <2>2, WithoutProperties, ToSetType
<1>6. PlacedOnce'
  <2>1. CASE cpu' = "badlist"
    BY <2>1 DEF PlacedOnce
  <2>2. CASE D \cap ToSet(readyQueue) = {} /\ Dispatch(readyQueue)
    <3>1. IsInjective(readyQueue)
      BY <1>3 DEF Placed
    <3>2. /\ IsInjective(readyQueue')
          /\ ToSet(readyQueue') \subseteq ToSet(readyQueue)
          /\ current_process' \in ToSet(readyQueue) \cup {NULL}
          /\ current_process' \notin ToSet(readyQueue')
      BY <1>1, <2>2, <3>1, DispatchPlaces
    <3>3. ToSet(readyQueue) \subseteq Pcb
      BY <1>1, ToSetType
    <3>4. \A s, t \in Sem : s # t => ToSet(procq'[s]) \cap ToSet(procq'[t]) = {}
      BY <1>3, <1>5 DEF Placed
    <3>5. \A s \in Sem : ToSet(procq'[s]) \cap ToSet(readyQueue') = {}
      BY <1>3, <1>5, <3>2 DEF Placed
    <3>6. \A s \in Sem : ToSet(procq'[s]) \cap (pcbFree_h' \cup {current_process'}) = {}
      BY <1>2, <1>3, <1>5, <3>2, NULLAssumption DEF Placed
    <3>7. pcbFree_h' \subseteq Pcb
      BY <1>1, <1>2 DEF PlaceInv, TypeOK
    <3>8. /\ ToSet(readyQueue') \cap (pcbFree_h' \cup {current_process'}) = {}
          /\ current_process' \notin pcbFree_h'
      BY <1>2, <1>3, <2>2, <3>2, <3>3, <3>7, NULLAssumption DEF Placed
    <3> QED BY <1>5, <3>2, <3>4, <3>5, <3>6, <3>8 DEF PlacedOnce, Placed
  <2> QED BY <1>4, <2>1, <2>2
<1>7. BlockedWhereItSays'
  <2>1. ASSUME NEW x \in Pcb, NEW s \in Sem
        PROVE  p_semAdd'[x] = s <=> x \in ToSet(procq'[s])
    <3>1. p_semAdd[x] = s <=> x \in ToSet(procq[s])
      BY DEF PlaceInv, BlockedWhereItSays
    <3>2. s # NULL
      BY NULLAssumption
    <3> QED BY <1>2, <1>5, <3>1, <3>2
  <2> QED BY <2>1 DEF BlockedWhereItSays
<1> QED BY <1>6, <1>7

(***************************************************************************)
(* passeren and semaphoreP move the running process into one queue.        *)
(***************************************************************************)
LEMMA BlockOnPlaces ==
  ASSUME PlaceInv, Running, NEW s \in Sem, BlockOn(s), pcbFree_h' = pcbFree_h
  PROVE  PlacedOnce' /\ BlockedWhereItSays'
<1> DEFINE c == current_process
           r == InsertProcQ(procq[s], c, p_prio)
<1>1. /\ readyQueue \in Seq(Pcb)
      /\ procq \in [Sem -> Seq(Pcb)]
      /\ p_semAdd \in [Pcb -> Sem \cup {NULL}]
      /\ pcbFree_h \subseteq Pcb
      /\ c \in Pcb
  BY DEF PlaceInv, TypeOK
<1>2. Placed
  BY DEF PlaceInv, PlacedOnce, Running
<1>3. /\ p_semAdd' = [p_semAdd EXCEPT ![c] = s]
      /\ procq' = [procq EXCEPT ![s] = r]
      /\ Dispatch(readyQueue)
  <2>1. ~ AslFull(s)
    BY <1>2, DescriptorLeft DEF PlaceInv
  <2> QED BY <2>1 DEF BlockOn
<1>4. ToSet(r) = ToSet(procq[s]) \cup {c} /\ IsInjective(r)
  <2>1. procq[s] \in Seq(Pcb) /\ IsInjective(procq[s]) /\ c \notin ToSet(procq[s])
    BY <1>1, <1>2 DEF Placed
  <2>2. p_prio \in [Pcb -> Int]
    BY PrioType DEF PlaceInv
  <2> QED BY <1>1, <2>1, <2>2, InsertProcQProperties
<1> HIDE DEF r
<1>5. ASSUME NEW t \in Sem
      PROVE  /\ ToSet(procq'[t]) = ToSet(procq[t]) \cup (IF t = s THEN {c} ELSE {})
             /\ IsInjective(procq'[t])
             /\ ToSet(procq[t]) \subseteq Pcb
  <2>1. procq'[t] = IF t = s THEN r ELSE procq[t]
    BY <1>1, <1>3
  <2>2. procq[t] \in Seq(Pcb) /\ IsInjective(procq[t])
    BY <1>1, <1>2 DEF Placed
  <2> QED BY <1>4, <2>1, <2>2, ToSetType
<1>6. /\ IsInjective(readyQueue')
      /\ ToSet(readyQueue') \subseteq ToSet(readyQueue)
      /\ current_process' \in ToSet(readyQueue) \cup {NULL}
      /\ current_process' \notin ToSet(readyQueue')
  <2>1. IsInjective(readyQueue)
    BY <1>2 DEF Placed
  <2> QED BY <1>1, <1>3, <2>1, DispatchPlaces
<1>7. ToSet(readyQueue) \subseteq Pcb
  BY <1>1, ToSetType
<1>8. PlacedOnce'
  <2>1. \A t, u \in Sem : t # u => ToSet(procq'[t]) \cap ToSet(procq'[u]) = {}
    BY <1>2, <1>5 DEF Placed
  <2>2. \A t \in Sem : ToSet(procq'[t]) \cap ToSet(readyQueue') = {}
    BY <1>2, <1>5, <1>6 DEF Placed
  <2>3. \A t \in Sem : ToSet(procq'[t]) \cap (pcbFree_h' \cup {current_process'}) = {}
    BY <1>1, <1>2, <1>5, <1>6, NULLAssumption DEF Placed
  <2>4. /\ ToSet(readyQueue') \cap (pcbFree_h' \cup {current_process'}) = {}
        /\ current_process' \notin pcbFree_h'
    BY <1>1, <1>2, <1>6, <1>7, NULLAssumption DEF Placed
  <2> QED BY <1>5, <1>6, <2>1, <2>2, <2>3, <2>4 DEF PlacedOnce, Placed
<1>9. BlockedWhereItSays'
  <2>1. ASSUME NEW x \in Pcb, NEW t \in Sem
        PROVE  p_semAdd'[x] = t <=> x \in ToSet(procq'[t])
    <3>1. p_semAdd[x] = t <=> x \in ToSet(procq[t])
      BY DEF PlaceInv, BlockedWhereItSays
    <3>2. p_semAdd'[x] = IF x = c THEN s ELSE p_semAdd[x]
      BY <1>1, <1>3
    <3>3. c \notin ToSet(procq[t])
      BY <1>2 DEF Placed
    <3> QED BY <1>5, <3>1, <3>2, <3>3
  <2> QED BY <2>1 DEF BlockedWhereItSays
<1> QED BY <1>8, <1>9

(***************************************************************************)
(* A rescheduling of the running process: it joins the ready queue (q is   *)
(* that queue then) and the head of the queue runs.                        *)
(***************************************************************************)
LEMMA RequeuePlaces ==
  ASSUME PlaceInv, Running, NEW q \in Seq(Pcb), Dispatch(q),
         IsInjective(q), ToSet(q) = ToSet(readyQueue) \cup {current_process},
         UNCHANGED <<pcbFree_h, procq, p_semAdd>>
  PROVE  PlacedOnce' /\ BlockedWhereItSays'
<1>1. Placed
  BY DEF PlaceInv, PlacedOnce, Running
<1>2. /\ IsInjective(readyQueue')
      /\ ToSet(readyQueue') \subseteq ToSet(q)
      /\ current_process' \in ToSet(q) \cup {NULL}
      /\ current_process' \notin ToSet(readyQueue')
  BY DispatchPlaces
<1>3. /\ pcbFree_h \subseteq Pcb
      /\ ToSet(q) \subseteq Pcb
      /\ \A s \in Sem : ToSet(procq[s]) \subseteq Pcb
  BY ToSetType DEF PlaceInv, TypeOK
<1>4. PlacedOnce'
  <2>1. \A s \in Sem : ToSet(procq[s]) \cap ToSet(q) = {}
    BY <1>1 DEF Placed
  <2>2. ToSet(q) \cap pcbFree_h = {}
    BY <1>1 DEF Placed
  <2>3. \A s \in Sem : /\ ToSet(procq'[s]) \cap ToSet(readyQueue') = {}
                       /\ ToSet(procq'[s]) \cap (pcbFree_h' \cup {current_process'}) = {}
    BY <1>1, <1>2, <1>3, <2>1, NULLAssumption DEF Placed
  <2>4. /\ ToSet(readyQueue') \cap (pcbFree_h' \cup {current_process'}) = {}
        /\ current_process' \notin pcbFree_h'
    BY <1>2, <1>3, <2>2, NULLAssumption
  <2> QED BY <1>1, <1>2, <2>3, <2>4 DEF PlacedOnce, Placed
<1>5. BlockedWhereItSays'
  BY DEF PlaceInv, BlockedWhereItSays
<1> QED BY <1>4, <1>5

(***************************************************************************)
(* verhogen moves the first waiter to the ready queue.                     *)
(***************************************************************************)
LEMMA WakePlaces ==
  ASSUME PlaceInv, Running, NEW s \in Sem, Wake(s),
         UNCHANGED <<pcbFree_h, current_process, cpu>>
  PROVE  PlacedOnce' /\ BlockedWhereItSays'
<1> DEFINE q == procq[s]
           h == Head(q)
<1>1. /\ readyQueue \in Seq(Pcb)
      /\ procq \in [Sem -> Seq(Pcb)]
      /\ p_semAdd \in [Pcb -> Sem \cup {NULL}]
      /\ q \in Seq(Pcb)
  BY DEF PlaceInv, TypeOK
<1>2. Placed
  BY DEF PlaceInv, PlacedOnce, Running
<1>3. CASE q = <<>>
  <2>1. UNCHANGED <<p_semAdd, readyQueue, procq>>
    BY <1>3 DEF Wake, queues
  <2> QED BY <1>2, <2>1 DEF PlaceInv, PlacedOnce, Placed, BlockedWhereItSays
<1>4. CASE q # <<>>
  <2>1. /\ p_semAdd' = [p_semAdd EXCEPT ![h] = NULL]
        /\ procq' = [procq EXCEPT ![s] = Tail(q)]
        /\ readyQueue' = InsertProcQ(readyQueue, h, p_prio)
    BY <1>4 DEF Wake
  <2>2. /\ h \in Pcb
        /\ ToSet(q) = ToSet(Tail(q)) \cup {h}
        /\ IsInjective(Tail(q))
        /\ h \notin ToSet(Tail(q))
        /\ h \in ToSet(q)
    <3>1. IsInjective(q)
      BY <1>2 DEF Placed
    <3> HIDE DEF q
    <3> QED BY <1>1, <1>4, <3>1, HeadTailPlaces
  <2> HIDE DEF h
  <2>3. /\ h \notin ToSet(readyQueue)
        /\ h \notin pcbFree_h
        /\ h # current_process
        /\ \A t \in Sem : t # s => h \notin ToSet(procq[t])
    BY <2>2, <1>2 DEF Placed
  <2>4. /\ IsInjective(readyQueue')
        /\ ToSet(readyQueue') = ToSet(readyQueue) \cup {h}
    <3>1. p_prio \in [Pcb -> Int] /\ IsInjective(readyQueue)
      BY <1>2, PrioType DEF PlaceInv, Placed
    <3>2. readyQueue \in Seq(Pcb) /\ h \in Pcb /\ h \notin ToSet(readyQueue)
      BY <1>1, <2>2, <2>3
    <3>3. LET r == InsertProcQ(readyQueue, h, p_prio)
          IN  IsInjective(r) /\ ToSet(r) = ToSet(readyQueue) \cup {h}
      BY <3>1, <3>2, InsertProcQProperties
    <3> QED BY <2>1, <3>3
  <2>5. ASSUME NEW t \in Sem
        PROVE  /\ ToSet(procq'[t]) = ToSet(procq[t]) \ {h}
               /\ IsInjective(procq'[t])
    <3>1. procq'[t] = IF t = s THEN Tail(q) ELSE procq[t]
      BY <1>1, <2>1
    <3>2. IsInjective(procq[t])
      BY <1>2 DEF Placed
    <3> QED BY <2>2, <2>3, <3>1, <3>2
  <2>6. PlacedOnce'
    <3>1. \A t, u \in Sem : t # u => ToSet(procq'[t]) \cap ToSet(procq'[u]) = {}
      BY <1>2, <2>5 DEF Placed
    <3>2. \A t \in Sem :
            /\ ToSet(procq'[t]) \cap ToSet(readyQueue') = {}
            /\ ToSet(procq'[t]) \cap (pcbFree_h' \cup {current_process'}) = {}
      BY <1>2, <2>4, <2>5 DEF Placed
    <3>3. /\ ToSet(readyQueue') \cap (pcbFree_h' \cup {current_process'}) = {}
          /\ current_process' \notin pcbFree_h'
      BY <1>2, <2>3, <2>4 DEF Placed
    <3> QED BY <2>4, <2>5, <3>1, <3>2, <3>3 DEF PlacedOnce, Placed
  <2>7. BlockedWhereItSays'
    <3>1. ASSUME NEW x \in Pcb, NEW t \in Sem
          PROVE  p_semAdd'[x] = t <=> x \in ToSet(procq'[t])
      <4>1. p_semAdd[x] = t <=> x \in ToSet(procq[t])
        BY DEF PlaceInv, BlockedWhereItSays
      <4>2. p_semAdd'[x] = IF x = h THEN NULL ELSE p_semAdd[x]
        BY <1>1, <2>1
      <4>3. t # NULL
        BY NULLAssumption
      <4> QED BY <2>5, <4>1, <4>2, <4>3
    <3> QED BY <3>1 DEF BlockedWhereItSays
  <2> QED BY <2>6, <2>7
<1> QED BY <1>3, <1>4

(***************************************************************************)
(* The tick moves all waiters of the pseudo-clock to the ready queue.      *)
(***************************************************************************)
LEMMA TickPlaces ==
  ASSUME PlaceInv, IntervalTimerInterrupt
  PROVE  PlacedOnce' /\ BlockedWhereItSays'
<1> DEFINE w == procq[Clock]
<1>1. /\ readyQueue \in Seq(Pcb)
      /\ procq \in [Sem -> Seq(Pcb)]
      /\ p_semAdd \in [Pcb -> Sem \cup {NULL}]
      /\ p_prio \in [Pcb -> Int]
      /\ Clock \in Sem
      /\ w \in Seq(Pcb)
  BY PrioType DEF PlaceInv, TypeOK, Sem, SoftSem
<1>2. Placed
  BY DEF PlaceInv, PlacedOnce, Running, IntervalTimerInterrupt
<1>3. /\ p_semAdd' = [p \in Pcb |-> IF p \in ToSet(w) THEN NULL ELSE p_semAdd[p]]
      /\ procq' = [procq EXCEPT ![Clock] = Without(w, ToSet(w))]
      /\ readyQueue' = InsertAll(readyQueue, w, p_prio)
      /\ UNCHANGED <<pcbFree_h, current_process, cpu>>
  BY DEF IntervalTimerInterrupt, ClockWaiters, Resume
<1>4. /\ IsInjective(w)
      /\ IsInjective(readyQueue)
      /\ ToSet(w) \cap ToSet(readyQueue) = {}
      /\ ToSet(w) \cap (pcbFree_h \cup {current_process}) = {}
      /\ \A t \in Sem : t # Clock => ToSet(procq[t]) \cap ToSet(w) = {}
  BY <1>1, <1>2 DEF Placed
<1>5. /\ ToSet(Without(w, ToSet(w))) = {}
      /\ IsInjective(Without(w, ToSet(w)))
  <2> HIDE DEF w
  <2> QED BY <1>1, <1>4, WithoutProperties
<1>6. /\ ToSet(readyQueue') = ToSet(readyQueue) \cup ToSet(w)
      /\ IsInjective(readyQueue')
  <2> HIDE DEF w
  <2>1. /\ readyQueue \in Seq(Pcb) /\ w \in Seq(Pcb) /\ p_prio \in [Pcb -> Int]
        /\ IsInjective(readyQueue) /\ IsInjective(w)
        /\ ToSet(readyQueue) \cap ToSet(w) = {}
    BY <1>1, <1>4
  <2>2. ToSet(InsertAll(readyQueue, w, p_prio)) = ToSet(readyQueue) \cup ToSet(w)
    BY <2>1, InsertAllProperties
  <2>3. IsInjective(InsertAll(readyQueue, w, p_prio))
    BY <2>1, InsertAllProperties
  <2> QED BY <1>3, <2>2, <2>3
<1>7. ASSUME NEW t \in Sem
      PROVE  /\ ToSet(procq'[t]) = ToSet(procq[t]) \ ToSet(w)
             /\ IsInjective(procq'[t])
  <2>1. procq'[t] = IF t = Clock THEN Without(w, ToSet(w)) ELSE procq[t]
    BY <1>1, <1>3
  <2>2. CASE t = Clock
    BY <1>5, <2>1, <2>2
  <2>3. CASE t # Clock
    BY <1>2, <1>4, <2>1, <2>3 DEF Placed
  <2> QED BY <2>2, <2>3
<1> HIDE DEF w
<1>8. PlacedOnce'
  <2>1. \A t, u \in Sem : t # u => ToSet(procq'[t]) \cap ToSet(procq'[u]) = {}
    BY <1>2, <1>7 DEF Placed
  <2>2. \A t \in Sem :
          /\ ToSet(procq'[t]) \cap ToSet(readyQueue') = {}
          /\ ToSet(procq'[t]) \cap (pcbFree_h' \cup {current_process'}) = {}
    BY <1>2, <1>3, <1>6, <1>7 DEF Placed
  <2>3. /\ ToSet(readyQueue') \cap (pcbFree_h' \cup {current_process'}) = {}
        /\ current_process' \notin pcbFree_h'
    BY <1>2, <1>3, <1>4, <1>6 DEF Placed
  <2> QED BY <1>6, <1>7, <2>1, <2>2, <2>3 DEF PlacedOnce, Placed
<1>9. BlockedWhereItSays'
  <2>1. ASSUME NEW x \in Pcb, NEW t \in Sem
        PROVE  p_semAdd'[x] = t <=> x \in ToSet(procq'[t])
    <3>1. p_semAdd[x] = t <=> x \in ToSet(procq[t])
      BY DEF PlaceInv, BlockedWhereItSays
    <3>2. t # NULL
      BY NULLAssumption
    <3> QED BY <1>3, <1>7, <3>1, <3>2
  <2> QED BY <2>1 DEF BlockedWhereItSays
<1> QED BY <1>8, <1>9

(***************************************************************************)
(* createProcess takes a free PCB, which is in no queue, to the ready      *)
(* queue.                                                                  *)
(***************************************************************************)
LEMMA CreatePlaces ==
  ASSUME PlaceInv, NEW p \in Pcb, NEW prio \in Prio, NEW support,
         CreateProcess(p, prio, support)
  PROVE  PlacedOnce' /\ BlockedWhereItSays'
<1>1. /\ readyQueue \in Seq(Pcb)
      /\ p_semAdd \in [Pcb -> Sem \cup {NULL}]
  BY DEF PlaceInv, TypeOK
<1>2. Placed
  BY DEF PlaceInv, PlacedOnce, Running, CreateProcess
<1>3. /\ p \in pcbFree_h
      /\ pcbFree_h' = pcbFree_h \ {p}
      /\ p_semAdd' = [p_semAdd EXCEPT ![p] = NULL]
      /\ readyQueue' = InsertProcQ(readyQueue, p, p_prio')
      /\ UNCHANGED <<procq, current_process, cpu>>
  BY DEF CreateProcess, Resume
<1>4. p_prio' \in [Pcb -> Int]
  BY PrioAssumption DEF CreateProcess, PlaceInv, TypeOK
<1>5. /\ ToSet(readyQueue') = ToSet(readyQueue) \cup {p}
      /\ IsInjective(readyQueue')
  <2>1. IsInjective(readyQueue) /\ p \notin ToSet(readyQueue)
    BY <1>2, <1>3 DEF Placed
  <2> QED BY <1>1, <1>3, <1>4, <2>1, InsertProcQProperties
<1>6. PlacedOnce'
  BY <1>2, <1>3, <1>5 DEF PlacedOnce, Placed
<1>7. BlockedWhereItSays'
  <2>1. ASSUME NEW x \in Pcb, NEW t \in Sem
        PROVE  p_semAdd'[x] = t <=> x \in ToSet(procq'[t])
    <3>1. p_semAdd[x] = t <=> x \in ToSet(procq[t])
      BY DEF PlaceInv, BlockedWhereItSays
    <3>2. t # NULL /\ p \notin ToSet(procq[t])
      BY <1>2, <1>3, NULLAssumption DEF Placed
    <3>3. p_semAdd'[x] = IF x = p THEN NULL ELSE p_semAdd[x]
      BY <1>1, <1>3
    <3> QED BY <1>3, <3>1, <3>2, <3>3
  <2> QED BY <2>1 DEF BlockedWhereItSays
<1> QED BY <1>6, <1>7

(***************************************************************************)
(* Every handler keeps each PCB in its one place and p_semAdd true to it;  *)
(* a kill of a ready process ends in "badlist" and is exempt from the      *)
(* first.                                                                  *)
(***************************************************************************)
LEMMA PlaceStep == PlaceInv /\ [Next]_vars => PlaceInv'
<1> SUFFICES ASSUME PlaceInv, [Next]_vars PROVE PlacedOnce' /\ BlockedWhereItSays'
  BY TypeStep DEF PlaceInv
<1>1. ASSUME UNCHANGED <<pcbFree_h, p_semAdd, queues, current_process>>,
             Running \/ cpu' = cpu
      PROVE  PlacedOnce' /\ BlockedWhereItSays'
  BY <1>1 DEF PlaceInv, PlacedOnce, Placed, BlockedWhereItSays, Running, queues
<1>2. ASSUME NEW p \in Pcb, NEW prio \in Prio, NEW support,
             CreateProcess(p, prio, support)
      PROVE  PlacedOnce' /\ BlockedWhereItSays'
  BY <1>2, CreatePlaces
<1>3. CASE TerminateSelf \/ Die
  BY <1>3, KillPlaces DEF TerminateSelf, Die
<1>4. ASSUME NEW target, TerminateProcess(target)
      PROVE  PlacedOnce' /\ BlockedWhereItSays'
  BY <1>4, KillPlaces DEF TerminateProcess
<1>5. ASSUME NEW target, TerminateUnknown(target)
      PROVE  PlacedOnce' /\ BlockedWhereItSays'
  BY <1>1, <1>5 DEF TerminateUnknown, Return, queues
<1>6. ASSUME NEW s \in Sem, SemaphoreP(s), Running
      PROVE  PlacedOnce' /\ BlockedWhereItSays'
  BY <1>1, <1>6, BlockOnPlaces DEF SemaphoreP, Return
<1>7. ASSUME NEW s \in UserSem, Passeren(s)
      PROVE  PlacedOnce' /\ BlockedWhereItSays'
  BY <1>1, <1>7, BlockOnPlaces DEF Passeren, Resume, Sem
<1>8. ASSUME NEW s \in UserSem, Verhogen(s)
      PROVE  PlacedOnce' /\ BlockedWhereItSays'
  <2>1. s \in Sem /\ Running /\ UNCHANGED <<pcbFree_h, current_process, cpu>>
    BY <1>8 DEF Verhogen, Resume, Sem
  <2>2. Wake(s) \/ UNCHANGED <<p_semAdd, queues>>
    BY <1>8 DEF Verhogen
  <2> QED BY <1>1, <2>1, <2>2, WakePlaces
<1>9. ASSUME NEW d \in DevSem, DoIO(d) PROVE PlacedOnce' /\ BlockedWhereItSays'
  BY <1>6, <1>9 DEF DoIO, Sem, SoftSem
<1>10. ASSUME NEW d, DeviceInterrupt(d) PROVE PlacedOnce' /\ BlockedWhereItSays'
  BY <1>1, <1>10 DEF DeviceInterrupt, Resume
<1>11. CASE DoIOBadLine
  BY <1>1, <1>11 DEF DoIOBadLine, Return
<1>12. CASE WaitForClock
  BY <1>6, <1>12 DEF WaitForClock, Sem, SoftSem
<1>13. CASE Yield
  <2> DEFINE q == Append(readyQueue, current_process)
  <2>1. /\ readyQueue \in Seq(Pcb) /\ current_process \in Pcb
        /\ IsInjective(readyQueue) /\ current_process \notin ToSet(readyQueue)
    BY <1>13 DEF Yield, PlaceInv, TypeOK, PlacedOnce, Placed, Running
  <2>2. /\ q \in Seq(Pcb) /\ IsInjective(q)
        /\ ToSet(q) = ToSet(readyQueue) \cup {current_process}
    BY <2>1, AppendPlaces
  <2>3. Dispatch(q) /\ Running /\ UNCHANGED <<pcbFree_h, procq, p_semAdd>>
    BY <1>13 DEF Yield
  <2> HIDE DEF q
  <2> QED BY <2>2, <2>3, RequeuePlaces
<1>14. CASE PLTInterrupt
  <2> DEFINE q == InsertProcQ(readyQueue, current_process, p_prio)
  <2>1. /\ readyQueue \in Seq(Pcb) /\ current_process \in Pcb
        /\ IsInjective(readyQueue) /\ current_process \notin ToSet(readyQueue)
    BY <1>14 DEF PLTInterrupt, PlaceInv, TypeOK, PlacedOnce, Placed, Running
  <2>2. /\ q \in Seq(Pcb) /\ IsInjective(q)
        /\ ToSet(q) = ToSet(readyQueue) \cup {current_process}
    <3>1. p_prio \in [Pcb -> Int]
      BY PrioType DEF PlaceInv
    <3> QED BY <2>1, <3>1, InsertProcQProperties
  <2>3. Dispatch(q) /\ Running /\ UNCHANGED <<pcbFree_h, procq, p_semAdd>>
    BY <1>14 DEF PLTInterrupt
  <2> HIDE DEF q
  <2> QED BY <2>2, <2>3, RequeuePlaces
<1>15. CASE IntervalTimerInterrupt
  BY <1>15, TickPlaces
<1>16. CASE UNCHANGED vars
  BY <1>1, <1>16 DEF vars, queues
<1> QED
  BY <1>2, <1>3, <1>4, <1>5, <1>7, <1>8, <1>9, <1>10, <1>11, <1>12, <1>13,
     <1>14, <1>15, <1>16 DEF Next

(***************************************************************************)
(* After main the first process runs and every queue is empty.             *)
(***************************************************************************)
LEMMA PlaceInit == Init => PlaceInv
<1> SUFFICES ASSUME Init PROVE PlacedOnce /\ BlockedWhereItSays
  BY TypeInit DEF PlaceInv
<1>1. /\ IsInjective(readyQueue) /\ ToSet(readyQueue) = {}
      /\ \A s \in Sem : IsInjective(procq[s]) /\ ToSet(procq[s]) = {}
      /\ current_process \notin pcbFree_h
  BY ToSetEmpty DEF Init
<1>2. \A p \in Pcb : p_semAdd[p] = NULL
  BY DEF Init
<1> QED BY <1>1, <1>2, NULLAssumption DEF PlacedOnce, Placed, BlockedWhereItSays

(***************************************************************************)
(* The inductive invariant holds in every reachable state of the nucleus.  *)
(***************************************************************************)
THEOREM PlacesCorrect == Spec => []PlaceInv
<1>1. Init => PlaceInv
  BY PlaceInit
<1>2. PlaceInv /\ [Next]_vars => PlaceInv'
  BY PlaceStep
<1> QED BY <1>1, <1>2, PTL DEF Spec

(***************************************************************************)
(* As long as no ready process is killed, every PCB is in one place at     *)
(* most: running, free, or once in one queue.                              *)
(***************************************************************************)
THEOREM EveryPcbPlacedOnce == Spec => []PlacedOnce
<1>1. PlaceInv => PlacedOnce
  BY DEF PlaceInv
<1> QED BY <1>1, PlacesCorrect, PTL

(***************************************************************************)
(* p_semAdd always tells the truth; in particular insertBlocked never runs *)
(* out of descriptors, so nothing is lost by its callers' ignoring the     *)
(* result.                                                                 *)
(***************************************************************************)
THEOREM EverySemAddRight == Spec => []BlockedWhereItSays
<1>1. PlaceInv => BlockedWhereItSays
  BY DEF PlaceInv
<1> QED BY <1>1, PlacesCorrect, PTL

(***************************************************************************)
(* MAXPROC descriptors are enough: whatever semaphore the running process  *)
(* is about to block on, the nucleus finds a descriptor for it, so that    *)
(* insertBlocked's TRUE, which passeren and semaphoreP ignore, never comes.*)
(***************************************************************************)
THEOREM DescriptorsSuffice == Spec => [](Running => \A s \in Sem : ~ AslFull(s))
<1>1. PlaceInv => (Running => \A s \in Sem : ~ AslFull(s))
  BY DescriptorLeft DEF PlaceInv, PlacedOnce, Running
<1> QED BY <1>1, PlacesCorrect, PTL

=============================================================================
