------------------------- MODULE NucleusTreeProofs -------------------------
(***************************************************************************)
(* Theorems about the process tree, the number of processes and, with what *)
(* is known of them and of the queues, the implementation of NucleusSpec,  *)
(* for any number of PCBs and trees of any shape; and about the recursive  *)
(* functions of exceptions.c that walk the tree (module Killer).           *)
(***************************************************************************)
EXTENDS NucleusOrderProofs, Killer

(***************************************************************************)
(* A set of PCBs that holds the children of its members.                   *)
(***************************************************************************)
Closed(S) == \A y \in S : p_child[y] \subseteq S

(***************************************************************************)
(* The inductive invariant of the tree: parents and children agree, free   *)
(* PCBs are in no tree, and a live PCB without parent reaches all others.  *)
(***************************************************************************)
Agree    == \A p, c \in Pcb : c \in p_child[p] <=> p_parent[c] = p
FreeBare == \A p \in pcbFree_h : p_parent[p] = NULL /\ p_child[p] = {}
Rooted   == Live # {} => \E r \in Live : p_parent[r] = NULL /\ Live \subseteq Subtree(r)

TreeInv == PlaceInv /\ Agree /\ FreeBare /\ Rooted /\ ProcessCountExact

(***************************************************************************)
(* What processKiller reaches is the least closed set with its argument.   *)
(***************************************************************************)
LEMMA SubtreeLeast ==
  ASSUME TypeOK, NEW p \in Pcb
  PROVE  /\ p \in Subtree(p)
         /\ Closed(Subtree(p))
         /\ \A S \in SUBSET Pcb : p \in S /\ Closed(S) => Subtree(p) \subseteq S
<1>1. \A y \in Pcb : p_child[y] \subseteq Pcb
  BY DEF TypeOK
<1>2. p \in Subtree(p)
  BY DEF Subtree
<1>3. Closed(Subtree(p))
  <2> SUFFICES ASSUME NEW y \in Subtree(p), NEW c \in p_child[y]
               PROVE  c \in Subtree(p)
    BY DEF Closed
  <2>1. y \in Pcb /\ c \in Pcb
    BY <1>1 DEF Subtree
  <2> SUFFICES ASSUME NEW S \in SUBSET Pcb, p \in S, \A z \in S : p_child[z] \subseteq S
               PROVE  c \in S
    BY <2>1 DEF Subtree
  <2>2. y \in S
    BY DEF Subtree
  <2> QED BY <2>2
<1>4. \A S \in SUBSET Pcb : p \in S /\ Closed(S) => Subtree(p) \subseteq S
  BY DEF Subtree, Closed
<1> QED BY <1>2, <1>3, <1>4

(***************************************************************************)
(* The progeny of a live process is live; only its head has a parent       *)
(* outside.                                                                *)
(***************************************************************************)
LEMMA SubtreeOfLive ==
  ASSUME TypeOK, Agree, FreeBare, NEW p \in Live
  PROVE  /\ Subtree(p) \subseteq Live
         /\ \A c \in Subtree(p) : c # p => p_parent[c] \in Subtree(p)
<1>1. p \in Pcb /\ Live \in SUBSET Pcb
  BY DEF Live
<1>2. Closed(Live)
  <2> SUFFICES ASSUME NEW y \in Live, NEW c \in p_child[y] PROVE c \in Live
    BY DEF Closed
  <2>1. y \in Pcb /\ c \in Pcb
    BY DEF Live, TypeOK
  <2>2. p_parent[c] = y /\ y # NULL
    BY <2>1, NULLAssumption DEF Agree
  <2> QED BY <2>1, <2>2 DEF FreeBare, Live
<1>3. Subtree(p) \subseteq Live
  BY <1>1, <1>2, SubtreeLeast
<1>4. ASSUME NEW c \in Subtree(p), c # p, p_parent[c] \notin Subtree(p) PROVE FALSE
  <2> DEFINE S == Subtree(p) \ {c}
  <2>1. S \in SUBSET Pcb /\ p \in S /\ c \in Pcb
    BY <1>1, <1>4, SubtreeLeast DEF Subtree
  <2>2. Closed(S)
    <3> SUFFICES ASSUME NEW y \in S, NEW z \in p_child[y] PROVE z \in S
      BY DEF Closed
    <3>1. z \in Subtree(p)
      BY <1>1, SubtreeLeast DEF Closed
    <3>2. z # c
      BY <1>4, <2>1 DEF Agree
    <3> QED BY <3>1, <3>2
  <2>3. Subtree(p) \subseteq S
    BY <1>1, <2>1, <2>2, SubtreeLeast
  <2> QED BY <1>4, <2>3
<1> QED BY <1>3, <1>4

(***************************************************************************)
(* A process without parent is in nobody else's progeny.                   *)
(***************************************************************************)
LEMMA RootOnTop ==
  ASSUME TypeOK, Agree, NEW r \in Pcb, p_parent[r] = NULL, NEW p \in Pcb, p # r
  PROVE  r \notin Subtree(p)
<1> DEFINE S == Pcb \ {r}
<1>1. Closed(S)
  <2> SUFFICES ASSUME NEW y \in S, NEW c \in p_child[y] PROVE c \in S
    BY DEF Closed
  <2>1. c \in Pcb
    BY DEF TypeOK
  <2> QED BY <2>1, NULLAssumption DEF Agree
<1>2. Subtree(p) \subseteq S
  BY <1>1, SubtreeLeast
<1> QED BY <1>2

-----------------------------------------------------------------------------
(***************************************************************************)
(* insertChild on a PCB fresh from the free list.                          *)
(***************************************************************************)
LEMMA CreateTree ==
  ASSUME TreeInv, NEW p \in Pcb, NEW prio, NEW support, CreateProcess(p, prio, support)
  PROVE  Agree' /\ FreeBare' /\ Rooted' /\ ProcessCountExact'
<1> DEFINE cur == current_process
<1>1. /\ TypeOK /\ p \in pcbFree_h /\ cur \in Live /\ cur # p
      /\ pcbFree_h' = pcbFree_h \ {p}
      /\ processCount' = processCount + 1
  BY DEF TreeInv, PlaceInv, PlacedOnce, Placed, CreateProcess, Running, TypeOK, Live
<1>2. /\ p_parent' = [p_parent EXCEPT ![p] = cur]
      /\ p_child' = [p_child EXCEPT ![p] = {}, ![cur] = @ \cup {p}]
  BY DEF CreateProcess, AddChild
<1>3. cur \in Pcb /\ Live' = Live \cup {p} /\ p \notin Live
  BY <1>1 DEF Live
<1> HIDE DEF cur
<1>4. /\ \A x \in Pcb : p_parent'[x] = IF x = p THEN cur ELSE p_parent[x]
      /\ \A x \in Pcb : p_child'[x] = IF x = cur THEN p_child[x] \cup {p} ELSE
                                      IF x = p THEN {} ELSE p_child[x]
  BY <1>1, <1>2, <1>3 DEF TypeOK
<1>5. p_parent[p] = NULL /\ p_child[p] = {} /\ \A x \in Pcb : p \notin p_child[x]
  BY <1>1, NULLAssumption DEF TreeInv, FreeBare, Agree
<1>6. Agree'
  <2> SUFFICES ASSUME NEW x \in Pcb, NEW c \in Pcb
               PROVE  c \in p_child'[x] <=> p_parent'[c] = x
    BY DEF Agree
  <2>1. c \in p_child[x] <=> p_parent[c] = x
    BY DEF TreeInv, Agree
  <2> QED BY <1>1, <1>3, <1>4, <1>5, <2>1
<1>7. FreeBare'
  <2> SUFFICES ASSUME NEW x \in pcbFree_h \ {p}
               PROVE  p_parent'[x] = NULL /\ p_child'[x] = {}
    BY <1>1 DEF FreeBare
  <2>1. x \in Pcb /\ x # cur
    BY <1>1 DEF TypeOK, Live
  <2> QED BY <1>4, <2>1 DEF TreeInv, FreeBare
<1>8. Rooted'
  <2>1. PICK r \in Live : p_parent[r] = NULL /\ Live \subseteq Subtree(r)
    BY <1>1 DEF TreeInv, Rooted
  <2>2. r \in Pcb /\ r # p
    BY <1>1, <2>1 DEF Live
  <2>3. ASSUME NEW x \in Live' PROVE x \in Subtree(r)'
    <3> SUFFICES ASSUME NEW S \in SUBSET Pcb, r \in S,
                        \A y \in S : p_child'[y] \subseteq S
                 PROVE  x \in S
      BY <2>3 DEF Subtree, Live
    <3>1. Closed(S)
      BY <1>4, <1>5 DEF Closed
    <3>2. Live \subseteq S
      BY <1>1, <2>1, <2>2, <3>1, SubtreeLeast
    <3>3. p \in S
      BY <1>1, <1>3, <1>4, <3>2
    <3> QED BY <1>3, <2>3, <3>2, <3>3
  <2>4. p_parent'[r] = NULL /\ r \in Live'
    BY <1>3, <1>4, <2>1, <2>2
  <2> QED BY <2>3, <2>4 DEF Rooted
<1>9. ProcessCountExact'
  <2>1. IsFiniteSet(Live)
    BY PcbAssumption, FS_Subset DEF Live
  <2>2. Cardinality(Live \cup {p}) = Cardinality(Live) + 1
    BY <1>3, <2>1, FS_AddElement
  <2> QED BY <1>1, <1>3, <2>2 DEF TreeInv, ProcessCountExact
<1> QED BY <1>6, <1>7, <1>8, <1>9

(***************************************************************************)
(* processKiller takes a whole subtree of live processes, and no more.     *)
(***************************************************************************)
LEMMA KillTree ==
  ASSUME TreeInv, NEW p \in Live, KillAndSchedule(p)
  PROVE  Agree' /\ FreeBare' /\ Rooted' /\ ProcessCountExact'
<1> DEFINE D == Subtree(p)
<1>1. TypeOK /\ Agree /\ FreeBare /\ p \in Pcb
  BY DEF TreeInv, PlaceInv, Live
<1>2. /\ pcbFree_h' = pcbFree_h \cup D
      /\ p_parent' = [x \in Pcb |-> IF x \in D THEN NULL ELSE p_parent[x]]
      /\ p_child' = [x \in Pcb |-> IF x \in D THEN {} ELSE p_child[x] \ {p}]
      /\ processCount' = processCount - Cardinality(D)
  BY DEF KillAndSchedule, Kill, CutOff, KillCount
<1>3. /\ p \in D /\ Closed(D) /\ D \subseteq Live
      /\ \A c \in D : c # p => p_parent[c] \in D
  BY <1>1, SubtreeLeast, SubtreeOfLive
<1>4. Live' = Live \ D /\ Live \subseteq Pcb
  BY <1>2 DEF Live
<1>5. \A r \in Pcb : p_parent[r] = NULL /\ r # p => r \notin D
  BY <1>1, RootOnTop
<1> HIDE DEF D
<1>6. Agree'
  <2> SUFFICES ASSUME NEW x \in Pcb, NEW c \in Pcb
               PROVE  c \in p_child'[x] <=> p_parent'[c] = x
    BY DEF Agree
  <2>1. c \in p_child[x] <=> p_parent[c] = x
    BY <1>1 DEF Agree
  <2>2. CASE x \in D
    <3>1. c \in p_child[x] => c \in D
      BY <1>3, <2>2 DEF Closed
    <3> QED BY <1>2, <2>1, <2>2, <3>1, NULLAssumption
  <2>3. CASE x \notin D
    <3>1. c \in p_child[x] /\ c # p => c \notin D
      BY <1>3, <2>1, <2>3
    <3> QED BY <1>2, <1>3, <2>1, <2>3, <3>1, NULLAssumption
  <2> QED BY <2>2, <2>3
<1>7. FreeBare'
  <2> SUFFICES ASSUME NEW x \in pcbFree_h \cup D
               PROVE  p_parent'[x] = NULL /\ p_child'[x] = {}
    BY <1>2 DEF FreeBare
  <2>1. x \in Pcb
    BY <1>1, <1>3, <1>4 DEF TypeOK
  <2> QED BY <1>1, <1>2, <2>1 DEF FreeBare
<1>8. Rooted'
  <2> SUFFICES ASSUME Live' # {}
               PROVE  \E r \in Live' : p_parent'[r] = NULL /\ Live' \subseteq Subtree(r)'
    BY DEF Rooted
  <2>1. PICK r \in Live : p_parent[r] = NULL /\ Live \subseteq Subtree(r)
    BY <1>4 DEF TreeInv, Rooted
  <2>2. r # p /\ r \in Pcb
    BY <1>4, <2>1 DEF D, Live
  <2>3. r \in Live' /\ p_parent'[r] = NULL
    BY <1>2, <1>4, <1>5, <2>1, <2>2
  <2>4. ASSUME NEW x \in Live' PROVE x \in Subtree(r)'
    <3> SUFFICES ASSUME NEW S \in SUBSET Pcb, r \in S,
                        \A y \in S : p_child'[y] \subseteq S
                 PROVE  x \in S
      BY <1>4, <2>4 DEF Subtree
    <3>1. S \cup D \in SUBSET Pcb /\ r \in S \cup D
      BY <1>3, <1>4
    <3>2. Closed(S \cup D)
      <4> SUFFICES ASSUME NEW y \in S \cup D, NEW c \in p_child[y] PROVE c \in S \cup D
        BY DEF Closed
      <4>1. CASE y \in D
        BY <1>3, <4>1 DEF Closed
      <4>2. CASE y \notin D
        BY <1>2, <1>3, <4>2
      <4> QED BY <4>1, <4>2
    <3>3. Live \subseteq S \cup D
      BY <1>1, <2>1, <2>2, <3>1, <3>2, SubtreeLeast
    <3> QED BY <1>4, <2>4, <3>3
  <2> QED BY <2>3, <2>4
<1>9. ProcessCountExact'
  <2>1. IsFiniteSet(Live)
    BY PcbAssumption, FS_Subset DEF Live
  <2>2. Cardinality(Live \ D) = Cardinality(Live) - Cardinality(D)
    <3>1. IsFiniteSet(D) /\ IsFiniteSet(Live \ D)
      BY <1>3, <2>1, FS_Subset
    <3>2. /\ Cardinality((Live \ D) \cup D) =
               Cardinality(Live \ D) + Cardinality(D) - Cardinality((Live \ D) \cap D)
      BY <3>1, FS_Union
    <3>3. (Live \ D) \cup D = Live /\ (Live \ D) \cap D = {}
      BY <1>3
    <3>4. Cardinality(Live \ D) \in Nat /\ Cardinality(D) \in Nat /\ Cardinality({}) = 0
      BY <3>1, FS_CardinalityType, FS_EmptySet
    <3>5. Cardinality(Live) = Cardinality(Live \ D) + Cardinality(D) - 0
      BY <3>2, <3>3, <3>4
    <3>6. \A l, m, n \in Int : l = m + n - 0 => m = l - n
      OBVIOUS
    <3>7. Cardinality(Live) \in Nat
      BY <2>1, FS_CardinalityType
    <3> QED BY <3>4, <3>5, <3>6, <3>7
  <2> QED BY <1>2, <1>4, <2>2 DEF TreeInv, ProcessCountExact
<1> QED BY <1>6, <1>7, <1>8, <1>9

(***************************************************************************)
(* No other handler touches the tree or the count.                         *)
(***************************************************************************)
LEMMA TreeStep == TreeInv /\ [Next]_vars => TreeInv'
<1> SUFFICES ASSUME TreeInv, [Next]_vars
             PROVE  Agree' /\ FreeBare' /\ Rooted' /\ ProcessCountExact'
  BY PlaceStep DEF TreeInv
<1>1. ASSUME UNCHANGED <<pcbFree_h, tree, processCount>>
      PROVE  Agree' /\ FreeBare' /\ Rooted' /\ ProcessCountExact'
  <2>1. UNCHANGED <<pcbFree_h, p_parent, p_child, processCount>>
    BY <1>1 DEF tree
  <2> QED BY <2>1 DEF TreeInv, Agree, FreeBare, Rooted, ProcessCountExact, Live, Subtree
<1>2. ASSUME Running PROVE current_process \in Live
  BY <1>2 DEF TreeInv, PlaceInv, PlacedOnce, Placed, Running, TypeOK, Live
<1>3. ASSUME NEW p \in Pcb, NEW prio, NEW support, CreateProcess(p, prio, support)
      PROVE  Agree' /\ FreeBare' /\ Rooted' /\ ProcessCountExact'
  BY <1>3, CreateTree
<1>4. CASE TerminateSelf \/ Die \/ \E target \in Live : TerminateProcess(target)
  BY <1>2, <1>4, KillTree DEF TerminateSelf, Die, TerminateProcess
<1>5. ASSUME \/ \E target : TerminateUnknown(target)
             \/ \E s \in UserSem : Passeren(s) \/ Verhogen(s)
             \/ \E d \in DevSem : DoIO(d) \/ DeviceInterrupt(d)
             \/ DoIOBadLine \/ WaitForClock \/ Yield
             \/ PLTInterrupt \/ IntervalTimerInterrupt
             \/ UNCHANGED vars
      PROVE  UNCHANGED <<pcbFree_h, tree, processCount>>
  BY <1>5 DEF TerminateUnknown, Passeren, Verhogen, DoIO, SemaphoreP, DeviceInterrupt,
              DoIOBadLine, WaitForClock, Yield, PLTInterrupt, IntervalTimerInterrupt,
              vars, counts, tree
<1> QED BY <1>1, <1>3, <1>4, <1>5 DEF Next

(***************************************************************************)
(* main leaves one process, without children.                              *)
(***************************************************************************)
LEMMA TreeInit == Init => TreeInv
<1> SUFFICES ASSUME Init PROVE Agree /\ FreeBare /\ Rooted /\ ProcessCountExact
  BY PlaceInit DEF TreeInv
<1>1. PICK root \in Pcb : /\ pcbFree_h = Pcb \ {root}
                          /\ p_parent = [p \in Pcb |-> NULL]
                          /\ p_child = [p \in Pcb |-> {}]
                          /\ processCount = 1
  BY DEF Init
<1>2. Live = {root}
  BY <1>1 DEF Live
<1>3. Agree /\ FreeBare
  BY <1>1, NULLAssumption DEF Agree, FreeBare
<1>4. Rooted
  BY <1>1, <1>2 DEF Rooted, Subtree
<1>5. ProcessCountExact
  BY <1>1, <1>2, FS_Singleton DEF ProcessCountExact
<1> QED BY <1>3, <1>4, <1>5

(***************************************************************************)
(* The inductive invariant of the tree in all reachable states.            *)
(***************************************************************************)
THEOREM TreeCorrect == Spec => []TreeInv
  BY TreeInit, TreeStep, PTL DEF Spec

(***************************************************************************)
(* processCount is the number of PCBs in use.                              *)
(***************************************************************************)
THEOREM ProcessesCounted == Spec => []ProcessCountExact
<1>1. TreeInv => ProcessCountExact
  BY DEF TreeInv
<1> QED BY <1>1, TreeCorrect, PTL

(***************************************************************************)
(* The processes are one tree, in which parents and children agree, and    *)
(* findProcess finds every live process from any other.                    *)
(***************************************************************************)
THEOREM ProcessesAreOneTree == Spec => []OneTree
<1>1. TreeInv => OneTree
  <2> SUFFICES ASSUME TreeInv PROVE OneTree
    OBVIOUS
  <2>1. ASSUME Running PROVE Live \subseteq Findable
    <3>1. current_process \in Live
      BY <2>1 DEF TreeInv, PlaceInv, PlacedOnce, Placed, Running, TypeOK, Live
    <3>2. PICK r \in Live : p_parent[r] = NULL /\ Live \subseteq Subtree(r)
      BY <3>1 DEF TreeInv, Rooted
    <3> QED BY <3>1, <3>2 DEF Findable, Live
  <2> QED BY <2>1 DEF TreeInv, Agree, FreeBare, OneTree
<1> QED BY <1>1, TreeCorrect, PTL

-----------------------------------------------------------------------------
(***************************************************************************)
(* The nucleus implements NucleusSpec: every handler is a step of it.      *)
(***************************************************************************)
Waiting == [s \in Sem |-> ToSet(procq[s])]
Values  == [s \in UserSem |-> sem[s]]

RefInv == TreeInv /\ BlockedSorted

(***************************************************************************)
(* All that the handlers' lemmas below use of a reachable state: where     *)
(* every PCB is, the tree, and that the queues of waiters are sorted.      *)
(***************************************************************************)
LEMMA RefCorrect == Spec => []RefInv
  BY TreeCorrect, BlockedAreSorted, PTL DEF RefInv

(***************************************************************************)
(* What a handler finds when it starts.                                    *)
(***************************************************************************)
LEMMA AtEntry ==
  ASSUME RefInv, Running
  PROVE  /\ TypeOK /\ Placed /\ Agree /\ FreeBare
         /\ readyQueue \in Seq(Pcb) /\ IsInjective(readyQueue)
         /\ procq \in [Sem -> Seq(Pcb)]
         /\ p_prio \in [Pcb -> Int]
         /\ current_process \in Live /\ Live \subseteq Pcb
         /\ cpu = "run"
  BY PrioType DEF RefInv, TreeInv, PlaceInv, PlacedOnce, Placed, TypeOK, Running, Live

(***************************************************************************)
(* scheduler() runs one of the ready processes, or the machine halts.      *)
(***************************************************************************)
LEMMA DispatchSchedules ==
  ASSUME NEW q \in Seq(Pcb), IsInjective(q), Dispatch(q)
  PROVE  Abstract!Schedule(ToSet(q))
<1>1. CASE q = <<>>
  <2>1. /\ ToSet(q) = {} /\ ToSet(readyQueue') = {}
        /\ current_process' = NULL /\ cpu' = "nullstate"
    BY <1>1, ToSetEmpty DEF Dispatch
  <2>2. ToSet(readyQueue)' = {}
    BY <2>1 DEF ToSet
  <2> QED BY <2>1, <2>2 DEF Abstract!Schedule, Running
<1>2. CASE q # <<>>
  <2>1. /\ readyQueue' = Tail(q) /\ current_process' = Head(q) /\ cpu' = "run"
    BY <1>2 DEF Dispatch
  <2>2. ToSet(q) = ToSet(Tail(q)) \cup {Head(q)} /\ Head(q) \notin ToSet(Tail(q))
    BY <1>2, HeadTailPlaces
  <2>3. ToSet(readyQueue)' = ToSet(q) \ {Head(q)}
    BY <2>1, <2>2 DEF ToSet
  <2> QED BY <2>1, <2>2, <2>3 DEF Abstract!Schedule, Running
<1> QED BY <1>1, <1>2

(***************************************************************************)
(* NSYS1.                                                                  *)
(***************************************************************************)
LEMMA CreateImplements ==
  ASSUME RefInv, NEW p \in Pcb, NEW pr \in Prio, NEW support, CreateProcess(p, pr, support)
  PROVE  Abstract!Create(p, pr)
<1>1. Running
  BY DEF CreateProcess
<1>2. /\ current_process \in Pcb /\ current_process # p
      /\ readyQueue \in Seq(Pcb)
  BY <1>1, AtEntry DEF Live, CreateProcess
<1>3. /\ p \in pcbFree_h
      /\ pcbFree_h' = pcbFree_h \ {p}
      /\ p_parent' = [p_parent EXCEPT ![p] = current_process]
      /\ p_prio' = [p_prio EXCEPT ![p] = pr]
      /\ readyQueue' = InsertProcQ(readyQueue, p, p_prio')
      /\ UNCHANGED <<procq, sem, current_process, cpu>>
  BY DEF CreateProcess, AddChild, Resume
<1>4. p_prio' \in [Pcb -> Int]
  BY <1>1, <1>3, AtEntry, PrioAssumption
<1>5. ToSet(readyQueue)' = ToSet(readyQueue) \cup {p}
  <2>1. ToSet(InsertProcQ(readyQueue, p, p_prio')) = ToSet(readyQueue) \cup {p}
    BY <1>2, <1>4, InsertProcQProperties
  <2> QED BY <1>3, <2>1 DEF ToSet
<1> QED BY <1>3, <1>5 DEF Abstract!Create, Running

(***************************************************************************)
(* What processKiller reaches by p_child, NucleusSpec reaches by parents.  *)
(***************************************************************************)
LEMMA SameProgeny ==
  ASSUME TypeOK, Agree, NEW p
  PROVE  Abstract!Progeny(p) = Subtree(p)
<1>1. ASSUME NEW S \in SUBSET Pcb
      PROVE  (\A y \in S : p_child[y] \subseteq S) <=> (\A y \in Pcb : p_parent[y] \in S => y \in S)
  BY DEF TypeOK, Agree
<1> QED BY <1>1 DEF Abstract!Progeny, Subtree

(***************************************************************************)
(* processKiller and the scheduler() behind it.                            *)
(***************************************************************************)
LEMMA KillImplements ==
  ASSUME RefInv, Running, NEW p \in Live, KillAndSchedule(p)
  PROVE  Abstract!Kill(p)
<1> DEFINE D == Subtree(p)
<1>1. Abstract!Progeny(p) = D
  BY AtEntry, SameProgeny
<1>2. /\ pcbFree_h' = pcbFree_h \cup D
      /\ p_parent' = [x \in Pcb |-> IF x \in D THEN NULL ELSE p_parent[x]]
      /\ procq' = [s \in Sem |-> Without(procq[s], D)]
      /\ UNCHANGED <<p_prio, sem>>
  BY DEF KillAndSchedule, Kill, CutOff
<1>3. IF D \cap ToSet(readyQueue) = {} THEN Dispatch(readyQueue)
      ELSE cpu' = "badlist" /\ UNCHANGED <<readyQueue, current_process>>
  BY DEF KillAndSchedule
<1> HIDE DEF D
<1>4. \A s \in Sem : ToSet(procq'[s]) = ToSet(procq[s]) \ D
  BY <1>2, AtEntry, WithoutProperties
<1>5. Waiting' = [s \in Sem |-> Waiting[s] \ D]
  BY <1>4 DEF Waiting
<1>6. IF D \cap ToSet(readyQueue) = {} THEN Abstract!Schedule(ToSet(readyQueue))
      ELSE (~ Running)' = TRUE /\ UNCHANGED <<ToSet(readyQueue), current_process>>
  <2>1. CASE D \cap ToSet(readyQueue) = {}
    BY <1>3, <2>1, AtEntry, DispatchSchedules
  <2>2. CASE D \cap ToSet(readyQueue) # {}
    BY <1>3, <2>2 DEF Running
  <2> QED BY <2>1, <2>2
<1>7. p \notin pcbFree_h
  BY DEF Live
<1> QED BY <1>1, <1>2, <1>5, <1>6, <1>7 DEF Abstract!Kill, Waiting, Sem

(***************************************************************************)
(* A P that blocks.  The descriptor is always there.                       *)
(***************************************************************************)
LEMMA BlockImplements ==
  ASSUME RefInv, Running, NEW s \in Sem, BlockOn(s)
  PROVE  /\ Waiting' = [Waiting EXCEPT ![s] = @ \cup {current_process}]
         /\ Abstract!Schedule(ToSet(readyQueue))
<1>1. /\ procq \in [Sem -> Seq(Pcb)] /\ current_process \in Pcb
      /\ p_prio \in [Pcb -> Int] /\ TypeOK /\ Placed
  BY AtEntry
<1>2. procq' = [procq EXCEPT ![s] = InsertProcQ(@, current_process, p_prio)]
  BY <1>1, DescriptorLeft DEF BlockOn
<1>3. ToSet(InsertProcQ(procq[s], current_process, p_prio)) = ToSet(procq[s]) \cup {current_process}
  BY <1>1, InsertProcQProperties
<1>4. Waiting' = [Waiting EXCEPT ![s] = @ \cup {current_process}]
  BY <1>1, <1>2, <1>3 DEF Waiting
<1> QED BY <1>4, AtEntry, DispatchSchedules DEF BlockOn

(***************************************************************************)
(* NSYS3.                                                                  *)
(***************************************************************************)
LEMMA PasserenImplements ==
  ASSUME RefInv, NEW s \in UserSem, Passeren(s)
  PROVE  Abstract!P(s)
<1>1. /\ Running /\ s \in Sem /\ sem \in [Sem -> Int]
      /\ sem' = [sem EXCEPT ![s] = @ - 1]
      /\ UNCHANGED <<pcbFree_h, p_parent, p_prio>>
  BY DEF Passeren, Sem, tree, RefInv, TreeInv, PlaceInv, TypeOK
<1>2. Values' = [Values EXCEPT ![s] = @ - 1] /\ Values[s] = sem[s]
  BY <1>1 DEF Values, Sem
<1>3. CASE sem[s] > 0 /\ Resume /\ UNCHANGED <<p_semAdd, queues>>
  <2>1. UNCHANGED <<readyQueue, procq, current_process, cpu>> /\ ~ (sem[s] <= 0)
    BY <1>1, <1>3 DEF Resume, queues
  <2> QED BY <1>1, <1>2, <2>1 DEF Abstract!P, Values, Running
<1>4. CASE sem[s] <= 0 /\ BlockOn(s)
  BY <1>1, <1>2, <1>4, BlockImplements DEF Abstract!P, Abstract!Block, Waiting, Values
<1> QED BY <1>3, <1>4 DEF Passeren

(***************************************************************************)
(* NSYS5 and NSYS7: semaphoreP.                                            *)
(***************************************************************************)
LEMMA SemaphorePImplements ==
  ASSUME RefInv, Running, NEW s \in SoftSem, SemaphoreP(s)
  PROVE  Abstract!Next
<1>1. /\ s \in Sem /\ s \notin UserSem /\ sem \in [Sem -> Int]
      /\ sem' = [sem EXCEPT ![s] = Lowered(s)]
      /\ UNCHANGED <<pcbFree_h, p_parent, p_prio>>
  BY SemKinds DEF SemaphoreP, tree, RefInv, TreeInv, PlaceInv, TypeOK
<1>2. Values' = Values
  BY <1>1 DEF Values
<1>3. CASE Return /\ UNCHANGED <<p_semAdd, queues, softblockcount>>
  <2>1. UNCHANGED <<readyQueue, procq, current_process>> /\ cpu' = "returned"
    BY <1>3 DEF Return, queues
  <2> QED BY <1>1, <1>2, <2>1 DEF Abstract!Next, Abstract!Halt, Values, Running
<1>4. CASE BlockOn(s)
  <2>1. Abstract!Wait(s)
    BY <1>1, <1>2, <1>4, BlockImplements DEF Abstract!Wait, Abstract!Block, Waiting, Values
  <2> QED BY <2>1 DEF Abstract!Next
<1> QED BY <1>3, <1>4 DEF SemaphoreP

(***************************************************************************)
(* NSYS4.  The head of a sorted queue is of the highest priority.          *)
(***************************************************************************)
LEMMA VerhogenImplements ==
  ASSUME RefInv, NEW s \in UserSem, Verhogen(s)
  PROVE  Abstract!V(s)
<1> DEFINE q == procq[s]
<1>1. /\ Running /\ s \in Sem
      /\ sem' = [sem EXCEPT ![s] = @ + 1]
      /\ UNCHANGED <<pcbFree_h, p_parent, p_prio, current_process, cpu>>
      /\ IF sem[s] + 1 <= 0 THEN Wake(s) ELSE UNCHANGED <<p_semAdd, queues>>
  BY DEF Verhogen, Sem, tree, Resume, MustWake
<1> sem \in [Sem -> Int] /\ UserSem \subseteq Sem
  BY <1>1, AtEntry, SemKinds DEF TypeOK
<1>0. Values' = [Values EXCEPT ![s] = @ + 1] /\ Values[s] = sem[s]
  BY <1>1 DEF Values
<1>2. /\ q \in Seq(Pcb) /\ procq \in [Sem -> Seq(Pcb)] /\ readyQueue \in Seq(Pcb)
      /\ p_prio \in [Pcb -> Int] /\ IsInjective(q) /\ IsPrioSorted(q, p_prio)
  BY <1>1, AtEntry DEF Placed, RefInv, BlockedSorted
<1>3. Waiting[s] = ToSet(q)
  BY <1>1 DEF Waiting
<1>4. CASE sem[s] + 1 <= 0 /\ q # <<>>
  <2>1. /\ procq' = [procq EXCEPT ![s] = Tail(q)]
        /\ readyQueue' = InsertProcQ(readyQueue, Head(q), p_prio)
    BY <1>1, <1>4 DEF Wake
  <2>2. /\ Head(q) \in Pcb
        /\ ToSet(q) = ToSet(Tail(q)) \cup {Head(q)} /\ Head(q) \notin ToSet(Tail(q))
    BY <1>2, <1>4, HeadTailPlaces
  <2>3. \A y \in ToSet(q) : p_prio[Head(q)] >= p_prio[y]
    <3> SUFFICES ASSUME NEW y \in ToSet(Tail(q)) PROVE p_prio[Head(q)] >= p_prio[y]
      BY <1>2, <2>2
    <3>1. Before(q, Head(q), y)
      BY <1>2, <1>4, TailOrder
    <3> QED BY <1>2, <3>1 DEF Before, IsPrioSorted
  <2>4. ToSet(readyQueue)' = ToSet(readyQueue) \cup {Head(q)}
    <3> DEFINE h == Head(q)
    <3>1. h \in Pcb /\ readyQueue \in Seq(Pcb) /\ p_prio \in [Pcb -> Int]
      BY <1>2, <2>2
    <3> HIDE DEF h
    <3>2. ToSet(InsertProcQ(readyQueue, h, p_prio)) = ToSet(readyQueue) \cup {h}
      BY <3>1, InsertProcQProperties
    <3> QED BY <2>1, <3>2 DEF h, ToSet
  <2>5. Waiting' = [Waiting EXCEPT ![s] = @ \ {Head(q)}]
    <3>1. \A t \in Sem : procq'[t] = IF t = s THEN Tail(q) ELSE procq[t]
      BY <1>1, <1>2, <2>1
    <3>2. ToSet(Tail(q)) = ToSet(q) \ {Head(q)}
      BY <2>2
    <3> HIDE DEF q
    <3> QED BY <1>1, <1>3, <3>1, <3>2 DEF Waiting
  <2>6. Waiting[s] # {} /\ Head(q) \in Waiting[s]
    BY <1>3, <2>2
  <2> HIDE DEF q
  <2> QED BY <1>0, <1>1, <1>3, <1>4, <2>3, <2>4, <2>5, <2>6 DEF Abstract!V, Waiting, Values, Running
<1>5. CASE ~ (sem[s] + 1 <= 0 /\ q # <<>>)
  <2>1. UNCHANGED <<readyQueue, procq>>
    BY <1>1, <1>5 DEF Wake, queues
  <2>2. q = <<>> => Waiting[s] = {}
    BY <1>3, ToSetEmpty
  <2>3. ~ (sem[s] + 1 <= 0 /\ Waiting[s] # {})
    BY <1>5, <2>2
  <2> HIDE DEF q
  <2> QED BY <1>0, <1>1, <2>1, <2>3 DEF Abstract!V, Waiting, Values, Running
<1> QED BY <1>4, <1>5

(***************************************************************************)
(* The pseudo-clock tick.                                                  *)
(***************************************************************************)
LEMMA TickImplements ==
  ASSUME RefInv, IntervalTimerInterrupt
  PROVE  Abstract!Tick
<1> DEFINE w == procq[Clock]
<1>1. Clock \in Sem /\ Running
  BY DEF Sem, SoftSem, IntervalTimerInterrupt
<1>2. /\ w \in Seq(Pcb) /\ procq \in [Sem -> Seq(Pcb)] /\ readyQueue \in Seq(Pcb)
      /\ p_prio \in [Pcb -> Int]
  BY <1>1, AtEntry
<1>3. /\ procq' = [procq EXCEPT ![Clock] = Without(w, ToSet(w))]
      /\ readyQueue' = InsertAll(readyQueue, w, p_prio)
      /\ UNCHANGED <<pcbFree_h, p_parent, p_prio, sem, current_process, cpu>>
  BY DEF IntervalTimerInterrupt, ClockWaiters, Resume, tree
<1> HIDE DEF w
<1>4. ToSet(Without(w, ToSet(w))) = {}
  BY <1>2, WithoutProperties
<1>5. Waiting' = [Waiting EXCEPT ![Clock] = {}]
  BY <1>1, <1>2, <1>3, <1>4 DEF Waiting
<1>6. ToSet(readyQueue)' = ToSet(readyQueue) \cup ToSet(w)
  <2>1. ToSet(InsertAll(readyQueue, w, p_prio)) = ToSet(readyQueue) \cup ToSet(w)
    BY <1>2, InsertAllProperties
  <2> QED BY <1>3, <2>1 DEF ToSet
<1>7. Waiting[Clock] = ToSet(w)
  BY <1>1 DEF Waiting, w
<1> QED BY <1>3, <1>5, <1>6, <1>7 DEF Abstract!Tick, Waiting, Running

(***************************************************************************)
(* Yield and the end of a time slice.                                      *)
(***************************************************************************)
LEMMA PreemptImplements ==
  ASSUME RefInv, Yield \/ PLTInterrupt
  PROVE  Abstract!Preempt
<1>1. /\ Running
      /\ UNCHANGED <<pcbFree_h, p_parent, p_prio, procq, sem>>
  BY DEF Yield, PLTInterrupt, tree
<1>2. /\ readyQueue \in Seq(Pcb) /\ IsInjective(readyQueue) /\ p_prio \in [Pcb -> Int]
      /\ current_process \in Pcb /\ current_process \notin ToSet(readyQueue)
  BY <1>1, AtEntry DEF Placed
<1>3. PICK q \in Seq(Pcb) : /\ Dispatch(q) /\ IsInjective(q)
                            /\ ToSet(q) = ToSet(readyQueue) \cup {current_process}
  <2>1. CASE Yield
    <3> DEFINE q == Append(readyQueue, current_process)
    <3>1. Dispatch(q)
      BY <2>1 DEF Yield
    <3>2. /\ q \in Seq(Pcb) /\ IsInjective(q)
          /\ ToSet(q) = ToSet(readyQueue) \cup {current_process}
      BY <1>2, AppendPlaces
    <3> HIDE DEF q
    <3> QED BY <3>1, <3>2
  <2>2. CASE PLTInterrupt
    <3>1. Dispatch(InsertProcQ(readyQueue, current_process, p_prio))
      BY <2>2 DEF PLTInterrupt
    <3> QED BY <1>2, <3>1, InsertProcQProperties
  <2> QED BY <2>1, <2>2
<1>4. Abstract!Schedule(ToSet(readyQueue) \cup {current_process})
  BY <1>3, DispatchSchedules
<1> QED BY <1>1, <1>4 DEF Abstract!Preempt

(***************************************************************************)
(* Every step of the nucleus is one of NucleusSpec.                        *)
(***************************************************************************)
LEMMA ImplementsStep == RefInv /\ [Next]_vars => [Abstract!Next]_Abstract!vars
<1> SUFFICES ASSUME RefInv, [Next]_vars PROVE [Abstract!Next]_Abstract!vars
  OBVIOUS
<1>1. CASE UNCHANGED vars
  BY <1>1 DEF vars, Abstract!vars, Running
<1>2. ASSUME NEW d \in DevSem, DeviceInterrupt(d) PROVE UNCHANGED Abstract!vars
  BY <1>2 DEF DeviceInterrupt, Resume, tree, queues, Abstract!vars, Running
<1>3. ASSUME Next PROVE Running
  BY <1>3 DEF Next, CreateProcess, TerminateSelf, TerminateProcess, TerminateUnknown, Die,
         Passeren, Verhogen, DoIO, DeviceInterrupt, DoIOBadLine, WaitForClock, Yield,
         PLTInterrupt, IntervalTimerInterrupt
<1>4. ASSUME NEW p \in Pcb, NEW pr \in Prio, NEW support \in Support,
             CreateProcess(p, pr, support)
      PROVE  Abstract!Next
  BY <1>3, <1>4, CreateImplements DEF Abstract!Next, Next
<1>5. ASSUME NEW p \in Live, KillAndSchedule(p), Running PROVE Abstract!Next
  BY <1>5, KillImplements DEF Abstract!Next, Live
<1>6. CASE TerminateSelf \/ Die \/ \E target \in Live : TerminateProcess(target)
  BY <1>5, <1>6, AtEntry DEF TerminateSelf, Die, TerminateProcess
<1>7. ASSUME NEW s \in UserSem, Passeren(s) \/ Verhogen(s) PROVE Abstract!Next
  BY <1>7, PasserenImplements, VerhogenImplements DEF Abstract!Next, Passeren, Verhogen
<1>8. ASSUME NEW s \in SoftSem, SemaphoreP(s), Running PROVE Abstract!Next
  BY <1>8, SemaphorePImplements
<1>9. CASE WaitForClock \/ \E d \in DevSem : DoIO(d)
  BY <1>8, <1>9 DEF WaitForClock, DoIO, SoftSem
<1>10. CASE DoIOBadLine \/ \E target \in Live \cup {NULL} : TerminateUnknown(target)
  <2>1. /\ Running /\ cpu' = "returned"
        /\ UNCHANGED <<pcbFree_h, p_parent, p_prio, readyQueue, procq, sem, current_process>>
    BY <1>10 DEF DoIOBadLine, TerminateUnknown, Return, tree, queues
  <2> QED BY <2>1 DEF Abstract!Next, Abstract!Halt, Running
<1>11. CASE IntervalTimerInterrupt
  BY <1>11, TickImplements DEF Abstract!Next, IntervalTimerInterrupt
<1>12. CASE Yield \/ PLTInterrupt
  BY <1>12, PreemptImplements DEF Abstract!Next, Yield, PLTInterrupt
<1> QED BY <1>1, <1>2, <1>4, <1>6, <1>7, <1>9, <1>10, <1>11, <1>12 DEF Next

(***************************************************************************)
(* main leaves one process running and nobody waiting.                     *)
(***************************************************************************)
LEMMA ImplementsInit == Init => Abstract!Init
<1> SUFFICES ASSUME Init PROVE Abstract!Init
  OBVIOUS
<1>1. ToSet(readyQueue) = {} /\ Waiting = [s \in Sem |-> {}] /\ Running
  BY ToSetEmpty DEF Init, Waiting, Running
<1>2. Values \in [UserSem -> {0, 1}]
  <2>1. 0 .. 1 = {0, 1}
    OBVIOUS
  <2> QED BY <2>1 DEF Init, Values, Sem
<1> QED BY <1>1, <1>2 DEF Init, Abstract!Init, Waiting, Values, Sem

(***************************************************************************)
(* The nucleus does what NucleusSpec says, for any number of processes,    *)
(* semaphores, devices and priorities.                                     *)
(***************************************************************************)
THEOREM NucleusImplementsItsSpec == Spec => ImplementsNucleusSpec
<1>1. Init => Abstract!Init
  BY ImplementsInit
<1>2. RefInv /\ [Next]_vars => [Abstract!Next]_Abstract!vars
  BY ImplementsStep
<1> QED BY <1>1, <1>2, RefCorrect, PTL DEF Spec, ImplementsNucleusSpec, Abstract!Spec

(***************************************************************************)
(* In NucleusSpec nobody falls out of all the sets but the caller of a     *)
(* kill, so in the nucleus neither.                                        *)
(***************************************************************************)
LEMMA LostStep ==
  ASSUME TypeOK, [Abstract!Next]_Abstract!vars
  PROVE  /\ \A p \in Lost' \ Lost : p = current_process /\ pcbFree_h' # pcbFree_h
         /\ Lost \ Lost' \subseteq pcbFree_h'
<1> DEFINE cur == current_process
           ready == ToSet(readyQueue)
           Somewhere(p) == \E s \in Sem : p \in Waiting[s]
<1>1. \A p : p \in Lost <=> /\ p \in Pcb \ pcbFree_h /\ p # cur
                            /\ p \notin ready /\ ~ Somewhere(p)
  BY DEF Lost, Live, Waiting
<1>2. \A p : p \in Lost' <=> /\ p \in Pcb \ pcbFree_h' /\ p # cur'
                             /\ p \notin ready' /\ ~ Somewhere(p)'
  BY DEF Lost, Live, Waiting
<1>3. DOMAIN Waiting = Sem /\ UserSem \subseteq Sem /\ SoftSem \subseteq Sem /\ Clock \in SoftSem
  BY DEF Waiting, Sem, SoftSem
<1> SUFFICES /\ \A p \in Pcb : p \in Lost' /\ p \notin Lost => p = cur /\ pcbFree_h' # pcbFree_h
             /\ \A p \in Pcb : p \in Lost /\ p \notin Lost' => p \in pcbFree_h'
  BY <1>1, <1>2 DEF cur
<1> HIDE DEF ready, Somewhere
<1>4. CASE UNCHANGED Abstract!vars
  <2>1. UNCHANGED <<pcbFree_h, cur, ready, Waiting>>
    BY <1>4 DEF Abstract!vars, ready, Waiting
  <2> QED BY <1>1, <1>2, <2>1 DEF Somewhere
<1>5. ASSUME NEW R, Abstract!Schedule(R)
      PROVE  \A p \in Pcb : p \in R <=> p \in ready' \/ p = cur'
  BY <1>5, NULLAssumption DEF Abstract!Schedule, ready
<1>6. ASSUME pcbFree_h' = pcbFree_h,
             \A p \in Pcb : p \in ready \/ p = cur \/ Somewhere(p)
                              <=> p \in ready' \/ p = cur' \/ Somewhere(p)'
      PROVE  \A p \in Pcb : p \in Lost <=> p \in Lost'
  BY <1>1, <1>2, <1>6
<1>7. CASE \E p \in Pcb, pr \in Prio : Abstract!Create(p, pr)
  <2>1. PICK p \in Pcb : /\ p \in pcbFree_h /\ pcbFree_h' = pcbFree_h \ {p}
                         /\ ready' = ready \cup {p} /\ UNCHANGED <<cur, Waiting>>
    BY <1>7 DEF Abstract!Create, ready, cur, Waiting
  <2> HIDE DEF cur
  <2>2. \A x : Somewhere(x)' <=> Somewhere(x)
    BY <2>1 DEF Somewhere
  <2> QED BY <1>1, <1>2, <2>1, <2>2
<1>8. CASE \E v \in Pcb : Abstract!Kill(v)
  <2>1. PICK v \in Pcb : Abstract!Kill(v)
    BY <1>8
  <2> DEFINE D == Abstract!Progeny(v)
  <2>2. /\ v \notin pcbFree_h /\ pcbFree_h' = pcbFree_h \cup D
        /\ Waiting' = [s \in Sem |-> Waiting[s] \ D]
        /\ Abstract!Schedule(ready) \/ UNCHANGED <<ready, cur>>
    BY <2>1 DEF Abstract!Kill, ready, cur, Waiting, Sem
  <2>3. v \in D
    BY DEF Abstract!Progeny
  <2> HIDE DEF cur, D
  <2>4. \A x : Somewhere(x)' <=> Somewhere(x) /\ x \notin D
    BY <2>2 DEF Somewhere
  <2>5. /\ \A x \in Pcb : x \in ready => x \in ready' \/ x = cur'
        /\ \A x \in Pcb : x \in ready' \/ x = cur' => x \in ready \/ x = cur
    BY <1>5, <2>2 DEF cur
  <2> QED BY <1>1, <1>2, <2>2, <2>3, <2>4, <2>5
<1>9. CASE \/ \E s \in UserSem : Abstract!P(s)
           \/ \E s \in SoftSem : Abstract!Wait(s)
  <2>1. PICK s \in Sem : /\ pcbFree_h' = pcbFree_h
                         /\ Abstract!Block(s) \/ UNCHANGED <<ready, cur, Waiting>>
    BY <1>9 DEF Sem, Abstract!P, Abstract!Wait, ready, cur, Waiting
  <2>2. CASE UNCHANGED <<ready, cur, Waiting>>
    <3> HIDE DEF cur
    <3>1. \A x : Somewhere(x)' <=> Somewhere(x)
      BY <2>2 DEF Somewhere
    <3> QED BY <1>6, <2>1, <2>2, <3>1
  <2>3. CASE Abstract!Block(s)
    <3>1. Waiting' = [Waiting EXCEPT ![s] = @ \cup {cur}] /\ Abstract!Schedule(ready)
      BY <2>3 DEF Abstract!Block, ready, cur, Waiting
    <3>2. \A x \in Pcb : x \in ready <=> x \in ready' \/ x = cur'
      BY <1>5, <3>1
    <3> HIDE DEF cur
    <3>3. \A x : Somewhere(x)' <=> Somewhere(x) \/ x = cur
      BY <1>3, <3>1 DEF Somewhere
    <3> QED BY <1>6, <2>1, <3>2, <3>3
  <2> QED BY <2>1, <2>2, <2>3
<1>10. CASE \E s \in UserSem : Abstract!V(s)
  <2>1. PICK s \in UserSem : Abstract!V(s)
    BY <1>10
  <2>2. pcbFree_h' = pcbFree_h /\ cur' = cur
    BY <2>1 DEF Abstract!V, cur
  <2>3. \/ UNCHANGED <<ready, Waiting>>
        \/ \E p \in Waiting[s] : /\ Waiting' = [Waiting EXCEPT ![s] = @ \ {p}]
                                 /\ ready' = ready \cup {p}
    BY <2>1 DEF Abstract!V, ready, Waiting
  <2> HIDE DEF cur
  <2>4. \A x : x \in ready' \/ Somewhere(x)' <=> x \in ready \/ Somewhere(x)
    BY <1>3, <2>3 DEF Somewhere
  <2> QED BY <1>6, <2>2, <2>4
<1>11. CASE Abstract!Tick
  <2>1. /\ pcbFree_h' = pcbFree_h /\ cur' = cur
        /\ ready' = ready \cup Waiting[Clock]
        /\ Waiting' = [Waiting EXCEPT ![Clock] = {}]
    BY <1>11 DEF Abstract!Tick, ready, cur, Waiting
  <2> HIDE DEF cur
  <2>2. \A x : x \in ready' \/ Somewhere(x)' <=> x \in ready \/ Somewhere(x)
    BY <1>3, <2>1 DEF Somewhere
  <2> QED BY <1>6, <2>1, <2>2
<1>12. CASE Abstract!Preempt
  <2>1. /\ pcbFree_h' = pcbFree_h /\ Waiting' = Waiting
        /\ Abstract!Schedule(ready \cup {cur})
    BY <1>12 DEF Abstract!Preempt, ready, cur, Waiting
  <2>2. \A x \in Pcb : x \in ready \cup {cur} <=> x \in ready' \/ x = cur'
    BY <1>5, <2>1
  <2> HIDE DEF cur
  <2>3. \A x : Somewhere(x)' <=> Somewhere(x)
    BY <2>1 DEF Somewhere
  <2> QED BY <1>6, <2>1, <2>2, <2>3
<1>13. CASE Abstract!Halt /\ UNCHANGED <<pcbFree_h, p_parent, p_prio, Values>>
  <2>1. pcbFree_h' = pcbFree_h /\ UNCHANGED <<ready, cur, Waiting>>
    BY <1>13 DEF Abstract!Halt, ready, cur, Waiting
  <2> HIDE DEF cur
  <2>2. \A x : Somewhere(x)' <=> Somewhere(x)
    BY <2>1 DEF Somewhere
  <2> QED BY <1>6, <2>1, <2>2
<1> QED BY <1>4, <1>7, <1>8, <1>9, <1>10, <1>11, <1>12, <1>13 DEF Abstract!Next, Values

(***************************************************************************)
(* Only the caller of a kill is lost.                                      *)
(***************************************************************************)
THEOREM OnlyKillersLost == Spec => OnlyKillersGetLost
<1>1. RefInv /\ [Next]_vars =>
        [/\ \A p \in Lost' \ Lost : p = current_process /\ pcbFree_h' # pcbFree_h
         /\ Lost \ Lost' \subseteq pcbFree_h']_vars
  BY ImplementsStep, LostStep DEF RefInv, TreeInv, PlaceInv
<1> QED BY <1>1, RefCorrect, PTL DEF Spec, OnlyKillersGetLost

-----------------------------------------------------------------------------
(***************************************************************************)
(* A walk through the progeny of p, as both recursive functions make it,   *)
(* after i calls and returns: the open calls, and the set F of those that  *)
(* have returned.                                                          *)
(***************************************************************************)
Walking(p, stack, F, i) ==
  /\ stack \in Seq(Pcb) /\ IsInjective(stack)
  /\ ToSet(stack) \subseteq Subtree(p) /\ F \subseteq Subtree(p)
  /\ ToSet(stack) \cap F = {}
  /\ p \in ToSet(stack) \cup F
  /\ \A x \in F : p_child[x] \subseteq ToSet(stack) \cup F
  /\ stack # <<>> => 2 * Cardinality(F) + Len(stack) = i + 1

(***************************************************************************)
(* The walk starts with the call for p.                                    *)
(***************************************************************************)
LEMMA WalkStarts ==
  ASSUME TypeOK, NEW p \in Pcb
  PROVE  Walking(p, <<p>>, {}, 0)
<1>1. <<p>> \in Seq(Pcb) /\ Len(<<p>>) = 1 /\ <<p>> # <<>>
  OBVIOUS
<1>2. ToSet(<<p>>) = {p} /\ IsInjective(<<p>>)
  BY DEF ToSet, IsInjective
<1>3. p \in Subtree(p)
  BY SubtreeLeast
<1>4. 2 * Cardinality({}) + Len(<<p>>) = 0 + 1
  <2>1. Cardinality({}) = 0
    BY FS_EmptySet
  <2> QED BY <1>1, <2>1
<1> QED BY <1>2, <1>3, <1>4 DEF Walking

(***************************************************************************)
(* Sets of PCBs are finite.                                                *)
(***************************************************************************)
LEMMA PcbSets ==
  ASSUME NEW S \in SUBSET Pcb
  PROVE  /\ IsFiniteSet(S) /\ Cardinality(S) \in Nat /\ Cardinality(S) <= MAXPROC
         /\ MAXPROC \in Nat
<1>1. IsFiniteSet(Pcb)
  BY PcbAssumption
<1>2. IsFiniteSet(S) /\ Cardinality(S) <= Cardinality(Pcb)
  BY <1>1, FS_Subset
<1> QED BY <1>1, <1>2, FS_CardinalityType DEF MAXPROC

(***************************************************************************)
(* A call for a child that has not been called for.                        *)
(***************************************************************************)
LEMMA WalkDown ==
  ASSUME TypeOK, NEW p \in Pcb, NEW stack, NEW F, NEW i \in Nat,
         Walking(p, stack, F, i), stack # <<>>,
         NEW c \in p_child[Last(stack)], c \notin ToSet(stack) \cup F
  PROVE  Walking(p, Append(stack, c), F, i + 1)
<1> DEFINE longer == Append(stack, c)
<1>1. stack \in Seq(Pcb) /\ IsInjective(stack) /\ Last(stack) \in ToSet(stack)
  BY FrontPlaces DEF Walking
<1>2. /\ ToSet(stack) \subseteq Subtree(p) /\ F \subseteq Subtree(p)
      /\ ToSet(stack) \cap F = {} /\ p \in ToSet(stack) \cup F
      /\ \A x \in F : p_child[x] \subseteq ToSet(stack) \cup F
      /\ 2 * Cardinality(F) + Len(stack) = i + 1
  BY DEF Walking
<1>3. c \in Subtree(p)
  BY <1>1, <1>2, SubtreeLeast DEF Closed
<1>4. c \in Pcb
  BY <1>3 DEF Subtree
<1>5. /\ longer \in Seq(Pcb) /\ Len(longer) = Len(stack) + 1
      /\ ToSet(longer) = ToSet(stack) \cup {c}
      /\ IsInjective(stack) /\ c \notin ToSet(stack) => IsInjective(longer)
  BY <1>1, <1>4, AppendPlaces
<1>6. 2 * Cardinality(F) + Len(longer) = (i + 1) + 1
  <2>1. F \in SUBSET Pcb
    BY <1>2 DEF Subtree
  <2>2. Cardinality(F) \in Nat /\ Len(stack) \in Nat
    BY <1>1, <2>1, PcbSets
  <2>3. Len(longer) = Len(stack) + 1
    BY <1>5
  <2> HIDE DEF longer
  <2> QED BY <1>2, <2>2, <2>3
<1> HIDE DEF longer
<1>7. Walking(p, longer, F, i + 1)
  BY <1>1, <1>2, <1>3, <1>5, <1>6 DEF Walking
<1> QED BY <1>7 DEF longer

(***************************************************************************)
(* A return from the call for a PCB all of whose children have been called *)
(* for.                                                                    *)
(***************************************************************************)
LEMMA WalkUp ==
  ASSUME TypeOK, NEW p \in Pcb, NEW stack, NEW F, NEW i \in Nat,
         Walking(p, stack, F, i), stack # <<>>,
         p_child[Last(stack)] \subseteq ToSet(stack) \cup F
  PROVE  Walking(p, Front(stack), F \cup {Last(stack)}, i + 1)
<1> DEFINE top == Last(stack)
           front == Front(stack)
           G == F \cup {top}
<1>1. /\ stack \in Seq(Pcb) /\ IsInjective(stack) /\ top \in ToSet(stack)
      /\ front \in Seq(Pcb) /\ IsInjective(front) /\ Len(front) = Len(stack) - 1
      /\ ToSet(front) = ToSet(stack) \ {top}
  BY FrontPlaces DEF Walking
<1>2. /\ ToSet(stack) \subseteq Subtree(p) /\ F \subseteq Subtree(p)
      /\ ToSet(stack) \cap F = {} /\ p \in ToSet(stack) \cup F
      /\ \A x \in F : p_child[x] \subseteq ToSet(stack) \cup F
      /\ 2 * Cardinality(F) + Len(stack) = i + 1
  BY DEF Walking
<1>3. p_child[top] \subseteq ToSet(stack) \cup F
  OBVIOUS
<1> HIDE DEF top, front
<1>4. 2 * Cardinality(G) + Len(front) = (i + 1) + 1
  <2>1. F \in SUBSET Pcb /\ top \notin F
    BY <1>1, <1>2 DEF Subtree
  <2>2. IsFiniteSet(F) /\ Cardinality(F) \in Nat /\ Len(stack) \in Nat
    BY <1>1, <2>1, PcbSets
  <2>3. Cardinality(G) = Cardinality(F) + 1
    BY <2>1, <2>2, FS_AddElement
  <2> HIDE DEF G
  <2> QED BY <1>1, <1>2, <2>2, <2>3
<1>5. Walking(p, front, G, i + 1)
  BY <1>1, <1>2, <1>3, <1>4 DEF Walking
<1> QED BY <1>5 DEF top, front

(***************************************************************************)
(* No more calls are open than there are PCBs to walk through, and the     *)
(* walk is over after two steps for each PCB.                              *)
(***************************************************************************)
LEMMA WalkIsShort ==
  ASSUME NEW p \in Pcb, NEW stack, NEW F, NEW i \in Nat, Walking(p, stack, F, i)
  PROVE  /\ Len(stack) \in Nat /\ Len(stack) <= Cardinality(Subtree(p))
         /\ i = Enough => stack = <<>>
<1>1. /\ stack \in Seq(Pcb) /\ IsInjective(stack) /\ ToSet(stack) \subseteq Subtree(p)
      /\ F \subseteq Subtree(p) /\ ToSet(stack) \cap F = {}
      /\ stack # <<>> => 2 * Cardinality(F) + Len(stack) = i + 1
  BY DEF Walking
<1>2. Subtree(p) \in SUBSET Pcb /\ ToSet(stack) \in SUBSET Pcb /\ F \in SUBSET Pcb
  BY <1>1 DEF Subtree
<1>3. Len(stack) = Cardinality(ToSet(stack))
  BY <1>1, PcbAssumption, QueueCount
<1>4. /\ IsFiniteSet(Subtree(p)) /\ IsFiniteSet(F) /\ IsFiniteSet(ToSet(stack))
      /\ Cardinality(F) \in Nat /\ MAXPROC \in Nat
      /\ Cardinality(Subtree(p)) <= MAXPROC /\ Cardinality(Subtree(p)) \in Nat
      /\ Cardinality(ToSet(stack)) \in Nat
  BY <1>2, PcbSets
<1>5. Len(stack) + Cardinality(F) <= Cardinality(Subtree(p))
  <2> DEFINE V == ToSet(stack) \cup F
  <2>1. Cardinality(V) = Cardinality(ToSet(stack)) + Cardinality(F) - Cardinality(ToSet(stack) \cap F)
    BY <1>4, FS_Union
  <2>2. Cardinality(ToSet(stack) \cap F) = 0
    BY <1>1, FS_EmptySet
  <2>3. V \in SUBSET Subtree(p)
    BY <1>1
  <2>4. Cardinality(V) <= Cardinality(Subtree(p))
    BY <1>4, <2>3, FS_Subset
  <2> HIDE DEF V
  <2> QED BY <1>3, <1>4, <2>1, <2>2, <2>4
<1>6. ASSUME i = Enough, stack # <<>> PROVE FALSE
  <2>1. Len(stack) > 0 /\ Len(stack) \in Nat
    BY <1>1, <1>6
  <2>2. 2 * Cardinality(F) + Len(stack) = 2 * MAXPROC + 1
    BY <1>1, <1>6 DEF Enough
  <2>3. Len(stack) + Cardinality(F) <= MAXPROC
    BY <1>3, <1>4, <1>5
  <2> QED BY <1>4, <2>1, <2>2, <2>3
<1>7. Len(stack) \in Nat /\ Len(stack) <= Cardinality(Subtree(p))
  BY <1>3, <1>4, <1>5
<1> QED BY <1>6, <1>7

(***************************************************************************)
(* When the call for p has returned, so has one for all its progeny.       *)
(***************************************************************************)
LEMMA WalkEnds ==
  ASSUME TypeOK, NEW p \in Pcb, NEW F, NEW i, Walking(p, <<>>, F, i)
  PROVE  F = Subtree(p)
<1>1. ToSet(<<>>) = {}
  BY ToSetEmpty
<1>2. p \in F /\ Closed(F) /\ F \subseteq Subtree(p)
  BY <1>1 DEF Walking, Closed
<1>3. F \in SUBSET Pcb
  BY <1>2 DEF Subtree
<1> QED BY <1>2, <1>3, SubtreeLeast

(***************************************************************************)
(* When all calls have returned nothing more happens.                      *)
(***************************************************************************)
LEMMA WalkRests ==
  ASSUME NEW p, NEW F, NEW i, NEW j, Walking(p, <<>>, F, i)
  PROVE  Walking(p, <<>>, F, j)
BY DEF Walking

(***************************************************************************)
(* Nobody is in its own parent's progeny's progeny: the parent of p is not *)
(* in the progeny of p.                                                    *)
(***************************************************************************)
LEMMA ParentOutside ==
  ASSUME TreeInv, NEW p \in Live
  PROVE  p_parent[p] \notin Subtree(p)
<1>1. TypeOK /\ Agree /\ FreeBare /\ p \in Pcb
  BY DEF TreeInv, PlaceInv, Live
<1>2. PICK r \in Live : p_parent[r] = NULL /\ Live \subseteq Subtree(r)
  BY DEF TreeInv, Rooted
<1>3. r \in Pcb
  BY DEF Live
<1> SUFFICES ASSUME p_parent[p] \in Subtree(p) PROVE FALSE
  OBVIOUS
<1>4. p_parent[p] \in Pcb
  BY DEF Subtree
<1>5. p # r
  BY <1>2, <1>4, NULLAssumption
<1>6. r \notin Subtree(p)
  BY <1>1, <1>2, <1>3, <1>5, RootOnTop
<1> DEFINE S == Pcb \ Subtree(p)
<1>7. Closed(S)
  <2> SUFFICES ASSUME NEW y \in S, NEW c \in p_child[y] PROVE c \in S
    BY DEF Closed
  <2>1. c \in Pcb /\ p_parent[c] = y
    BY <1>1 DEF TypeOK, Agree
  <2>2. c \in Subtree(p) /\ c # p => p_parent[c] \in Subtree(p)
    BY <1>1, SubtreeOfLive
  <2> QED BY <2>1, <2>2
<1>8. Subtree(r) \subseteq S
  BY <1>1, <1>3, <1>6, <1>7, SubtreeLeast
<1>9. p \in Subtree(p)
  BY <1>1, SubtreeLeast
<1> QED BY <1>2, <1>8, <1>9

(***************************************************************************)
(* What processKiller(p) has changed when stack are its open calls and F   *)
(* the PCBs it is done with: all that were called for have left the tree,  *)
(* p only at the end.                                                      *)
(***************************************************************************)
Unlinked(p, stack, F) == IF p \in F THEN ToSet(stack) \cup F
                         ELSE (ToSet(stack) \cup F) \ {p}

Halfway(p, stack, F) ==
  [stack  |-> stack,
   free   |-> pcbFree_h \cup F,
   parent |-> [x \in Pcb |-> IF x \in Unlinked(p, stack, F) THEN NULL ELSE p_parent[x]],
   child  |-> [x \in Pcb |-> p_child[x] \ Unlinked(p, stack, F)],
   semAdd |-> [x \in Pcb |-> IF x \in F THEN NULL ELSE p_semAdd[x]],
   procq  |-> [s \in Sem |-> Without(procq[s], F)],
   count  |-> processCount - Cardinality(F),
   soft   |-> softblockcount]

KillInv == TreeInv /\ Placed

(***************************************************************************)
(* Nothing has changed at the call.                                        *)
(***************************************************************************)
LEMMA KillerStarts ==
  ASSUME TypeOK, NEW p \in Pcb
  PROVE  Called(p) = Halfway(p, <<p>>, {})
<1>1. Unlinked(p, <<p>>, {}) = {}
  <2>1. ToSet(<<p>>) = {p}
    BY DEF ToSet
  <2> QED BY <2>1 DEF Unlinked
<1>2. /\ p_parent = [x \in Pcb |-> IF x \in {} THEN NULL ELSE p_parent[x]]
      /\ p_child = [x \in Pcb |-> p_child[x] \ {}]
      /\ p_semAdd = [x \in Pcb |-> IF x \in {} THEN NULL ELSE p_semAdd[x]]
  BY DEF TypeOK
<1>3. procq = [s \in Sem |-> Without(procq[s], {})]
  <2>1. procq \in [Sem -> Seq(Pcb)]
    BY DEF TypeOK
  <2>2. \A s \in Sem : Without(procq[s], {}) = procq[s]
    BY <2>1, WithoutNobody
  <2> QED BY <2>1, <2>2
<1>4. processCount - Cardinality({}) = processCount
  <2>1. Cardinality({}) = 0 /\ processCount \in Int
    BY FS_EmptySet DEF TypeOK
  <2> QED BY <2>1
<1>5. pcbFree_h \cup {} = pcbFree_h
  OBVIOUS
<1> QED BY <1>1, <1>2, <1>3, <1>4, <1>5 DEF Called, Halfway

(***************************************************************************)
(* removeChild and the call for the child.                                 *)
(***************************************************************************)
LEMMA KillerDescends ==
  ASSUME TreeInv, NEW p \in Live, NEW stack, NEW F, NEW i \in Nat,
         Walking(p, stack, F, i), stack # <<>>,
         NEW c \in Halfway(p, stack, F).child[Last(stack)]
  PROVE  /\ Walking(p, Append(stack, c), F, i + 1)
         /\ Descend(Halfway(p, stack, F), c) = Halfway(p, Append(stack, c), F)
<1> DEFINE top == Last(stack)
           K == Halfway(p, stack, F)
           V == ToSet(stack) \cup F
           U == Unlinked(p, stack, F)
           longer == Append(stack, c)
<1>1. /\ TypeOK /\ Agree /\ FreeBare /\ p \in Pcb
      /\ stack \in Seq(Pcb) /\ top \in ToSet(stack) /\ top \in Subtree(p) /\ top \in Pcb
  <2>1. stack \in Seq(Pcb) /\ IsInjective(stack) /\ ToSet(stack) \subseteq Subtree(p)
    BY DEF Walking
  <2>2. top \in ToSet(stack)
    BY <2>1, FrontPlaces
  <2> QED BY <2>1, <2>2 DEF TreeInv, PlaceInv, Live, Subtree
<1> HIDE DEF top
<1>2. c \in p_child[top] \ U
  <2>1. c \in K.child[top]
    BY DEF top
  <2>2. K.child[top] = p_child[top] \ U
    BY <1>1 DEF Halfway
  <2> QED BY <2>1, <2>2
<1>3. c \in Pcb /\ p_parent[c] = top
  BY <1>1, <1>2 DEF TypeOK, Agree
<1>4. c # p
  BY <1>1, <1>3, ParentOutside
<1>5. c \notin V
  BY <1>2, <1>4 DEF Unlinked
<1>6. Walking(p, longer, F, i + 1)
  <2>1. c \in p_child[Last(stack)]
    BY <1>2 DEF top
  <2> HIDE DEF longer
  <2> QED BY <1>1, <1>5, <2>1, WalkDown DEF longer
<1>7. ToSet(longer) = ToSet(stack) \cup {c}
  BY <1>1, <1>3, AppendPlaces
<1>8. Unlinked(p, longer, F) = U \cup {c}
  <2> HIDE DEF longer
  <2> QED BY <1>4, <1>7 DEF Unlinked
<1> DEFINE W == U \cup {c}
<1>9. [K.parent EXCEPT ![c] = NULL] = [x \in Pcb |-> IF x \in W THEN NULL ELSE p_parent[x]]
  <2>1. K.parent = [x \in Pcb |-> IF x \in U THEN NULL ELSE p_parent[x]]
    BY DEF Halfway
  <2> HIDE DEF K, U
  <2> QED BY <1>3, <2>1
<1>10. [K.child EXCEPT ![top] = K.child[top] \ {c}] = [x \in Pcb |-> p_child[x] \ W]
  <2>1. K.child = [x \in Pcb |-> p_child[x] \ U]
    BY DEF Halfway
  <2>2. \A x \in Pcb : x # top => c \notin p_child[x]
    BY <1>1, <1>3 DEF Agree
  <2> HIDE DEF K, U
  <2> QED BY <1>1, <2>1, <2>2
<1>11. Descend(K, c) =
         [stack |-> longer, free |-> K.free, parent |-> [K.parent EXCEPT ![c] = NULL],
          child |-> [K.child EXCEPT ![top] = K.child[top] \ {c}],
          semAdd |-> K.semAdd, procq |-> K.procq, count |-> K.count, soft |-> K.soft]
  <2> DEFINE P == [K.parent EXCEPT ![c] = NULL]
             C == [K.child EXCEPT ![top] = K.child[top] \ {c}]
  <2>1. K.stack = stack
    BY DEF Halfway
  <2>2. Descend(K, c) = [K EXCEPT !.stack = longer, !.parent = P, !.child = C]
    <3> HIDE DEF K
    <3> QED BY <2>1 DEF Descend, top
  <2> HIDE DEF P, C, longer
  <2>3. [K EXCEPT !.stack = longer, !.parent = P, !.child = C] =
           [stack |-> longer, free |-> K.free, parent |-> P, child |-> C,
            semAdd |-> K.semAdd, procq |-> K.procq, count |-> K.count, soft |-> K.soft]
    <3> DEFINE a == K.free
               b == K.semAdd
               d == K.procq
               e == K.count
               f == K.soft
               parent == K.parent
               child == K.child
               K1 == [K EXCEPT !.stack = longer]
               K2 == [K1 EXCEPT !.parent = P]
               K3 == [K2 EXCEPT !.child = C]
    <3>1. K = [stack |-> stack, free |-> a, parent |-> parent, child |-> child,
               semAdd |-> b, procq |-> d, count |-> e, soft |-> f]
      BY DEF Halfway
    <3> HIDE DEF K, a, b, d, e, f, parent, child
    <3>2. K1 = [stack |-> longer, free |-> a, parent |-> parent, child |-> child,
                semAdd |-> b, procq |-> d, count |-> e, soft |-> f]
      BY <3>1
    <3> HIDE DEF K1
    <3>3. K2 = [stack |-> longer, free |-> a, parent |-> P, child |-> child,
                semAdd |-> b, procq |-> d, count |-> e, soft |-> f]
      BY <3>2
    <3> HIDE DEF K2
    <3>4. K3 = [stack |-> longer, free |-> a, parent |-> P, child |-> C,
                semAdd |-> b, procq |-> d, count |-> e, soft |-> f]
      BY <3>3
    <3>5. [K EXCEPT !.stack = longer, !.parent = P, !.child = C] = K3
      BY DEF K3, K2, K1
    <3> HIDE DEF K3
    <3> QED BY <3>4, <3>5 DEF a, b, d, e, f
  <2> QED BY <2>2, <2>3 DEF P, C
<1>12. Halfway(p, longer, F) =
         [stack |-> longer, free |-> K.free,
          parent |-> [x \in Pcb |-> IF x \in W THEN NULL ELSE p_parent[x]],
          child |-> [x \in Pcb |-> p_child[x] \ W],
          semAdd |-> K.semAdd, procq |-> K.procq, count |-> K.count, soft |-> K.soft]
  <2> HIDE DEF W, longer
  <2> QED BY <1>8 DEF Halfway, W
<1> HIDE DEF K, W, longer
<1>13. Descend(K, c) = Halfway(p, longer, F)
  BY <1>9, <1>10, <1>11, <1>12
<1> QED BY <1>6, <1>13 DEF K, longer

(***************************************************************************)
(* Where a PCB that is not done with yet is linked: in its parent's list   *)
(* only when it is p, and in the queue that its p_semAdd names.            *)
(***************************************************************************)
LEMMA StillBlocked ==
  ASSUME KillInv, NEW F \in SUBSET Pcb, NEW x \in Pcb, x \notin F
  PROVE  /\ procq \in [Sem -> Seq(Pcb)]
         /\ \A s \in Sem : /\ x \in ToSet(Without(procq[s], F)) <=> p_semAdd[x] = s
                           /\ OutProcQ(Without(procq[s], F), x) = Without(procq[s], F \cup {x})
                           /\ p_semAdd[x] # s
                              => Without(procq[s], F \cup {x}) = Without(procq[s], F)
<1>1. /\ procq \in [Sem -> Seq(Pcb)] /\ \A s \in Sem : IsInjective(procq[s])
      /\ \A s \in Sem : p_semAdd[x] = s <=> x \in ToSet(procq[s])
  BY DEF KillInv, TreeInv, PlaceInv, TypeOK, Placed, BlockedWhereItSays
<1>2. ASSUME NEW s \in Sem
      PROVE  /\ x \in ToSet(Without(procq[s], F)) <=> p_semAdd[x] = s
             /\ OutProcQ(Without(procq[s], F), x) = Without(procq[s], F \cup {x})
             /\ p_semAdd[x] # s => Without(procq[s], F \cup {x}) = Without(procq[s], F)
  <2> DEFINE q == procq[s]
             r == Without(q, F)
  <2>1. q \in Seq(Pcb) /\ IsInjective(q)
    BY <1>1
  <2> HIDE DEF q
  <2>2. r \in Seq(Pcb) /\ ToSet(r) = ToSet(q) \ F
    BY <2>1, WithoutProperties
  <2>3. OutProcQ(r, x) = Without(q, F \cup {x})
    BY <2>1, OutOfWithout
  <2> HIDE DEF r
  <2>4. x \notin ToSet(r) => OutProcQ(r, x) = r
    BY <2>2, OutOfLonger
  <2>5. x \in ToSet(r) <=> p_semAdd[x] = s
    BY <1>1, <2>2 DEF q
  <2> QED BY <2>3, <2>4, <2>5 DEF q, r
<1> QED BY <1>1, <1>2

(***************************************************************************)
(* outChild, outBlocked and freePcb for a PCB without children, and the    *)
(* return.                                                                 *)
(***************************************************************************)
LEMMA KillerBuries ==
  ASSUME KillInv, NEW p \in Live, NEW stack, NEW F, NEW i \in Nat,
         Walking(p, stack, F, i), stack # <<>>,
         Halfway(p, stack, F).child[Last(stack)] = {}
  PROVE  /\ Walking(p, Front(stack), F \cup {Last(stack)}, i + 1)
         /\ Bury(Halfway(p, stack, F)) = Halfway(p, Front(stack), F \cup {Last(stack)})
<1> DEFINE top == Last(stack)
           front == Front(stack)
           K == Halfway(p, stack, F)
           V == ToSet(stack) \cup F
           U == Unlinked(p, stack, F)
           G == F \cup {top}
           W == Unlinked(p, front, G)
           q == K.parent[top]
           s == K.semAdd[top]
           linked == q # NULL /\ top \in K.child[q]
<1>1. /\ TreeInv /\ TypeOK /\ Agree /\ FreeBare /\ p \in Pcb
      /\ stack \in Seq(Pcb) /\ top \in ToSet(stack) /\ top \in Subtree(p) /\ top \in Pcb
      /\ ToSet(front) = ToSet(stack) \ {top}
      /\ F \in SUBSET Pcb /\ top \notin F /\ p \in V
  <2>1. stack \in Seq(Pcb) /\ IsInjective(stack) /\ ToSet(stack) \subseteq Subtree(p)
    BY DEF Walking
  <2>2. top \in ToSet(stack) /\ ToSet(front) = ToSet(stack) \ {top}
    BY <2>1, FrontPlaces
  <2>3. F \subseteq Subtree(p) /\ ToSet(stack) \cap F = {} /\ p \in V
    BY DEF Walking
  <2> HIDE DEF top, front
  <2> QED BY <2>1, <2>2, <2>3 DEF KillInv, TreeInv, PlaceInv, Live, Subtree
<1> HIDE DEF top, front
<1>2. p_child[top] \subseteq U /\ U \subseteq V
  <2>1. K.child[top] = p_child[top] \ U
    BY <1>1 DEF Halfway
  <2>2. K.child[top] = {}
    BY DEF top
  <2> QED BY <2>1, <2>2 DEF Unlinked
<1>3. Walking(p, front, G, i + 1)
  <2>1. p_child[Last(stack)] \subseteq ToSet(stack) \cup F
    BY <1>2 DEF top
  <2> QED BY <1>1, <2>1, WalkUp DEF front, top
<1>4. /\ top # p => W = U /\ top \in U
      /\ top = p => W = U \cup {p} /\ p \notin U
  BY <1>1 DEF Unlinked
<1> HIDE DEF U, V, W
<1>5. /\ \A x \in Pcb : K.parent[x] = IF x \in U THEN NULL ELSE p_parent[x]
      /\ \A x \in Pcb : K.child[x] = p_child[x] \ U
      /\ K.parent = [x \in Pcb |-> IF x \in U THEN NULL ELSE p_parent[x]]
      /\ K.child = [x \in Pcb |-> p_child[x] \ U]
  BY DEF Halfway, U
<1>6. (IF linked THEN [K.parent EXCEPT ![top] = NULL] ELSE K.parent)
         = [x \in Pcb |-> IF x \in W THEN NULL ELSE p_parent[x]]
      /\ (IF linked THEN [K.child EXCEPT ![q] = K.child[q] \ {top}] ELSE K.child)
         = [x \in Pcb |-> p_child[x] \ W]
  <2> HIDE DEF K
  <2>1. CASE top # p
    <3>1. q = NULL /\ W = U
      BY <1>1, <1>4, <1>5, <2>1
    <3> QED BY <1>5, <3>1
  <2>2. CASE top = p /\ p_parent[p] = NULL
    <3>1. q = NULL /\ W = U \cup {p}
      BY <1>1, <1>4, <1>5, <2>2
    <3>2. \A x \in Pcb : p \notin p_child[x]
      BY <1>1, <2>2, NULLAssumption DEF Agree
    <3>3. K.parent = [x \in Pcb |-> IF x \in W THEN NULL ELSE p_parent[x]]
      BY <1>5, <2>2, <3>1
    <3>4. K.child = [x \in Pcb |-> p_child[x] \ W]
      BY <1>5, <3>1, <3>2
    <3> QED BY <3>1, <3>3, <3>4
  <2>3. CASE top = p /\ p_parent[p] # NULL
    <3>1. q = p_parent[p] /\ q \in Pcb /\ W = U \cup {p} /\ p \notin U
      BY <1>1, <1>4, <1>5, <2>3 DEF TypeOK
    <3>2. \A x \in Pcb : p \in p_child[x] <=> x = q
      BY <1>1, <3>1 DEF Agree
    <3> HIDE DEF q
    <3>3. q # NULL /\ top \in K.child[q]
      BY <1>5, <2>3, <3>1, <3>2
    <3>4. [K.parent EXCEPT ![p] = NULL] = [x \in Pcb |-> IF x \in W THEN NULL ELSE p_parent[x]]
      BY <1>1, <1>5, <3>1
    <3>5. [K.child EXCEPT ![q] = K.child[q] \ {p}] = [x \in Pcb |-> p_child[x] \ W]
      <4>1. K.child[q] \ {p} = p_child[q] \ W
        BY <1>5, <3>1
      <4>2. \A x \in Pcb : x # q => K.child[x] = p_child[x] \ W
        BY <1>5, <3>1, <3>2
      <4> DEFINE C == K.child
                 left == K.child[q] \ {p}
      <4>3. C = [x \in Pcb |-> C[x]]
        BY <1>5
      <4> HIDE DEF C, left
      <4>4. [C EXCEPT ![q] = left] = [x \in Pcb |-> IF x = q THEN left ELSE C[x]]
        BY <3>1, <4>3
      <4>5. \A x \in Pcb : (IF x = q THEN left ELSE C[x]) = p_child[x] \ W
        BY <4>1, <4>2 DEF C, left
      <4> QED BY <4>4, <4>5 DEF C, left
    <3> QED BY <2>3, <3>3, <3>4, <3>5
  <2> QED BY <2>1, <2>2, <2>3
<1>7. K.semAdd = [x \in Pcb |-> IF x \in F THEN NULL ELSE p_semAdd[x]] /\ s = p_semAdd[top]
  BY <1>1 DEF Halfway
<1>8. [K.semAdd EXCEPT ![top] = NULL] = [x \in Pcb |-> IF x \in G THEN NULL ELSE p_semAdd[x]]
  <2> HIDE DEF K
  <2> QED BY <1>1, <1>7
<1>9. K.procq = [t \in Sem |-> Without(procq[t], F)]
  BY DEF Halfway
<1>10. /\ \A t \in Sem : /\ top \in ToSet(Without(procq[t], F)) <=> p_semAdd[top] = t
                         /\ OutProcQ(Without(procq[t], F), top) = Without(procq[t], G)
                         /\ p_semAdd[top] # t => Without(procq[t], G) = Without(procq[t], F)
  BY <1>1, StillBlocked
<1>11. s \in Sem \cup {NULL} /\ NULL \notin Sem
  BY <1>1, <1>7, NULLAssumption DEF TypeOK
<1> HIDE DEF G, s
<1>12. (IF s = NULL THEN K.procq ELSE [K.procq EXCEPT ![s] = OutProcQ(K.procq[s], top)])
         = [t \in Sem |-> Without(procq[t], G)]
  <2> HIDE DEF K
  <2>1. CASE s = NULL
    <3>1. \A t \in Sem : Without(procq[t], G) = Without(procq[t], F)
      BY <1>7, <1>10, <1>11, <2>1
    <3> QED BY <1>9, <2>1, <3>1
  <2>2. CASE s \in Sem
    <3>1. OutProcQ(K.procq[s], top) = Without(procq[s], G)
      BY <1>9, <1>10, <2>2
    <3>2. \A t \in Sem : t # s => Without(procq[t], G) = Without(procq[t], F)
      BY <1>7, <1>10
    <3>3. [K.procq EXCEPT ![s] = OutProcQ(K.procq[s], top)] = [t \in Sem |-> Without(procq[t], G)]
      BY <1>9, <2>2, <3>1, <3>2
    <3> QED BY <1>11, <2>2, <3>3
  <2> QED BY <1>11, <2>1, <2>2
<1>13. K.count - 1 = processCount - Cardinality(G)
  <2>1. K.count = processCount - Cardinality(F)
    BY DEF Halfway
  <2>2. IsFiniteSet(F) /\ Cardinality(F) \in Nat
    BY <1>1, PcbSets
  <2>3. Cardinality(G) = Cardinality(F) + 1
    BY <1>1, <2>2, FS_AddElement DEF G
  <2>4. processCount \in Int
    BY <1>1 DEF TypeOK
  <2> HIDE DEF K
  <2> QED BY <2>1, <2>2, <2>3, <2>4
<1>14. ~ (s \in SoftSem /\ top \notin ToSet(K.procq[s]))
  <2> HIDE DEF K
  <2> QED BY <1>7, <1>9, <1>10 DEF Sem
<1>15. K.stack = stack /\ K.soft = softblockcount /\ K.free \cup {top} = pcbFree_h \cup G
  BY DEF Halfway, G
<1>16. Halfway(p, front, G) =
         [stack |-> front, free |-> pcbFree_h \cup G,
          parent |-> [x \in Pcb |-> IF x \in W THEN NULL ELSE p_parent[x]],
          child |-> [x \in Pcb |-> p_child[x] \ W],
          semAdd |-> [x \in Pcb |-> IF x \in G THEN NULL ELSE p_semAdd[x]],
          procq |-> [t \in Sem |-> Without(procq[t], G)],
          count |-> processCount - Cardinality(G), soft |-> softblockcount]
  BY DEF Halfway, W
<1>17. Bury(K) =
         [stack |-> front, free |-> K.free \cup {top},
          parent |-> IF linked THEN [K.parent EXCEPT ![top] = NULL] ELSE K.parent,
          child |-> IF linked THEN [K.child EXCEPT ![q] = K.child[q] \ {top}] ELSE K.child,
          semAdd |-> [K.semAdd EXCEPT ![top] = NULL],
          procq |-> IF s = NULL THEN K.procq
                    ELSE [K.procq EXCEPT ![s] = OutProcQ(K.procq[s], top)],
          count |-> K.count - 1,
          soft |-> IF s \in SoftSem /\ top \notin ToSet(K.procq[s])
                   THEN K.soft - 1 ELSE K.soft]
  <2> HIDE DEF K
  <2>1. Last(K.stack) = top /\ Front(K.stack) = front
    BY <1>15 DEF top, front
  <2> QED BY <2>1, Zenon DEF Bury, s
<1> HIDE DEF K, linked, q
<1>18. Bury(K) = Halfway(p, front, G)
  BY <1>6, <1>8, <1>12, <1>13, <1>14, <1>15, <1>16, <1>17, Zenon
<1> QED BY <1>3, <1>18 DEF K, front, G, top

(***************************************************************************)
(* processKiller(p)[i] is what the steps make of processKiller(p)[i - 1].  *)
(***************************************************************************)
LEMMA KillerLoop ==
  ASSUME NEW p
  PROVE  /\ processKiller(p)[0] = {Called(p)}
         /\ \A i \in 1 .. Enough :
              processKiller(p)[i] = UNION {KillerSteps(K) : K \in processKiller(p)[i - 1]}
<1> DEFINE n == Enough
           a == {Called(p)}
           step(S) == UNION {KillerSteps(K) : K \in S}
           F(f) == [i \in 0 .. n |-> IF i = 0 THEN a ELSE step(f[i - 1])]
           after == CHOOSE f : f = F(f)
           Good(m) == \E f : f = [i \in 0 .. m |-> IF i = 0 THEN a ELSE step(f[i - 1])]
           S == {m \in 0 .. n : Good(m)}
<1>1. n \in Nat
  BY PcbSets DEF Enough
<1> HIDE DEF n, a, step
<1>2. Good(0)
  <2>1. [i \in 0 .. 0 |-> a] = [i \in 0 .. 0 |-> IF i = 0 THEN a ELSE step([j \in 0 .. 0 |-> a][i - 1])]
    OBVIOUS
  <2> QED BY <2>1
<1>3. ASSUME NEW m \in 1 .. n, Good(m - 1) PROVE Good(m)
  <2>1. PICK f : f = [i \in 0 .. m - 1 |-> IF i = 0 THEN a ELSE step(f[i - 1])]
    BY <1>3
  <2> DEFINE g == [i \in 0 .. m |-> IF i = 0 THEN a ELSE step(f[i - 1])]
  <2>2. \A i \in 0 .. m - 1 : f[i] = IF i = 0 THEN a ELSE step(f[i - 1])
    BY <2>1, Zenon
  <2>3. ASSUME NEW i \in 0 .. m, i # 0 PROVE g[i - 1] = f[i - 1]
    <3>1. i - 1 \in 0 .. m /\ i - 1 \in 0 .. m - 1
      BY <1>1, <2>3
    <3>2. g[i - 1] = IF i - 1 = 0 THEN a ELSE step(f[i - 1 - 1])
      BY <3>1
    <3> QED BY <2>2, <3>1, <3>2
  <2>4. g = [i \in 0 .. m |-> IF i = 0 THEN a ELSE step(g[i - 1])]
    <3>1. \A i \in 0 .. m : (IF i = 0 THEN a ELSE step(f[i - 1])) =
                            (IF i = 0 THEN a ELSE step(g[i - 1]))
      <4> HIDE DEF g
      <4> QED BY <2>3
    <3> HIDE DEF g
    <3> QED BY <3>1 DEF g
  <2> HIDE DEF g
  <2> QED BY <2>4
<1>4. Good(n)
  <2>1. 0 \in S
    BY <1>1, <1>2
  <2>2. \A k \in 1 .. n : k - 1 \in S => k \in S
    <3> SUFFICES ASSUME NEW k \in 1 .. n, k - 1 \in S PROVE k \in S
      OBVIOUS
    <3>1. Good(k - 1)
      OBVIOUS
    <3>2. Good(k)
      <4> HIDE DEF Good
      <4> QED BY <1>3, <3>1
    <3> HIDE DEF Good
    <3> QED BY <1>1, <3>2
  <2>3. \A k \in 0 .. n : k \in S
    <3> HIDE DEF S
    <3> QED BY <1>1, <2>1, <2>2, UpTo
  <2> HIDE DEF Good
  <2> QED BY <1>1, <2>3
<1>5. after = F(after)
  <2>1. \E f : f = F(f)
    BY <1>4
  <2> HIDE DEF F
  <2> QED BY <2>1, Zenon
<1>6. processKiller(p) = after
  BY Zenon DEF processKiller, n, a, step
<1> HIDE DEF after
<1>7. \A i \in 0 .. n : after[i] = IF i = 0 THEN a ELSE step(after[i - 1])
  BY <1>5, Zenon
<1>8. after[0] = a /\ \A i \in 1 .. n : after[i] = step(after[i - 1])
  BY <1>1, <1>7
<1> QED BY <1>6, <1>8, Zenon DEF n, a, step

(***************************************************************************)
(* Whatever child is first in its list, processKiller(p) is halfway        *)
(* through a walk after any number of steps, and never stuck.              *)
(***************************************************************************)
OnTheWay(p, K, i) ==
  \E F \in SUBSET Pcb : Walking(p, K.stack, F, i) /\ K = Halfway(p, K.stack, F)

LEMMA KillerStep ==
  ASSUME KillInv, NEW p \in Live, NEW K, NEW i \in Nat, OnTheWay(p, K, i)
  PROVE  /\ KillerSteps(K) # {}
         /\ \A L \in KillerSteps(K) : OnTheWay(p, L, i + 1)
<1>1. PICK F \in SUBSET Pcb : Walking(p, K.stack, F, i) /\ K = Halfway(p, K.stack, F)
  BY DEF OnTheWay
<1> DEFINE stack == K.stack
           top == Last(stack)
<1>2. TreeInv /\ TypeOK /\ p \in Pcb
  BY DEF KillInv, TreeInv, PlaceInv, Live
<1>3. ASSUME NEW s, NEW G PROVE Halfway(p, s, G).stack = s
  BY DEF Halfway
<1>4. CASE stack = <<>>
  <2>1. Walking(p, stack, F, i + 1)
    BY <1>1, <1>4, WalkRests
  <2>2. KillerSteps(K) = {K}
    BY <1>4 DEF KillerSteps
  <2> QED BY <1>1, <2>1, <2>2 DEF OnTheWay
<1>5. CASE stack # <<>> /\ K.child[top] = {}
  <2> DEFINE G == F \cup {top}
             front == Front(stack)
             L == Halfway(p, front, G)
  <2>1. Walking(p, front, G, i + 1) /\ Bury(K) = L
    <3>1. Walking(p, stack, F, i) /\ K = Halfway(p, stack, F)
      BY <1>1
    <3> HIDE DEF stack
    <3>2. Halfway(p, stack, F).child[Last(stack)] = {}
      BY <1>5, <3>1
    <3> QED BY <1>5, <3>1, <3>2, KillerBuries
  <2>2. KillerSteps(K) = {Bury(K)}
    BY <1>5 DEF KillerSteps
  <2>3. G \in SUBSET Pcb
    <3>1. stack \in Seq(Pcb) /\ IsInjective(stack)
      BY <1>1 DEF Walking
    <3>2. top \in ToSet(stack)
      BY <1>5, <3>1, FrontPlaces
    <3> QED BY <3>1, <3>2, ToSetType
  <2>4. L.stack = front
    BY <1>3
  <2> HIDE DEF L, G, front
  <2>5. OnTheWay(p, L, i + 1)
    <3>1. L = Halfway(p, L.stack, G) /\ Walking(p, L.stack, G, i + 1)
      BY <2>1, <2>4 DEF L
    <3> QED BY <2>3, <3>1 DEF OnTheWay
  <2> QED BY <2>1, <2>2, <2>5
<1>6. CASE stack # <<>> /\ K.child[top] # {}
  <2>1. ASSUME NEW c \in K.child[top] PROVE OnTheWay(p, Descend(K, c), i + 1)
    <3> DEFINE longer == Append(stack, c)
               L == Halfway(p, longer, F)
    <3>1. Walking(p, longer, F, i + 1) /\ Descend(K, c) = L
      <4>1. Walking(p, stack, F, i) /\ K = Halfway(p, stack, F)
        BY <1>1
      <4> HIDE DEF stack
      <4>2. c \in Halfway(p, stack, F).child[Last(stack)]
        BY <2>1, <4>1
      <4> QED BY <1>2, <1>6, <4>1, <4>2, KillerDescends
    <3>2. L.stack = longer
      BY <1>3
    <3> HIDE DEF L, longer
    <3>3. L = Halfway(p, L.stack, F) /\ Walking(p, L.stack, F, i + 1)
      BY <3>1, <3>2 DEF L
    <3> QED BY <3>1, <3>3 DEF OnTheWay
  <2>2. KillerSteps(K) = {Descend(K, c) : c \in K.child[top]}
    BY <1>6 DEF KillerSteps
  <2> QED BY <1>6, <2>1, <2>2
<1> QED BY <1>4, <1>5, <1>6

(***************************************************************************)
(* All of processKiller(p), by the number of steps.                        *)
(***************************************************************************)
LEMMA KillerRuns ==
  ASSUME KillInv, NEW p \in Live, NEW i \in 0 .. Enough
  PROVE  /\ processKiller(p)[i] # {}
         /\ \A K \in processKiller(p)[i] : OnTheWay(p, K, i)
<1> DEFINE f == processKiller(p)
           S == {k \in 0 .. Enough : f[k] # {} /\ \A K \in f[k] : OnTheWay(p, K, k)}
<1>1. Enough \in Nat
  BY PcbSets DEF Enough
<1>2. /\ f[0] = {Called(p)}
      /\ \A k \in 1 .. Enough : f[k] = UNION {KillerSteps(K) : K \in f[k - 1]}
  BY KillerLoop
<1> HIDE DEF f
<1>3. 0 \in S
  <2>1. TypeOK /\ p \in Pcb
    BY DEF KillInv, TreeInv, PlaceInv, Live
  <2>2. Called(p).stack = <<p>>
    BY DEF Called
  <2>3. OnTheWay(p, Called(p), 0)
    <3>1. Called(p) = Halfway(p, <<p>>, {}) /\ Walking(p, <<p>>, {}, 0)
      BY <2>1, KillerStarts, WalkStarts
    <3> QED BY <2>2, <3>1 DEF OnTheWay
  <2>4. f[0] # {} /\ \A K \in f[0] : OnTheWay(p, K, 0)
    BY <1>2, <2>3
  <2> QED BY <1>1, <2>4
<1>4. ASSUME NEW k \in 1 .. Enough, k - 1 \in S PROVE k \in S
  <2>1. /\ k - 1 \in Nat /\ (k - 1) + 1 = k
        /\ f[k - 1] # {} /\ \A K \in f[k - 1] : OnTheWay(p, K, k - 1)
    BY <1>1, <1>4
  <2>2. \A K \in f[k - 1] : /\ KillerSteps(K) # {}
                            /\ \A L \in KillerSteps(K) : OnTheWay(p, L, k)
    BY <2>1, KillerStep
  <2>3. f[k] = UNION {KillerSteps(K) : K \in f[k - 1]}
    BY <1>2
  <2>4. f[k] # {} /\ \A L \in f[k] : OnTheWay(p, L, k)
    BY <2>1, <2>2, <2>3
  <2>5. k \in 0 .. Enough
    BY <1>1
  <2> QED BY <2>4, <2>5
<1>5. i \in S
  <2> HIDE DEF S
  <2> QED BY <1>1, <1>3, <1>4, UpTo
<1> QED BY <1>5 DEF f

(***************************************************************************)
(* What the recursion leaves behind is the next state of Kill, and its     *)
(* open calls are never more than the processes.                           *)
(***************************************************************************)
LEMMA KillerLeaves ==
  ASSUME KillInv, NEW p \in Live, Kill(p)
  PROVE  Halfway(p, <<>>, Subtree(p)) =
           [stack |-> <<>>, free |-> pcbFree_h', parent |-> p_parent',
            child |-> p_child', semAdd |-> p_semAdd', procq |-> procq',
            count |-> processCount', soft |-> softblockcount']
<1> DEFINE D == Subtree(p)
<1>1. /\ TypeOK /\ Agree /\ FreeBare /\ BlockedWhereItSays /\ Placed
  BY DEF KillInv, TreeInv, PlaceInv
<1>2. /\ p \in Pcb /\ p \in D /\ D \in SUBSET Pcb /\ Closed(D)
      /\ \A c \in D : c # p => p_parent[c] \in D
  BY <1>1, SubtreeLeast, SubtreeOfLive DEF Live, Subtree
<1>3. /\ pcbFree_h' = pcbFree_h \cup D
      /\ p_parent' = [x \in Pcb |-> IF x \in D THEN NULL ELSE p_parent[x]]
      /\ p_child' = [x \in Pcb |-> IF x \in D THEN {} ELSE p_child[x] \ {p}]
      /\ p_semAdd' = [x \in Pcb |-> IF x \in D THEN NULL ELSE p_semAdd[x]]
      /\ procq' = [s \in Sem |-> Without(procq[s], D)]
      /\ processCount' = processCount - Cardinality(D)
      /\ softblockcount' = softblockcount - Cardinality(NotQueued(D))
  BY DEF Kill, CutOff, KillCount
<1> HIDE DEF D
<1>4. Unlinked(p, <<>>, D) = D
  BY <1>2, ToSetEmpty DEF Unlinked
<1>5. \A x \in Pcb : (IF x \in D THEN {} ELSE p_child[x] \ {p}) = p_child[x] \ D
  <2> SUFFICES ASSUME NEW x \in Pcb
               PROVE  (IF x \in D THEN {} ELSE p_child[x] \ {p}) = p_child[x] \ D
    OBVIOUS
  <2>1. CASE x \in D
    BY <1>2, <2>1 DEF Closed
  <2>2. CASE x \notin D
    <3>1. \A c \in p_child[x] : c \in Pcb /\ p_parent[c] = x
      BY <1>1 DEF Agree, TypeOK
    <3>2. \A c \in p_child[x] : c \in D => c = p
      BY <1>2, <2>2, <3>1
    <3> QED BY <1>2, <2>2, <3>2
  <2> QED BY <2>1, <2>2
<1>6. softblockcount' = softblockcount
  <2>1. NotQueued(D) = {}
    BY <1>1, <1>2 DEF NotQueued, BlockedWhereItSays, Placed, Sem
  <2>2. Cardinality({}) = 0
    BY FS_EmptySet
  <2>3. softblockcount \in Int
    BY <1>1 DEF TypeOK
  <2> QED BY <1>3, <2>1, <2>2, <2>3
<1>7. p_child' = [x \in Pcb |-> p_child[x] \ D]
  BY <1>3, <1>5
<1>8. Halfway(p, <<>>, D) =
        [stack |-> <<>>, free |-> pcbFree_h', parent |-> p_parent',
         child |-> p_child', semAdd |-> p_semAdd', procq |-> procq',
         count |-> processCount', soft |-> softblockcount']
  BY <1>3, <1>4, <1>6, <1>7, Zenon DEF Halfway
<1> QED BY <1>8 DEF D

(***************************************************************************)
(* processKiller, whatever order it meets the children in, kills p and its *)
(* progeny and nobody else, leaves the one state that Kill says, and opens *)
(* no more calls than there are processes.                                 *)
(***************************************************************************)
THEOREM RecursionKills == Spec => KillerKills
<1>1. TreeInv /\ [Next]_vars =>
        [\A p \in Live : Kill(p) =>
           /\ \A i \in 0 .. Enough : \A K \in processKiller(p)[i] :
                 Len(K.stack) <= processCount
           /\ processKiller(p)[Enough] =
                {[stack |-> <<>>, free |-> pcbFree_h', parent |-> p_parent',
                  child |-> p_child', semAdd |-> p_semAdd', procq |-> procq',
                  count |-> processCount', soft |-> softblockcount']}]_vars
  <2> SUFFICES ASSUME TreeInv, Next, NEW p \in Live, Kill(p)
               PROVE  /\ \A i \in 0 .. Enough : \A K \in processKiller(p)[i] :
                           Len(K.stack) <= processCount
                      /\ processKiller(p)[Enough] =
                           {[stack |-> <<>>, free |-> pcbFree_h', parent |-> p_parent',
                             child |-> p_child', semAdd |-> p_semAdd', procq |-> procq',
                             count |-> processCount', soft |-> softblockcount']}
    OBVIOUS
  <2> DEFINE D == Subtree(p)
             end == Halfway(p, <<>>, D)
             f == processKiller(p)
  <2>1. Running
    BY DEF Next, CreateProcess, TerminateSelf, TerminateProcess, TerminateUnknown, Die,
           Passeren, Verhogen, DoIO, DeviceInterrupt, DoIOBadLine, WaitForClock, Yield,
           PLTInterrupt, IntervalTimerInterrupt
  <2>2. KillInv /\ TypeOK /\ Agree /\ FreeBare /\ p \in Pcb
    BY <2>1 DEF KillInv, TreeInv, PlaceInv, PlacedOnce, Running, Live
  <2>3. Enough \in Nat
    BY PcbSets DEF Enough
  <2>4. \A i \in 0 .. Enough : f[i] # {} /\ \A K \in f[i] : OnTheWay(p, K, i)
    BY <2>2, KillerRuns
  <2>5. D \in SUBSET Live /\ Cardinality(D) <= processCount
    <3>1. D \in SUBSET Live /\ Live \in SUBSET Pcb
      BY <2>2, SubtreeOfLive DEF Live
    <3>2. Cardinality(D) <= Cardinality(Live)
      BY <3>1, PcbSets, FS_Subset
    <3>3. processCount = Cardinality(Live)
      BY DEF TreeInv, ProcessCountExact
    <3> QED BY <3>1, <3>2, <3>3
  <2>6. Cardinality(D) \in Nat /\ processCount \in Int
    BY <2>2, PcbSets DEF TypeOK, Subtree
  <2> HIDE DEF f
  <2>7. ASSUME NEW i \in 0 .. Enough, NEW K \in f[i]
        PROVE  /\ Len(K.stack) <= processCount
               /\ i = Enough => K = end
    <3>1. PICK F \in SUBSET Pcb : Walking(p, K.stack, F, i) /\ K = Halfway(p, K.stack, F)
      BY <2>4, <2>7 DEF OnTheWay
    <3>2. i \in Nat
      BY <2>3
    <3> DEFINE stack == K.stack
    <3>3. Walking(p, stack, F, i) /\ K = Halfway(p, stack, F)
      BY <3>1
    <3> HIDE DEF stack, D
    <3>4. /\ Len(stack) \in Nat /\ Len(stack) <= Cardinality(D)
          /\ i = Enough => stack = <<>>
      BY <2>2, <3>2, <3>3, WalkIsShort DEF D
    <3>5. ASSUME i = Enough PROVE K = end
      <4>1. stack = <<>> /\ Walking(p, <<>>, F, i)
        BY <3>3, <3>4, <3>5
      <4>2. F = D
        BY <2>2, <4>1, WalkEnds DEF D
      <4> QED BY <3>3, <4>1, <4>2 DEF end
    <3>6. Len(stack) <= processCount
      BY <2>5, <2>6, <3>4
    <3> QED BY <3>5, <3>6 DEF stack
  <2>8. f[Enough] = {end}
    <3>1. Enough \in 0 .. Enough
      BY <2>3
    <3> HIDE DEF end
    <3> QED BY <2>4, <2>7, <3>1
  <2>9. end = [stack |-> <<>>, free |-> pcbFree_h', parent |-> p_parent',
               child |-> p_child', semAdd |-> p_semAdd', procq |-> procq',
               count |-> processCount', soft |-> softblockcount']
    BY <2>2, KillerLeaves
  <2> HIDE DEF end
  <2> QED BY <2>7, <2>8, <2>9 DEF f
<1> QED BY <1>1, TreeCorrect, PTL DEF Spec, KillerKills

-----------------------------------------------------------------------------
(***************************************************************************)
(* The loop of findProcess: from the caller to a parent, and again.        *)
(***************************************************************************)
LEMMA TopLoop ==
  ASSUME TypeOK, current_process \in Pcb
  PROVE  \E root : /\ root[0] = current_process
                   /\ \A i \in 1 .. MAXPROC :
                        root[i] = IF p_parent[root[i - 1]] = NULL THEN root[i - 1]
                                  ELSE p_parent[root[i - 1]]
                   /\ Top = root[MAXPROC]
<1> DEFINE n == MAXPROC
           F(f) == [i \in 0 .. n |->
                      IF i = 0 THEN current_process
                      ELSE IF p_parent[f[i - 1]] = NULL THEN f[i - 1] ELSE p_parent[f[i - 1]]]
           up == [x \in Pcb |-> IF p_parent[x] = NULL THEN x ELSE p_parent[x]]
           G == [k \in 1 .. n |-> up]
           root == CHOOSE f : f = F(f)
<1>1. n \in Nat
  BY PcbSets
<1> HIDE DEF n
<1>2. up \in [Pcb -> Pcb]
  BY DEF TypeOK
<1>3. G \in [1 .. n -> [Pcb -> Pcb]]
  BY <1>2
<1>4. PICK f \in [0 .. n -> Pcb] : IsLoop(f, n, current_process, G)
  <2> HIDE DEF G
  <2> QED BY <1>1, <1>3, LoopExists
<1>5. /\ f[0] = current_process
      /\ \A i \in 1 .. n : f[i] = G[i][f[i - 1]]
  BY <1>4 DEF IsLoop
<1>6. f = F(f)
  <2>1. ASSUME NEW i \in 1 .. n
        PROVE  f[i] = IF p_parent[f[i - 1]] = NULL THEN f[i - 1] ELSE p_parent[f[i - 1]]
    <3>1. i - 1 \in 0 .. n
      BY <1>1
    <3>2. f[i - 1] \in Pcb
      BY <1>4, <3>1
    <3>3. f[i] = up[f[i - 1]]
      BY <1>5
    <3> QED BY <3>2, <3>3
  <2>2. \A i \in 0 .. n : i = 0 \/ i \in 1 .. n
    BY <1>1
  <2>3. f = [i \in 0 .. n |-> f[i]]
    BY <1>4
  <2> QED BY <1>5, <2>1, <2>2, <2>3
<1>7. root = F(root)
  <2>1. \E g : g = F(g)
    BY <1>6
  <2> HIDE DEF F
  <2> QED BY <2>1, Zenon
<1>8. Top = root[n]
  BY Zenon DEF Top, n
<1> HIDE DEF root
<1>9. \A i \in 0 .. n : root[i] = IF i = 0 THEN current_process
                                  ELSE IF p_parent[root[i - 1]] = NULL THEN root[i - 1]
                                  ELSE p_parent[root[i - 1]]
  BY <1>7, Zenon
<1>10. /\ root[0] = current_process
       /\ \A i \in 1 .. n : root[i] = IF p_parent[root[i - 1]] = NULL THEN root[i - 1]
                                      ELSE p_parent[root[i - 1]]
  BY <1>1, <1>9
<1> QED BY <1>8, <1>10 DEF n

(***************************************************************************)
(* One step up: the progeny of the parent is larger by the parent.         *)
(***************************************************************************)
LEMMA ParentHasMore ==
  ASSUME TreeInv, NEW p \in Live, p_parent[p] # NULL
  PROVE  /\ p_parent[p] \in Live
         /\ Subtree(p) \subseteq Subtree(p_parent[p])
         /\ Cardinality(Subtree(p)) + 1 <= Cardinality(Subtree(p_parent[p]))
<1> DEFINE q == p_parent[p]
           small == Subtree(p)
           large == Subtree(q)
<1>1. TypeOK /\ Agree /\ FreeBare /\ p \in Pcb
  BY DEF TreeInv, PlaceInv, Live
<1>2. q \in Pcb /\ p \in p_child[q]
  BY <1>1 DEF TypeOK, Agree
<1>3. q \in Live
  BY <1>1, <1>2 DEF FreeBare, Live
<1>4. q \in large /\ Closed(large) /\ large \in SUBSET Pcb /\ small \in SUBSET Pcb
  BY <1>2, <1>1, SubtreeLeast DEF Subtree
<1>5. small \subseteq large
  <2>1. p \in large
    BY <1>2, <1>4 DEF Closed
  <2> QED BY <1>1, <1>4, <2>1, SubtreeLeast
<1>6. q \notin small
  BY ParentOutside
<1> HIDE DEF q, small, large
<1>7. Cardinality(small) + 1 <= Cardinality(large)
  <2>1. IsFiniteSet(small) /\ IsFiniteSet(large)
    BY <1>4, PcbSets
  <2>2. Cardinality(small \cup {q}) = Cardinality(small) + 1
    BY <1>6, <2>1, FS_AddElement
  <2>3. small \cup {q} \in SUBSET large
    BY <1>4, <1>5
  <2>4. Cardinality(small \cup {q}) <= Cardinality(large)
    BY <2>1, <2>3, FS_Subset
  <2> QED BY <2>2, <2>4
<1> QED BY <1>3, <1>5, <1>7 DEF q, small, large

(***************************************************************************)
(* The climb ends at the only root above the caller.                       *)
(***************************************************************************)
LEMMA TopIsRoot ==
  ASSUME TreeInv, Running
  PROVE  Top \in Live /\ p_parent[Top] = NULL /\ current_process \in Subtree(Top)
<1> DEFINE n == MAXPROC
           Higher(x, i) == p_parent[x] = NULL \/ i + 1 <= Cardinality(Subtree(x))
<1>1. TypeOK /\ Agree /\ FreeBare /\ n \in Nat /\ Live \subseteq Pcb
  BY PcbSets DEF TreeInv, PlaceInv, Live
<1>2. current_process \in Live
  BY DEF TreeInv, PlaceInv, PlacedOnce, Placed, Running, TypeOK, Live
<1>3. PICK root : /\ root[0] = current_process
                  /\ \A i \in 1 .. n :
                       root[i] = IF p_parent[root[i - 1]] = NULL THEN root[i - 1]
                                 ELSE p_parent[root[i - 1]]
                  /\ Top = root[n]
  <2>1. current_process \in Pcb
    BY <1>1, <1>2
  <2> QED BY <1>1, <2>1, TopLoop
<1> HIDE DEF n
<1> DEFINE S == {i \in 0 .. n : /\ root[i] \in Live
                                /\ current_process \in Subtree(root[i])
                                /\ Higher(root[i], i)}
<1>4. 0 \in S
  <2>1. current_process \in Subtree(current_process)
    BY <1>1, <1>2, SubtreeLeast
  <2>2. 0 + 1 <= Cardinality(Subtree(current_process))
    <3>1. {current_process} \in SUBSET Subtree(current_process)
      BY <2>1
    <3>2. IsFiniteSet(Subtree(current_process))
      BY PcbSets DEF Subtree
    <3>3. Cardinality({current_process}) = 1
      BY FS_Singleton
    <3>4. Cardinality({current_process}) <= Cardinality(Subtree(current_process))
      BY <3>1, <3>2, FS_Subset
    <3> QED BY <3>3, <3>4
  <2> QED BY <1>1, <1>2, <1>3, <2>1, <2>2
<1>5. ASSUME NEW i \in 1 .. n, i - 1 \in S PROVE i \in S
  <2> DEFINE x == root[i - 1]
  <2>1. x \in Live /\ current_process \in Subtree(x) /\ Higher(x, i - 1)
    BY <1>5
  <2>2. root[i] = IF p_parent[x] = NULL THEN x ELSE p_parent[x]
    BY <1>3
  <2> HIDE DEF x
  <2>3. CASE p_parent[x] = NULL
    <3>1. i \in 0 .. n
      BY <1>1
    <3> QED BY <2>1, <2>2, <2>3, <3>1
  <2>4. CASE p_parent[x] # NULL
    <3> DEFINE y == p_parent[x]
               small == Cardinality(Subtree(x))
               large == Cardinality(Subtree(y))
    <3>1. y \in Live /\ Subtree(x) \subseteq Subtree(y) /\ small + 1 <= large
      BY <2>1, <2>4, ParentHasMore
    <3>2. small \in Nat /\ large \in Nat
      BY PcbSets DEF Subtree
    <3>3. (i - 1) + 1 <= small
      BY <2>1, <2>4
    <3> HIDE DEF small, large, y
    <3>4. i + 1 <= large /\ i \in 0 .. n
      BY <1>1, <3>1, <3>2, <3>3
    <3>5. root[i] = y
      BY <2>2, <2>4 DEF y
    <3> QED BY <2>1, <3>1, <3>4, <3>5 DEF large
  <2> QED BY <2>3, <2>4
<1>6. n \in S
  <2> HIDE DEF S
  <2>1. \A i \in 0 .. n : i \in S
    BY <1>1, <1>4, <1>5, UpTo
  <2> QED BY <1>1, <2>1
<1>7. Cardinality(Subtree(Top)) \in Nat /\ Cardinality(Subtree(Top)) <= n
  BY PcbSets DEF Subtree, n
<1> QED BY <1>1, <1>3, <1>6, <1>7

(***************************************************************************)
(* What can be found is the tree below it.                                 *)
(***************************************************************************)
LEMMA FindableBelowTop ==
  ASSUME TreeInv, Running
  PROVE  Findable = Subtree(Top)
<1>1. TypeOK /\ Agree /\ FreeBare
  BY DEF TreeInv, PlaceInv
<1>2. Top \in Live /\ p_parent[Top] = NULL /\ current_process \in Subtree(Top)
  BY TopIsRoot
<1>3. current_process \in Live
  BY DEF TreeInv, PlaceInv, PlacedOnce, Placed, Running, TypeOK, Live
<1>4. PICK r \in Live : p_parent[r] = NULL /\ Live \subseteq Subtree(r)
  BY <1>3 DEF TreeInv, Rooted
<1>5. ASSUME NEW x \in Pcb, p_parent[x] = NULL, current_process \in Subtree(x)
      PROVE  x = r
  <2> SUFFICES ASSUME x # r PROVE FALSE
    OBVIOUS
  <2>1. x \notin Subtree(r)
    BY <1>1, <1>4, <1>5, RootOnTop DEF Live
  <2>2. x \notin Live
    BY <1>4, <2>1
  <2>3. p_child[x] = {}
    BY <1>1, <1>5, <2>2 DEF FreeBare, Live
  <2>4. Closed({x}) /\ {x} \in SUBSET Pcb
    BY <1>5, <2>3 DEF Closed
  <2>5. Subtree(x) \subseteq {x}
    BY <1>1, <1>5, <2>4, SubtreeLeast
  <2> QED BY <1>3, <1>5, <2>2, <2>5
<1>6. Top = r /\ Top \in Pcb
  BY <1>2, <1>5 DEF Live
<1>7. {x \in Pcb : p_parent[x] = NULL /\ current_process \in Subtree(x)} = {Top}
  BY <1>2, <1>5, <1>6
<1> QED BY <1>7 DEF Findable

(***************************************************************************)
(* Where the search for t below r may be after i steps: halfway through a  *)
(* walk that has not met t, or it has found t below r.                     *)
(***************************************************************************)
Passed(stack, F) ==
  [stack |-> stack, left |-> [x \in Pcb |-> p_child[x] \ (ToSet(stack) \cup F)],
   found |-> NULL]

NotYet(r, t, W, i) ==
  \E F \in SUBSET Pcb : /\ Walking(r, W.stack, F, i)
                        /\ t \notin ToSet(W.stack) \cup F
                        /\ W = Passed(W.stack, F)

OnTheTrail(r, t, W, i) ==
  IF W.found = NULL THEN NotYet(r, t, W, i) ELSE W.found = t /\ t \in Subtree(r)

(***************************************************************************)
(* The search starts at a PCB that is nobody's child.                      *)
(***************************************************************************)
LEMMA FinderStarts ==
  ASSUME TypeOK, Agree, Top \in Pcb, p_parent[Top] = NULL, NEW t \in Pcb
  PROVE  OnTheTrail(Top, t, Searching(t), 0)
<1> DEFINE r == Top
           W == Searching(t)
<1>1. W.found = (IF r = t THEN t ELSE NULL) /\ W.stack = <<r>>
  BY DEF Searching
<1>2. CASE r = t
  <2>1. W.found = t /\ t # NULL
    BY <1>1, <1>2, NULLAssumption
  <2>2. t \in Subtree(r)
    BY <1>2, SubtreeLeast
  <2> QED BY <2>1, <2>2 DEF OnTheTrail
<1>3. CASE r # t
  <2>1. Walking(r, <<r>>, {}, 0)
    BY WalkStarts
  <2>2. ToSet(<<r>>) = {r}
    BY DEF ToSet
  <2>3. W = Passed(<<r>>, {})
    <3>1. \A x \in Pcb : p_child[x] = p_child[x] \ {r}
      BY NULLAssumption DEF Agree
    <3>2. p_child = [x \in Pcb |-> p_child[x] \ {r}]
      BY <3>1 DEF TypeOK
    <3>3. ToSet(<<r>>) \cup {} = {r}
      BY <2>2
    <3>4. Passed(<<r>>, {}) = [stack |-> <<r>>, left |-> [x \in Pcb |-> p_child[x] \ {r}],
                               found |-> NULL]
      BY <3>3, Zenon DEF Passed
    <3>5. W = [stack |-> <<r>>, left |-> p_child, found |-> NULL]
      BY <1>3 DEF Searching
    <3> QED BY <3>2, <3>4, <3>5
  <2>4. {} \in SUBSET Pcb
    OBVIOUS
  <2>5. t \notin ToSet(<<r>>) \cup {}
    BY <1>3, <2>2
  <2> HIDE DEF W, r
  <2>6. NotYet(r, t, W, 0)
    BY <1>1, <2>1, <2>3, <2>4, <2>5 DEF NotYet
  <2>7. W.found = NULL
    BY <2>3 DEF Passed
  <2> QED BY <2>6, <2>7 DEF OnTheTrail, W, r
<1> QED BY <1>2, <1>3

(***************************************************************************)
(* A call for a child.                                                     *)
(***************************************************************************)
LEMMA FinderVisits ==
  ASSUME TypeOK, Agree, NEW r \in Pcb, NEW t \in Pcb, NEW stack, NEW F \in SUBSET Pcb,
         NEW i \in Nat, Walking(r, stack, F, i), stack # <<>>,
         t \notin ToSet(stack) \cup F,
         NEW c \in Passed(stack, F).left[Last(stack)]
  PROVE  OnTheTrail(r, t, Visit(Passed(stack, F), c, t), i + 1)
<1> DEFINE top == Last(stack)
           W == Passed(stack, F)
           V == ToSet(stack) \cup F
           longer == Append(stack, c)
           L == Visit(W, c, t)
<1>1. stack \in Seq(Pcb) /\ top \in ToSet(stack) /\ top \in Pcb
  <2>1. stack \in Seq(Pcb) /\ IsInjective(stack)
    BY DEF Walking
  <2> QED BY <2>1, FrontPlaces, ToSetType
<1> HIDE DEF top
<1>2. W.left = [x \in Pcb |-> p_child[x] \ V] /\ W.stack = stack
  BY DEF Passed
<1>3. c \in p_child[top] \ V
  BY <1>1, <1>2 DEF top
<1>4. c \in Pcb /\ p_parent[c] = top
  BY <1>1, <1>3 DEF TypeOK, Agree
<1>5. Walking(r, longer, F, i + 1)
  <2>1. c \in p_child[Last(stack)] /\ c \notin ToSet(stack) \cup F
    BY <1>3 DEF top
  <2> HIDE DEF longer
  <2> QED BY <2>1, WalkDown DEF longer
<1>6. ToSet(longer) = ToSet(stack) \cup {c}
  BY <1>1, <1>4, AppendPlaces
<1> HIDE DEF W, V
<1>7. L = [stack |-> longer, left |-> [W.left EXCEPT ![top] = W.left[top] \ {c}],
           found |-> IF c = t THEN c ELSE NULL]
  BY <1>2, Zenon DEF Visit, top
<1> HIDE DEF L, longer
<1>8. CASE c = t
  <2>1. L.found = t /\ t # NULL
    BY <1>7, <1>8, NULLAssumption
  <2>2. t \in Subtree(r)
    BY <1>5, <1>6, <1>8 DEF Walking
  <2> QED BY <2>1, <2>2 DEF OnTheTrail, L, W
<1>9. CASE c # t
  <2>1. t \notin ToSet(longer) \cup F
    BY <1>6, <1>9
  <2>2. [W.left EXCEPT ![top] = W.left[top] \ {c}]
          = [x \in Pcb |-> p_child[x] \ (ToSet(longer) \cup F)]
    <3>1. ToSet(longer) \cup F = V \cup {c}
      BY <1>6 DEF V
    <3>2. \A x \in Pcb : x # top => c \notin p_child[x]
      BY <1>1, <1>4 DEF Agree
    <3> QED BY <1>1, <1>2, <3>1, <3>2
  <2>3. L = Passed(longer, F)
    BY <1>7, <1>9, <2>2 DEF Passed
  <2>4. L.found = NULL /\ L.stack = longer
    BY <2>3 DEF Passed
  <2>5. NotYet(r, t, L, i + 1)
    BY <1>5, <2>1, <2>3, <2>4 DEF NotYet
  <2> QED BY <2>4, <2>5 DEF OnTheTrail, L, W
<1> QED BY <1>8, <1>9

(***************************************************************************)
(* A return, from a call whose loop has passed all children.               *)
(***************************************************************************)
LEMMA FinderLeaves ==
  ASSUME TypeOK, NEW r \in Pcb, NEW t \in Pcb, NEW stack, NEW F \in SUBSET Pcb,
         NEW i \in Nat, Walking(r, stack, F, i), stack # <<>>,
         t \notin ToSet(stack) \cup F,
         Passed(stack, F).left[Last(stack)] = {}
  PROVE  OnTheTrail(r, t, Leave(Passed(stack, F)), i + 1)
<1> DEFINE top == Last(stack)
           front == Front(stack)
           G == F \cup {top}
           W == Passed(stack, F)
           L == Leave(W)
<1>1. /\ stack \in Seq(Pcb) /\ top \in ToSet(stack) /\ top \in Pcb
      /\ ToSet(front) = ToSet(stack) \ {top}
  <2>1. stack \in Seq(Pcb) /\ IsInjective(stack)
    BY DEF Walking
  <2> QED BY <2>1, FrontPlaces, ToSetType
<1>2. W.left[top] = p_child[top] \ (ToSet(stack) \cup F)
  BY <1>1 DEF Passed
<1>3. Walking(r, front, G, i + 1)
  <2>1. p_child[Last(stack)] \subseteq ToSet(stack) \cup F
    BY <1>2
  <2> QED BY <2>1, WalkUp
<1> HIDE DEF top, front
<1>4. ToSet(front) \cup G = ToSet(stack) \cup F
  BY <1>1
<1>5. L = Passed(front, G)
  <2> DEFINE left == [x \in Pcb |-> p_child[x] \ (ToSet(stack) \cup F)]
  <2>1. W = [stack |-> stack, left |-> left, found |-> NULL]
    BY DEF Passed
  <2>2. Passed(front, G) = [stack |-> front, left |-> left, found |-> NULL]
    <3> HIDE DEF G
    <3> QED BY <1>4, Zenon DEF Passed
  <2> HIDE DEF left, W
  <2>3. L = [W EXCEPT !.stack = front]
    BY <2>1 DEF Leave, front
  <2> HIDE DEF L
  <2> QED BY <2>1, <2>2, <2>3
<1>6. G \in SUBSET Pcb /\ t \notin ToSet(front) \cup G
  BY <1>1, <1>4
<1> HIDE DEF L, G
<1>7. L.found = NULL /\ L.stack = front
  BY <1>5 DEF Passed
<1>8. NotYet(r, t, L, i + 1)
  BY <1>3, <1>5, <1>6, <1>7 DEF NotYet
<1> QED BY <1>7, <1>8 DEF OnTheTrail, L, W

(***************************************************************************)
(* One step of the search, whichever child is next in its list.            *)
(***************************************************************************)
LEMMA FinderStep ==
  ASSUME TypeOK, Agree, NEW r \in Pcb, NEW t \in Pcb, NEW W, NEW i \in Nat,
         OnTheTrail(r, t, W, i)
  PROVE  /\ FinderSteps(W, t) # {}
         /\ \A L \in FinderSteps(W, t) : OnTheTrail(r, t, L, i + 1)
<1> DEFINE stack == W.stack
           top == Last(stack)
<1>1. CASE W.found # NULL
  <2>1. FinderSteps(W, t) = {W}
    BY <1>1 DEF FinderSteps
  <2> QED BY <1>1, <2>1 DEF OnTheTrail
<1>2. CASE W.found = NULL
  <2>1. PICK F \in SUBSET Pcb : /\ Walking(r, stack, F, i)
                                /\ t \notin ToSet(stack) \cup F
                                /\ W = Passed(stack, F)
    BY <1>2 DEF OnTheTrail, NotYet
  <2>2. CASE stack = <<>>
    <3>1. Walking(r, stack, F, i + 1)
      BY <2>1, <2>2, WalkRests
    <3>2. FinderSteps(W, t) = {W}
      BY <2>2 DEF FinderSteps
    <3> QED BY <1>2, <2>1, <3>1, <3>2 DEF OnTheTrail, NotYet
  <2> HIDE DEF stack
  <2>3. CASE stack # <<>> /\ W.left[top] = {}
    <3>1. FinderSteps(W, t) = {Leave(W)}
      BY <1>2, <2>3 DEF FinderSteps, stack
    <3>2. Passed(stack, F).left[Last(stack)] = {}
      BY <2>1, <2>3
    <3>3. OnTheTrail(r, t, Leave(Passed(stack, F)), i + 1)
      BY <2>1, <2>3, <3>2, FinderLeaves
    <3>4. Leave(Passed(stack, F)) = Leave(W)
      BY <2>1, Zenon
    <3>5. OnTheTrail(r, t, Leave(W), i + 1)
      BY <3>3, <3>4, Zenon
    <3> QED BY <3>1, <3>5
  <2>4. CASE stack # <<>> /\ W.left[top] # {}
    <3>1. FinderSteps(W, t) = {Visit(W, c, t) : c \in W.left[top]}
      BY <1>2, <2>4 DEF FinderSteps, stack
    <3>2. ASSUME NEW c \in W.left[top] PROVE OnTheTrail(r, t, Visit(W, c, t), i + 1)
      <4>1. c \in Passed(stack, F).left[Last(stack)]
        BY <2>1, <3>2
      <4>2. OnTheTrail(r, t, Visit(Passed(stack, F), c, t), i + 1)
        BY <2>1, <2>4, <4>1, FinderVisits
      <4>3. Visit(Passed(stack, F), c, t) = Visit(W, c, t)
        BY <2>1, Zenon
      <4> QED BY <4>2, <4>3, Zenon
    <3> QED BY <2>4, <3>1, <3>2
  <2> QED BY <2>2, <2>3, <2>4
<1> QED BY <1>1, <1>2

(***************************************************************************)
(* findProcess(t)[i] is what the steps make of findProcess(t)[i - 1].      *)
(***************************************************************************)
LEMMA FinderLoop ==
  ASSUME NEW t
  PROVE  /\ findProcess(t)[0] = {Searching(t)}
         /\ \A i \in 1 .. Enough :
              findProcess(t)[i] = UNION {FinderSteps(W, t) : W \in findProcess(t)[i - 1]}
<1> DEFINE n == Enough
           a == {Searching(t)}
           step(S) == UNION {FinderSteps(F, t) : F \in S}
           F(f) == [i \in 0 .. n |-> IF i = 0 THEN a ELSE step(f[i - 1])]
           after == CHOOSE f : f = F(f)
           Good(m) == \E f : f = [i \in 0 .. m |-> IF i = 0 THEN a ELSE step(f[i - 1])]
           S == {m \in 0 .. n : Good(m)}
<1>1. n \in Nat
  BY PcbSets DEF Enough
<1> HIDE DEF n, a, step
<1>2. Good(0)
  <2>1. [i \in 0 .. 0 |-> a] = [i \in 0 .. 0 |-> IF i = 0 THEN a ELSE step([j \in 0 .. 0 |-> a][i - 1])]
    OBVIOUS
  <2> QED BY <2>1
<1>3. ASSUME NEW m \in 1 .. n, Good(m - 1) PROVE Good(m)
  <2>1. PICK f : f = [i \in 0 .. m - 1 |-> IF i = 0 THEN a ELSE step(f[i - 1])]
    BY <1>3
  <2> DEFINE g == [i \in 0 .. m |-> IF i = 0 THEN a ELSE step(f[i - 1])]
  <2>2. \A i \in 0 .. m - 1 : f[i] = IF i = 0 THEN a ELSE step(f[i - 1])
    BY <2>1, Zenon
  <2>3. ASSUME NEW i \in 0 .. m, i # 0 PROVE g[i - 1] = f[i - 1]
    <3>1. i - 1 \in 0 .. m /\ i - 1 \in 0 .. m - 1
      BY <1>1, <2>3
    <3>2. g[i - 1] = IF i - 1 = 0 THEN a ELSE step(f[i - 1 - 1])
      BY <3>1
    <3> QED BY <2>2, <3>1, <3>2
  <2>4. g = [i \in 0 .. m |-> IF i = 0 THEN a ELSE step(g[i - 1])]
    <3>1. \A i \in 0 .. m : (IF i = 0 THEN a ELSE step(f[i - 1])) =
                            (IF i = 0 THEN a ELSE step(g[i - 1]))
      <4> HIDE DEF g
      <4> QED BY <2>3
    <3> HIDE DEF g
    <3> QED BY <3>1 DEF g
  <2> HIDE DEF g
  <2> QED BY <2>4
<1>4. Good(n)
  <2>1. 0 \in S
    BY <1>1, <1>2
  <2>2. \A k \in 1 .. n : k - 1 \in S => k \in S
    <3> SUFFICES ASSUME NEW k \in 1 .. n, k - 1 \in S PROVE k \in S
      OBVIOUS
    <3>1. Good(k - 1)
      OBVIOUS
    <3>2. Good(k)
      <4> HIDE DEF Good
      <4> QED BY <1>3, <3>1
    <3> HIDE DEF Good
    <3> QED BY <1>1, <3>2
  <2>3. \A k \in 0 .. n : k \in S
    <3> HIDE DEF S
    <3> QED BY <1>1, <2>1, <2>2, UpTo
  <2> HIDE DEF Good
  <2> QED BY <1>1, <2>3
<1>5. after = F(after)
  <2>1. \E f : f = F(f)
    BY <1>4
  <2> HIDE DEF F
  <2> QED BY <2>1, Zenon
<1>6. findProcess(t) = after
  BY Zenon DEF findProcess, n, a, step
<1> HIDE DEF after
<1>7. \A i \in 0 .. n : after[i] = IF i = 0 THEN a ELSE step(after[i - 1])
  BY <1>5, Zenon
<1>8. after[0] = a /\ \A i \in 1 .. n : after[i] = step(after[i - 1])
  BY <1>1, <1>7
<1> QED BY <1>6, <1>8, Zenon DEF n, a, step

(***************************************************************************)
(* All of the search, by the number of steps.                              *)
(***************************************************************************)
LEMMA FinderRuns ==
  ASSUME TreeInv, Running, NEW t \in Pcb, NEW i \in 0 .. Enough
  PROVE  /\ findProcess(t)[i] # {}
         /\ \A W \in findProcess(t)[i] : OnTheTrail(Top, t, W, i)
<1> DEFINE f == findProcess(t)
           S == {k \in 0 .. Enough : f[k] # {} /\ \A W \in f[k] : OnTheTrail(Top, t, W, k)}
<1>1. Enough \in Nat
  BY PcbSets DEF Enough
<1>2. /\ f[0] = {Searching(t)}
      /\ \A k \in 1 .. Enough : f[k] = UNION {FinderSteps(W, t) : W \in f[k - 1]}
  BY FinderLoop
<1> HIDE DEF f
<1>3. TypeOK /\ Agree /\ Top \in Pcb /\ p_parent[Top] = NULL
  BY TopIsRoot DEF TreeInv, PlaceInv, Live
<1>4. 0 \in S
  <2>1. OnTheTrail(Top, t, Searching(t), 0)
    BY <1>3, FinderStarts
  <2> QED BY <1>1, <1>2, <2>1
<1>5. ASSUME NEW k \in 1 .. Enough, k - 1 \in S PROVE k \in S
  <2>1. /\ k - 1 \in Nat /\ (k - 1) + 1 = k
        /\ f[k - 1] # {} /\ \A W \in f[k - 1] : OnTheTrail(Top, t, W, k - 1)
    BY <1>1, <1>5
  <2>2. \A W \in f[k - 1] : /\ FinderSteps(W, t) # {}
                            /\ \A L \in FinderSteps(W, t) : OnTheTrail(Top, t, L, k)
    BY <1>3, <2>1, FinderStep
  <2>3. f[k] = UNION {FinderSteps(W, t) : W \in f[k - 1]}
    BY <1>2
  <2>4. f[k] # {} /\ \A L \in f[k] : OnTheTrail(Top, t, L, k)
    BY <2>1, <2>2, <2>3
  <2>5. k \in 0 .. Enough
    BY <1>1
  <2> QED BY <2>4, <2>5
<1>6. i \in S
  <2> HIDE DEF S
  <2> QED BY <1>1, <1>4, <1>5, UpTo
<1> QED BY <1>6 DEF f

(***************************************************************************)
(* findProcess ends, and finds every PCB of the caller's tree.             *)
(***************************************************************************)
THEOREM FinderCorrect == Spec => []FinderFinds
<1>1. TreeInv => FinderFinds
  <2> SUFFICES ASSUME TreeInv, Running, NEW t \in Pcb
               PROVE  /\ findProcess(t)[Enough] # {}
                      /\ \A W \in findProcess(t)[Enough] :
                           /\ W.found = IF t \in Findable THEN t ELSE NULL
                           /\ W.found = NULL => W.stack = <<>>
    BY Zenon DEF FinderFinds
  <2>1. Enough \in Nat /\ Enough \in 0 .. Enough
    BY PcbSets DEF Enough
  <2>2. /\ findProcess(t)[Enough] # {}
        /\ \A W \in findProcess(t)[Enough] : OnTheTrail(Top, t, W, Enough)
    BY <2>1, FinderRuns
  <2>3. TypeOK /\ Top \in Pcb /\ Findable = Subtree(Top)
    BY TopIsRoot, FindableBelowTop DEF TreeInv, PlaceInv, Live
  <2>4. ASSUME NEW W, OnTheTrail(Top, t, W, Enough)
        PROVE  /\ W.found = IF t \in Findable THEN t ELSE NULL
               /\ W.found = NULL => W.stack = <<>>
    <3>1. CASE W.found = NULL
      <4>1. PICK F \in SUBSET Pcb : /\ Walking(Top, W.stack, F, Enough)
                                    /\ t \notin ToSet(W.stack) \cup F
        BY <2>4, <3>1 DEF OnTheTrail, NotYet
      <4>2. W.stack = <<>>
        BY <2>1, <2>3, <4>1, WalkIsShort
      <4>3. F = Subtree(Top)
        BY <2>3, <4>1, <4>2, WalkEnds
      <4> QED BY <2>3, <3>1, <4>1, <4>2, <4>3
    <3>2. CASE W.found # NULL
      BY <2>3, <2>4, <3>2 DEF OnTheTrail
    <3> QED BY <3>1, <3>2
  <2> QED BY <2>2, <2>4
<1> QED BY <1>1, TreeCorrect, PTL
=============================================================================
