-------------------------------- MODULE Asl --------------------------------
(***************************************************************************)
(* phase1/asl.c: the active semaphore list.  A fixed table of semaphore    *)
(* descriptors is split between a free list and the ASL, which is sorted   *)
(* by key and holds exactly the semaphores that somebody is blocked on.    *)
(*                                                                         *)
(* A PCB is blocked only while it is not blocked on another semaphore: so  *)
(* do p1test and phase 2.  (insertProcQ would take a blocked PCB out of    *)
(* its queue behind the ASL's back.)  The exception is p1test's call for a *)
(* semaphore too many, which is refused before the PCB is touched.  A call *)
(* with semAdd = NULL or p = NULL returns at once and is left out.         *)
(***************************************************************************)
EXTENDS ProcQueue, FiniteSets

CONSTANTS
  Key,     \* addresses of semaphores, compared with <
  Pcb,
  p_prio,
  MAXPROC, \* the size of semd_table and of pcbFree_table
  NULL

Semd == 1 .. MAXPROC   \* the entries of semd_table

ASSUME KeyAssumption  == Key \subseteq Int
ASSUME PrioAssumption == p_prio \in [Pcb -> Int]
ASSUME NULLAssumption == NULL \notin Pcb /\ NULL \notin Key /\ NULL \notin Semd
ASSUME SizeAssumption == /\ MAXPROC \in Nat
                         /\ IsFiniteSet(Pcb) /\ Cardinality(Pcb) = MAXPROC

VARIABLES
  semdFree_h,  \* the free descriptors, in the order of the list
  semd_h,      \* the ASL
  s_key, s_procq,
  p_semAdd,
  ret          \* what the last call returned

vars == <<semdFree_h, semd_h, s_key, s_procq, p_semAdd, ret>>

lists == <<semdFree_h, semd_h, s_key, s_procq>>

(***************************************************************************)
(* initASL: s_key is static storage, hence 0; it is never read before the  *)
(* descriptor becomes active.                                              *)
(***************************************************************************)
Init ==
  /\ semdFree_h = [i \in Semd |-> i]
  /\ semd_h = <<>>
  /\ s_key = [d \in Semd |-> NULL]
  /\ s_procq = [d \in Semd |-> <<>>]
  /\ p_semAdd = [p \in Pcb |-> NULL]
  /\ ret = NULL

(***************************************************************************)
(* findSemd: the first active descriptor with the key, or NULL.            *)
(***************************************************************************)
findSemd(k) ==
  LET i == SelectInSeq(semd_h, LAMBDA d : s_key[d] = k)
  IN  IF i = 0 THEN NULL ELSE semd_h[i]

(***************************************************************************)
(* Where insertBlocked links a new descriptor for k into the ASL.          *)
(***************************************************************************)
AslPosTail(k) == Len(semd_h) + 1   \* mutant: always at the tail

AslPos(k) ==
  LET i == SelectInSeq(semd_h, LAMBDA d : s_key[d] > k)
  IN  IF i = 0 THEN Len(semd_h) + 1 ELSE i

(***************************************************************************)
(* p joins the queue of the active descriptor of k.                        *)
(***************************************************************************)
InsertActive(k, p) ==
  LET d == findSemd(k)
  IN  /\ d # NULL
      /\ s_procq' = [s_procq EXCEPT ![d] = InsertProcQ(@, p, p_prio)]
      /\ p_semAdd' = [p_semAdd EXCEPT ![p] = k]
      /\ ret' = 0
      /\ UNCHANGED <<semdFree_h, semd_h, s_key>>

(***************************************************************************)
(* k is not active: the first free descriptor is taken for it.             *)
(***************************************************************************)
ActivateLosing(k, p) ==   \* mutant: mkEmptyProcQ behind insertProcQ
  LET d == Head(semdFree_h)
  IN  /\ semdFree_h' = Tail(semdFree_h)
      /\ semd_h' = InsertAt(semd_h, AslPos(k), d)
      /\ s_key' = [s_key EXCEPT ![d] = k]
      /\ s_procq' = [s_procq EXCEPT ![d] = <<>>]

Activate(k, p) ==
  LET d == Head(semdFree_h)
  IN  /\ semdFree_h' = Tail(semdFree_h)
      /\ semd_h' = InsertAt(semd_h, AslPos(k), d)
      /\ s_key' = [s_key EXCEPT ![d] = k]
      /\ s_procq' = [s_procq EXCEPT ![d] = InsertProcQ(<<>>, p, p_prio)]

InsertNew(k, p) ==
  /\ findSemd(k) = NULL
  /\ semdFree_h # <<>>
  /\ Activate(k, p)
  /\ p_semAdd' = [p_semAdd EXCEPT ![p] = k]
  /\ ret' = 0

InsertRefused(k, p) ==
  /\ findSemd(k) = NULL
  /\ semdFree_h = <<>>
  /\ ret' = 1
  /\ UNCHANGED <<lists, p_semAdd>>

InsertBlocked(k, p) ==
  \/ p_semAdd[p] = NULL /\ (InsertActive(k, p) \/ InsertNew(k, p))
  \/ InsertRefused(k, p)

(***************************************************************************)
(* The queue of the active descriptor d becomes q; an empty one sends d to *)
(* the tail of the free list.                                              *)
(***************************************************************************)
SetProcqKeep(d, q) ==   \* mutant: an empty descriptor stays active
  /\ s_procq' = [s_procq EXCEPT ![d] = q]
  /\ UNCHANGED <<semd_h, semdFree_h>>

SetProcqLeak(d, q) ==   \* mutant: the descriptor is not put on the free list
  /\ s_procq' = [s_procq EXCEPT ![d] = q]
  /\ semd_h' = IF q = <<>> THEN RemoveFirst(semd_h, d) ELSE semd_h
  /\ UNCHANGED semdFree_h

SetProcq(d, q) ==
  /\ s_procq' = [s_procq EXCEPT ![d] = q]
  /\ IF q = <<>>
     THEN /\ semd_h' = RemoveFirst(semd_h, d)
          /\ semdFree_h' = Append(semdFree_h, d)
     ELSE UNCHANGED <<semd_h, semdFree_h>>

RemoveBlocked(k) ==
  LET d == findSemd(k)
  IN  IF d = NULL
      THEN ret' = NULL /\ UNCHANGED <<lists, p_semAdd>>
      ELSE /\ IF s_procq[d] = <<>>
              THEN SetProcq(d, <<>>) /\ ret' = NULL
              ELSE SetProcq(d, Tail(s_procq[d])) /\ ret' = Head(s_procq[d])
           /\ p_semAdd' = [p \in Pcb |-> IF p = ret' THEN NULL ELSE p_semAdd[p]]
           /\ UNCHANGED s_key

OutBlocked(p) ==
  LET d == findSemd(p_semAdd[p])
  IN  IF p_semAdd[p] = NULL \/ d = NULL \/ p \notin ToSet(s_procq[d])
      THEN ret' = NULL /\ UNCHANGED <<lists, p_semAdd>>
      ELSE /\ SetProcq(d, OutProcQ(s_procq[d], p))
           /\ p_semAdd' = [p_semAdd EXCEPT ![p] = NULL]
           /\ ret' = p
           /\ UNCHANGED s_key

HeadBlockedSemd(k) ==   \* mutant: container_of the wrong structure
  /\ ret' = findSemd(k)
  /\ UNCHANGED <<lists, p_semAdd>>

HeadBlocked(k) ==
  LET d == findSemd(k)
  IN  /\ ret' = IF d = NULL \/ s_procq[d] = <<>> THEN NULL ELSE Head(s_procq[d])
      /\ UNCHANGED <<lists, p_semAdd>>

Next ==
  \/ \E k \in Key, p \in Pcb : InsertBlocked(k, p)
  \/ \E k \in Key : RemoveBlocked(k) \/ HeadBlocked(k)
  \/ \E p \in Pcb : OutBlocked(p)

Spec == Init /\ [][Next]_vars

-----------------------------------------------------------------------------
(***************************************************************************)
(* Properties.                                                             *)
(***************************************************************************)
TypeOK ==
  /\ semdFree_h \in Seq(Semd)
  /\ semd_h \in Seq(Semd)
  /\ s_key \in [Semd -> Key \cup {NULL}]
  /\ s_procq \in [Semd -> Seq(Pcb)]
  /\ p_semAdd \in [Pcb -> Key \cup {NULL}]
  /\ ret \in Pcb \cup {NULL, 0, 1}

(***************************************************************************)
(* The ASL is strictly sorted: one descriptor for a key, so that findSemd  *)
(* never misses a waiter that stands in a second one.                      *)
(***************************************************************************)
KeysAscending ==
  \A i, j \in DOMAIN semd_h : i < j => s_key[semd_h[i]] < s_key[semd_h[j]]

(***************************************************************************)
(* Every descriptor is in exactly one of the two lists, once: none leaks   *)
(* and none is shared, however often semaphores become active and idle.    *)
(***************************************************************************)
DescriptorsPartitioned ==
  /\ IsInjective(semd_h) /\ IsInjective(semdFree_h)
  /\ ToSet(semd_h) \cap ToSet(semdFree_h) = {}
  /\ ToSet(semd_h) \cup ToSet(semdFree_h) = Semd

(***************************************************************************)
(* A descriptor is active exactly while somebody is blocked on it.         *)
(***************************************************************************)
ActiveIffWaiting ==
  \A d \in Semd : d \in ToSet(semd_h) <=> s_procq[d] # <<>>

(***************************************************************************)
(* p_semAdd of a PCB is the key of the one queue that holds it, once.      *)
(***************************************************************************)
BlockedWhereItSays ==
  /\ \A d \in Semd : IsInjective(s_procq[d])
  /\ \A p \in Pcb, d \in Semd :
       p \in ToSet(s_procq[d]) <=> /\ d \in ToSet(semd_h)
                                   /\ p_semAdd[p] = s_key[d]

(***************************************************************************)
(* The ASL implements the queues without descriptors: insertBlocked never  *)
(* runs out of them for a PCB that is not blocked yet, and every call has  *)
(* the abstract effect and result.                                         *)
(***************************************************************************)
Waiting == [k \in Key |-> LET d == findSemd(k)
                          IN  IF d = NULL THEN <<>> ELSE s_procq[d]]

Abstract == INSTANCE AslSpec WITH waiting <- Waiting

ImplementsAslSpec == Abstract!Spec
=============================================================================
