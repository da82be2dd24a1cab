------------------------------ MODULE PcbLinks ------------------------------
(***************************************************************************)
(* The PCB lists and the PCB trees of phase1/pcb.c with the pointers of    *)
(* headers/listx.h.                                                        *)
(*                                                                         *)
(* The nodes of link are the p_list field of a PCB and the sentinels of    *)
(* the process queues and of the free list.  The nodes of kin are the      *)
(* p_child field of a PCB, the sentinel of the list of its children, and   *)
(* its p_sib field, which stands in its parent's list.                     *)
(*                                                                         *)
(* The fields of a PCB that are in no list are not part of this module.    *)
(* A link is never NULL once initPcbs has run, so that the tests for NULL  *)
(* links in pcb.c are always true.                                         *)
(***************************************************************************)
EXTENDS Listx

CONSTANTS
  Pcb,
  Queue,      \* list heads that mkEmptyProcQ has initialised
  pcbFree_h,  \* the sentinel of the free list
  p_prio,     \* the priorities of the PCBs, fixed while they are queued
  NULL

Node   == Pcb \cup Queue \cup {pcbFree_h}
Child(p) == <<"p_child", p>>
Sib(p)   == <<"p_sib", p>>
KinNode  == {"p_child", "p_sib"} \X Pcb

ASSUME NodeAssumption == /\ IsFiniteSet(Node) /\ Pcb # {}
                         /\ Pcb \cap (Queue \cup {pcbFree_h}) = {}
                         /\ pcbFree_h \notin Queue
                         /\ NULL \notin Node
ASSUME PrioAssumption == p_prio \in [Pcb -> Int]

VARIABLES
  link,      \* p_list.next and p_list.prev, and those of the sentinels
  kin,       \* next and prev of every p_child and p_sib
  p_parent,  \* the parent of every PCB, or NULL
  free,      \* the PCBs the user has not allocated, or has freed
  ret        \* the PCB that the last call returned, or NULL

vars == <<link, kin, p_parent, free, ret>>
tree == <<kin, p_parent>>

-----------------------------------------------------------------------------
(***************************************************************************)
(* pcb.c: the free list.                                                   *)
(***************************************************************************)
Init ==   \* initPcbs, for some order of the table
  \E table \in {f \in [1 .. Cardinality(Pcb) -> Pcb] : ToSet(f) = Pcb} :
    LET n == Len(table)
        place(x) == CHOOSE i \in 1 .. n : table[i] = x
    IN  /\ link = [next |-> [x \in Node |->
                     IF x \in Queue THEN x
                     ELSE IF x = pcbFree_h THEN table[1]
                     ELSE IF place(x) = n THEN pcbFree_h ELSE table[place(x) + 1]],
                   prev |-> [x \in Node |->
                     IF x \in Queue THEN x
                     ELSE IF x = pcbFree_h THEN table[n]
                     ELSE IF place(x) = 1 THEN pcbFree_h ELSE table[place(x) - 1]]]
        /\ kin = [next |-> [x \in KinNode |-> x], prev |-> [x \in KinNode |-> x]]
        /\ p_parent = [p \in Pcb |-> NULL]
        /\ free = Pcb
        /\ ret = NULL

(***************************************************************************)
(* INIT_LIST_HEAD of p_child and of p_sib.                                 *)
(***************************************************************************)
InitKin(K, p) == InitListHead(InitListHead(K, Child(p)), Sib(p))

AllocPcb ==
  LET first == link.next[pcbFree_h]
  IN  IF ListEmpty(link, pcbFree_h)
      THEN ret' = NULL /\ UNCHANGED <<link, kin, p_parent, free>>
      ELSE /\ link' = InitListHead(ListDel(link, first), first)
           /\ kin' = InitKin(kin, first)
           /\ p_parent' = [p_parent EXCEPT ![first] = NULL]   \* memset
           /\ free' = free \ {first}
           /\ ret' = first

(***************************************************************************)
(* freePcb unlinks nothing; the caller makes sure that p is in no queue    *)
(* and in no tree.                                                         *)
(***************************************************************************)
FreePcb(p) ==
  /\ p \notin free /\ ~ Linked(link, p)
  /\ ListEmpty(kin, Child(p)) /\ p_parent[p] = NULL
  /\ link' = ListAddTail(InitListHead(link, p), p, pcbFree_h)
  /\ kin' = InitKin(kin, p)
  /\ free' = free \cup {p}
  /\ ret' = NULL
  /\ UNCHANGED p_parent

-----------------------------------------------------------------------------
(***************************************************************************)
(* pcb.c: the process queues.  insertProcQ: p is unlinked from where it    *)
(* stands; then it goes before the first candidate of a lower priority,    *)
(* else behind the last of its own, else to the tail.  The last is found   *)
(* backwards from the head; since prev is the inverse of next              *)
(* (LinksInverse) that is the last one of the forward walk.                *)
(***************************************************************************)
Place(L, h, p) ==
  LET seen  == Walk(L.next, h)
      lower == SelectInSeq(seen, LAMBDA c : p_prio[c] < p_prio[p])
      equal == SelectLastInSeq(seen, LAMBDA c : p_prio[c] = p_prio[p])
  IN  IF lower # 0 THEN ListAdd(L, p, L.prev[seen[lower]], seen[lower])
      ELSE IF equal # 0 THEN ListAdd(L, p, seen[equal], L.next[seen[equal]])
      ELSE ListAddTail(L, p, h)

InsertProcQ(h, p) ==
  /\ p \notin free
  /\ link' = Place(Unlink(link, p), h, p)
  /\ ret' = NULL
  /\ UNCHANGED <<kin, p_parent, free>>

RemoveProcQ(h) ==
  /\ IF ListEmpty(link, h)
     THEN ret' = NULL /\ UNCHANGED link
     ELSE ret' = link.next[h] /\ link' = ListDel(link, link.next[h])
  /\ UNCHANGED <<kin, p_parent, free>>

OutProcQ(h, p) ==
  /\ p \notin free
  /\ IF p \in ToSet(Walk(link.next, h))
     THEN ret' = p /\ link' = ListDel(link, p)
     ELSE ret' = NULL /\ UNCHANGED link
  /\ UNCHANGED <<kin, p_parent, free>>

-----------------------------------------------------------------------------
(***************************************************************************)
(* pcb.c: the trees.                                                       *)
(***************************************************************************)
InParentsList(p) == Sib(p) \in ToSet(Walk(kin.next, Child(p_parent[p])))

OutChildStale(p) ==   \* mutant: the parent is kept
  /\ p \notin free
  /\ IF p_parent[p] # NULL /\ InParentsList(p)
     THEN ret' = p /\ kin' = ListDel(kin, Sib(p)) /\ UNCHANGED p_parent
     ELSE ret' = NULL /\ UNCHANGED tree
  /\ UNCHANGED <<link, free>>

OutChild(p) ==
  /\ p \notin free
  /\ IF p_parent[p] # NULL /\ InParentsList(p)
     THEN /\ ret' = p
          /\ kin' = ListDel(kin, Sib(p))
          /\ p_parent' = [p_parent EXCEPT ![p] = NULL]
     ELSE ret' = NULL /\ UNCHANGED tree
  /\ UNCHANGED <<link, free>>

(***************************************************************************)
(* The caller inserts no PCB below itself.                                 *)
(***************************************************************************)
Above(p) ==   \* p, its parent, its parent's parent, ...
  LET up[k \in 0 .. Cardinality(Pcb)] ==
        IF k = 0 THEN p
        ELSE IF up[k - 1] = NULL THEN NULL ELSE p_parent[up[k - 1]]
  IN  {up[k] : k \in 0 .. Cardinality(Pcb)} \ {NULL}

(***************************************************************************)
(* insertChild: outChild first when p has a parent; its p_sib is then in   *)
(* no list any more, or is unlinked.                                       *)
(***************************************************************************)
InsertChild(prnt, p) ==
  /\ prnt \notin free /\ p \notin free /\ p \notin Above(prnt)
  /\ LET out == IF p_parent[p] # NULL /\ InParentsList(p)
                THEN ListDel(kin, Sib(p)) ELSE kin
     IN  kin' = ListAddTail(Unlink(out, Sib(p)), Sib(p), Child(prnt))
  /\ p_parent' = [p_parent EXCEPT ![p] = prnt]
  /\ ret' = NULL
  /\ UNCHANGED <<link, free>>

RemoveChild(p) ==
  /\ p \notin free
  /\ IF ListEmpty(kin, Child(p))
     THEN ret' = NULL /\ UNCHANGED tree
     ELSE LET first == kin.next[Child(p)]
              child == first[2]   \* container_of
          IN  /\ ret' = child
              /\ kin' = ListDel(kin, first)
              /\ p_parent' = [p_parent EXCEPT ![child] = NULL]
  /\ UNCHANGED <<link, free>>

-----------------------------------------------------------------------------
Next ==
  \/ AllocPcb
  \/ \E p \in Pcb : FreePcb(p) \/ OutChild(p) \/ RemoveChild(p)
  \/ \E prnt, p \in Pcb : InsertChild(prnt, p)
  \/ \E h \in Queue, p \in Pcb : InsertProcQ(h, p) \/ OutProcQ(h, p)
  \/ \E h \in Queue : RemoveProcQ(h)

Spec == Init /\ [][Next]_vars

-----------------------------------------------------------------------------
TypeOK ==
  /\ link \in [next : [Node -> Node], prev : [Node -> Node]]
  /\ kin \in [next : [KinNode -> KinNode], prev : [KinNode -> KinNode]]
  /\ p_parent \in [Pcb -> Pcb \cup {NULL}]
  /\ free \in SUBSET Pcb
  /\ ret \in Pcb \cup {NULL}

(***************************************************************************)
(* The lists of PCBs and the lists of children can be walked both ways:    *)
(* the links are disjoint circles.                                         *)
(***************************************************************************)
LinksInverse == Circles(link, Node) /\ Circles(kin, KinNode)

(***************************************************************************)
(* No two sentinels are on one circle: a walk that starts at a list head   *)
(* meets PCBs only, so that container_of always yields a PCB.  A PCB on    *)
(* the circle of the free list is a free one, and none is missing from it. *)
(***************************************************************************)
OneSentinelPerCircle ==
  /\ \A h \in Queue : ToSet(Walk(link.next, h)) \subseteq Pcb \ free
  /\ ToSet(Walk(link.next, pcbFree_h)) = free

(***************************************************************************)
(* p_parent and the lists of children say the same: walking p_child of p   *)
(* meets the p_sib of exactly the PCBs whose p_parent is p.  outChild      *)
(* relies on it: it would silently leave a PCB in a list it does not look  *)
(* through.                                                                *)
(***************************************************************************)
ParentsAgree ==
  \A p \in Pcb : ToSet(Walk(kin.next, Child(p))) = {Sib(c) : c \in {x \in Pcb : p_parent[x] = p}}

(***************************************************************************)
(* The pointers implement the queues and the families of PcbSpec: nothing  *)
(* is lost or reordered, and every call returns the right PCB.             *)
(***************************************************************************)
Abstract ==
  INSTANCE PcbSpec WITH
    free     <- Walk(link.next, pcbFree_h),
    queue    <- [h \in Queue |-> Walk(link.next, h)],
    children <- [p \in Pcb |-> LET w == Walk(kin.next, Child(p))
                               IN  [i \in DOMAIN w |-> w[i][2]]]

ImplementsPcbSpec == Abstract!Spec
=============================================================================
