------------------------------- MODULE Listx -------------------------------
(***************************************************************************)
(* headers/listx.h: circular doubly linked lists with sentinels.  The      *)
(* links of all nodes are L = [next |-> ..., prev |-> ...], two functions  *)
(* on the nodes; an operation takes the links and returns the links that   *)
(* its pointer assignments leave.                                          *)
(***************************************************************************)
EXTENDS Integers, SequencesExt, FiniteSets

InitListHead(L, n) ==
  [next |-> [L.next EXCEPT ![n] = n], prev |-> [L.prev EXCEPT ![n] = n]]

ListAddOneWay(L, new, p, n) ==   \* mutant: next->prev = new is left out
  [next |-> [L.next EXCEPT ![new] = n, ![p] = new],
   prev |-> [L.prev EXCEPT ![new] = p]]

ListAdd(L, new, p, n) ==         \* __list_add: between p and n
  [next |-> [L.next EXCEPT ![new] = n, ![p] = new],
   prev |-> [L.prev EXCEPT ![n] = new, ![new] = p]]

ListAddHead(L, new, h) == ListAdd(L, new, h, L.next[h])   \* mutant: list_add
ListAddTail(L, new, h) == ListAdd(L, new, L.prev[h], h)

ListDel(L, n) ==
  [next |-> [L.next EXCEPT ![L.prev[n]] = L.next[n], ![n] = n],
   prev |-> [L.prev EXCEPT ![L.next[n]] = L.prev[n], ![n] = n]]

ListEmptyNever(L, h) == FALSE   \* mutant: the test is left out
ListEmpty(L, h) == L.next[h] = h

Linked(L, n) == L.next[n] # n \/ L.prev[n] # n

(***************************************************************************)
(* list_del when n is linked, then INIT_LIST_HEAD.                         *)
(***************************************************************************)
UnlinkNot(L, n) == InitListHead(L, n)   \* mutant: no list_del before the init
Unlink(L, n) == InitListHead(IF Linked(L, n) THEN ListDel(L, n) ELSE L, n)

(***************************************************************************)
(* The nodes list_for_each visits from h, in order, forwards along next or *)
(* backwards along prev: it stops when it is back at h.  (In lists that    *)
(* are not circles it would not stop; here it does, after all nodes.)      *)
(***************************************************************************)
Walk(succ, h) ==
  LET from[k \in 0 .. Cardinality(DOMAIN succ)] ==   \* at most k nodes from pos on
        [pos \in DOMAIN succ |->
           IF k = 0 \/ pos = h THEN <<>> ELSE <<pos>> \o from[k - 1][succ[pos]]]
  IN  from[Cardinality(DOMAIN succ)][succ[h]]

(***************************************************************************)
(* prev undoes next and next undoes prev, for every node: the links are    *)
(* disjoint circles that can be walked both ways.                          *)
(***************************************************************************)
Circles(L, Node) ==
  \A n \in Node : L.prev[L.next[n]] = n /\ L.next[L.prev[n]] = n
=============================================================================
