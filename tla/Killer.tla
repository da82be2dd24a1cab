------------------------------- MODULE Killer -------------------------------
(***************************************************************************)
(* The recursive functions of exceptions.c, call by call.                  *)
(*                                                                         *)
(* Nucleus kills a subtree at once (Kill) and finds a pid by the set of    *)
(* PCBs the search reaches (Findable).  Here is what the code does inside  *)
(* that one step: processKiller and processFinder walk the tree, and       *)
(* processKiller takes it apart while it walks.  Interrupts are masked, so *)
(* nothing happens between two calls, and the properties compare what the  *)
(* recursion leaves behind with the step of Nucleus.                       *)
(*                                                                         *)
(* The order of siblings is abstracted, as in Nucleus: any child may be    *)
(* the first one of its parent's list.                                     *)
(***************************************************************************)
EXTENDS Nucleus

(***************************************************************************)
(* In the middle of processKiller: the arguments of the calls that have    *)
(* not returned, the innermost last, and what the calls have written.      *)
(***************************************************************************)
Called(p) ==
  [stack |-> <<p>>, free |-> pcbFree_h, parent |-> p_parent, child |-> p_child,
   semAdd |-> p_semAdd, procq |-> procq,
   count |-> processCount, soft |-> softblockcount]

(***************************************************************************)
(* while (!emptyChild(p)): removeChild(p) unlinks a child c and clears its *)
(* p_parent, and processKiller(c) is called.                               *)
(***************************************************************************)
DescendNot(K, c) ==  \* mutant: the child's own children are not visited
  [K EXCEPT !.parent = [K.parent EXCEPT ![c] = NULL],
            !.child = [K.child EXCEPT ![Last(K.stack)] = K.child[Last(K.stack)] \ {c}],
            !.free = K.free \cup {c},
            !.count = K.count - 1]

Descend(K, c) ==
  [K EXCEPT !.stack = Append(K.stack, c),
            !.parent = [K.parent EXCEPT ![c] = NULL],
            !.child = [K.child EXCEPT ![Last(K.stack)] = K.child[Last(K.stack)] \ {c}]]

(***************************************************************************)
(* No child is left.  outChild finds p in its parent's list, if p has a    *)
(* parent still; outBlocked takes p off its semaphore and clears p_semAdd, *)
(* and if it did not softblockcount may fall; freePcb; return.             *)
(***************************************************************************)
Bury(K) ==
  LET p      == Last(K.stack)
      q      == K.parent[p]
      linked == q # NULL /\ p \in K.child[q]
      s      == K.semAdd[p]
  IN  [stack  |-> Front(K.stack),
       free   |-> K.free \cup {p},
       parent |-> IF linked THEN [K.parent EXCEPT ![p] = NULL] ELSE K.parent,
       child  |-> IF linked THEN [K.child EXCEPT ![q] = K.child[q] \ {p}] ELSE K.child,
       semAdd |-> [K.semAdd EXCEPT ![p] = NULL],
       procq  |-> IF s = NULL THEN K.procq
                  ELSE [K.procq EXCEPT ![s] = OutProcQ(K.procq[s], p)],
       count  |-> K.count - 1,
       soft   |-> IF s \in SoftSem /\ p \notin ToSet(K.procq[s])
                  THEN K.soft - 1 ELSE K.soft]

KillerSteps(K) ==
  IF K.stack = <<>> THEN {K}
  ELSE IF K.child[Last(K.stack)] = {} THEN {Bury(K)}
  ELSE {Descend(K, c) : c \in K.child[Last(K.stack)]}

(***************************************************************************)
(* Every PCB is called for and returned from once.                         *)
(***************************************************************************)
Enough == 2 * MAXPROC

(***************************************************************************)
(* Where processKiller(p) may be after any number of calls and returns.    *)
(***************************************************************************)
processKiller(p) ==
  LET after[i \in 0 .. Enough] ==
        IF i = 0 THEN {Called(p)}
        ELSE UNION {KillerSteps(K) : K \in after[i - 1]}
  IN  after

-----------------------------------------------------------------------------
(***************************************************************************)
(* findProcess climbs from the caller to a PCB without parent.             *)
(***************************************************************************)
TopNot == current_process   \* mutant: the search starts at the caller
Top ==
  LET root[i \in 0 .. MAXPROC] ==
        IF i = 0 THEN current_process
        ELSE IF p_parent[root[i - 1]] = NULL THEN root[i - 1]
        ELSE p_parent[root[i - 1]]
  IN  root[MAXPROC]

(***************************************************************************)
(* In the middle of processFinder, for the pid of target: the calls that   *)
(* have not returned, the children their loops have not passed, and the    *)
(* result, with which all calls return as soon as there is one.            *)
(***************************************************************************)
Searching(target) ==
  [stack |-> <<Top>>, left |-> p_child,
   found |-> IF Top = target THEN target ELSE NULL]

Visit(F, c, target) ==
  [stack |-> Append(F.stack, c),
   left  |-> [F.left EXCEPT ![Last(F.stack)] = F.left[Last(F.stack)] \ {c}],
   found |-> IF c = target THEN c ELSE NULL]

Leave(F) == [F EXCEPT !.stack = Front(F.stack)]

FinderSteps(F, target) ==
  IF F.found # NULL \/ F.stack = <<>> THEN {F}
  ELSE IF F.left[Last(F.stack)] = {} THEN {Leave(F)}
  ELSE {Visit(F, c, target) : c \in F.left[Last(F.stack)]}

findProcess(target) ==
  LET after[i \in 0 .. Enough] ==
        IF i = 0 THEN {Searching(target)}
        ELSE UNION {FinderSteps(F, target) : F \in after[i - 1]}
  IN  after

-----------------------------------------------------------------------------
(***************************************************************************)
(* exceptions.h:8: processKiller kills p and all its progeny.  In whatever *)
(* order the children are met the recursion ends, within two steps for     *)
(* each PCB, and leaves the one state that Nucleus says: tree, free list,  *)
(* queues, p_semAdd and both counters.  No more calls are ever open than   *)
(* there are processes, which bounds the kernel stack.                     *)
(***************************************************************************)
KillerKills ==
  [][\A p \in Live : Kill(p) =>
       /\ \A i \in 0 .. Enough : \A K \in processKiller(p)[i] :
             Len(K.stack) <= processCount
       /\ processKiller(p)[Enough] =
            {[stack |-> <<>>, free |-> pcbFree_h', parent |-> p_parent',
              child |-> p_child', semAdd |-> p_semAdd', procq |-> procq',
              count |-> processCount', soft |-> softblockcount']}]_vars

(***************************************************************************)
(* exceptions.h:10-11: findProcess returns the PCB of a pid, or NULL.      *)
(* Climbing and searching both end, the PCB is found whenever it is in the *)
(* caller's tree, wherever both stand in it, and NULL is returned only     *)
(* when the whole tree has been searched.                                  *)
(***************************************************************************)
FinderFinds ==
  Running =>
    \A target \in Pcb :
      LET end == findProcess(target)[Enough]
      IN  /\ end # {}
          /\ \A F \in end : /\ F.found = IF target \in Findable THEN target ELSE NULL
                            /\ F.found = NULL => F.stack = <<>>
=============================================================================
