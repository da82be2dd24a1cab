-------------------------- MODULE MCNucleusOrder ---------------------------
(***************************************************************************)
(* Nucleus with five PCBs and the clock only: two or three processes can   *)
(* wait for it while one runs and others are ready, in an order that       *)
(* yields have made.  The value of the clock's semaphore is open or not.   *)
(* Every process has a support structure, so that nobody Dies; that would  *)
(* be the same step as TerminateSelf.                                      *)
(***************************************************************************)
EXTENDS MCNucleus

CONSTANTS p4, p5

MCFivePcb       == {p1, p2, p3, p4, p5}
MCNoUserSem     == {}
MCOpenOrNot     == -1
MCAllSupport    == {TRUE}
FivePcbSymmetry == Permutations(MCFivePcb)

(***************************************************************************)
(* A bound on the tree: nobody has a great-grandparent.                    *)
(***************************************************************************)
Grandparent(p)    == IF p_parent[p] = NULL THEN NULL ELSE p_parent[p_parent[p]]
ThreeGenerations ==
  \A p \in Live : Grandparent(p) # NULL => p_parent[Grandparent(p)] = NULL
=============================================================================
