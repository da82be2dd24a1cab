-------------------------- MODULE ProcQueueProofs --------------------------
(***************************************************************************)
(* What the operators of ProcQueue do to a queue, for queues of any length *)
(* over any set of PCBs.                                                   *)
(*                                                                         *)
(* Induction over the length of a queue is replaced by the choice of a     *)
(* least counterexample (LeastExists, UpTo).                               *)
(***************************************************************************)
EXTENDS ProcQueue, TLAPS, WellFoundedInduction, SequenceTheorems

(***************************************************************************)
(* A set of natural numbers that is not empty has a least element.         *)
(***************************************************************************)
LEMMA LeastExists ==
  ASSUME NEW S \in SUBSET Nat, S # {}
  PROVE  \E x \in S : \A y \in S : x <= y
<1> DEFINE R == {ss \in Nat \X Nat : ss[1] < ss[2]}
<1>1. OpToRel(<, Nat) = R
  BY DEF OpToRel
<1>2. IsWellFoundedOn(R, Nat)
  BY <1>1, NatLessThanWellFounded
<1>3. PICK x \in S : \A y \in S : ~ (<<y, x>> \in R)
  <2> HIDE DEF R
  <2> QED BY <1>2, WFMin
<1>4. ASSUME NEW y \in S PROVE x <= y
  <2>1. x \in Nat /\ y \in Nat
    BY <1>4
  <2>2. y < x => <<y, x>> \in R
    BY <2>1
  <2> HIDE DEF R
  <2> QED BY <1>3, <1>4, <2>1, <2>2
<1> QED BY <1>4

(***************************************************************************)
(* The community modules' Min of a non-empty set is its least element.     *)
(***************************************************************************)
LEMMA MinIsLeast ==
  ASSUME NEW S \in SUBSET Nat, S # {}
  PROVE  Min(S) \in S /\ \A y \in S : Min(S) <= y
<1>1. \E x \in S : \A y \in S : x <= y
  BY LeastExists
<1> QED BY <1>1, Zenon DEF Min

(***************************************************************************)
(* The community modules' Max of a non-empty set of indices is its         *)
(* greatest element.                                                       *)
(***************************************************************************)
LEMMA MaxIsGreatest ==
  ASSUME NEW n \in Nat, NEW S \in SUBSET (1 .. n), S # {}
  PROVE  Max(S) \in S /\ \A y \in S : Max(S) >= y
<1> DEFINE U == {k \in Nat : \A y \in S : k >= y}
<1>1. n \in U
  OBVIOUS
<1>2. PICK k \in U : \A j \in U : k <= j
  BY <1>1, LeastExists
<1>3. k \in S
  <2>1. CASE k = 0
    <3>1. PICK y \in S : TRUE
      OBVIOUS
    <3>2. y \in 1 .. n /\ k >= y
      BY <1>2, <3>1
    <3> QED BY <2>1, <3>2
  <2>2. CASE k # 0 /\ k \notin S
    <3>1. k - 1 \in U
      BY <1>2, <2>2
    <3> QED BY <1>2, <3>1
  <2> QED BY <2>1, <2>2
<1>4. \E x \in S : \A y \in S : x >= y
  BY <1>2, <1>3
<1> QED BY <1>4, Zenon DEF Max

(***************************************************************************)
(* What SelectInSeq returns: the first index of a set of indices, or 0     *)
(* when the set is empty.                                                  *)
(***************************************************************************)
LEMMA FirstPosition ==
  ASSUME NEW n \in Nat, NEW S \in SUBSET (1 .. n)
  PROVE  LET l == IF S # {} THEN Min(S) ELSE 0
         IN  /\ l \in 0 .. n
             /\ l # 0 => l \in S
             /\ \A i \in 1 .. n : l = 0 \/ i < l => i \notin S
<1>1. CASE S = {}
  BY <1>1
<1>2. CASE S # {}
  <2>1. Min(S) \in S /\ \A y \in S : Min(S) <= y
    BY <1>2, MinIsLeast
  <2>2. Min(S) \in 1 .. n
    BY <2>1
  <2>3. \A i \in 1 .. n : i < Min(S) => i \notin S
    BY <2>1, <2>2
  <2> QED BY <1>2, <2>1, <2>2, <2>3
<1> QED BY <1>1, <1>2

(***************************************************************************)
(* What SelectLastInSeq returns: the last index of a set of indices, or 0  *)
(* when the set is empty.                                                  *)
(***************************************************************************)
LEMMA LastPosition ==
  ASSUME NEW n \in Nat, NEW S \in SUBSET (1 .. n)
  PROVE  LET l == IF S # {} THEN Max(S) ELSE 0
         IN  /\ l \in 0 .. n
             /\ l # 0 => l \in S
             /\ \A i \in 1 .. n : i > l => i \notin S
<1>1. CASE S = {}
  BY <1>1
<1>2. CASE S # {}
  <2>1. Max(S) \in S /\ \A y \in S : Max(S) >= y
    BY <1>2, MaxIsGreatest
  <2>2. Max(S) \in 1 .. n
    BY <2>1
  <2>3. \A i \in 1 .. n : i > Max(S) => i \notin S
    BY <2>1, <2>2
  <2> QED BY <1>2, <2>1, <2>2, <2>3
<1> QED BY <1>1, <1>2

-----------------------------------------------------------------------------
(***************************************************************************)
(* The place of insertProcQ is a position of the queue or its end.  Nobody *)
(* before it has a lower priority; whoever has no lower priority and has   *)
(* nobody lower before him is before it; and in a sorted queue everybody   *)
(* behind it has a lower priority.                                         *)
(***************************************************************************)
LEMMA InsertPosRange ==
  ASSUME NEW T, NEW q \in Seq(T), NEW prio \in [T -> Int], NEW p \in T
  PROVE  LET k == InsertPos(q, p, prio)
         IN  /\ k \in 1 .. Len(q) + 1
             /\ \A i \in 1 .. Len(q) : i < k => prio[q[i]] >= prio[p]
             /\ \A a \in 1 .. Len(q) :
                  /\ prio[q[a]] >= prio[p]
                  /\ \A i \in 1 .. Len(q) : i < a => prio[q[i]] >= prio[q[a]]
                  => a < k
             /\ IsPrioSorted(q, prio) =>
                  \A i \in 1 .. Len(q) : i >= k => prio[q[i]] < prio[p]
<1> DEFINE I == {i \in 1 .. Len(q) : prio[q[i]] < prio[p]}
           J == {i \in 1 .. Len(q) : prio[q[i]] = prio[p]}
           lower == IF I # {} THEN Min(I) ELSE 0
           equal == IF J # {} THEN Max(J) ELSE 0
           k == InsertPos(q, p, prio)
<1>1. Len(q) \in Nat /\ DOMAIN q = 1 .. Len(q)
  OBVIOUS
<1>2. \A i \in 1 .. Len(q) : q[i] \in T /\ prio[q[i]] \in Int
  OBVIOUS
<1>3. prio[p] \in Int
  OBVIOUS
<1>4. k = IF lower # 0 THEN lower
          ELSE IF equal # 0 THEN equal + 1 ELSE Len(q) + 1
  BY DEF InsertPos, SelectInSeq, SelectLastInSeq
<1>5. /\ lower \in 0 .. Len(q)
      /\ lower # 0 => lower \in I
      /\ \A i \in 1 .. Len(q) : lower = 0 \/ i < lower => i \notin I
  <2>1. I \in SUBSET (1 .. Len(q))
    OBVIOUS
  <2> HIDE DEF I
  <2> QED BY <1>1, <2>1, FirstPosition
<1>6. /\ equal \in 0 .. Len(q)
      /\ equal # 0 => equal \in J
      /\ \A i \in 1 .. Len(q) : i > equal => i \notin J
  <2>1. J \in SUBSET (1 .. Len(q))
    OBVIOUS
  <2> HIDE DEF J
  <2> QED BY <1>1, <2>1, LastPosition
<1>7. \A i \in 1 .. Len(q) : i \in I <=> prio[q[i]] < prio[p]
  OBVIOUS
<1>8. \A i \in 1 .. Len(q) : i \in J <=> prio[q[i]] = prio[p]
  OBVIOUS
<1> HIDE DEF I, J, lower, equal, k
<1>9. k \in 1 .. Len(q) + 1
  BY <1>1, <1>4, <1>5, <1>6
<1>10. ASSUME NEW i \in 1 .. Len(q), i < k PROVE prio[q[i]] >= prio[p]
  <2>1. i \notin I
    BY <1>1, <1>4, <1>5, <1>10
  <2> QED BY <1>2, <1>3, <1>7, <2>1
<1>11. ASSUME NEW a \in 1 .. Len(q), prio[q[a]] >= prio[p],
              \A i \in 1 .. Len(q) : i < a => prio[q[i]] >= prio[q[a]]
       PROVE  a < k
  <2>1. CASE lower # 0
    <3>1. k = lower /\ lower \in 1 .. Len(q) /\ prio[q[lower]] < prio[p]
      BY <1>1, <1>4, <1>5, <1>7, <2>1
    <3>2. ~ (lower < a) /\ lower # a
      BY <1>2, <1>3, <1>11, <3>1
    <3> QED BY <1>1, <3>1, <3>2
  <2>2. CASE lower = 0 /\ equal = 0
    BY <1>1, <1>4, <2>2
  <2>3. CASE lower = 0 /\ equal # 0
    <3>1. k = equal + 1 /\ equal \in 1 .. Len(q) /\ prio[q[equal]] = prio[p]
      BY <1>1, <1>4, <1>6, <1>8, <2>3
    <3>2. ~ (equal < a)
      <4> SUFFICES ASSUME equal < a PROVE FALSE
        OBVIOUS
      <4>1. prio[q[a]] = prio[p]
        BY <1>2, <1>3, <1>11, <3>1
      <4> QED BY <1>6, <1>8, <4>1
    <3> QED BY <1>1, <3>1, <3>2
  <2> QED BY <2>1, <2>2, <2>3
<1>12. ASSUME IsPrioSorted(q, prio), NEW i \in 1 .. Len(q), i >= k
       PROVE  prio[q[i]] < prio[p]
  <2>1. \A b \in 1 .. Len(q) : b < i => prio[q[b]] >= prio[q[i]]
    BY <1>1, <1>12 DEF IsPrioSorted
  <2>2. ~ (prio[q[i]] >= prio[p])
    BY <1>1, <1>9, <1>11, <1>12, <2>1
  <2> QED BY <1>2, <1>3, <2>2
<1> QED BY <1>9, <1>10, <1>11, <1>12 DEF k

-----------------------------------------------------------------------------
(***************************************************************************)
(* InsertAt, position by position.                                         *)
(***************************************************************************)
LEMMA InsertAtProperties ==
  ASSUME NEW T, NEW q \in Seq(T), NEW p \in T, NEW k \in 1 .. Len(q) + 1
  PROVE  LET r == InsertAt(q, k, p)
         IN  /\ r \in Seq(T)
             /\ Len(r) = Len(q) + 1
             /\ \A i \in 1 .. Len(q) + 1 :
                  r[i] = IF i < k THEN q[i] ELSE IF i = k THEN p ELSE q[i - 1]
<1> DEFINE a == SubSeq(q, 1, k - 1)
           b == SubSeq(q, k, Len(q))
           c == a \o <<p>>
<1>1. Len(q) \in Nat /\ \A i \in 1 .. Len(q) : q[i] \in T
  OBVIOUS
<1>2. /\ a \in Seq(T)
      /\ Len(a) = k - 1
      /\ \A i \in 1 .. k - 1 : a[i] = q[i]
  <2>1. \A i \in 1 .. k - 1 : q[i] \in T
    BY <1>1
  <2>2. Len(a) = (IF 1 <= k - 1 THEN k - 1 - 1 + 1 ELSE 0)
    BY <1>1, <2>1, SubSeqProperties
  <2>3. \A i \in 1 .. k - 1 - 1 + 1 : a[i] = q[1 + i - 1]
    BY <1>1, <2>1, SubSeqProperties
  <2>4. a \in Seq(T)
    BY <1>1, <2>1, SubSeqProperties
  <2> HIDE DEF a
  <2> QED BY <1>1, <2>2, <2>3, <2>4
<1>3. /\ b \in Seq(T)
      /\ Len(b) = Len(q) - k + 1
      /\ \A i \in 1 .. Len(q) - k + 1 : b[i] = q[k + i - 1]
  <2>1. \A i \in k .. Len(q) : q[i] \in T
    BY <1>1
  <2>2. Len(b) = (IF k <= Len(q) THEN Len(q) - k + 1 ELSE 0)
    BY <1>1, <2>1, SubSeqProperties
  <2>3. b \in Seq(T) /\ \A i \in 1 .. Len(q) - k + 1 : b[i] = q[k + i - 1]
    BY <1>1, <2>1, SubSeqProperties
  <2> HIDE DEF b
  <2> QED BY <1>1, <2>2, <2>3
<1>4. <<p>> \in Seq(T) /\ Len(<<p>>) = 1 /\ <<p>>[1] = p
  OBVIOUS
<1> HIDE DEF a, b
<1>5. /\ c \in Seq(T)
      /\ Len(c) = k
      /\ \A i \in 1 .. k : c[i] = IF i <= k - 1 THEN q[i] ELSE p
  <2>1. /\ c \in Seq(T)
        /\ Len(c) = Len(a) + Len(<<p>>)
        /\ \A i \in 1 .. Len(a) + Len(<<p>>) :
             c[i] = IF i <= Len(a) THEN a[i] ELSE <<p>>[i - Len(a)]
    BY <1>2, <1>4, ConcatProperties
  <2> HIDE DEF c
  <2> QED BY <1>1, <1>2, <1>4, <2>1
<1> HIDE DEF c
<1>6. /\ c \o b \in Seq(T)
      /\ Len(c \o b) = Len(c) + Len(b)
      /\ \A i \in 1 .. Len(c) + Len(b) :
           (c \o b)[i] = IF i <= Len(c) THEN c[i] ELSE b[i - Len(c)]
  BY <1>3, <1>5, ConcatProperties
<1>7. InsertAt(q, k, p) = c \o b
  BY DEF InsertAt, a, b, c
<1>8. Len(c) + Len(b) = Len(q) + 1
  BY <1>1, <1>3, <1>5
<1>9. ASSUME NEW i \in 1 .. Len(q) + 1
      PROVE  (c \o b)[i] = IF i < k THEN q[i] ELSE IF i = k THEN p ELSE q[i - 1]
  <2>1. CASE i <= k
    BY <1>1, <1>5, <1>6, <1>8, <2>1
  <2>2. CASE i > k
    <3>1. i - k \in 1 .. Len(q) - k + 1
      BY <1>1, <2>2
    <3>2. b[i - k] = q[k + (i - k) - 1]
      BY <1>3, <3>1
    <3>3. (c \o b)[i] = b[i - k]
      BY <1>1, <1>5, <1>6, <1>8, <2>2
    <3> QED BY <1>1, <2>2, <3>2, <3>3
  <2>3. i <= k \/ i > k
    BY <1>1
  <2> QED BY <2>1, <2>2, <2>3
<1> QED BY <1>6, <1>7, <1>8, <1>9

(***************************************************************************)
(* insertProcQ adds its PCB and nothing else, does not make a PCB stand    *)
(* twice, and keeps a sorted queue sorted.                                 *)
(***************************************************************************)
LEMMA InsertProcQProperties ==
  ASSUME NEW T, NEW q \in Seq(T), NEW prio \in [T -> Int], NEW p \in T
  PROVE  LET r == InsertProcQ(q, p, prio)
         IN  /\ r \in Seq(T)
             /\ Len(r) = Len(q) + 1
             /\ ToSet(r) = ToSet(q) \cup {p}
             /\ IsInjective(q) /\ p \notin ToSet(q) => IsInjective(r)
             /\ IsPrioSorted(q, prio) => IsPrioSorted(r, prio)
<1> DEFINE k == InsertPos(q, p, prio)
           r == InsertProcQ(q, p, prio)
<1>1. Len(q) \in Nat /\ DOMAIN q = 1 .. Len(q)
  OBVIOUS
<1>2. k \in 1 .. Len(q) + 1 /\ k \in Nat
  BY InsertPosRange
<1>3. r = InsertAt(q, k, p)
  BY DEF InsertProcQ
<1> HIDE DEF k
<1>4. /\ r \in Seq(T)
      /\ Len(r) = Len(q) + 1
      /\ \A i \in 1 .. Len(q) + 1 :
           r[i] = IF i < k THEN q[i] ELSE IF i = k THEN p ELSE q[i - 1]
  <2>1. /\ InsertAt(q, k, p) \in Seq(T)
        /\ Len(InsertAt(q, k, p)) = Len(q) + 1
        /\ \A i \in 1 .. Len(q) + 1 :
             InsertAt(q, k, p)[i] =
               IF i < k THEN q[i] ELSE IF i = k THEN p ELSE q[i - 1]
    BY <1>2, InsertAtProperties
  <2> QED BY <1>3, <2>1
<1> HIDE DEF r
<1>5. DOMAIN r = 1 .. Len(q) + 1
  BY <1>4
<1>6. \A i \in 1 .. Len(q) : r[IF i < k THEN i ELSE i + 1] = q[i]
  BY <1>1, <1>2, <1>4
<1>7. r[k] = p
  <2>1. r[k] = IF k < k THEN q[k] ELSE IF k = k THEN p ELSE q[k - 1]
    BY <1>2, <1>4, Zenon
  <2> QED BY <1>2, <2>1
<1>8. ToSet(r) = ToSet(q) \cup {p}
  <2>1. ASSUME NEW x \in ToSet(r) PROVE x \in ToSet(q) \cup {p}
    <3>1. PICK i \in 1 .. Len(q) + 1 : r[i] = x
      BY <1>5, <2>1 DEF ToSet
    <3>2. CASE i < k
      <4>1. i \in 1 .. Len(q) /\ r[i] = q[i]
        BY <1>1, <1>2, <1>4, <3>2
      <4> QED BY <1>1, <3>1, <4>1 DEF ToSet
    <3>3. CASE i = k
      BY <1>7, <3>1, <3>3
    <3>4. CASE i > k
      <4>1. i - 1 \in 1 .. Len(q) /\ r[i] = q[i - 1]
        BY <1>1, <1>2, <1>4, <3>4
      <4> QED BY <1>1, <3>1, <4>1 DEF ToSet
    <3> QED BY <1>2, <3>2, <3>3, <3>4
  <2>2. ASSUME NEW x \in ToSet(q) PROVE x \in ToSet(r)
    <3>1. PICK i \in 1 .. Len(q) : q[i] = x
      BY <1>1, <2>2 DEF ToSet
    <3>2. (IF i < k THEN i ELSE i + 1) \in 1 .. Len(q) + 1
      BY <1>1, <1>2
    <3> QED BY <1>5, <1>6, <3>1, <3>2 DEF ToSet
  <2>3. p \in ToSet(r)
    BY <1>2, <1>5, <1>7 DEF ToSet
  <2> QED BY <2>1, <2>2, <2>3
<1>9. ASSUME IsInjective(q), p \notin ToSet(q) PROVE IsInjective(r)
  <2>1. \A i \in 1 .. Len(q) : q[i] # p
    BY <1>1, <1>9 DEF ToSet
  <2>2. \A i, j \in 1 .. Len(q) : q[i] = q[j] => i = j
    BY <1>1, <1>9 DEF IsInjective
  <2>3. ASSUME NEW i \in 1 .. Len(q) + 1, NEW j \in 1 .. Len(q) + 1, r[i] = r[j]
        PROVE  i = j
    <3>1. \A a \in 1 .. Len(q) + 1 : a # k => r[a] # p
      BY <1>1, <1>2, <1>4, <2>1
    <3>2. CASE i = k \/ j = k
      BY <1>7, <2>3, <3>1, <3>2
    <3>3. CASE i # k /\ j # k
      <4> DEFINE old(a) == IF a < k THEN a ELSE a - 1
      <4>1. \A a \in 1 .. Len(q) + 1 :
              a # k => old(a) \in 1 .. Len(q) /\ r[a] = q[old(a)]
        BY <1>1, <1>2, <1>4
      <4>2. old(i) = old(j)
        BY <2>2, <2>3, <3>3, <4>1
      <4> QED BY <1>2, <3>3, <4>2
    <3> QED BY <3>2, <3>3
  <2> QED BY <1>5, <2>3 DEF IsInjective
<1>10. ASSUME IsPrioSorted(q, prio) PROVE IsPrioSorted(r, prio)
  <2>1. \A i, j \in 1 .. Len(q) : i < j => prio[q[i]] >= prio[q[j]]
    BY <1>1, <1>10 DEF IsPrioSorted
  <2>2. \A i \in 1 .. Len(q) : /\ i < k => prio[q[i]] >= prio[p]
                               /\ i >= k => prio[q[i]] < prio[p]
    BY <1>10, InsertPosRange DEF k
  <2>3. prio[p] \in Int /\ \A i \in 1 .. Len(q) : prio[q[i]] \in Int
    OBVIOUS
  <2>4. ASSUME NEW i \in 1 .. Len(q) + 1, NEW j \in 1 .. Len(q) + 1, i < j
        PROVE  prio[r[i]] >= prio[r[j]]
    <3>1. CASE j < k
      BY <1>1, <1>2, <1>4, <2>1, <2>4, <3>1
    <3>2. CASE j = k
      BY <1>1, <1>2, <1>4, <2>2, <2>4, <3>2
    <3>3. CASE j > k /\ i <= k
      <4>1. /\ j - 1 \in 1 .. Len(q) /\ j - 1 >= k
            /\ r[j] = q[j - 1]
        BY <1>1, <1>2, <1>4, <3>3
      <4>2. prio[r[j]] < prio[p] /\ prio[r[j]] \in Int
        BY <2>2, <2>3, <4>1
      <4>3. CASE i = k
        BY <1>7, <2>3, <4>2, <4>3
      <4>4. CASE i < k
        <5>1. i \in 1 .. Len(q) /\ r[i] = q[i]
          BY <1>1, <1>2, <1>4, <4>4
        <5>2. prio[r[i]] >= prio[p] /\ prio[r[i]] \in Int
          BY <2>2, <2>3, <4>4, <5>1
        <5> QED BY <2>3, <4>2, <5>2
      <4> QED BY <1>2, <3>3, <4>3, <4>4
    <3>5. CASE j > k /\ i > k
      <4>1. i - 1 \in 1 .. Len(q) /\ j - 1 \in 1 .. Len(q) /\ i - 1 < j - 1
        BY <1>1, <1>2, <2>4, <3>5
      <4>2. r[i] = q[i - 1] /\ r[j] = q[j - 1]
        BY <1>1, <1>2, <1>4, <3>5
      <4> QED BY <2>1, <4>1, <4>2
    <3> QED BY <1>1, <1>2, <3>1, <3>2, <3>3, <3>5
  <2> QED BY <1>5, <2>4 DEF IsPrioSorted
<1> QED BY <1>4, <1>8, <1>9, <1>10 DEF r

(***************************************************************************)
(* removeProcQ takes the head out and leaves the rest as it is.            *)
(***************************************************************************)
LEMMA HeadTailPlaces ==
  ASSUME NEW T, NEW q \in Seq(T), q # <<>>
  PROVE  /\ Head(q) \in T
         /\ Tail(q) \in Seq(T)
         /\ Len(Tail(q)) = Len(q) - 1
         /\ \A i \in 1 .. Len(q) - 1 : Tail(q)[i] = q[i + 1]
         /\ ToSet(q) = ToSet(Tail(q)) \cup {Head(q)}
         /\ IsInjective(q) => IsInjective(Tail(q)) /\ Head(q) \notin ToSet(Tail(q))
<1>1. /\ Len(q) \in Nat \ {0}
      /\ DOMAIN q = 1 .. Len(q)
      /\ \A i \in 1 .. Len(q) : q[i] \in T
  OBVIOUS
<1>2. /\ Head(q) = q[1] /\ Head(q) \in T
      /\ Tail(q) \in Seq(T)
      /\ Len(Tail(q)) = Len(q) - 1
      /\ DOMAIN Tail(q) = 1 .. Len(q) - 1
      /\ \A i \in 1 .. Len(q) - 1 : Tail(q)[i] = q[i + 1]
  OBVIOUS
<1>3. ToSet(q) = ToSet(Tail(q)) \cup {Head(q)}
  <2>1. ASSUME NEW x \in ToSet(q) PROVE x \in ToSet(Tail(q)) \cup {Head(q)}
    <3>1. PICK i \in 1 .. Len(q) : q[i] = x
      BY <1>1, <2>1 DEF ToSet
    <3>2. CASE i = 1
      BY <1>2, <3>1, <3>2
    <3>3. CASE i # 1
      <4>1. i - 1 \in 1 .. Len(q) - 1 /\ Tail(q)[i - 1] = x
        BY <1>1, <1>2, <3>1, <3>3
      <4> QED BY <1>2, <4>1 DEF ToSet
    <3> QED BY <3>2, <3>3
  <2>2. ASSUME NEW x \in ToSet(Tail(q)) PROVE x \in ToSet(q)
    <3>1. PICK i \in 1 .. Len(q) - 1 : Tail(q)[i] = x
      BY <1>2, <2>2 DEF ToSet
    <3>2. i + 1 \in 1 .. Len(q) /\ q[i + 1] = x
      BY <1>1, <1>2, <3>1
    <3> QED BY <1>1, <3>2 DEF ToSet
  <2>3. Head(q) \in ToSet(q)
    BY <1>1, <1>2 DEF ToSet
  <2> QED BY <2>1, <2>2, <2>3
<1>4. ASSUME IsInjective(q)
      PROVE  IsInjective(Tail(q)) /\ Head(q) \notin ToSet(Tail(q))
  <2>1. \A i, j \in 1 .. Len(q) : q[i] = q[j] => i = j
    BY <1>1, <1>4 DEF IsInjective
  <2>2. ASSUME NEW i \in 1 .. Len(q) - 1, NEW j \in 1 .. Len(q) - 1,
               Tail(q)[i] = Tail(q)[j]
        PROVE  i = j
    <3>1. i + 1 \in 1 .. Len(q) /\ j + 1 \in 1 .. Len(q) /\ q[i + 1] = q[j + 1]
      BY <1>1, <1>2, <2>2
    <3>2. i + 1 = j + 1
      BY <2>1, <3>1
    <3> QED BY <1>1, <3>2
  <2>3. ASSUME NEW i \in 1 .. Len(q) - 1, Tail(q)[i] = q[1]
        PROVE  FALSE
    <3>1. i + 1 \in 1 .. Len(q) /\ q[i + 1] = q[1] /\ 1 \in 1 .. Len(q)
      BY <1>1, <1>2, <2>3
    <3>2. i + 1 = 1
      BY <2>1, <3>1
    <3> QED BY <1>1, <3>2
  <2> QED BY <1>2, <2>2, <2>3 DEF IsInjective, ToSet
<1> QED BY <1>2, <1>3, <1>4

(***************************************************************************)
(* list_add_tail.                                                          *)
(***************************************************************************)
LEMMA AppendPlaces ==
  ASSUME NEW T, NEW q \in Seq(T), NEW p \in T
  PROVE  /\ Append(q, p) \in Seq(T)
         /\ Append(q, p) # <<>>
         /\ Len(Append(q, p)) = Len(q) + 1
         /\ ToSet(Append(q, p)) = ToSet(q) \cup {p}
         /\ IsInjective(q) /\ p \notin ToSet(q) => IsInjective(Append(q, p))
<1> DEFINE r == Append(q, p)
<1>1. Len(q) \in Nat /\ DOMAIN q = 1 .. Len(q)
  OBVIOUS
<1>2. /\ r \in Seq(T) /\ r # <<>>
      /\ Len(r) = Len(q) + 1
      /\ \A i \in 1 .. Len(q) : r[i] = q[i]
      /\ r[Len(q) + 1] = p
  BY AppendProperties
<1>3. DOMAIN r = 1 .. Len(q) + 1
  BY <1>2
<1> HIDE DEF r
<1>4. ToSet(r) = ToSet(q) \cup {p}
  <2>1. ASSUME NEW x \in ToSet(r) PROVE x \in ToSet(q) \cup {p}
    <3>1. PICK i \in 1 .. Len(q) + 1 : r[i] = x
      BY <1>3, <2>1 DEF ToSet
    <3>2. CASE i = Len(q) + 1
      BY <1>2, <3>1, <3>2
    <3>3. CASE i # Len(q) + 1
      <4>1. i \in 1 .. Len(q) /\ q[i] = x
        BY <1>1, <1>2, <3>1, <3>3
      <4> QED BY <1>1, <4>1 DEF ToSet
    <3> QED BY <3>2, <3>3
  <2>2. ASSUME NEW x \in ToSet(q) PROVE x \in ToSet(r)
    <3>1. PICK i \in 1 .. Len(q) : q[i] = x
      BY <1>1, <2>2 DEF ToSet
    <3>2. i \in 1 .. Len(q) + 1 /\ r[i] = x
      BY <1>1, <1>2, <3>1
    <3> QED BY <1>3, <3>2 DEF ToSet
  <2>3. Len(q) + 1 \in 1 .. Len(q) + 1
    BY <1>1
  <2>4. p \in ToSet(r)
    BY <1>2, <1>3, <2>3 DEF ToSet
  <2> QED BY <2>1, <2>2, <2>4
<1>5. ASSUME IsInjective(q), p \notin ToSet(q) PROVE IsInjective(r)
  <2>1. \A i \in 1 .. Len(q) : q[i] # p
    BY <1>1, <1>5 DEF ToSet
  <2>2. \A i, j \in 1 .. Len(q) : q[i] = q[j] => i = j
    BY <1>1, <1>5 DEF IsInjective
  <2>3. \A i \in 1 .. Len(q) + 1 : i = Len(q) + 1 \/ i \in 1 .. Len(q)
    BY <1>1
  <2>4. ASSUME NEW i \in 1 .. Len(q) + 1, NEW j \in 1 .. Len(q) + 1, r[i] = r[j]
        PROVE  i = j
    BY <1>2, <2>1, <2>2, <2>3, <2>4
  <2> QED BY <1>3, <2>4 DEF IsInjective
<1> QED BY <1>2, <1>4, <1>5 DEF r

-----------------------------------------------------------------------------

(***************************************************************************)
(* Induction up to n, for a set of indices.                                *)
(***************************************************************************)
LEMMA UpTo ==
  ASSUME NEW n \in Nat, NEW S, 0 \in S,
         \A k \in 1 .. n : k - 1 \in S => k \in S
  PROVE  \A k \in 0 .. n : k \in S
<1> DEFINE Bad == {k \in 0 .. n : k \notin S}
<1> SUFFICES ASSUME Bad # {} PROVE FALSE
  OBVIOUS
<1>1. Bad \in SUBSET Nat
  OBVIOUS
<1>2. PICK k \in Bad : \A j \in Bad : k <= j
  <2> HIDE DEF Bad
  <2> QED BY <1>1, LeastExists
<1>3. k \in 1 .. n /\ k \notin S
  BY <1>2
<1>4. k - 1 \in Bad
  BY <1>3
<1> QED BY <1>2, <1>3, <1>4

(***************************************************************************)
(* A loop that starts with a and whose k-th round applies G[k] has a       *)
(* result: the function its definition speaks of exists.                   *)
(***************************************************************************)
IsLoop(f, n, a, G) == f[0] = a /\ \A k \in 1 .. n : f[k] = G[k][f[k - 1]]

(***************************************************************************)
(* Every loop of n rounds has a result.                                    *)
(***************************************************************************)
LEMMA LoopExists ==
  ASSUME NEW X, NEW n \in Nat, NEW a \in X, NEW G \in [1 .. n -> [X -> X]]
  PROVE  \E f \in [0 .. n -> X] : IsLoop(f, n, a, G)
<1> USE DEF IsLoop
<1> DEFINE Good(m) == \E f \in [0 .. m -> X] :
                        /\ f[0] = a
                        /\ \A k \in 1 .. m : f[k] = G[k][f[k - 1]]
           S == {m \in 0 .. n : Good(m)}
<1>1. Good(0)
  <2> DEFINE z == [k \in 0 .. 0 |-> a]
  <2>1. z \in [0 .. 0 -> X] /\ z[0] = a
    OBVIOUS
  <2>2. ASSUME NEW k \in 1 .. 0 PROVE FALSE
    OBVIOUS
  <2> HIDE DEF z
  <2> QED BY <2>1, <2>2
<1>2. ASSUME NEW m \in 1 .. n, Good(m - 1) PROVE Good(m)
  <2>1. PICK f \in [0 .. m - 1 -> X] :
           /\ f[0] = a
           /\ \A k \in 1 .. m - 1 : f[k] = G[k][f[k - 1]]
    BY <1>2
  <2> DEFINE y == G[m][f[m - 1]]
             g == [k \in 0 .. m |-> IF k = m THEN y ELSE f[k]]
  <2>2. y \in X
    <3>1. f[m - 1] \in X
      BY <2>1
    <3>2. G[m] \in [X -> X]
      OBVIOUS
    <3> QED BY <3>1, <3>2
  <2>3. g \in [0 .. m -> X]
    BY <2>1, <2>2
  <2>4. g[0] = a
    BY <2>1
  <2>5. ASSUME NEW k \in 1 .. m PROVE g[k] = G[k][g[k - 1]]
    <3>1. CASE k = m
      BY <3>1
    <3>2. CASE k # m
      <4>1. k \in 1 .. m - 1 /\ g[k] = f[k] /\ g[k - 1] = f[k - 1]
        BY <3>2
      <4> QED BY <2>1, <4>1
    <3> QED BY <3>1, <3>2
  <2> HIDE DEF g
  <2> QED BY <2>3, <2>4, <2>5
<1>3. 0 \in S
  BY <1>1
<1>4. ASSUME NEW k \in 1 .. n, k - 1 \in S PROVE k \in S
  <2> HIDE DEF Good
  <2> QED BY <1>2, <1>4
<1>5. \A k \in 0 .. n : k \in S
  <2> HIDE DEF S
  <2> QED BY <1>3, <1>4, UpTo
<1> QED BY <1>5

(***************************************************************************)
(* The rounds of the loop that takes the PCBs of D out of a queue.         *)
(***************************************************************************)
Kept(q, D, kept) ==
  /\ kept[0] = <<>>
  /\ \A k \in 1 .. Len(q) :
        kept[k] = IF q[k] \in D THEN kept[k - 1] ELSE Append(kept[k - 1], q[k])

(***************************************************************************)
(* The loop has a result, and Without is what it leaves.                   *)
(***************************************************************************)
LEMMA WithoutLoop ==
  ASSUME NEW T, NEW q \in Seq(T), NEW D
  PROVE  \E kept : Kept(q, D, kept) /\ Without(q, D) = kept[Len(q)]
<1> DEFINE n == Len(q)
           turn(k, s) == IF q[k] \in D THEN s ELSE Append(s, q[k])
           F(f) == [k \in 0 .. n |-> IF k = 0 THEN <<>> ELSE turn(k, f[k - 1])]
           kept == CHOOSE f : f = F(f)
           G == [k \in 1 .. n |-> [s \in Seq(T) |-> turn(k, s)]]
<1>1. n \in Nat /\ DOMAIN q = 1 .. n /\ \A k \in 1 .. n : q[k] \in T
  OBVIOUS
<1>2. \E f : f = F(f)
  <2>1. \A k \in 1 .. n, s \in Seq(T) : turn(k, s) \in Seq(T)
    BY <1>1
  <2>2. G \in [1 .. n -> [Seq(T) -> Seq(T)]]
    <3> HIDE DEF turn
    <3> QED BY <2>1
  <2>3. <<>> \in Seq(T)
    OBVIOUS
  <2>4. PICK f \in [0 .. n -> Seq(T)] :
          f[0] = <<>> /\ \A k \in 1 .. n : f[k] = G[k][f[k - 1]]
    <3> DEFINE X == Seq(T)
               e == <<>>
    <3>1. n \in Nat /\ e \in X /\ G \in [1 .. n -> [X -> X]]
      BY <1>1, <2>2, <2>3
    <3> HIDE DEF X, e, G, n
    <3>2. \E f \in [0 .. n -> X] : IsLoop(f, n, e, G)
      BY <3>1, LoopExists
    <3> QED BY <3>2 DEF X, e, IsLoop
  <2>5. ASSUME NEW k \in 1 .. n PROVE f[k] = turn(k, f[k - 1])
    <3>1. k - 1 \in 0 .. n
      BY <1>1
    <3>2. f[k - 1] \in Seq(T)
      BY <2>4, <3>1
    <3>3. G[k][f[k - 1]] = turn(k, f[k - 1])
      <4> HIDE DEF turn
      <4> QED BY <3>2
    <3>4. f[k] = G[k][f[k - 1]]
      BY <2>4
    <3> HIDE DEF turn, G
    <3> QED BY <3>3, <3>4
  <2>6. f = F(f)
    <3> HIDE DEF turn, G
    <3> QED BY <1>1, <2>4, <2>5
  <2> QED BY <2>6
<1>3. kept = F(kept)
  <2> HIDE DEF F
  <2> QED BY <1>2, Zenon
<1>4. Without(q, D) = kept[n]
  BY Zenon DEF Without
<1> HIDE DEF kept
<1>5. kept[0] = <<>> /\ \A k \in 1 .. n : kept[k] = turn(k, kept[k - 1])
  <2> HIDE DEF turn
  <2>1. \A k \in 0 .. n : kept[k] = IF k = 0 THEN <<>> ELSE turn(k, kept[k - 1])
    BY <1>3, Zenon
  <2> QED BY <1>1, <2>1
<1> QED
  <2> HIDE DEF turn
  <2>1. \A k \in 1 .. n : turn(k, kept[k - 1]) =
          IF q[k] \in D THEN kept[k - 1] ELSE Append(kept[k - 1], q[k])
    BY DEF turn
  <2> QED BY <1>4, <1>5, <2>1 DEF Kept

(***************************************************************************)
(* What is left when the PCBs of D are taken out one after another.        *)
(***************************************************************************)
LEMMA WithoutProperties ==
  ASSUME NEW T, NEW q \in Seq(T), NEW D
  PROVE  LET r == Without(q, D)
         IN  /\ r \in Seq(T)
             /\ Len(r) <= Len(q)
             /\ ToSet(r) = ToSet(q) \ D
             /\ IsInjective(q) => IsInjective(r)
<1> DEFINE n == Len(q)
<1>1. n \in Nat /\ DOMAIN q = 1 .. n /\ \A k \in 1 .. n : q[k] \in T
  OBVIOUS
<1>2. PICK kept : Kept(q, D, kept) /\ Without(q, D) = kept[n]
  BY WithoutLoop
<1>4. Without(q, D) = kept[n]
  BY <1>2
<1>5. /\ kept[0] = <<>>
      /\ \A k \in 1 .. n : kept[k] = IF q[k] \in D THEN kept[k - 1]
                                     ELSE Append(kept[k - 1], q[k])
  BY <1>2 DEF Kept
<1> DEFINE upTo(k) == {q[i] : i \in 1 .. k}
           S == {k \in 0 .. n :
                   /\ kept[k] \in Seq(T)
                   /\ Len(kept[k]) <= k
                   /\ ToSet(kept[k]) = upTo(k) \ D
                   /\ IsInjective(q) => IsInjective(kept[k])}
<1>6. 0 \in S
  <2>1. <<>> \in Seq(T) /\ Len(<<>>) = 0
    OBVIOUS
  <2>2. ToSet(<<>>) = {} /\ IsInjective(<<>>)
    BY DEF ToSet, IsInjective
  <2>3. upTo(0) = {}
    OBVIOUS
  <2>4. Len(<<>>) <= 0
    BY <2>1
  <2>5. /\ kept[0] \in Seq(T)
        /\ Len(kept[0]) <= 0
        /\ ToSet(kept[0]) = {}
        /\ IsInjective(kept[0])
    BY <1>5, <2>1, <2>2, <2>4, Zenon
  <2> HIDE DEF upTo
  <2> QED BY <1>1, <2>3, <2>5
<1>7. ASSUME NEW k \in 1 .. n, k - 1 \in S PROVE k \in S
  <2>1. /\ kept[k - 1] \in Seq(T)
        /\ Len(kept[k - 1]) <= k - 1
        /\ ToSet(kept[k - 1]) = upTo(k - 1) \ D
        /\ IsInjective(q) => IsInjective(kept[k - 1])
    BY <1>7
  <2>2. upTo(k) = upTo(k - 1) \cup {q[k]}
    <3>1. \A i \in 1 .. k : i = k \/ i \in 1 .. k - 1
      BY <1>1
    <3>2. \A i \in 1 .. k - 1 : i \in 1 .. k
      BY <1>1
    <3>3. k \in 1 .. k
      BY <1>1
    <3> QED BY <3>1, <3>2, <3>3
  <2>3. CASE q[k] \in D
    <3>1. kept[k] = kept[k - 1]
      BY <1>5, <2>3
    <3>2. Len(kept[k]) <= k
      BY <1>1, <2>1, <3>1
    <3> HIDE DEF upTo
    <3> QED BY <2>1, <2>2, <2>3, <3>1, <3>2
  <2>4. CASE q[k] \notin D
    <3>1. kept[k] = Append(kept[k - 1], q[k]) /\ q[k] \in T
      BY <1>1, <1>5, <2>4
    <3>2. /\ kept[k] \in Seq(T)
          /\ Len(kept[k]) = Len(kept[k - 1]) + 1
          /\ ToSet(kept[k]) = ToSet(kept[k - 1]) \cup {q[k]}
          /\ IsInjective(kept[k - 1]) /\ q[k] \notin ToSet(kept[k - 1])
             => IsInjective(kept[k])
      BY <2>1, <3>1, AppendPlaces
    <3>3. Len(kept[k]) <= k
      <4>1. Len(kept[k - 1]) \in Nat
        BY <2>1
      <4> QED BY <1>1, <2>1, <3>2, <4>1
    <3>4. IsInjective(q) => q[k] \notin upTo(k - 1)
      <4>1. \A i \in 1 .. k - 1 : i \in 1 .. n /\ i # k
        BY <1>1
      <4> QED BY <1>1, <4>1 DEF IsInjective
    <3> HIDE DEF upTo
    <3> QED BY <2>1, <2>2, <2>4, <3>2, <3>3, <3>4
  <2> QED BY <2>3, <2>4
<1>8. n \in S
  <2> HIDE DEF S
  <2>1. \A k \in 0 .. n : k \in S
    BY <1>1, <1>6, <1>7, UpTo
  <2> QED BY <1>1, <2>1
<1>9. upTo(n) = ToSet(q)
  BY <1>1 DEF ToSet
<1> HIDE DEF upTo
<1> QED BY <1>4, <1>8, <1>9

(***************************************************************************)
(* The loop of insertions of InsertAll, and that InsertAll is its result.  *)
(***************************************************************************)
Filled(q, w, prio, filled) ==
  /\ filled[0] = q
  /\ \A k \in 1 .. Len(w) : filled[k] = InsertProcQ(filled[k - 1], w[k], prio)

LEMMA InsertAllLoop ==
  ASSUME NEW T, NEW q \in Seq(T), NEW w \in Seq(T), NEW prio \in [T -> Int]
  PROVE  \E filled : Filled(q, w, prio, filled) /\ InsertAll(q, w, prio) = filled[Len(w)]
<1> DEFINE n == Len(w)
           turn(k, s) == InsertProcQ(s, w[k], prio)
           F(f) == [k \in 0 .. n |-> IF k = 0 THEN q ELSE turn(k, f[k - 1])]
           filled == CHOOSE f : f = F(f)
           G == [k \in 1 .. n |-> [s \in Seq(T) |-> turn(k, s)]]
<1>1. n \in Nat /\ DOMAIN w = 1 .. n /\ \A k \in 1 .. n : w[k] \in T
  OBVIOUS
<1>2. ASSUME NEW k \in 1 .. n, NEW s \in Seq(T)
      PROVE  turn(k, s) \in Seq(T)
  <2> HIDE DEF turn, F, filled, G, n
  <2>1. w[k] \in T
    BY <1>1
  <2> QED BY <2>1, InsertProcQProperties DEF turn
<1> HIDE DEF turn
<1>3. \E f : f = F(f)
  <2>1. G \in [1 .. n -> [Seq(T) -> Seq(T)]]
    BY <1>2
  <2>2. PICK f \in [0 .. n -> Seq(T)] :
          f[0] = q /\ \A k \in 1 .. n : f[k] = G[k][f[k - 1]]
    <3> DEFINE X == Seq(T)
    <3>1. n \in Nat /\ q \in X /\ G \in [1 .. n -> [X -> X]]
      BY <1>1, <2>1
    <3> HIDE DEF X, G, n
    <3>2. \E f \in [0 .. n -> X] : IsLoop(f, n, q, G)
      BY <3>1, LoopExists
    <3> QED BY <3>2 DEF X, IsLoop
  <2>3. ASSUME NEW k \in 1 .. n PROVE f[k] = turn(k, f[k - 1])
    <3>1. f[k - 1] \in Seq(T)
      <4>1. k - 1 \in 0 .. n
        BY <1>1
      <4> HIDE DEF G, n
      <4> QED BY <2>2, <4>1
    <3> QED BY <2>2, <3>1
  <2>4. f = F(f)
    BY <1>1, <2>2, <2>3
  <2> QED BY <2>4
<1>4. filled = F(filled)
  <2> HIDE DEF F
  <2> QED BY <1>3, Zenon
<1>5. InsertAll(q, w, prio) = filled[n]
  BY Zenon DEF InsertAll, turn
<1> HIDE DEF filled
<1>6. filled[0] = q /\ \A k \in 1 .. n : filled[k] = turn(k, filled[k - 1])
  <2>1. \A k \in 0 .. n : filled[k] = IF k = 0 THEN q ELSE turn(k, filled[k - 1])
    BY <1>4, Zenon
  <2> QED BY <1>1, <2>1
<1> QED
  <2>1. \A k \in 1 .. n : turn(k, filled[k - 1]) = InsertProcQ(filled[k - 1], w[k], prio)
    BY DEF turn
  <2> QED BY <1>5, <1>6, <2>1 DEF Filled

(***************************************************************************)
(* The PCBs of w inserted one after another.                               *)
(***************************************************************************)
LEMMA InsertAllProperties ==
  ASSUME NEW T, NEW q \in Seq(T), NEW w \in Seq(T), NEW prio \in [T -> Int]
  PROVE  LET r == InsertAll(q, w, prio)
         IN  /\ r \in Seq(T)
             /\ ToSet(r) = ToSet(q) \cup ToSet(w)
             /\ /\ IsInjective(q)
                /\ IsInjective(w)
                /\ ToSet(q) \cap ToSet(w) = {}
                => IsInjective(r)
<1> DEFINE n == Len(w)
<1>1. n \in Nat /\ DOMAIN w = 1 .. n /\ \A k \in 1 .. n : w[k] \in T
  OBVIOUS
<1>2. ASSUME NEW p \in T, NEW s \in Seq(T)
      PROVE  /\ InsertProcQ(s, p, prio) \in Seq(T)
             /\ ToSet(InsertProcQ(s, p, prio)) = ToSet(s) \cup {p}
             /\ IsInjective(s) /\ p \notin ToSet(s)
                => IsInjective(InsertProcQ(s, p, prio))
  <2> DEFINE t == InsertProcQ(s, p, prio)
  <2>1. /\ t \in Seq(T)
        /\ Len(t) = Len(s) + 1
        /\ ToSet(t) = ToSet(s) \cup {p}
        /\ IsInjective(s) /\ p \notin ToSet(s) => IsInjective(t)
        /\ IsPrioSorted(s, prio) => IsPrioSorted(t, prio)
    BY InsertProcQProperties
  <2> HIDE DEF t
  <2>2. /\ t \in Seq(T)
        /\ ToSet(t) = ToSet(s) \cup {p}
        /\ IsInjective(s) /\ p \notin ToSet(s) => IsInjective(t)
    BY <2>1, Zenon
  <2> QED BY <2>2 DEF t
<1>3. PICK filled : Filled(q, w, prio, filled) /\ InsertAll(q, w, prio) = filled[n]
  BY InsertAllLoop
<1>4. /\ filled[0] = q
      /\ \A k \in 1 .. n : filled[k] = InsertProcQ(filled[k - 1], w[k], prio)
  BY <1>3 DEF Filled
<1> DEFINE upTo(k) == {w[i] : i \in 1 .. k}
           disjoint == /\ IsInjective(q)
                       /\ IsInjective(w)
                       /\ ToSet(q) \cap ToSet(w) = {}
           S == {k \in 0 .. n :
                   /\ filled[k] \in Seq(T)
                   /\ ToSet(filled[k]) = ToSet(q) \cup upTo(k)
                   /\ disjoint => IsInjective(filled[k])}
<1>5. 0 \in S
  <2>1. upTo(0) = {}
    OBVIOUS
  <2> HIDE DEF upTo
  <2> QED BY <1>1, <1>4, <2>1
<1>6. ASSUME NEW k \in 1 .. n, k - 1 \in S PROVE k \in S
  <2>1. /\ filled[k - 1] \in Seq(T)
        /\ ToSet(filled[k - 1]) = ToSet(q) \cup upTo(k - 1)
        /\ disjoint => IsInjective(filled[k - 1])
    BY <1>6
  <2>2. upTo(k) = upTo(k - 1) \cup {w[k]}
    <3>1. \A i \in 1 .. k : i = k \/ i \in 1 .. k - 1
      BY <1>1
    <3>2. \A i \in 1 .. k - 1 : i \in 1 .. k
      BY <1>1
    <3>3. k \in 1 .. k
      BY <1>1
    <3> QED BY <3>1, <3>2, <3>3
  <2>3. disjoint => w[k] \notin ToSet(q) /\ w[k] \notin upTo(k - 1)
    <3>1. w[k] \in ToSet(w)
      BY <1>1 DEF ToSet
    <3>2. \A i \in 1 .. k - 1 : i \in 1 .. n /\ i # k
      BY <1>1
    <3> QED BY <1>1, <3>1, <3>2 DEF IsInjective
  <2>4. w[k] \in T /\ filled[k - 1] \in Seq(T) /\ filled[k] = InsertProcQ(filled[k - 1], w[k], prio)
    BY <1>1, <1>4, <2>1
  <2>5. /\ filled[k] \in Seq(T)
        /\ ToSet(filled[k]) = ToSet(filled[k - 1]) \cup {w[k]}
        /\ IsInjective(filled[k - 1]) /\ w[k] \notin ToSet(filled[k - 1])
           => IsInjective(filled[k])
    BY <1>2, <2>4
  <2> HIDE DEF upTo, disjoint
  <2> QED BY <2>1, <2>2, <2>3, <2>5
<1>7. n \in S
  <2> HIDE DEF S
  <2>1. \A k \in 0 .. n : k \in S
    BY <1>1, <1>5, <1>6, UpTo
  <2> QED BY <1>1, <2>1
<1>8. upTo(n) = ToSet(w)
  BY <1>1 DEF ToSet
<1> HIDE DEF upTo
<1> QED BY <1>3, <1>7, <1>8

(***************************************************************************)
(* outProcQ on a queue to which one more PCB was appended: PCBs that it    *)
(* does not look for stay where they are.                                  *)
(***************************************************************************)
LEMMA OutOfLonger ==
  ASSUME NEW T, NEW s \in Seq(T), NEW p, NEW x \in T
  PROVE  /\ p \notin ToSet(s) => OutProcQ(s, p) = s
         /\ p \notin ToSet(s) /\ x = p => OutProcQ(Append(s, x), p) = s
         /\ x # p => OutProcQ(Append(s, x), p) = Append(OutProcQ(s, p), x)
<1> DEFINE n == Len(s)
           t == Append(s, x)
           I(q) == {i \in 1 .. Len(q) : q[i] = p}
           cut(q, k) == SubSeq(q, 1, k - 1) \o SubSeq(q, k + 1, Len(q))
<1>1. /\ n \in Nat /\ DOMAIN s = 1 .. n /\ \A i \in 1 .. n : s[i] \in T
      /\ t \in Seq(T) /\ Len(t) = n + 1 /\ t[n + 1] = x
      /\ \A i \in 1 .. n : t[i] = s[i]
  OBVIOUS
<1>2. ASSUME NEW q \in Seq(T)
      PROVE  OutProcQ(q, p) = IF I(q) = {} THEN q ELSE cut(q, Min(I(q)))
  <2>1. SelectInSeq(q, LAMBDA v : v = p) = IF I(q) # {} THEN Min(I(q)) ELSE 0
    BY DEF SelectInSeq
  <2>2. OutProcQ(q, p) = IF \E i \in 1 .. Len(q) : q[i] = p
                         THEN RemoveAt(q, SelectInSeq(q, LAMBDA v : v = p)) ELSE q
    BY DEF OutProcQ, RemoveFirst
  <2>3. (\E i \in 1 .. Len(q) : q[i] = p) <=> I(q) # {}
    OBVIOUS
  <2>4. \A k : RemoveAt(q, k) = cut(q, k)
    BY DEF RemoveAt
  <2> HIDE DEF I, cut
  <2> QED BY <2>1, <2>2, <2>3, <2>4
<1>3. p \notin ToSet(s) <=> I(s) = {}
  BY <1>1 DEF ToSet
<1>4. CASE I(s) = {} /\ x = p
  <2>1. I(t) = {n + 1}
    <3>1. \A i \in 1 .. n + 1 : i = n + 1 \/ i \in 1 .. n
      BY <1>1
    <3>2. \A i \in 1 .. n : s[i] # p
      BY <1>4
    <3> QED BY <1>1, <1>4, <3>1, <3>2
  <2>2. Min({n + 1}) = n + 1
    <3>1. {n + 1} \in SUBSET Nat /\ {n + 1} # {}
      BY <1>1
    <3>2. Min({n + 1}) \in {n + 1}
      BY <3>1, MinIsLeast
    <3> QED BY <3>2
  <2>3. OutProcQ(t, p) = cut(t, n + 1)
    <3>1. {n + 1} # {}
      OBVIOUS
    <3> HIDE DEF t, cut, I
    <3> QED BY <1>1, <1>2, <2>1, <2>2, <3>1
  <2>4. SubSeq(t, 1, (n + 1) - 1) = s
    BY <1>1
  <2>5. SubSeq(t, (n + 1) + 1, n + 1) = <<>>
    BY <1>1
  <2>6. cut(t, n + 1) = s
    BY <1>1, <2>4, <2>5
  <2> QED BY <1>2, <1>3, <1>4, <2>3, <2>6
<1>5. CASE x # p
  <2>1. I(t) = I(s)
    <3>1. \A i \in 1 .. n + 1 : i = n + 1 \/ i \in 1 .. n
      BY <1>1
    <3>2. \A i \in 1 .. n : i \in 1 .. n + 1
      BY <1>1
    <3> QED BY <1>1, <1>5, <3>1, <3>2
  <2>2. CASE I(s) = {}
    <3> HIDE DEF I, cut
    <3> QED BY <1>1, <1>2, <1>3, <1>5, <2>1, <2>2
  <2>3. CASE I(s) # {}
    <3> DEFINE k == Min(I(s))
               a == SubSeq(s, 1, k - 1)
               b == SubSeq(s, k + 1, n)
               y == Append(b, x)
    <3>1. k \in 1 .. n
      <4>1. I(s) \in SUBSET Nat
        OBVIOUS
      <4>2. Min(I(s)) \in I(s)
        <5> HIDE DEF I
        <5> QED BY <2>3, <4>1, MinIsLeast
      <4> QED BY <4>2
    <3>2. OutProcQ(s, p) = cut(s, k) /\ OutProcQ(t, p) = cut(t, k)
      <4> HIDE DEF I, cut, t
      <4> QED BY <1>1, <1>2, <2>1, <2>3
    <3> HIDE DEF k
    <3>3. SubSeq(t, 1, k - 1) = a
      BY <1>1, <3>1
    <3>4. a \in Seq(T) /\ b \in Seq(T)
      BY <1>1, <3>1, SubSeqProperties
    <3>5. SubSeq(t, k + 1, n + 1) = y
      <4> DEFINE z == SubSeq(t, k + 1, n + 1)
      <4> HIDE DEF t
      <4>1. /\ k + 1 \in Int /\ n \in Int /\ n + 1 \in Int
            /\ \A i \in k + 1 .. n : i \in 1 .. n
            /\ \A i \in k + 1 .. n + 1 : i \in 1 .. n + 1
        BY <1>1, <3>1
      <4>2. /\ \A i \in k + 1 .. n : s[i] \in T
            /\ \A i \in k + 1 .. n + 1 : t[i] \in T
        BY <1>1, <4>1
      <4>3. /\ Len(b) = IF k + 1 <= n THEN n - (k + 1) + 1 ELSE 0
            /\ \A i \in 1 .. n - (k + 1) + 1 : b[i] = s[k + 1 + i - 1]
        BY <4>1, <4>2, SubSeqProperties
      <4>4. /\ z \in Seq(T) /\ Len(z) = IF k + 1 <= n + 1 THEN (n + 1) - (k + 1) + 1 ELSE 0
            /\ \A i \in 1 .. (n + 1) - (k + 1) + 1 : z[i] = t[k + 1 + i - 1]
        BY <4>1, <4>2, SubSeqProperties
      <4>5. Len(b) = n - k /\ Len(z) = n - k + 1 /\ n - k \in Nat
        <5>0. n \in Int /\ k \in Int /\ k <= n
          BY <1>1, <3>1
        <5>1. /\ n - k \in Nat /\ k + 1 <= n + 1
              /\ n - (k + 1) + 1 = n - k /\ (n + 1) - (k + 1) + 1 = n - k + 1
              /\ ~(k + 1 <= n) => n - k = 0
          <6> HIDE DEF n
          <6> QED BY <5>0
        <5>2. Len(b) = IF k + 1 <= n THEN n - (k + 1) + 1 ELSE 0
          BY <4>3
        <5>3. Len(z) = IF k + 1 <= n + 1 THEN (n + 1) - (k + 1) + 1 ELSE 0
          BY <4>4
        <5> HIDE DEF b, z, n
        <5> QED BY <5>1, <5>2, <5>3
      <4>6. y \in Seq(T) /\ Len(y) = n - k + 1 /\ y[n - k + 1] = x
            /\ \A i \in 1 .. n - k : y[i] = b[i]
        <5> HIDE DEF b
        <5> QED BY <1>1, <3>4, <4>5
      <4> HIDE DEF z, y, b
      <4>7. ASSUME NEW i \in 1 .. n - k + 1 PROVE z[i] = y[i]
        <5>1. /\ i \in 1 .. (n + 1) - (k + 1) + 1 /\ k + 1 + i - 1 = k + i
              /\ i \in 1 .. n - k => i \in 1 .. n - (k + 1) + 1 /\ k + i \in 1 .. n
              /\ i \in 1 .. n - k \/ (i = n - k + 1 /\ k + i = n + 1)
          BY <1>1, <3>1
        <5>2. z[i] = t[k + i]
          BY <4>4, <5>1
        <5>3. CASE i \in 1 .. n - k
          <6>1. y[i] = b[i] /\ b[i] = s[k + i] /\ t[k + i] = s[k + i]
            BY <1>1, <4>3, <4>6, <5>1, <5>3
          <6> QED BY <5>2, <6>1
        <5>4. CASE i = n - k + 1 /\ k + i = n + 1
          BY <1>1, <4>6, <5>2, <5>4
        <5> QED BY <5>1, <5>3, <5>4
      <4>8. Len(z) = Len(y) /\ DOMAIN z = 1 .. Len(z) /\ DOMAIN y = 1 .. Len(y)
        BY <4>4, <4>5, <4>6
      <4>9. z = y
        BY <4>4, <4>5, <4>6, <4>7, <4>8
      <4> QED BY <4>9 DEF z
    <3>6. cut(s, k) = a \o b /\ cut(t, k) = a \o y
      BY <1>1, <3>3, <3>5
    <3> HIDE DEF a, b, t, cut
    <3>7. a \o y = Append(a \o b, x)
      BY <3>4
    <3> QED BY <1>1, <1>3, <1>5, <2>3, <3>2, <3>6, <3>7 DEF t
  <2> QED BY <2>2, <2>3
<1> QED BY <1>2, <1>3, <1>4, <1>5

(***************************************************************************)
(* Without is outProcQ repeated: one more PCB to take out of a queue is    *)
(* one more call on what the calls before it have left.                    *)
(***************************************************************************)
LEMMA OutOfWithout ==
  ASSUME NEW T, NEW q \in Seq(T), IsInjective(q), NEW D, NEW p
  PROVE  OutProcQ(Without(q, D), p) = Without(q, D \cup {p})
<1> DEFINE n == Len(q)
           E == D \cup {p}
<1>1. n \in Nat /\ DOMAIN q = 1 .. n /\ \A k \in 1 .. n : q[k] \in T
  OBVIOUS
<1>2. PICK kept : Kept(q, D, kept) /\ Without(q, D) = kept[n]
  BY WithoutLoop
<1>3. PICK left : Kept(q, E, left) /\ Without(q, E) = left[n]
  BY WithoutLoop
<1>4. /\ kept[0] = <<>> /\ left[0] = <<>>
      /\ \A k \in 1 .. n : kept[k] = IF q[k] \in D THEN kept[k - 1]
                                     ELSE Append(kept[k - 1], q[k])
      /\ \A k \in 1 .. n : left[k] = IF q[k] \in D \/ q[k] = p THEN left[k - 1]
                                     ELSE Append(left[k - 1], q[k])
  BY <1>2, <1>3 DEF Kept
<1> HIDE DEF E
<1> DEFINE upTo(k) == {q[i] : i \in 1 .. k}
           S == {k \in 0 .. n : /\ kept[k] \in Seq(T)
                                /\ ToSet(kept[k]) \subseteq upTo(k)
                                /\ OutProcQ(kept[k], p) = left[k]}
<1>5. 0 \in S
  <2>1. <<>> \in Seq(T) /\ ToSet(<<>>) = {}
    BY DEF ToSet
  <2>2. OutProcQ(<<>>, p) = <<>>
    BY DEF OutProcQ, RemoveFirst
  <2>3. /\ kept[0] \in Seq(T) /\ ToSet(kept[0]) \subseteq upTo(0)
        /\ OutProcQ(kept[0], p) = left[0]
    <3> HIDE DEF upTo
    <3> QED BY <1>4, <2>1, <2>2
  <2> QED BY <1>1, <2>3
<1>6. ASSUME NEW k \in 1 .. n, k - 1 \in S PROVE k \in S
  <2> DEFINE s == kept[k - 1]
             x == q[k]
  <2>1. /\ s \in Seq(T) /\ x \in T /\ ToSet(s) \subseteq upTo(k - 1)
        /\ OutProcQ(s, p) = left[k - 1]
    BY <1>1, <1>6
  <2>2. upTo(k - 1) \subseteq upTo(k) /\ x \in upTo(k)
    <3>1. \A i \in 1 .. k - 1 : i \in 1 .. k
      BY <1>1
    <3>2. k \in 1 .. k
      BY <1>1
    <3> QED BY <3>1, <3>2
  <2>3. x \notin upTo(k - 1)
    <3>1. \A i \in 1 .. k - 1 : i \in 1 .. n /\ i # k
      BY <1>1
    <3> QED BY <1>1, <3>1 DEF IsInjective
  <2>4. /\ kept[k] = IF x \in D THEN s ELSE Append(s, x)
        /\ left[k] = IF x \in D \/ x = p THEN left[k - 1] ELSE Append(left[k - 1], x)
    BY <1>4
  <2> HIDE DEF s, x, upTo
  <2>5. /\ p \notin ToSet(s) => OutProcQ(s, p) = s
        /\ p \notin ToSet(s) /\ x = p => OutProcQ(Append(s, x), p) = s
        /\ x # p => OutProcQ(Append(s, x), p) = Append(OutProcQ(s, p), x)
    <3>1. s \in Seq(T) /\ x \in T
      BY <2>1
    <3> QED BY <3>1, OutOfLonger
  <2>6. OutProcQ(kept[k], p) = left[k]
    BY <2>1, <2>3, <2>4, <2>5
  <2>7. Append(s, x) \in Seq(T) /\ ToSet(Append(s, x)) = ToSet(s) \cup {x}
    BY <2>1, AppendPlaces
  <2>8. kept[k] \in Seq(T) /\ ToSet(kept[k]) \subseteq upTo(k)
    BY <2>1, <2>2, <2>4, <2>7
  <2> QED BY <2>6, <2>8
<1>7. n \in S
  <2> HIDE DEF S
  <2>1. \A k \in 0 .. n : k \in S
    BY <1>1, <1>5, <1>6, UpTo
  <2> QED BY <1>1, <2>1
<1> QED BY <1>2, <1>3, <1>7 DEF E

(***************************************************************************)
(* What is left of a sequence without its last element.                    *)
(***************************************************************************)
LEMMA FrontPlaces ==
  ASSUME NEW T, NEW s \in Seq(T), s # <<>>, IsInjective(s)
  PROVE  /\ Front(s) \in Seq(T) /\ IsInjective(Front(s))
         /\ Len(Front(s)) = Len(s) - 1
         /\ Last(s) \in ToSet(s)
         /\ ToSet(Front(s)) = ToSet(s) \ {Last(s)}
<1> DEFINE n == Len(s)
           r == Front(s)
<1>1. /\ n \in Nat /\ n # 0 /\ n - 1 \in Nat /\ DOMAIN s = 1 .. n
      /\ \A i \in 1 .. n : s[i] \in T
      /\ \A i, j \in 1 .. n : s[i] = s[j] => i = j
  BY DEF IsInjective
<1>2. /\ r \in Seq(T) /\ Len(r) = n - 1
      /\ \A i \in 1 .. n - 1 : r[i] = s[i]
  <2>1. r = SubSeq(s, 1, n - 1)
    BY DEF Front
  <2>2. /\ SubSeq(s, 1, n - 1) \in Seq(T)
        /\ Len(SubSeq(s, 1, n - 1)) = IF 1 <= n - 1 THEN n - 1 - 1 + 1 ELSE 0
        /\ \A i \in 1 .. n - 1 - 1 + 1 : SubSeq(s, 1, n - 1)[i] = s[1 + i - 1]
    BY <1>1, SubSeqProperties
  <2> HIDE DEF n, r
  <2>3. /\ (IF 1 <= n - 1 THEN n - 1 - 1 + 1 ELSE 0) = n - 1
        /\ \A i \in 1 .. n - 1 : i \in 1 .. n - 1 - 1 + 1 /\ 1 + i - 1 = i
    BY <1>1
  <2> QED BY <2>1, <2>2, <2>3
<1>3. DOMAIN r = 1 .. n - 1
  BY <1>1, <1>2
<1>4. Last(s) = s[n]
  BY DEF Last
<1> HIDE DEF r, n
<1>5. /\ \A i \in 1 .. n - 1 : i \in 1 .. n /\ i # n
      /\ \A i \in 1 .. n : i \in 1 .. n - 1 \/ i = n
      /\ n \in 1 .. n
  BY <1>1
<1>6. IsInjective(r)
  BY <1>1, <1>2, <1>3, <1>5 DEF IsInjective
<1>7. ToSet(r) = ToSet(s) \ {s[n]}
  <2>1. ToSet(r) = {r[i] : i \in 1 .. n - 1} /\ ToSet(s) = {s[i] : i \in 1 .. n}
    BY <1>1, <1>3 DEF ToSet
  <2>2. {r[i] : i \in 1 .. n - 1} = {s[i] : i \in 1 .. n - 1}
    BY <1>2
  <2>3. s[n] \notin {s[i] : i \in 1 .. n - 1}
    BY <1>1, <1>5
  <2>4. {s[i] : i \in 1 .. n} = {s[i] : i \in 1 .. n - 1} \cup {s[n]}
    BY <1>5
  <2> QED BY <2>1, <2>2, <2>3, <2>4
<1>8. s[n] \in ToSet(s)
  BY <1>1, <1>5 DEF ToSet
<1> QED BY <1>2, <1>4, <1>6, <1>7, <1>8 DEF r, n

(***************************************************************************)
(* A queue from which nobody is taken stays as it is.                      *)
(***************************************************************************)
LEMMA WithoutNobody ==
  ASSUME NEW T, NEW q \in Seq(T)
  PROVE  Without(q, {}) = q
<1> DEFINE n == Len(q)
<1>1. n \in Nat /\ DOMAIN q = 1 .. n /\ \A k \in 1 .. n : q[k] \in T
  OBVIOUS
<1>2. PICK kept : Kept(q, {}, kept) /\ Without(q, {}) = kept[n]
  BY WithoutLoop
<1>3. kept[0] = <<>> /\ \A k \in 1 .. n : kept[k] = Append(kept[k - 1], q[k])
  BY <1>2 DEF Kept
<1> DEFINE S == {k \in 0 .. n : kept[k] = SubSeq(q, 1, k)}
<1>4. 0 \in S
  <2>1. SubSeq(q, 1, 0) = <<>>
    BY SubSeqEmpty
  <2>2. kept[0] = SubSeq(q, 1, 0)
    BY <1>3, <2>1
  <2> QED BY <1>1, <2>2
<1>5. ASSUME NEW k \in 1 .. n, k - 1 \in S PROVE k \in S
  <2>1. SubSeq(q, 1, k) = SubSeq(q, 1, k - 1) \o <<q[k]>>
    <3>1. 1 \in 1 .. n /\ k \in 1 .. n
      BY <1>1
    <3> QED BY <3>1, SubSeqRecursiveSecond
  <2>2. SubSeq(q, 1, k - 1) \in Seq(T) /\ q[k] \in T
    BY <1>1, SubSeqProperties
  <2>3. kept[k] = Append(SubSeq(q, 1, k - 1), q[k])
    BY <1>3, <1>5
  <2>4. \A s \in Seq(T), x \in T : Append(s, x) = s \o <<x>>
    OBVIOUS
  <2>5. kept[k] = SubSeq(q, 1, k)
    BY <2>1, <2>2, <2>3, <2>4
  <2> QED BY <2>5
<1>6. n \in S
  <2> HIDE DEF S
  <2>1. \A k \in 0 .. n : k \in S
    BY <1>1, <1>4, <1>5, UpTo
  <2> QED BY <1>1, <2>1
<1> QED BY <1>2, <1>6, SubSeqFull
=============================================================================
