------------------------- MODULE NucleusOrderProofs -------------------------
(***************************************************************************)
(* Theorems about the order in which blocked and ready processes stand,    *)
(* are woken and dispatched, and about the number of the blocked ones, for *)
(* queues of any length.                                                   *)
(***************************************************************************)
EXTENDS NucleusProofs

(***************************************************************************)
(* The PCBs that are left when some are taken out keep their order: place  *)
(* i of the result was place g[i] of the queue.                            *)
(***************************************************************************)
Thinned(r, q, n, g) ==
  /\ \A i \in 1 .. Len(r) : r[i] = q[g[i]]
  /\ \A i, j \in 1 .. Len(r) : i < j => g[i] < g[j]

(***************************************************************************)
(* Without only thins a queue out.                                         *)
(***************************************************************************)
LEMMA WithoutThins ==
  ASSUME NEW T, NEW q \in Seq(T), NEW D
  PROVE  \E g \in [1 .. Len(Without(q, D)) -> 1 .. Len(q)] :
            Thinned(Without(q, D), q, Len(q), g)
<1> DEFINE n == Len(q)
<1>1. n \in Nat /\ DOMAIN q = 1 .. n /\ \A k \in 1 .. n : q[k] \in T
  OBVIOUS
<1>2. PICK kept : Kept(q, D, kept) /\ Without(q, D) = kept[n]
  BY WithoutLoop
<1>3. /\ kept[0] = <<>>
      /\ \A k \in 1 .. n : kept[k] = IF q[k] \in D THEN kept[k - 1]
                                     ELSE Append(kept[k - 1], q[k])
  BY <1>2 DEF Kept
<1> DEFINE Fits(k) == /\ kept[k] \in Seq(T)
                      /\ \E g \in [1 .. Len(kept[k]) -> 1 .. k] : Thinned(kept[k], q, k, g)
           S == {k \in 0 .. n : Fits(k)}
<1>4. Fits(0)
  <2> DEFINE e == [i \in 1 .. 0 |-> 1]
  <2>1. <<>> \in Seq(T) /\ Len(<<>>) = 0
    OBVIOUS
  <2>2. e \in [1 .. 0 -> 1 .. 0] /\ \A i \in 1 .. 0 : FALSE
    OBVIOUS
  <2> HIDE DEF e
  <2>3. Thinned(<<>>, q, 0, e)
    BY <2>1, <2>2 DEF Thinned
  <2> QED BY <1>3, <2>1, <2>2, <2>3
<1>5. ASSUME NEW k \in 1 .. n, Fits(k - 1) PROVE Fits(k)
  <2> DEFINE s == kept[k - 1]
             l == Len(s)
  <2>1. s \in Seq(T) /\ l \in Nat /\ q[k] \in T /\ k - 1 \in Nat
    BY <1>1, <1>5
  <2>2. PICK g \in [1 .. l -> 1 .. k - 1] : Thinned(s, q, k - 1, g)
    BY <1>5
  <2>3. CASE q[k] \in D
    <3>1. kept[k] = s
      BY <1>3, <2>3
    <3>2. g \in [1 .. l -> 1 .. k] /\ Thinned(s, q, k, g)
      BY <2>1, <2>2 DEF Thinned
    <3> HIDE DEF s
    <3> QED BY <2>1, <3>1, <3>2
  <2>4. CASE q[k] \notin D
    <3> DEFINE r == Append(s, q[k])
               h == [i \in 1 .. l + 1 |-> IF i = l + 1 THEN k ELSE g[i]]
    <3>1. kept[k] = r
      BY <1>3, <2>4
    <3> HIDE DEF s
    <3>2. /\ r \in Seq(T) /\ Len(r) = l + 1 /\ r[l + 1] = q[k]
          /\ \A i \in 1 .. l : r[i] = s[i]
      BY <2>1
    <3>3. h \in [1 .. l + 1 -> 1 .. k]
      BY <2>1, <2>2
    <3>4. h[l + 1] = k /\ \A i \in 1 .. l : h[i] = g[i] /\ g[i] \in 1 .. k - 1
      BY <2>1, <2>2
    <3> HIDE DEF h, r, l
    <3>5. \A i \in 1 .. l + 1 : i = l + 1 \/ i \in 1 .. l
      BY <2>1
    <3>6. \A i \in 1 .. l + 1 : r[i] = q[h[i]]
      BY <2>2, <3>2, <3>4, <3>5 DEF Thinned, l
    <3>7. ASSUME NEW i \in 1 .. l + 1, NEW j \in 1 .. l + 1, i < j PROVE h[i] < h[j]
      <4>1. i \in 1 .. l
        BY <2>1, <3>7
      <4>2. CASE j = l + 1
        BY <2>1, <3>4, <4>1, <4>2
      <4>3. CASE j \in 1 .. l
        BY <2>2, <3>4, <3>7, <4>1, <4>3 DEF Thinned, l
      <4> QED BY <3>5, <4>2, <4>3
    <3>8. Thinned(r, q, k, h)
      BY <3>2, <3>6, <3>7 DEF Thinned
    <3> QED BY <3>1, <3>2, <3>3, <3>8
  <2> QED BY <2>3, <2>4
<1>6. 0 \in S
  BY <1>1, <1>4
<1>7. ASSUME NEW k \in 1 .. n, k - 1 \in S PROVE k \in S
  <2> HIDE DEF Fits
  <2> QED BY <1>5, <1>7
<1>8. n \in S
  <2> HIDE DEF S
  <2>1. \A k \in 0 .. n : k \in S
    BY <1>1, <1>6, <1>7, UpTo
  <2> QED BY <1>1, <2>1
<1> QED BY <1>2, <1>8

(***************************************************************************)
(* So what is left of a sorted queue is sorted, and nobody has overtaken.  *)
(***************************************************************************)
LEMMA WithoutOrder ==
  ASSUME NEW T, NEW q \in Seq(T), NEW D, NEW prio
  PROVE  LET r == Without(q, D)
         IN  /\ IsPrioSorted(q, prio) => IsPrioSorted(r, prio)
             /\ IsInjective(q) =>
                  \A x, y \in ToSet(r) : Before(q, x, y) => Before(r, x, y)
<1> DEFINE r == Without(q, D)
<1>1. /\ r \in Seq(T) /\ Len(r) \in Nat /\ DOMAIN r = 1 .. Len(r)
      /\ Len(q) \in Nat /\ DOMAIN q = 1 .. Len(q)
  BY WithoutProperties
<1>2. PICK g \in [1 .. Len(r) -> 1 .. Len(q)] : Thinned(r, q, Len(q), g)
  BY WithoutThins
<1> HIDE DEF r
<1>3. IsPrioSorted(q, prio) => IsPrioSorted(r, prio)
  BY <1>1, <1>2 DEF Thinned, IsPrioSorted
<1>4. ASSUME IsInjective(q), NEW x \in ToSet(r), NEW y \in ToSet(r), Before(q, x, y)
      PROVE  Before(r, x, y)
  <2>1. PICK a \in 1 .. Len(r) : r[a] = x
    BY <1>1 DEF ToSet
  <2>2. PICK b \in 1 .. Len(r) : r[b] = y
    BY <1>1 DEF ToSet
  <2>3. PICK i \in 1 .. Len(q), j \in 1 .. Len(q) : i < j /\ q[i] = x /\ q[j] = y
    BY <1>1, <1>4 DEF Before
  <2>4. g[a] = i /\ g[b] = j
    <3>1. q[g[a]] = q[i] /\ q[g[b]] = q[j]
      BY <1>2, <2>1, <2>2, <2>3 DEF Thinned
    <3> QED BY <1>1, <1>2, <1>4, <3>1 DEF IsInjective
  <2>5. a < b
    <3>1. ~ (b < a)
      BY <1>2, <2>3, <2>4 DEF Thinned
    <3>2. a # b
      BY <2>3, <2>4
    <3> QED BY <1>1, <3>1, <3>2
  <2> QED BY <1>1, <2>1, <2>2, <2>5 DEF Before
<1> QED BY <1>3, <1>4 DEF r

(***************************************************************************)
(* insertProcQ lets nobody overtake, and in a sorted queue its PCB stands  *)
(* behind all that do not have a lower priority.                           *)
(***************************************************************************)
LEMMA InsertOrder ==
  ASSUME NEW T, NEW q \in Seq(T), NEW p \in T, NEW prio \in [T -> Int]
  PROVE  LET r == InsertProcQ(q, p, prio)
         IN  /\ \A x, y : Before(q, x, y) => Before(r, x, y)
             /\ IsPrioSorted(q, prio) =>
                  \A x \in ToSet(q) : prio[x] >= prio[p] => Before(r, x, p)
<1> DEFINE k == InsertPos(q, p, prio)
           r == InsertProcQ(q, p, prio)
<1>1. Len(q) \in Nat /\ DOMAIN q = 1 .. Len(q)
  OBVIOUS
<1>2. /\ k \in 1 .. Len(q) + 1
      /\ IsPrioSorted(q, prio) => \A i \in 1 .. Len(q) : i >= k => prio[q[i]] < prio[p]
  BY InsertPosRange
<1>3. r = InsertAt(q, k, p)
  BY DEF InsertProcQ
<1> HIDE DEF k, r
<1>4. /\ r \in Seq(T)
      /\ Len(r) = Len(q) + 1
      /\ \A i \in 1 .. Len(q) + 1 :
           r[i] = IF i < k THEN q[i] ELSE IF i = k THEN p ELSE q[i - 1]
  <2>0. k \in 1 .. Len(q) + 1
    BY <1>2
  <2>1. /\ InsertAt(q, k, p) \in Seq(T)
        /\ Len(InsertAt(q, k, p)) = Len(q) + 1
        /\ \A i \in 1 .. Len(q) + 1 :
             InsertAt(q, k, p)[i] =
               IF i < k THEN q[i] ELSE IF i = k THEN p ELSE q[i - 1]
    BY <2>0, InsertAtProperties
  <2> QED BY <1>3, <2>1
<1>5. DOMAIN r = 1 .. Len(q) + 1
  BY <1>1, <1>4
<1> DEFINE to(i) == IF i < k THEN i ELSE i + 1
<1>6. ASSUME NEW i \in 1 .. Len(q)
      PROVE  to(i) \in 1 .. Len(q) + 1 /\ r[to(i)] = q[i]
  <2>1. /\ i \in Int /\ k \in Int /\ i \in 1 .. Len(q) + 1
        /\ i + 1 \in 1 .. Len(q) + 1 /\ (i + 1) - 1 = i
    BY <1>1, <1>2
  <2>2. CASE i < k
    <3>1. to(i) = i
      BY <2>2
    <3>2. r[i] = q[i]
      BY <1>4, <2>1, <2>2
    <3> QED BY <2>1, <3>1, <3>2
  <2>3. CASE ~(i < k)
    <3>1. to(i) = i + 1
      BY <2>3
    <3>2. ~(i + 1 < k) /\ i + 1 # k
      BY <2>1, <2>3
    <3>3. r[i + 1] = q[(i + 1) - 1]
      BY <1>4, <2>1, <3>2
    <3> QED BY <2>1, <3>1, <3>3
  <2> QED BY <2>2, <2>3
<1>7. ASSUME NEW x, NEW y, Before(q, x, y) PROVE Before(r, x, y)
  <2>1. PICK i \in 1 .. Len(q), j \in 1 .. Len(q) : i < j /\ q[i] = x /\ q[j] = y
    BY <1>1, <1>7 DEF Before
  <2>2. to(i) < to(j)
    BY <1>1, <1>2, <2>1
  <2> HIDE DEF to
  <2> QED BY <1>5, <1>6, <2>1, <2>2 DEF Before
<1>8. ASSUME IsPrioSorted(q, prio), NEW x \in ToSet(q), prio[x] >= prio[p]
      PROVE  Before(r, x, p)
  <2>1. PICK i \in 1 .. Len(q) : q[i] = x
    BY <1>1 DEF ToSet
  <2>2. prio[x] \in Int /\ prio[p] \in Int
    BY <2>1
  <2>3. i < k
    <3>1. i >= k => FALSE
      BY <1>2, <1>8, <2>1, <2>2
    <3> QED BY <1>1, <1>2, <3>1
  <2>4. r[i] = x /\ r[k] = p /\ i \in 1 .. Len(q) + 1
    BY <1>1, <1>2, <1>4, <2>1, <2>3
  <2> QED BY <1>2, <1>5, <2>3, <2>4 DEF Before
<1> QED BY <1>7, <1>8 DEF r

(***************************************************************************)
(* x stands at place a, and nobody before it has a lower priority.         *)
(***************************************************************************)
Leads(q, a, x, prio) ==
  /\ a \in DOMAIN q /\ q[a] = x
  /\ \A b \in DOMAIN q : b < a => prio[q[b]] >= prio[x]

(***************************************************************************)
(* In any queue, sorted or not, insertProcQ puts its PCB where it leads,   *)
(* and behind all that lead and do not have a lower priority.              *)
(***************************************************************************)
LEMMA InsertBehind ==
  ASSUME NEW T, NEW q \in Seq(T), NEW p \in T, NEW prio \in [T -> Int]
  PROVE  LET r == InsertProcQ(q, p, prio)
         IN  \E k : /\ Leads(r, k, p, prio)
                    /\ \A a, x : Leads(q, a, x, prio) /\ prio[x] >= prio[p]
                                   => a < k /\ Leads(r, a, x, prio)
<1> DEFINE k == InsertPos(q, p, prio)
           r == InsertProcQ(q, p, prio)
<1>1. /\ Len(q) \in Nat /\ DOMAIN q = 1 .. Len(q)
      /\ \A i \in 1 .. Len(q) : prio[q[i]] \in Int
      /\ prio[p] \in Int
  OBVIOUS
<1>2. /\ k \in 1 .. Len(q) + 1
      /\ \A i \in 1 .. Len(q) : i < k => prio[q[i]] >= prio[p]
      /\ \A a \in 1 .. Len(q) :
           /\ prio[q[a]] >= prio[p]
           /\ \A i \in 1 .. Len(q) : i < a => prio[q[i]] >= prio[q[a]]
           => a < k
  BY InsertPosRange
<1>3. r = InsertAt(q, k, p)
  BY DEF InsertProcQ
<1> HIDE DEF k, r
<1>4. /\ DOMAIN r = 1 .. Len(q) + 1
      /\ r[k] = p
      /\ \A i \in 1 .. Len(q) : i < k => r[i] = q[i]
  <2>0. k \in 1 .. Len(q) + 1
    BY <1>2
  <2>1. /\ InsertAt(q, k, p) \in Seq(T)
        /\ Len(InsertAt(q, k, p)) = Len(q) + 1
        /\ \A i \in 1 .. Len(q) + 1 :
             InsertAt(q, k, p)[i] =
               IF i < k THEN q[i] ELSE IF i = k THEN p ELSE q[i - 1]
    BY <2>0, InsertAtProperties
  <2>2. \A i \in 1 .. Len(q) : i \in 1 .. Len(q) + 1
    BY <1>1
  <2> QED BY <1>1, <1>2, <1>3, <2>1, <2>2
<1>5. Leads(r, k, p, prio)
  <2> SUFFICES ASSUME NEW b \in DOMAIN r, b < k PROVE prio[r[b]] >= prio[p]
    BY <1>2, <1>4 DEF Leads
  <2>1. b \in 1 .. Len(q)
    BY <1>1, <1>2, <1>4
  <2> QED BY <1>2, <1>4, <2>1
<1>6. ASSUME NEW a, NEW x, Leads(q, a, x, prio), prio[x] >= prio[p]
      PROVE  a < k /\ Leads(r, a, x, prio)
  <2>1. /\ a \in 1 .. Len(q) /\ q[a] = x
        /\ \A b \in 1 .. Len(q) : b < a => prio[q[b]] >= prio[x]
    BY <1>1, <1>6 DEF Leads
  <2>2. a < k
    BY <1>2, <1>6, <2>1
  <2>3. \A b \in DOMAIN r : b < a => b \in 1 .. Len(q) /\ b < k
    BY <1>1, <1>2, <1>4, <2>1, <2>2
  <2>4. a \in DOMAIN r /\ r[a] = x
    BY <1>1, <1>4, <2>1, <2>2
  <2>5. \A b \in DOMAIN r : b < a => prio[r[b]] >= prio[x]
    BY <1>4, <2>1, <2>3
  <2> QED BY <2>2, <2>4, <2>5 DEF Leads
<1> QED BY <1>5, <1>6 DEF r

(***************************************************************************)
(* Yield's place is the last.                                              *)
(***************************************************************************)
LEMMA AppendOrder ==
  ASSUME NEW T, NEW q \in Seq(T), NEW p \in T, NEW x, NEW y, Before(q, x, y)
  PROVE  Before(Append(q, p), x, y)
<1>1. PICK i \in DOMAIN q, j \in DOMAIN q : i < j /\ q[i] = x /\ q[j] = y
  BY DEF Before
<1>2. /\ \A a \in DOMAIN q : a \in DOMAIN Append(q, p) /\ Append(q, p)[a] = q[a]
  OBVIOUS
<1> QED BY <1>1, <1>2 DEF Before

(***************************************************************************)
(* The PCBs that a tick inserts one after another do not overtake those    *)
(* that are ready, nor, being sorted, one another.                         *)
(***************************************************************************)
LEMMA InsertAllOrder ==
  ASSUME NEW T, NEW q \in Seq(T), NEW w \in Seq(T), NEW prio \in [T -> Int]
  PROVE  LET r == InsertAll(q, w, prio)
         IN  /\ \A x, y : Before(q, x, y) => Before(r, x, y)
             /\ IsPrioSorted(w, prio) => \A x, y : Before(w, x, y) => Before(r, x, y)
<1> DEFINE n == Len(w)
<1>1. n \in Nat /\ DOMAIN w = 1 .. n /\ \A k \in 1 .. n : w[k] \in T
  OBVIOUS
<1>2. PICK filled : Filled(q, w, prio, filled) /\ InsertAll(q, w, prio) = filled[n]
  BY InsertAllLoop
<1>3. /\ filled[0] = q
      /\ \A k \in 1 .. n : filled[k] = InsertProcQ(filled[k - 1], w[k], prio)
  BY <1>2 DEF Filled
<1> DEFINE Stays(k)   == \A x, y : Before(q, x, y) => Before(filled[k], x, y)
           Leading(k) == \A i \in 1 .. k : \E a : Leads(filled[k], a, w[i], prio)
           Lined(k)  == \A i, j \in 1 .. k : i < j => Before(filled[k], w[i], w[j])
           S == {k \in 0 .. n : /\ filled[k] \in Seq(T)
                                /\ Stays(k)
                                /\ IsPrioSorted(w, prio) => Leading(k) /\ Lined(k)}
<1>4. 0 \in S
  <2>1. \A i \in 1 .. 0 : FALSE
    OBVIOUS
  <2> QED BY <1>1, <1>3, <2>1
<1>5. ASSUME NEW k \in 1 .. n, k - 1 \in S PROVE k \in S
  <2> DEFINE s == filled[k - 1]
             r == filled[k]
  <2>1. /\ s \in Seq(T) /\ Stays(k - 1)
        /\ IsPrioSorted(w, prio) => Leading(k - 1) /\ Lined(k - 1)
    BY <1>5
  <2>2. w[k] \in T /\ r = InsertProcQ(s, w[k], prio)
    BY <1>1, <1>3
  <2>3. r \in Seq(T)
    <3> HIDE DEF s, r
    <3> QED BY <2>1, <2>2, InsertProcQProperties
  <2>4. \A x, y : Before(s, x, y) => Before(r, x, y)
    <3> HIDE DEF s, r
    <3> QED BY <2>1, <2>2, InsertOrder
  <2>5. Stays(k)
    BY <2>1, <2>4
  <2>6. ASSUME IsPrioSorted(w, prio) PROVE Leading(k) /\ Lined(k)
    <3> HIDE DEF s, r
    <3>1. PICK c : /\ Leads(r, c, w[k], prio)
                   /\ \A a, x : Leads(s, a, x, prio) /\ prio[x] >= prio[w[k]]
                                  => a < c /\ Leads(r, a, x, prio)
      BY <2>1, <2>2, InsertBehind
    <3>2. \A i \in 1 .. k : i = k \/ i \in 1 .. k - 1
      BY <1>1
    <3>3. ASSUME NEW i \in 1 .. k - 1
          PROVE  /\ \E a : a < c /\ Leads(r, a, w[i], prio)
                 /\ Before(r, w[i], w[k])
      <4>1. PICK a : Leads(s, a, w[i], prio)
        BY <2>1, <2>6 DEF s
      <4>2. prio[w[i]] >= prio[w[k]]
        <5>1. i \in 1 .. n /\ i < k
          BY <1>1
        <5> QED BY <1>1, <2>6, <5>1 DEF IsPrioSorted
      <4>3. a < c /\ Leads(r, a, w[i], prio)
        BY <3>1, <4>1, <4>2
      <4>4. Before(r, w[i], w[k])
        BY <3>1, <4>3 DEF Leads, Before
      <4> QED BY <4>3, <4>4
    <3>4. Leading(k)
      BY <3>1, <3>2, <3>3 DEF r
    <3>5. ASSUME NEW i \in 1 .. k, NEW j \in 1 .. k, i < j PROVE Before(r, w[i], w[j])
      <4>1. i \in 1 .. k - 1
        BY <1>1, <3>5
      <4>2. CASE j = k
        BY <3>3, <4>1, <4>2
      <4>3. CASE j \in 1 .. k - 1
        <5>1. Before(s, w[i], w[j])
          BY <2>1, <2>6, <3>5, <4>1, <4>3 DEF s
        <5> QED BY <2>4, <5>1
      <4> QED BY <3>2, <4>2, <4>3
    <3> QED BY <3>4, <3>5 DEF r
  <2> HIDE DEF Kept, Leading, Lined
  <2> QED BY <1>1, <2>3, <2>5, <2>6
<1>6. n \in S
  <2> HIDE DEF S
  <2>1. \A k \in 0 .. n : k \in S
    BY <1>1, <1>4, <1>5, UpTo
  <2> QED BY <1>1, <2>1
<1>7. ASSUME IsPrioSorted(w, prio), NEW x, NEW y, Before(w, x, y)
      PROVE  Before(filled[n], x, y)
  <2>1. PICK i \in 1 .. n, j \in 1 .. n : i < j /\ w[i] = x /\ w[j] = y
    BY <1>1, <1>7 DEF Before
  <2> QED BY <1>6, <1>7, <2>1
<1> QED BY <1>2, <1>6, <1>7

(***************************************************************************)
(* removeProcQ takes the first, and nobody overtakes.                      *)
(***************************************************************************)
LEMMA TailOrder ==
  ASSUME NEW T, NEW q \in Seq(T), q # <<>>, NEW prio
  PROVE  /\ IsPrioSorted(q, prio) => IsPrioSorted(Tail(q), prio)
         /\ IsInjective(q) =>
              \A x, y \in ToSet(Tail(q)) : Before(q, x, y) => Before(Tail(q), x, y)
         /\ \A y \in ToSet(Tail(q)) : Before(q, Head(q), y)
<1> DEFINE r == Tail(q)
<1>1. /\ Len(q) \in Nat \ {0} /\ DOMAIN q = 1 .. Len(q) /\ Head(q) = q[1]
      /\ DOMAIN r = 1 .. Len(q) - 1
      /\ \A i \in 1 .. Len(q) - 1 : r[i] = q[i + 1]
  <2>1. Len(q) \in Nat \ {0} /\ DOMAIN q = 1 .. Len(q) /\ Head(q) = q[1]
    BY EmptySeq
  <2>2. r \in Seq(T) /\ Len(r) = Len(q) - 1
    BY HeadTailPlaces
  <2>3. DOMAIN r = 1 .. Len(r)
    BY <2>2
  <2> QED BY <2>1, <2>2, <2>3, HeadTailPlaces
<1> HIDE DEF r
<1>2. IsPrioSorted(q, prio) => IsPrioSorted(r, prio)
  <2> SUFFICES ASSUME IsPrioSorted(q, prio), NEW i \in DOMAIN r, NEW j \in DOMAIN r, i < j
               PROVE  prio[r[i]] >= prio[r[j]]
    BY DEF IsPrioSorted
  <2>1. i + 1 \in DOMAIN q /\ j + 1 \in DOMAIN q /\ i + 1 < j + 1
    BY <1>1
  <2> QED BY <1>1, <2>1 DEF IsPrioSorted
<1>3. ASSUME IsInjective(q), NEW x \in ToSet(r), NEW y \in ToSet(r), Before(q, x, y)
      PROVE  Before(r, x, y)
  <2>1. PICK i \in 1 .. Len(q), j \in 1 .. Len(q) : i < j /\ q[i] = x /\ q[j] = y
    BY <1>1, <1>3 DEF Before
  <2>2. PICK a \in 1 .. Len(q) - 1 : r[a] = x
    BY <1>1 DEF ToSet
  <2>3. q[a + 1] = q[i] /\ a + 1 \in DOMAIN q
    BY <1>1, <2>1, <2>2
  <2>4. i = a + 1
    BY <1>1, <1>3, <2>1, <2>3 DEF IsInjective
  <2>5. i - 1 \in DOMAIN r /\ j - 1 \in DOMAIN r /\ i - 1 < j - 1
    BY <1>1, <2>1, <2>2, <2>4
  <2>6. r[i - 1] = x /\ r[j - 1] = y
    BY <1>1, <2>1, <2>5
  <2> QED BY <2>5, <2>6 DEF Before
<1>4. ASSUME NEW y \in ToSet(r) PROVE Before(q, Head(q), y)
  <2>1. PICK b \in 1 .. Len(q) - 1 : r[b] = y
    BY <1>1 DEF ToSet
  <2>2. 1 \in DOMAIN q /\ b + 1 \in DOMAIN q /\ 1 < b + 1 /\ q[b + 1] = y
    BY <1>1, <2>1
  <2> QED BY <1>1, <2>2 DEF Before
<1> QED BY <1>2, <1>3, <1>4 DEF r

-----------------------------------------------------------------------------
(***************************************************************************)
(* What a handler may do to the queue of a semaphore: nothing, block the   *)
(* current process, wake the first, or take out PCBs, only freed ones or   *)
(* else all of them.                                                       *)
(***************************************************************************)
QueueStep(s) ==
  \/ procq'[s] = procq[s]
  \/ /\ current_process \in Pcb /\ current_process \notin ToSet(procq[s])
     /\ procq'[s] = InsertProcQ(procq[s], current_process, p_prio)
  \/ procq[s] # <<>> /\ procq'[s] = Tail(procq[s])
  \/ \E D : /\ procq'[s] = Without(procq[s], D)
            /\ D \subseteq pcbFree_h' \/ D = ToSet(procq[s])

(***************************************************************************)
(* No handler does anything else, and none changes the priority of a       *)
(* process that is or becomes blocked.                                     *)
(***************************************************************************)
LEMMA QueueSteps ==
  ASSUME PlaceInv, Next, NEW s \in Sem
  PROVE  /\ QueueStep(s)
         /\ IsInjective(procq[s])
         /\ \A x \in ToSet(procq'[s]) : p_prio'[x] = p_prio[x]
<1>1. Running
  BY DEF Next, CreateProcess, TerminateSelf, TerminateProcess, TerminateUnknown, Die,
         Passeren, Verhogen, DoIO, DeviceInterrupt, DoIOBadLine, WaitForClock, Yield,
         PLTInterrupt, IntervalTimerInterrupt
<1>2. /\ TypeOK /\ Placed /\ current_process \in Pcb
      /\ procq \in [Sem -> Seq(Pcb)] /\ p_prio \in [Pcb -> Prio]
  BY <1>1 DEF PlaceInv, PlacedOnce, Running, TypeOK
<1>3. IsInjective(procq[s]) /\ current_process \notin ToSet(procq[s])
  BY <1>2 DEF Placed
<1>4. ASSUME UNCHANGED <<procq, p_prio>>
      PROVE  QueueStep(s) /\ \A x \in ToSet(procq'[s]) : p_prio'[x] = p_prio[x]
  BY <1>4 DEF QueueStep
<1>5. ASSUME NEW p \in Pcb, NEW prio, NEW support, CreateProcess(p, prio, support)
      PROVE  QueueStep(s) /\ \A x \in ToSet(procq'[s]) : p_prio'[x] = p_prio[x]
  <2>1. /\ p \in pcbFree_h /\ procq' = procq
        /\ p_prio' = [p_prio EXCEPT ![p] = prio]
    BY <1>5 DEF CreateProcess
  <2>2. p \notin ToSet(procq[s])
    BY <1>2, <2>1 DEF Placed
  <2>3. ToSet(procq[s]) \subseteq Pcb
    BY <1>2, ToSetType
  <2> QED BY <1>2, <2>1, <2>2, <2>3 DEF QueueStep
<1>6. ASSUME NEW p, KillAndSchedule(p)
      PROVE  QueueStep(s) /\ \A x \in ToSet(procq'[s]) : p_prio'[x] = p_prio[x]
  <2>1. /\ procq'[s] = Without(procq[s], Subtree(p))
        /\ Subtree(p) \subseteq pcbFree_h'
        /\ p_prio' = p_prio
    BY <1>6 DEF KillAndSchedule, Kill
  <2> QED BY <2>1 DEF QueueStep
<1>7. ASSUME NEW t \in Sem, BlockOn(t), p_prio' = p_prio
      PROVE  QueueStep(s) /\ \A x \in ToSet(procq'[s]) : p_prio'[x] = p_prio[x]
  <2>1. \/ procq' = procq
        \/ procq' = [procq EXCEPT ![t] = InsertProcQ(procq[t], current_process, p_prio)]
    BY <1>7 DEF BlockOn
  <2> QED BY <1>2, <1>3, <1>7, <2>1 DEF QueueStep
<1>8. ASSUME NEW t \in Sem, Wake(t), p_prio' = p_prio
      PROVE  QueueStep(s) /\ \A x \in ToSet(procq'[s]) : p_prio'[x] = p_prio[x]
  <2>1. \/ procq' = procq
        \/ procq[t] # <<>> /\ procq' = [procq EXCEPT ![t] = Tail(procq[t])]
    BY <1>8 DEF Wake, queues
  <2> QED BY <1>2, <1>8, <2>1 DEF QueueStep
<1>9. ASSUME NEW t \in Sem, SemaphoreP(t)
      PROVE  QueueStep(s) /\ \A x \in ToSet(procq'[s]) : p_prio'[x] = p_prio[x]
  BY <1>4, <1>7, <1>9 DEF SemaphoreP, queues
<1>10. ASSUME NEW t \in UserSem, Passeren(t) \/ Verhogen(t)
       PROVE  QueueStep(s) /\ \A x \in ToSet(procq'[s]) : p_prio'[x] = p_prio[x]
  <2>1. t \in Sem
    BY DEF Sem
  <2>2. CASE Passeren(t)
    BY <1>4, <1>7, <2>1, <2>2 DEF Passeren, queues
  <2>3. CASE Verhogen(t)
    BY <1>4, <1>8, <2>1, <2>3 DEF Verhogen, queues
  <2> QED BY <1>10, <2>2, <2>3
<1>11. CASE IntervalTimerInterrupt
  <2>1. /\ procq' = [procq EXCEPT ![Clock] = Without(procq[Clock], ToSet(procq[Clock]))]
        /\ p_prio' = p_prio
    BY <1>11 DEF IntervalTimerInterrupt, ClockWaiters
  <2>2. CASE s = Clock
    BY <1>2, <1>3, <2>1, <2>2 DEF QueueStep
  <2>3. CASE s # Clock
    BY <1>2, <1>3, <2>1, <2>3 DEF QueueStep
  <2> QED BY <2>2, <2>3
<1>12. CASE TerminateSelf \/ Die \/ \E target : TerminateProcess(target)
  BY <1>3, <1>6, <1>12 DEF TerminateSelf, Die, TerminateProcess
<1>13. CASE WaitForClock \/ \E d \in DevSem : DoIO(d)
  BY <1>3, <1>9, <1>13 DEF WaitForClock, DoIO, Sem, SoftSem
<1>14. CASE \/ \E target : TerminateUnknown(target)
            \/ \E d \in DevSem : DeviceInterrupt(d)
            \/ DoIOBadLine \/ Yield \/ PLTInterrupt
  BY <1>3, <1>4, <1>14
     DEF TerminateUnknown, DeviceInterrupt, DoIOBadLine, Yield, PLTInterrupt, queues
<1> QED BY <1>3, <1>5, <1>10, <1>11, <1>12, <1>13, <1>14 DEF Next

(***************************************************************************)
(* Blocked processes stay in the order of their priorities.                *)
(***************************************************************************)
LEMMA SortedStep == PlaceInv /\ BlockedSorted /\ [Next]_vars => BlockedSorted'
<1> SUFFICES ASSUME PlaceInv, BlockedSorted, [Next]_vars, NEW s \in Sem
             PROVE  IsPrioSorted(procq'[s], p_prio')
  BY DEF BlockedSorted
<1>1. CASE UNCHANGED vars
  BY <1>1 DEF vars, BlockedSorted
<1>2. CASE Next
  <2> DEFINE q == procq[s]
             r == procq'[s]
  <2>1. /\ q \in Seq(Pcb) /\ p_prio \in [Pcb -> Int] /\ IsPrioSorted(q, p_prio)
    BY PrioType DEF PlaceInv, TypeOK, BlockedSorted
  <2>2. QueueStep(s) /\ \A x \in ToSet(r) : p_prio'[x] = p_prio[x]
    BY <1>2, QueueSteps
  <2>3. IsPrioSorted(r, p_prio)
    <3>1. CASE r = q
      BY <2>1, <3>1
    <3>2. CASE current_process \in Pcb /\ r = InsertProcQ(q, current_process, p_prio)
      <4> HIDE DEF q, r
      <4> QED BY <2>1, <3>2, InsertProcQProperties
    <3>3. CASE q # <<>> /\ r = Tail(q)
      <4> HIDE DEF q, r
      <4> QED BY <2>1, <3>3, TailOrder
    <3>4. ASSUME NEW D, r = Without(q, D) PROVE IsPrioSorted(r, p_prio)
      <4> HIDE DEF q, r
      <4> QED BY <2>1, <3>4, WithoutOrder
    <3> QED BY <2>2, <3>1, <3>2, <3>3, <3>4 DEF QueueStep
  <2>4. \A i \in DOMAIN r : p_prio'[r[i]] = p_prio[r[i]]
    BY <2>2 DEF ToSet
  <2> HIDE DEF r
  <2>5. IsPrioSorted(r, p_prio')
    BY <2>3, <2>4 DEF IsPrioSorted
  <2> QED BY <2>5 DEF r
<1> QED BY <1>1, <1>2

(***************************************************************************)
(* At every semaphore the head of the queue is of the highest priority.    *)
(***************************************************************************)
THEOREM BlockedAreSorted == Spec => []BlockedSorted
<1>1. Init => BlockedSorted
  BY DEF Init, BlockedSorted, IsPrioSorted
<1>2. PlaceInv /\ BlockedSorted /\ [Next]_vars => BlockedSorted'
  BY SortedStep
<1> QED BY <1>1, <1>2, PlacesCorrect, PTL DEF Spec

(***************************************************************************)
(* Nobody overtakes, and who arrives stands behind its equals.             *)
(***************************************************************************)
LEMMA FirstComeStep ==
  ASSUME PlaceInv, BlockedSorted, Next, NEW s \in Sem,
         NEW x \in ToSet(procq'[s]), NEW y \in ToSet(procq'[s])
  PROVE  /\ Before(procq[s], x, y) => Before(procq'[s], x, y)
         /\ x \in ToSet(procq[s]) /\ y \notin ToSet(procq[s]) /\ p_prio[x] >= p_prio[y]
            => Before(procq'[s], x, y)
<1> DEFINE q == procq[s]
           r == procq'[s]
           c == current_process
<1>1. /\ q \in Seq(Pcb) /\ p_prio \in [Pcb -> Int] /\ IsPrioSorted(q, p_prio)
      /\ IsInjective(q) /\ QueueStep(s)
  BY PrioType, QueueSteps DEF PlaceInv, TypeOK, BlockedSorted
<1> SUFFICES /\ Before(q, x, y) => Before(r, x, y)
             /\ x \in ToSet(q) /\ y \notin ToSet(q) /\ p_prio[x] >= p_prio[y]
                => Before(r, x, y)
  OBVIOUS
<1>2. CASE r = q
  BY <1>2
<1>3. CASE c \in Pcb /\ r = InsertProcQ(q, c, p_prio)
  <2> HIDE DEF q, r
  <2>1. ToSet(r) = ToSet(q) \cup {c}
    BY <1>1, <1>3, InsertProcQProperties
  <2>2. \A z \in ToSet(q) : p_prio[z] >= p_prio[c] => Before(r, z, c)
    BY <1>1, <1>3, InsertOrder
  <2>3. Before(q, x, y) => Before(r, x, y)
    BY <1>1, <1>3, InsertOrder
  <2>4. y \in ToSet(q) \/ y = c
    BY <2>1 DEF r
  <2> QED BY <2>2, <2>3, <2>4
<1>4. CASE q # <<>> /\ r = Tail(q)
  <2>1. x \in ToSet(r) /\ y \in ToSet(r)
    OBVIOUS
  <2> HIDE DEF q, r
  <2> QED BY <1>1, <1>4, <2>1, TailOrder, HeadTailPlaces
<1>5. ASSUME NEW D, r = Without(q, D)
      PROVE  /\ Before(q, x, y) => Before(r, x, y)
             /\ y \in ToSet(q)
  <2>1. x \in ToSet(r) /\ y \in ToSet(r)
    OBVIOUS
  <2>2. /\ q \in Seq(Pcb) /\ IsInjective(q)
        /\ x \in ToSet(Without(q, D)) /\ y \in ToSet(Without(q, D))
    BY <1>1, <1>5, <2>1
  <2> HIDE DEF q, r
  <2>3. Before(q, x, y) => Before(Without(q, D), x, y)
    BY <2>2, WithoutOrder
  <2>4. ToSet(Without(q, D)) = ToSet(q) \ D
    BY <2>2, WithoutProperties
  <2> QED BY <1>5, <2>2, <2>3, <2>4
<1> QED BY <1>1, <1>2, <1>3, <1>4, <1>5 DEF QueueStep

(***************************************************************************)
(* First come, first served among waiters of one priority.                 *)
(***************************************************************************)
THEOREM NobodyOvertakes == Spec => FirstComeFirstServed
<1>1. PlaceInv /\ BlockedSorted /\ [Next]_vars =>
        [\A s \in Sem : \A x, y \in ToSet(procq'[s]) :
           /\ Before(procq[s], x, y) => Before(procq'[s], x, y)
           /\ /\ x \in ToSet(procq[s])
              /\ y \notin ToSet(procq[s])
              /\ p_prio[x] >= p_prio[y]
              => Before(procq'[s], x, y)]_vars
  BY FirstComeStep
<1> QED BY <1>1, PlacesCorrect, BlockedAreSorted, PTL DEF Spec, FirstComeFirstServed

(***************************************************************************)
(* Who leaves a queue without being freed stood before all that stay.      *)
(***************************************************************************)
LEMMA FirstWokenStep ==
  ASSUME PlaceInv, Next, NEW s \in Sem,
         NEW x \in ToSet(procq[s]) \ (ToSet(procq'[s]) \cup pcbFree_h'),
         NEW y \in ToSet(procq'[s])
  PROVE  Before(procq[s], x, y)
<1> DEFINE q == procq[s]
           r == procq'[s]
           c == current_process
<1>1. q \in Seq(Pcb) /\ p_prio \in [Pcb -> Int] /\ QueueStep(s)
  BY PrioType, QueueSteps DEF PlaceInv, TypeOK
<1>2. x \in ToSet(q) /\ x \notin ToSet(r) /\ x \notin pcbFree_h' /\ y \in ToSet(r)
  OBVIOUS
<1> SUFFICES Before(q, x, y)
  OBVIOUS
<1> HIDE DEF q, r
<1>3. CASE r = q
  BY <1>2, <1>3
<1>4. CASE c \in Pcb /\ r = InsertProcQ(q, c, p_prio)
  BY <1>1, <1>2, <1>4, InsertProcQProperties
<1>5. CASE q # <<>> /\ r = Tail(q)
  <2>1. Before(q, Head(q), y)
    BY <1>1, <1>2, <1>5, TailOrder
  <2>2. x = Head(q)
    BY <1>1, <1>2, <1>5, HeadTailPlaces
  <2> QED BY <2>1, <2>2
<1>6. ASSUME NEW D, r = Without(q, D), D \subseteq pcbFree_h' \/ D = ToSet(q) PROVE FALSE
  <2>1. ToSet(r) = ToSet(q) \ D
    BY <1>1, <1>6, WithoutProperties
  <2> QED BY <1>2, <1>6, <2>1
<1> QED BY <1>1, <1>3, <1>4, <1>5, <1>6 DEF QueueStep, q, r

(***************************************************************************)
(* A wakeup takes the first waiter.                                        *)
(***************************************************************************)
THEOREM TheFirstIsWoken == Spec => FirstIsWoken
<1>1. PlaceInv /\ [Next]_vars =>
        [\A s \in Sem : \A x \in ToSet(procq[s]) \ (ToSet(procq'[s]) \cup pcbFree_h') :
           \A y \in ToSet(procq'[s]) : Before(procq[s], x, y)]_vars
  BY FirstWokenStep
<1> QED BY <1>1, PlacesCorrect, PTL DEF Spec, FirstIsWoken

-----------------------------------------------------------------------------
(***************************************************************************)
(* What a handler other than the tick may do to the ready queue: one PCB   *)
(* at most joins, overtaking nobody's order, and then the head may leave.  *)
(***************************************************************************)
ReadyStep ==
  \E q \in Seq(Pcb), p \in Pcb :
    /\ IsInjective(q)
    /\ ToSet(readyQueue) \subseteq ToSet(q)
    /\ ToSet(q) \subseteq ToSet(readyQueue) \cup {p}
    /\ \A x, y : Before(readyQueue, x, y) => Before(q, x, y)
    /\ readyQueue' = q \/ (q # <<>> /\ readyQueue' = Tail(q))

LEMMA ReadySteps ==
  ASSUME PlaceInv, Next, ~ IntervalTimerInterrupt
  PROVE  ReadyStep
<1>1. Running
  BY DEF Next, CreateProcess, TerminateSelf, TerminateProcess, TerminateUnknown, Die,
         Passeren, Verhogen, DoIO, DeviceInterrupt, DoIOBadLine, WaitForClock, Yield,
         PLTInterrupt, IntervalTimerInterrupt
<1>2. /\ TypeOK /\ Placed /\ current_process \in Pcb /\ p_prio \in [Pcb -> Int]
      /\ readyQueue \in Seq(Pcb) /\ IsInjective(readyQueue)
      /\ current_process \notin ToSet(readyQueue)
      /\ procq \in [Sem -> Seq(Pcb)]
  BY <1>1, PrioType DEF PlaceInv, PlacedOnce, Running, TypeOK, Placed
<1>3. ASSUME readyQueue' = readyQueue PROVE ReadyStep
  BY <1>2, <1>3 DEF ReadyStep
<1>4. ASSUME Dispatch(readyQueue) PROVE ReadyStep
  BY <1>2, <1>4 DEF ReadyStep, Dispatch
<1>5. ASSUME NEW p \in Pcb, p \notin ToSet(readyQueue), NEW prio \in [Pcb -> Int],
             readyQueue' = InsertProcQ(readyQueue, p, prio)
      PROVE  ReadyStep
  <2> DEFINE q == InsertProcQ(readyQueue, p, prio)
  <2>0. readyQueue \in Seq(Pcb)
    BY <1>2
  <2>1. /\ q \in Seq(Pcb) /\ ToSet(q) = ToSet(readyQueue) \cup {p}
        /\ IsInjective(readyQueue) /\ p \notin ToSet(readyQueue) => IsInjective(q)
    BY <2>0, InsertProcQProperties
  <2>2. \A x, y : Before(readyQueue, x, y) => Before(q, x, y)
    BY <1>2, InsertOrder
  <2>3. readyQueue' = q /\ IsInjective(q)
    BY <1>2, <1>5, <2>1
  <2> HIDE DEF q
  <2> QED BY <2>1, <2>2, <2>3 DEF ReadyStep
<1>6. ASSUME NEW q \in Seq(Pcb), q # <<>>, IsInjective(q), Dispatch(q),
             ToSet(q) = ToSet(readyQueue) \cup {current_process},
             \A x, y : Before(readyQueue, x, y) => Before(q, x, y)
      PROVE  ReadyStep
  BY <1>2, <1>6 DEF ReadyStep, Dispatch
<1>7. ASSUME NEW p \in Pcb, NEW prio \in Prio, NEW support, CreateProcess(p, prio, support)
      PROVE  ReadyStep
  <2>1. p_prio' = [p_prio EXCEPT ![p] = prio] /\ readyQueue' = InsertProcQ(readyQueue, p, p_prio')
    BY <1>7 DEF CreateProcess
  <2>2. p_prio' \in [Pcb -> Int] /\ p \notin ToSet(readyQueue)
    BY <1>2, <1>7, <2>1, PrioAssumption DEF Placed, CreateProcess
  <2> QED BY <1>5, <2>1, <2>2
<1>8. ASSUME NEW p, KillAndSchedule(p) PROVE ReadyStep
  BY <1>3, <1>4, <1>8 DEF KillAndSchedule
<1>9. ASSUME NEW s \in Sem, SemaphoreP(s) PROVE ReadyStep
  BY <1>3, <1>4, <1>9 DEF SemaphoreP, BlockOn, queues
<1>10. ASSUME NEW s \in UserSem, Passeren(s) \/ Verhogen(s) PROVE ReadyStep
  <2>1. s \in Sem
    BY DEF Sem
  <2>2. CASE Passeren(s)
    BY <1>3, <1>4, <2>2 DEF Passeren, BlockOn, queues
  <2>3. ASSUME Wake(s) PROVE ReadyStep
    <3> DEFINE h == Head(procq[s])
    <3>1. CASE procq[s] = <<>>
      BY <1>3, <2>3, <3>1 DEF Wake, queues
    <3>2. CASE procq[s] # <<>>
      <4>1. h \in Pcb /\ h \in ToSet(procq[s])
        BY <1>2, <2>1, <3>2, HeadTailPlaces
      <4>2. h \notin ToSet(readyQueue)
        BY <1>2, <2>1, <4>1 DEF Placed
      <4>3. readyQueue' = InsertProcQ(readyQueue, h, p_prio)
        BY <2>3, <3>2 DEF Wake
      <4> HIDE DEF h
      <4> QED BY <1>2, <1>5, <4>1, <4>2, <4>3
    <3> QED BY <3>1, <3>2
  <2>4. CASE Verhogen(s)
    BY <1>3, <2>3, <2>4 DEF Verhogen, queues
  <2> QED BY <1>10, <2>2, <2>4
<1>11. CASE Yield
  <2> DEFINE q == Append(readyQueue, current_process)
  <2>1. Dispatch(q)
    BY <1>11 DEF Yield
  <2>2. /\ q \in Seq(Pcb) /\ q # <<>> /\ IsInjective(q)
        /\ ToSet(q) = ToSet(readyQueue) \cup {current_process}
    BY <1>2, AppendPlaces
  <2>3. \A x, y : Before(readyQueue, x, y) => Before(q, x, y)
    BY <1>2, AppendOrder
  <2> HIDE DEF q
  <2> QED BY <1>6, <2>1, <2>2, <2>3
<1>12. CASE PLTInterrupt
  <2> DEFINE q == InsertProcQ(readyQueue, current_process, p_prio)
  <2>1. Dispatch(q)
    BY <1>12 DEF PLTInterrupt
  <2>2. /\ q \in Seq(Pcb) /\ Len(q) = Len(readyQueue) + 1 /\ IsInjective(q)
        /\ ToSet(q) = ToSet(readyQueue) \cup {current_process}
    BY <1>2, InsertProcQProperties
  <2>3. \A x, y : Before(readyQueue, x, y) => Before(q, x, y)
    BY <1>2, InsertOrder
  <2> HIDE DEF q
  <2>4. q # <<>>
    BY <2>2, ToSetEmpty
  <2> QED BY <1>6, <2>1, <2>2, <2>3, <2>4
<1>13. CASE TerminateSelf \/ Die \/ \E target \in Live : TerminateProcess(target)
  BY <1>8, <1>13 DEF TerminateSelf, Die, TerminateProcess
<1>14. CASE WaitForClock \/ \E d \in DevSem : DoIO(d)
  BY <1>9, <1>14 DEF WaitForClock, DoIO, Sem, SoftSem
<1>15. CASE \/ \E target \in Live \cup {NULL} : TerminateUnknown(target)
            \/ \E d \in DevSem : DeviceInterrupt(d)
            \/ DoIOBadLine
  BY <1>3, <1>15 DEF TerminateUnknown, DeviceInterrupt, DoIOBadLine, queues
<1> QED BY <1>7, <1>10, <1>11, <1>12, <1>13, <1>14, <1>15 DEF Next

(***************************************************************************)
(* The tick: the waiters of the clock join, in their order.                *)
(***************************************************************************)
LEMMA TickOrder ==
  ASSUME PlaceInv, BlockedSorted, IntervalTimerInterrupt
  PROVE  /\ ToSet(readyQueue') = ToSet(readyQueue) \cup ToSet(procq[Clock])
         /\ \A x, y : Before(readyQueue, x, y) => Before(readyQueue', x, y)
         /\ \A x, y : Before(procq[Clock], x, y) => Before(readyQueue', x, y)
<1> DEFINE w == procq[Clock]
<1>1. /\ Clock \in Sem /\ w \in Seq(Pcb) /\ readyQueue \in Seq(Pcb)
      /\ p_prio \in [Pcb -> Int] /\ IsPrioSorted(w, p_prio)
  BY PrioType DEF PlaceInv, TypeOK, BlockedSorted, Sem, SoftSem
<1>2. readyQueue' = InsertAll(readyQueue, w, p_prio)
  BY DEF IntervalTimerInterrupt, ClockWaiters
<1> HIDE DEF w
<1>3. ToSet(InsertAll(readyQueue, w, p_prio)) = ToSet(readyQueue) \cup ToSet(w)
  BY <1>1, InsertAllProperties
<1>4. /\ \A x, y : Before(readyQueue, x, y) => Before(readyQueue', x, y)
      /\ \A x, y : Before(w, x, y) => Before(readyQueue', x, y)
  BY <1>1, <1>2, InsertAllOrder
<1> QED BY <1>2, <1>3, <1>4 DEF w

(***************************************************************************)
(* Of two PCBs of a queue one stands before the other, and not both.       *)
(***************************************************************************)
LEMMA OneBefore ==
  ASSUME NEW T, NEW q \in Seq(T), IsInjective(q)
  PROVE  /\ \A x, y \in ToSet(q) : x # y => Before(q, x, y) \/ Before(q, y, x)
         /\ \A x, y : Before(q, x, y) => x # y /\ ~ Before(q, y, x)
         /\ q # <<>> => \A y : ~ Before(q, y, Head(q))
<1>1. Len(q) \in Nat /\ DOMAIN q = 1 .. Len(q)
  OBVIOUS
<1>2. \A i, j \in 1 .. Len(q) : q[i] = q[j] => i = j
  BY <1>1 DEF IsInjective
<1>3. ASSUME NEW x \in ToSet(q), NEW y \in ToSet(q), x # y
      PROVE  Before(q, x, y) \/ Before(q, y, x)
  <2>1. PICK i \in 1 .. Len(q), j \in 1 .. Len(q) : q[i] = x /\ q[j] = y
    BY <1>1 DEF ToSet
  <2>2. i < j \/ j < i
    BY <1>1, <1>3, <2>1
  <2> QED BY <1>1, <2>1, <2>2 DEF Before
<1>4. ASSUME NEW x, NEW y, Before(q, x, y) PROVE x # y /\ ~ Before(q, y, x)
  BY <1>1, <1>2, <1>4 DEF Before
<1>5. ASSUME q # <<>>, NEW y PROVE ~ Before(q, y, Head(q))
  <2>1. Head(q) = q[1] /\ 1 \in 1 .. Len(q)
    BY <1>1, <1>5, EmptySeq
  <2> QED BY <1>1, <1>2, <2>1 DEF Before
<1> QED BY <1>3, <1>4, <1>5

(***************************************************************************)
(* Nobody overtakes in the ready queue, and the first is dispatched.       *)
(***************************************************************************)
LEMMA ReadyInTurnStep ==
  ASSUME PlaceInv, BlockedSorted, Next,
         NEW y \in ToSet(readyQueue) \cap ToSet(readyQueue'), NEW x \in ToSet(readyQueue)
  PROVE  /\ x \in ToSet(readyQueue') /\ Before(readyQueue, x, y) => Before(readyQueue', x, y)
         /\ x \notin ToSet(readyQueue') => Before(readyQueue, x, y)
<1>1. CASE IntervalTimerInterrupt
  BY <1>1, TickOrder
<1>2. CASE ~ IntervalTimerInterrupt
  <2>1. PICK q \in Seq(Pcb), p \in Pcb :
          /\ IsInjective(q)
          /\ ToSet(readyQueue) \subseteq ToSet(q)
          /\ ToSet(q) \subseteq ToSet(readyQueue) \cup {p}
          /\ \A a, b : Before(readyQueue, a, b) => Before(q, a, b)
          /\ readyQueue' = q \/ (q # <<>> /\ readyQueue' = Tail(q))
    BY <1>2, ReadySteps DEF ReadyStep
  <2>2. CASE readyQueue' = q
    BY <2>1, <2>2
  <2>3. CASE q # <<>> /\ readyQueue' = Tail(q)
    <3>1. ToSet(q) = ToSet(readyQueue') \cup {Head(q)}
      BY <2>3, HeadTailPlaces
    <3>2. x \in ToSet(readyQueue') /\ Before(q, x, y) => Before(readyQueue', x, y)
      BY <2>1, <2>3, TailOrder
    <3>3. ASSUME x \notin ToSet(readyQueue') PROVE Before(readyQueue, x, y)
      <4>1. x = Head(q)
        BY <2>1, <3>1, <3>3
      <4>2. ~ Before(q, y, x)
        BY <2>1, <2>3, <4>1, OneBefore
      <4>3. readyQueue \in Seq(Pcb) /\ IsInjective(readyQueue) /\ x # y
        <5>1. Running
          BY DEF Next, CreateProcess, TerminateSelf, TerminateProcess, TerminateUnknown, Die,
                 Passeren, Verhogen, DoIO, DeviceInterrupt, DoIOBadLine, WaitForClock, Yield,
                 PLTInterrupt, IntervalTimerInterrupt
        <5> QED BY <3>3, <5>1 DEF PlaceInv, TypeOK, PlacedOnce, Placed, Running
      <4>4. Before(readyQueue, x, y) \/ Before(readyQueue, y, x)
        BY <4>3, OneBefore
      <4> QED BY <2>1, <4>2, <4>4
    <3> QED BY <2>1, <3>2, <3>3
  <2> QED BY <2>1, <2>2, <2>3
<1> QED BY <1>1, <1>2

(***************************************************************************)
(* The ready queue is served in turn.                                      *)
(***************************************************************************)
THEOREM ReadyServedInTurn == Spec => ReadyInTurn
<1>1. PlaceInv /\ BlockedSorted /\ [Next]_vars =>
        [\A y \in ToSet(readyQueue) \cap ToSet(readyQueue') :
           \A x \in ToSet(readyQueue) :
             /\ x \in ToSet(readyQueue') /\ Before(readyQueue, x, y)
                  => Before(readyQueue', x, y)
             /\ x \notin ToSet(readyQueue') => Before(readyQueue, x, y)]_vars
  BY ReadyInTurnStep
<1> QED BY <1>1, PlacesCorrect, BlockedAreSorted, PTL DEF Spec, ReadyInTurn

(***************************************************************************)
(* Whoever is woken together is ready in the order of its waiting.         *)
(***************************************************************************)
LEMMA WokenInOrderStep ==
  ASSUME PlaceInv, BlockedSorted, Next, NEW s \in Sem,
         NEW x \in ToSet(procq[s]) \cap ToSet(readyQueue'),
         NEW y \in ToSet(procq[s]) \cap ToSet(readyQueue'),
         Before(procq[s], x, y)
  PROVE  Before(readyQueue', x, y)
<1>1. Placed /\ procq[s] \in Seq(Pcb) /\ IsInjective(procq[s]) /\ Clock \in Sem
  <2>1. Running
    BY DEF Next, CreateProcess, TerminateSelf, TerminateProcess, TerminateUnknown, Die,
           Passeren, Verhogen, DoIO, DeviceInterrupt, DoIOBadLine, WaitForClock, Yield,
           PLTInterrupt, IntervalTimerInterrupt
  <2> QED BY <2>1 DEF PlaceInv, TypeOK, PlacedOnce, Placed, Running, Sem, SoftSem
<1>2. x \notin ToSet(readyQueue) /\ y \notin ToSet(readyQueue) /\ x # y
  BY <1>1, OneBefore DEF Placed
<1>3. CASE IntervalTimerInterrupt
  <2>1. x \in ToSet(procq[Clock])
    BY <1>2, <1>3, TickOrder
  <2>2. s = Clock
    BY <1>1, <2>1 DEF Placed
  <2> QED BY <1>3, <2>2, TickOrder
<1>4. CASE ~ IntervalTimerInterrupt
  <2>1. PICK q \in Seq(Pcb), p \in Pcb :
          /\ ToSet(q) \subseteq ToSet(readyQueue) \cup {p}
          /\ readyQueue' = q \/ (q # <<>> /\ readyQueue' = Tail(q))
    BY <1>4, ReadySteps DEF ReadyStep
  <2>2. ToSet(readyQueue') \subseteq ToSet(q)
    BY <2>1, HeadTailPlaces
  <2> QED BY <1>2, <2>1, <2>2
<1> QED BY <1>3, <1>4

(***************************************************************************)
(* A tick does not mix up those it wakes.                                  *)
(***************************************************************************)
THEOREM TickKeepsTheOrder == Spec => WokenInOrder
<1>1. PlaceInv /\ BlockedSorted /\ [Next]_vars =>
        [\A s \in Sem : \A x, y \in ToSet(procq[s]) \cap ToSet(readyQueue') :
           Before(procq[s], x, y) => Before(readyQueue', x, y)]_vars
  BY WokenInOrderStep
<1> QED BY <1>1, PlacesCorrect, BlockedAreSorted, PTL DEF Spec, WokenInOrder

-----------------------------------------------------------------------------
(***************************************************************************)
(* A queue in which no PCB stands twice holds as many PCBs as it is long.  *)
(***************************************************************************)
LEMMA QueueCount ==
  ASSUME NEW T, IsFiniteSet(T), NEW q \in Seq(T), IsInjective(q)
  PROVE  Len(q) = Cardinality(ToSet(q))
<1>1. Len(q) \in Nat /\ DOMAIN q = 1 .. Len(q) /\ q \in [1 .. Len(q) -> T]
  OBVIOUS
<1>2. q \in [1 .. Len(q) -> ToSet(q)]
  BY <1>1 DEF ToSet
<1>3. /\ q \in Injection(1 .. Len(q), ToSet(q))
      /\ q \in Surjection(1 .. Len(q), ToSet(q))
  BY <1>1, <1>2 DEF Injection, Surjection, IsInjective, ToSet
<1>4. IsFiniteSet(ToSet(q))
  BY ToSetType, FS_Subset
<1>5. Cardinality(1 .. Len(q)) = Len(q)
  BY <1>1, FS_Interval
<1> QED BY <1>3, <1>4, <1>5, FS_Injection

(***************************************************************************)
(* P adds to the debt of a semaphore and at once a waiter, V takes one off *)
(* with the waiter it wakes; the killed leave their part of it behind.     *)
(***************************************************************************)
DebtKept(s) ==
  \/ Debt(s)' = Debt(s) + Cardinality(ToSet(procq[s]) \cap pcbFree_h')
  \/ procq[s] = <<>> /\ Debt(s)' = Debt(s) - 1

LEMMA DebtStep ==
  ASSUME PlaceInv, Next, NEW s \in UserSem
  PROVE  DebtKept(s)
<1> DEFINE killed == ToSet(procq[s]) \cap pcbFree_h'
<1>1. Running
  BY DEF Next, CreateProcess, TerminateSelf, TerminateProcess, TerminateUnknown, Die,
         Passeren, Verhogen, DoIO, DeviceInterrupt, DoIOBadLine, WaitForClock, Yield,
         PLTInterrupt, IntervalTimerInterrupt
<1>2. TypeOK /\ Placed
  BY <1>1 DEF PlaceInv, PlacedOnce, Running
<1>3. /\ s \in Sem /\ s \notin SoftSem /\ Clock \in SoftSem
      /\ procq \in [Sem -> Seq(Pcb)] /\ procq[s] \in Seq(Pcb) /\ Len(procq[s]) \in Nat
      /\ sem \in [Sem -> Int] /\ sem[s] \in Int
      /\ current_process \in Pcb
  BY <1>1, <1>2, SemAssumption DEF TypeOK, Sem, SoftSem
<1>4. IsInjective(procq[s]) /\ ToSet(procq[s]) \cap pcbFree_h = {}
  BY <1>2, <1>3 DEF Placed
<1>5. ASSUME pcbFree_h' \subseteq pcbFree_h PROVE Cardinality(killed) = 0
  <2>1. killed = {}
    BY <1>4, <1>5
  <2> QED BY <2>1, FS_EmptySet
<1> HIDE DEF killed
<1>6. ASSUME pcbFree_h' \subseteq pcbFree_h, procq'[s] = procq[s], sem'[s] = sem[s]
      PROVE  DebtKept(s)
  BY <1>3, <1>5, <1>6 DEF DebtKept, Debt, killed
<1>7. ASSUME NEW p, KillAndSchedule(p) PROVE DebtKept(s)
  <2> DEFINE D == Subtree(p)
             q == procq[s]
             r == Without(q, D)
  <2>1. procq'[s] = r /\ sem'[s] = sem[s] /\ pcbFree_h' = pcbFree_h \cup D
    BY <1>3, <1>7 DEF KillAndSchedule, Kill
  <2>2. r \in Seq(Pcb) /\ ToSet(r) = ToSet(q) \ D /\ IsInjective(r)
    BY <1>3, <1>4, WithoutProperties
  <2>3. killed = ToSet(q) \cap D
    BY <1>4, <2>1 DEF killed
  <2> HIDE DEF D, r
  <2>4. Len(q) = Cardinality(ToSet(q))
    BY <1>3, <1>4, PcbAssumption, QueueCount
  <2>5. Len(r) = Cardinality(ToSet(r)) /\ Len(r) \in Nat
    <3>1. r \in Seq(Pcb) /\ IsInjective(r)
      BY <2>2
    <3> QED BY <3>1, PcbAssumption, QueueCount
  <2>6. IsFiniteSet(ToSet(q))
    BY <1>3, ToSetType, PcbAssumption, FS_Subset
  <2>7. Cardinality(ToSet(r)) = Cardinality(ToSet(q)) - Cardinality(killed)
    BY <2>2, <2>3, <2>6, FS_Difference
  <2>8. Cardinality(killed) \in Nat
    BY <2>3, <2>6, FS_Intersection, FS_CardinalityType
  <2>9. Len(procq'[s]) = Len(procq[s]) - Cardinality(killed)
    BY <2>1, <2>4, <2>5, <2>7
  <2> QED BY <1>3, <2>1, <2>8, <2>9 DEF DebtKept, Debt, killed
<1>8. ASSUME NEW t \in Sem, t # s, BlockOn(t), sem' = [sem EXCEPT ![t] = @ - 1],
             pcbFree_h' = pcbFree_h
      PROVE  DebtKept(s)
  BY <1>3, <1>6, <1>8 DEF BlockOn
<1>9. ASSUME NEW t \in SoftSem, SemaphoreP(t) PROVE DebtKept(s)
  <2>1. t \in Sem /\ t # s /\ pcbFree_h' = pcbFree_h
    BY <1>3, <1>9 DEF SemaphoreP, Sem
  <2>2. sem' = [sem EXCEPT ![t] = Lowered(t)]
    BY <1>9 DEF SemaphoreP
  <2>3. sem'[s] = sem[s] /\ procq'[s] = procq[s]
    BY <1>3, <1>9, <2>1, <2>2 DEF SemaphoreP, BlockOn, queues
  <2> QED BY <1>3, <1>6, <2>1, <2>3
<1>10. ASSUME NEW t \in UserSem, Passeren(t) PROVE DebtKept(s)
  <2>1. t \in Sem /\ sem' = [sem EXCEPT ![t] = @ - 1] /\ pcbFree_h' = pcbFree_h
    BY <1>10 DEF Passeren, Sem
  <2>2. CASE t # s
    BY <1>3, <1>6, <1>8, <1>10, <2>1, <2>2 DEF Passeren, queues
  <2>3. CASE t = s /\ sem[s] > 0
    <3>1. procq'[s] = procq[s] /\ sem'[s] = sem[s] - 1
      BY <1>3, <1>10, <2>1, <2>3 DEF Passeren, queues
    <3> QED BY <1>3, <1>5, <2>1, <2>3, <3>1 DEF DebtKept, Debt, killed
  <2>4. CASE t = s /\ ~ (sem[s] > 0)
    <3>1. procq'[s] = InsertProcQ(procq[s], current_process, p_prio)
      BY <1>1, <1>2, <1>3, <1>10, <2>4, DescriptorLeft DEF Passeren, BlockOn
    <3>2. p_prio \in [Pcb -> Int]
      BY <1>2, PrioType
    <3>3. Len(InsertProcQ(procq[s], current_process, p_prio)) = Len(procq[s]) + 1
      BY <1>3, <3>2, InsertProcQProperties
    <3>4. sem'[s] = sem[s] - 1
      BY <1>3, <2>1, <2>4
    <3> QED BY <1>3, <1>5, <2>1, <2>4, <3>1, <3>3, <3>4 DEF DebtKept, Debt, killed
  <2> QED BY <2>2, <2>3, <2>4
<1>11. ASSUME NEW t \in UserSem, Verhogen(t) PROVE DebtKept(s)
  <2>1. t \in Sem /\ sem' = [sem EXCEPT ![t] = @ + 1] /\ pcbFree_h' = pcbFree_h
    BY <1>11 DEF Verhogen, Sem
  <2>2. CASE t # s
    <3>1. sem'[s] = sem[s] /\ procq'[s] = procq[s]
      BY <1>3, <1>11, <2>1, <2>2 DEF Verhogen, Wake, queues
    <3> QED BY <1>6, <2>1, <3>1
  <2>3. CASE t = s
    <3>1. sem'[s] = sem[s] + 1
      BY <1>3, <2>1, <2>3
    <3>2. CASE ~ MustWake(s)
      <4>1. procq'[s] = procq[s] /\ sem[s] >= 0
        BY <1>3, <1>11, <2>3, <3>2 DEF Verhogen, MustWake, queues
      <4> QED BY <1>3, <1>5, <2>1, <3>1, <4>1 DEF DebtKept, Debt, killed
    <3>3. CASE MustWake(s) /\ procq[s] = <<>>
      <4>1. procq'[s] = procq[s] /\ sem[s] + 1 <= 0
        BY <1>3, <1>11, <2>3, <3>3 DEF Verhogen, MustWake, Wake, queues
      <4> QED BY <1>3, <3>1, <3>3, <4>1 DEF DebtKept, Debt
    <3>4. CASE MustWake(s) /\ procq[s] # <<>>
      <4>1. procq'[s] = Tail(procq[s]) /\ sem[s] + 1 <= 0
        BY <1>3, <1>11, <2>3, <3>4 DEF Verhogen, MustWake, Wake
      <4>2. Len(Tail(procq[s])) = Len(procq[s]) - 1
        BY <1>3, <3>4, HeadTailPlaces
      <4>3. Len(procq'[s]) = Len(procq[s]) - 1
        BY <4>1, <4>2
      <4>4. Debt(s)' = Debt(s)
        <5>1. sem[s] \in Int /\ Len(procq[s]) \in Nat
          BY <1>3
        <5>2. (IF sem'[s] < 0 THEN - sem'[s] ELSE 0)
                = (IF sem[s] < 0 THEN - sem[s] ELSE 0) - 1
          BY <3>1, <4>1, <5>1
        <5> QED BY <4>3, <5>1, <5>2 DEF Debt
      <4>5. Debt(s) \in Int
        BY <1>3 DEF Debt
      <4> QED BY <1>5, <2>1, <4>4, <4>5 DEF DebtKept, killed
    <3> QED BY <3>2, <3>3, <3>4
  <2> QED BY <2>2, <2>3
<1>12. ASSUME IntervalTimerInterrupt PROVE DebtKept(s)
  BY <1>3, <1>6, <1>12 DEF IntervalTimerInterrupt
<1>13. ASSUME NEW p, NEW prio, NEW support, CreateProcess(p, prio, support)
       PROVE  DebtKept(s)
  BY <1>6, <1>13 DEF CreateProcess
<1>14. ASSUME \/ \E target : TerminateUnknown(target)
              \/ \E d \in DevSem : DeviceInterrupt(d)
              \/ DoIOBadLine \/ Yield \/ PLTInterrupt
       PROVE  DebtKept(s)
  BY <1>6, <1>14 DEF TerminateUnknown, DeviceInterrupt, DoIOBadLine, Yield, PLTInterrupt, queues
<1>15. ASSUME TerminateSelf \/ Die \/ \E target : TerminateProcess(target)
       PROVE  DebtKept(s)
  BY <1>7, <1>15 DEF TerminateSelf, Die, TerminateProcess
<1>16. ASSUME WaitForClock \/ \E d \in DevSem : DoIO(d)
       PROVE  DebtKept(s)
  BY <1>9, <1>16 DEF WaitForClock, DoIO, SoftSem
<1> QED BY <1>10, <1>11, <1>12, <1>13, <1>14, <1>15, <1>16 DEF Next

(***************************************************************************)
(* A semaphore owes wakeups to killed waiters and to nobody else.          *)
(***************************************************************************)
THEOREM DebtsAreKills == Spec => DebtByKillsOnly
<1>1. PlaceInv /\ [Next]_vars =>
        [\A s \in UserSem :
           \/ Debt(s)' = Debt(s) + Cardinality(ToSet(procq[s]) \cap pcbFree_h')
           \/ procq[s] = <<>> /\ Debt(s)' = Debt(s) - 1]_vars
  BY DebtStep DEF DebtKept
<1> QED BY <1>1, PlacesCorrect, PTL DEF Spec, DebtByKillsOnly

(***************************************************************************)
(* The processes that wait for a device or the clock, by their p_semAdd.   *)
(***************************************************************************)
SoftBlockedFacts ==
  /\ SoftBlocked = {p \in Pcb : p_semAdd[p] \in SoftSem}
  /\ IsFiniteSet(SoftBlocked)
  /\ Cardinality(SoftBlocked) \in Nat

LEMMA SoftBlockedSays == PlaceInv => SoftBlockedFacts
<1> SUFFICES ASSUME PlaceInv PROVE SoftBlockedFacts
  OBVIOUS
<1>1. SoftSem \subseteq Sem
  BY DEF Sem
<1>2. \A p \in Pcb : (\E s \in SoftSem : p \in ToSet(procq[s])) <=> p_semAdd[p] \in SoftSem
  BY <1>1 DEF PlaceInv, BlockedWhereItSays
<1>3. SoftBlocked = {p \in Pcb : p_semAdd[p] \in SoftSem}
  BY <1>2 DEF SoftBlocked
<1>4. SoftBlocked \in SUBSET Pcb
  BY DEF SoftBlocked
<1>5. IsFiniteSet(SoftBlocked)
  BY <1>4, PcbAssumption, FS_Subset
<1> QED BY <1>3, <1>5, FS_CardinalityType DEF SoftBlockedFacts

(***************************************************************************)
(* The same in the next state.                                             *)
(***************************************************************************)
LEMMA SoftBlockedSaysNext == PlaceInv' => SoftBlockedFacts'
  BY SoftBlockedSays, PTL

(***************************************************************************)
(* softblockcount rises with every process that blocks and falls by the    *)
(* number of those that a tick wakes, but not for those that are killed.   *)
(***************************************************************************)
Drift == softblockcount - Cardinality(SoftBlocked)

LEMMA DriftStep ==
  ASSUME PlaceInv, PlaceInv', Next
  PROVE  Drift' = Drift + Cardinality(SoftBlocked \cap pcbFree_h')
<1> DEFINE A == SoftBlocked
           B == SoftBlocked'
           c == current_process
<1>1. /\ A = {p \in Pcb : p_semAdd[p] \in SoftSem}
      /\ IsFiniteSet(A) /\ Cardinality(A) \in Nat
      /\ softblockcount \in Int
  BY SoftBlockedSays DEF SoftBlockedFacts, PlaceInv, TypeOK
<1>2. /\ B = {p \in Pcb : p_semAdd'[p] \in SoftSem}
      /\ IsFiniteSet(B) /\ Cardinality(B) \in Nat
  BY SoftBlockedSaysNext DEF SoftBlockedFacts
<1>3. /\ p_semAdd \in [Pcb -> Sem \cup {NULL}] /\ NULL \notin SoftSem
      /\ SoftSem \subseteq Sem /\ UserSem \subseteq Sem /\ UserSem \cap SoftSem = {}
  BY NULLAssumption, SemAssumption DEF PlaceInv, TypeOK, Sem
<1>4. Running /\ c \in Pcb
  BY DEF Next, CreateProcess, TerminateSelf, TerminateProcess, TerminateUnknown, Die,
       Passeren, Verhogen, DoIO, DeviceInterrupt, DoIOBadLine, WaitForClock, Yield,
       PLTInterrupt, IntervalTimerInterrupt, PlaceInv, TypeOK
<1>5. A \cap (pcbFree_h \cup {c}) = {}
  BY <1>3, <1>4 DEF SoftBlocked, PlaceInv, PlacedOnce, Placed, Running
<1> HIDE DEF A, B, c
<1> SUFFICES softblockcount' - Cardinality(B)
               = softblockcount - Cardinality(A) + Cardinality(A \cap pcbFree_h')
  BY DEF A, B, Drift
<1>6. Cardinality({}) = 0
  BY FS_EmptySet
<1>7. ASSUME B = A, softblockcount' = softblockcount, pcbFree_h' \subseteq pcbFree_h
      PROVE  softblockcount' - Cardinality(B)
               = softblockcount - Cardinality(A) + Cardinality(A \cap pcbFree_h')
  <2>1. A \cap pcbFree_h' = {}
    BY <1>5, <1>7
  <2>2. Cardinality(A \cap pcbFree_h') = 0 /\ Cardinality(B) = Cardinality(A)
    BY <1>6, <1>7, <2>1
  <2> QED BY <1>1, <1>7, <2>2
<1>8. ASSUME NEW p \in Pcb, NEW prio, NEW support, CreateProcess(p, prio, support)
      PROVE  softblockcount' - Cardinality(B)
               = softblockcount - Cardinality(A) + Cardinality(A \cap pcbFree_h')
  <2>1. /\ p \in pcbFree_h /\ pcbFree_h' \subseteq pcbFree_h
        /\ p_semAdd' = [p_semAdd EXCEPT ![p] = NULL] /\ softblockcount' = softblockcount
    BY <1>8 DEF CreateProcess
  <2>2. p \notin A
    BY <1>5, <2>1
  <2>3. B = A
    BY <1>1, <1>2, <1>3, <2>1, <2>2
  <2> QED BY <1>7, <2>1, <2>3
<1>9. ASSUME NEW p \in Pcb, KillAndSchedule(p)
      PROVE  softblockcount' - Cardinality(B)
               = softblockcount - Cardinality(A) + Cardinality(A \cap pcbFree_h')
  <2> DEFINE D == Subtree(p)
  <2>1. /\ p_semAdd' = [x \in Pcb |-> IF x \in D THEN NULL ELSE p_semAdd[x]]
        /\ softblockcount' = softblockcount - Cardinality(NotQueued(D))
        /\ pcbFree_h' = pcbFree_h \cup D
    BY <1>9 DEF KillAndSchedule, Kill
  <2>2. D \subseteq Pcb
    BY DEF Subtree
  <2> HIDE DEF D
  <2>3. NotQueued(D) = {}
    BY <1>3, <2>2 DEF NotQueued, PlaceInv, BlockedWhereItSays
  <2>4. softblockcount' = softblockcount
    BY <1>1, <1>6, <2>1, <2>3
  <2>5. B = A \ D
    BY <1>1, <1>2, <1>3, <2>1
  <2>6. A \cap pcbFree_h' = A \cap D
    BY <1>5, <2>1
  <2>7. /\ Cardinality(A \ D) = Cardinality(A) - Cardinality(A \cap D)
        /\ Cardinality(A \cap D) \in Nat
    BY <1>1, FS_Difference, FS_Intersection, FS_CardinalityType
  <2> QED BY <1>1, <2>4, <2>5, <2>6, <2>7
<1>10. ASSUME NEW s \in SoftSem, SemaphoreP(s)
       PROVE  softblockcount' - Cardinality(B)
                = softblockcount - Cardinality(A) + Cardinality(A \cap pcbFree_h')
  <2>1. pcbFree_h' = pcbFree_h
    BY <1>10 DEF SemaphoreP
  <2>2. CASE p_semAdd' = p_semAdd /\ softblockcount' = softblockcount
    <3>1. B = A
      BY <1>1, <1>2, <2>2
    <3> QED BY <1>7, <2>1, <2>2, <3>1
  <2>3. CASE /\ p_semAdd' = [p_semAdd EXCEPT ![c] = s]
             /\ softblockcount' = softblockcount + 1
    <3>1. B = A \cup {c}
      BY <1>1, <1>2, <1>3, <1>4, <2>3
    <3>2. Cardinality(A \cup {c}) = Cardinality(A) + 1
      BY <1>1, <1>5, FS_AddElement
    <3>3. A \cap pcbFree_h' = {}
      BY <1>5, <2>1
    <3> QED BY <1>1, <1>6, <2>3, <3>1, <3>2, <3>3
  <2> QED BY <1>10, <2>2, <2>3 DEF SemaphoreP, BlockOn, SoftBlock, c
<1>11. ASSUME NEW s \in UserSem, Passeren(s) \/ Verhogen(s)
       PROVE  softblockcount' - Cardinality(B)
                = softblockcount - Cardinality(A) + Cardinality(A \cap pcbFree_h')
  <2>1. softblockcount' = softblockcount /\ pcbFree_h' = pcbFree_h
    BY <1>11 DEF Passeren, Verhogen, counts
  <2>2. procq[s] \in Seq(Pcb) /\ \A p \in ToSet(procq[s]) : p_semAdd[p] = s
    BY <1>3, ToSetType DEF PlaceInv, TypeOK, BlockedWhereItSays
  <2>3. procq[s] # <<>> => Head(procq[s]) \in ToSet(procq[s])
    BY <2>2, HeadTailPlaces
  <2>4. \/ p_semAdd' = p_semAdd
        \/ p_semAdd' = [p_semAdd EXCEPT ![c] = s]
        \/ /\ procq[s] # <<>>
           /\ p_semAdd' = [p_semAdd EXCEPT ![Head(procq[s])] = NULL]
    BY <1>11 DEF Passeren, Verhogen, BlockOn, Wake, c
  <2>5. \A p \in Pcb : p_semAdd'[p] = p_semAdd[p]
                         \/ (p_semAdd'[p] \notin SoftSem /\ p \notin A)
    BY <1>1, <1>3, <1>4, <1>5, <2>2, <2>3, <2>4
  <2>6. B = A
    BY <1>1, <1>2, <2>5
  <2> QED BY <1>7, <2>1, <2>6
<1>12. ASSUME IntervalTimerInterrupt
       PROVE  softblockcount' - Cardinality(B)
                = softblockcount - Cardinality(A) + Cardinality(A \cap pcbFree_h')
  <2> DEFINE w == procq[Clock]
  <2>1. /\ p_semAdd' = [p \in Pcb |-> IF p \in ToSet(w) THEN NULL ELSE p_semAdd[p]]
        /\ softblockcount' = softblockcount - Len(w)
        /\ pcbFree_h' = pcbFree_h
    BY <1>12 DEF IntervalTimerInterrupt, ClockWaiters
  <2>2. Clock \in SoftSem /\ Clock \in Sem
    BY DEF SoftSem, Sem
  <2>3. w \in Seq(Pcb) /\ IsInjective(w)
    BY <1>4, <2>2 DEF PlaceInv, TypeOK, PlacedOnce, Placed, Running
  <2>4. ToSet(w) \subseteq A
    BY <1>1, <2>2, <2>3, ToSetType DEF PlaceInv, BlockedWhereItSays
  <2>5. Len(w) \in Nat
    BY <2>3
  <2> HIDE DEF w
  <2>6. Len(w) = Cardinality(ToSet(w))
    BY <2>3, PcbAssumption, QueueCount
  <2>7. B = A \ ToSet(w)
    BY <1>1, <1>2, <1>3, <2>1
  <2>8. A \cap ToSet(w) = ToSet(w) /\ A \cap pcbFree_h' = {}
    BY <1>5, <2>1, <2>4
  <2>9. Cardinality(A \ ToSet(w)) = Cardinality(A) - Cardinality(A \cap ToSet(w))
    BY <1>1, FS_Difference
  <2>10. /\ Cardinality(A \cap pcbFree_h') = 0
         /\ Cardinality(B) = Cardinality(A) - Len(w)
    BY <1>6, <2>6, <2>7, <2>8, <2>9
  <2> QED BY <1>1, <2>1, <2>5, <2>10
<1>13. ASSUME \/ \E target : TerminateUnknown(target)
              \/ \E d \in DevSem : DeviceInterrupt(d)
              \/ DoIOBadLine \/ Yield \/ PLTInterrupt
       PROVE  softblockcount' - Cardinality(B)
                = softblockcount - Cardinality(A) + Cardinality(A \cap pcbFree_h')
  <2>1. p_semAdd' = p_semAdd /\ softblockcount' = softblockcount /\ pcbFree_h' = pcbFree_h
    BY <1>13 DEF TerminateUnknown, DeviceInterrupt, DoIOBadLine, Yield, PLTInterrupt, counts
  <2>2. B = A
    BY <1>1, <1>2, <2>1
  <2> QED BY <1>7, <2>1, <2>2
<1>14. ASSUME TerminateSelf \/ Die \/ \E target \in Live : TerminateProcess(target)
       PROVE  \E p \in Pcb : KillAndSchedule(p)
  BY <1>4, <1>14 DEF TerminateSelf, Die, TerminateProcess, Live, c
<1>15. ASSUME WaitForClock \/ \E d \in DevSem : DoIO(d)
       PROVE  \E s \in SoftSem : SemaphoreP(s)
  BY <1>15 DEF WaitForClock, DoIO, SoftSem
<1> QED BY <1>8, <1>9, <1>10, <1>11, <1>12, <1>13, <1>14, <1>15 DEF Next

(***************************************************************************)
(* The difference between softblockcount and the number of processes that  *)
(* wait for a device or the clock is the number of those that were killed  *)
(* while they waited.                                                      *)
(***************************************************************************)
THEOREM SoftBlockDriftIsKills == Spec => SoftBlockDriftsByKills
<1>1. PlaceInv /\ PlaceInv' /\ [Next]_vars =>
        [softblockcount' - Cardinality(SoftBlocked')
           = softblockcount - Cardinality(SoftBlocked)
               + Cardinality(SoftBlocked \cap pcbFree_h')]_vars
  BY DriftStep DEF Drift
<1> QED BY <1>1, PlacesCorrect, PTL DEF Spec, SoftBlockDriftsByKills

(***************************************************************************)
(* softblockcount is never below the number of processes that wait for a   *)
(* device or the clock: it begins with their number, and a difference that *)
(* only grows does not become negative.                                    *)
(***************************************************************************)
THEOREM SoftBlockCountSuffices == Spec => []SoftBlockNeverShort
<1>1. Init => SoftBlockNeverShort
  <2> SUFFICES ASSUME Init PROVE Cardinality(SoftBlocked) <= softblockcount
    BY DEF SoftBlockNeverShort
  <2>1. SoftBlocked = {}
    BY DEF Init, SoftBlocked, Sem, ToSet
  <2> QED BY <2>1, FS_EmptySet DEF Init
<1>2. PlaceInv /\ PlaceInv' /\ SoftBlockNeverShort /\ [Next]_vars => SoftBlockNeverShort'
  <2> SUFFICES ASSUME PlaceInv, PlaceInv', SoftBlockNeverShort, [Next]_vars
               PROVE  SoftBlockNeverShort'
    OBVIOUS
  <2>1. /\ softblockcount \in Int /\ softblockcount' \in Int
        /\ Cardinality(SoftBlocked) \in Nat /\ Cardinality(SoftBlocked') \in Nat
        /\ Cardinality(SoftBlocked \cap pcbFree_h') \in Nat
    BY SoftBlockedSays, SoftBlockedSaysNext, FS_Intersection, FS_CardinalityType
       DEF SoftBlockedFacts, PlaceInv, TypeOK
  <2>2. CASE Next
    <3>1. softblockcount' - Cardinality(SoftBlocked')
            = softblockcount - Cardinality(SoftBlocked)
                + Cardinality(SoftBlocked \cap pcbFree_h')
      BY <2>2, DriftStep DEF Drift
    <3>2. Cardinality(SoftBlocked) <= softblockcount
      BY DEF SoftBlockNeverShort
    <3>3. Cardinality(SoftBlocked') <= softblockcount'
      BY <2>1, <3>1, <3>2
    <3> QED BY <3>3 DEF SoftBlockNeverShort
  <2>3. CASE UNCHANGED vars
    BY <2>3 DEF vars, queues, counts, SoftBlockNeverShort, SoftBlocked
  <2> QED BY <2>2, <2>3
<1> QED BY <1>1, <1>2, PlacesCorrect, PTL DEF Spec
=============================================================================
