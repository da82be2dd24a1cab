------------------------------ MODULE AslProofs ------------------------------
(***************************************************************************)
(* Theorems about the active semaphore list: its invariants, and that it   *)
(* implements AslSpec, for every number of PCBs and descriptors.           *)
(***************************************************************************)
EXTENDS Asl, ProcQueueProofs, FiniteSetTheorems

(***************************************************************************)
(* The elements of a sequence are those of its type, and finitely many.    *)
(***************************************************************************)
LEMMA ElementsType ==
  ASSUME NEW T, NEW q \in Seq(T)
  PROVE  ToSet(q) \subseteq T /\ (ToSet(q) = {} <=> q = <<>>)
<1>1. DOMAIN q = 1 .. Len(q) /\ Len(q) \in Nat
  OBVIOUS
<1>2. ToSet(q) \subseteq T
  BY DEF ToSet
<1>3. q = <<>> => ToSet(q) = {}
  BY DEF ToSet
<1>4. q # <<>> => 1 \in DOMAIN q
  BY <1>1, EmptySeq
<1>5. q # <<>> => ToSet(q) # {}
  BY <1>4 DEF ToSet
<1> QED BY <1>2, <1>3, <1>5

(***************************************************************************)
(* Taking out the one occurrence of an element keeps all others, in order. *)
(***************************************************************************)
LEMMA RemoveFirstProperties ==
  ASSUME NEW T, NEW q \in Seq(T), NEW e \in ToSet(q), IsInjective(q)
  PROVE  LET r == RemoveFirst(q, e)
         IN  /\ r \in Seq(T)
             /\ ToSet(r) = ToSet(q) \ {e}
             /\ IsInjective(r)
             /\ Len(r) = Len(q) - 1
             /\ \E j \in 1 .. Len(q) :
                  /\ q[j] = e
                  /\ \A i \in 1 .. Len(r) : r[i] = IF i < j THEN q[i] ELSE q[i + 1]
<1> DEFINE n == Len(q)
           I == {i \in 1 .. n : q[i] = e}
           j == IF I # {} THEN Min(I) ELSE 0
           r == RemoveFirst(q, e)
<1>1. n \in Nat /\ DOMAIN q = 1 .. n /\ \A i \in 1 .. n : q[i] \in T
  OBVIOUS
<1>2. \E i \in 1 .. n : q[i] = e
  BY <1>1 DEF ToSet
<1>3. r = SubSeq(q, 1, j - 1) \o SubSeq(q, j + 1, n)
  BY <1>2 DEF RemoveFirst, RemoveAt, SelectInSeq
<1>4. j \in I
  <2>1. I \in SUBSET (1 .. n) /\ I # {}
    BY <1>2
  <2> HIDE DEF I
  <2>2. j \in 0 .. n /\ (j # 0 => j \in I) /\ \A i \in 1 .. n : j = 0 \/ i < j => i \notin I
    BY <1>1, <2>1, FirstPosition
  <2> QED BY <2>1, <2>2
<1>5. j \in 1 .. n /\ q[j] = e
  BY <1>4
<1> HIDE DEF j, r
<1>6. /\ r \in Seq(T) /\ Len(r) = n - 1
      /\ \A i \in 1 .. n - 1 : r[i] = IF i < j THEN q[i] ELSE q[i + 1]
  <2> DEFINE u == SubSeq(q, 1, j - 1)
             v == SubSeq(q, j + 1, n)
  <2>1. \A i \in 1 .. n : q[i] \in T
    BY <1>1
  <2>2. u \in Seq(T) /\ Len(u) = j - 1 /\ \A i \in 1 .. j - 1 : u[i] = q[i]
    <3>1. \A i \in 1 .. j - 1 : q[i] \in T
      BY <1>1, <1>5
    <3>2. Len(u) = (IF 1 <= j - 1 THEN j - 1 - 1 + 1 ELSE 0)
      BY <1>1, <1>5, <3>1, SubSeqProperties
    <3>3. u \in Seq(T) /\ \A i \in 1 .. j - 1 - 1 + 1 : u[i] = q[1 + i - 1]
      BY <1>1, <1>5, <3>1, SubSeqProperties
    <3> HIDE DEF u
    <3> QED BY <1>1, <1>5, <3>2, <3>3
  <2>3. v \in Seq(T) /\ Len(v) = n - j /\ \A i \in 1 .. n - j : v[i] = q[j + i]
    <3>1. \A i \in j + 1 .. n : q[i] \in T
      BY <1>1, <1>5
    <3>2. Len(v) = (IF j + 1 <= n THEN n - (j + 1) + 1 ELSE 0)
      BY <1>1, <1>5, <3>1, SubSeqProperties
    <3>3. v \in Seq(T) /\ \A i \in 1 .. n - (j + 1) + 1 : v[i] = q[j + 1 + i - 1]
      BY <1>1, <1>5, <3>1, SubSeqProperties
    <3> HIDE DEF v
    <3>4. Len(v) = n - j
      <4>1. n \in Nat /\ j \in 1 .. n
        BY <1>1, <1>5
      <4> HIDE DEF n
      <4>2. (IF j + 1 <= n THEN n - (j + 1) + 1 ELSE 0) = n - j
        BY <4>1
      <4> QED BY <3>2, <4>2
    <3>5. ASSUME NEW i \in 1 .. n - j PROVE v[i] = q[j + i]
      <4>1. i \in 1 .. n - (j + 1) + 1 /\ j + 1 + i - 1 = j + i
        BY <1>1, <1>5
      <4> QED BY <3>3, <4>1
    <3> QED BY <3>3, <3>4, <3>5
  <2>4. r = u \o v
    BY <1>3
  <2> HIDE DEF u, v
  <2>5. /\ u \o v \in Seq(T)
        /\ Len(u \o v) = Len(u) + Len(v)
        /\ \A i \in 1 .. Len(u) + Len(v) :
             (u \o v)[i] = IF i <= Len(u) THEN u[i] ELSE v[i - Len(u)]
    BY <2>2, <2>3, ConcatProperties
  <2>6. r \in Seq(T) /\ Len(r) = n - 1
    BY <1>1, <1>5, <2>2, <2>3, <2>4, <2>5
  <2>7. ASSUME NEW i \in 1 .. n - 1 PROVE r[i] = IF i < j THEN q[i] ELSE q[i + 1]
    <3>1. CASE i < j
      BY <1>1, <1>5, <2>2, <2>3, <2>4, <2>5, <3>1
    <3>2. CASE i >= j
      <4>1. i - (j - 1) \in 1 .. n - j /\ j + (i - (j - 1)) = i + 1 /\ ~ (i <= j - 1)
        BY <1>1, <1>5, <3>2
      <4>2. v[i - (j - 1)] = q[i + 1]
        BY <2>3, <4>1
      <4>3. r[i] = v[i - (j - 1)]
        BY <1>1, <1>5, <2>2, <2>3, <2>4, <2>5, <4>1
      <4> QED BY <1>5, <3>2, <4>2, <4>3
    <3> QED BY <1>5, <3>1, <3>2
  <2> QED BY <2>6, <2>7
<1>7. DOMAIN r = 1 .. n - 1
  BY <1>1, <1>6
<1>8. IsInjective(r)
  <2> SUFFICES ASSUME NEW a \in 1 .. n - 1, NEW b \in 1 .. n - 1, r[a] = r[b]
               PROVE  a = b
    BY <1>7 DEF IsInjective
  <2> DEFINE from(i) == IF i < j THEN i ELSE i + 1
  <2>1. q[from(a)] = q[from(b)] /\ from(a) \in 1 .. n /\ from(b) \in 1 .. n
    BY <1>1, <1>5, <1>6
  <2>2. from(a) = from(b)
    BY <1>1, <2>1 DEF IsInjective
  <2> QED BY <1>1, <1>5, <2>2
<1>9. ToSet(r) = ToSet(q) \ {e}
  <2>1. ASSUME NEW x \in ToSet(r) PROVE x \in ToSet(q) \ {e}
    <3>1. PICK a \in 1 .. n - 1 : r[a] = x
      BY <1>7 DEF ToSet
    <3>2. PICK b \in 1 .. n : b # j /\ q[b] = x
      BY <1>1, <1>5, <1>6, <3>1
    <3>3. x # e
      BY <1>1, <1>5, <3>2 DEF IsInjective
    <3> QED BY <1>1, <3>2, <3>3 DEF ToSet
  <2>2. ASSUME NEW x \in ToSet(q) \ {e} PROVE x \in ToSet(r)
    <3>1. PICK b \in 1 .. n : q[b] = x
      BY <1>1 DEF ToSet
    <3>2. b # j
      BY <1>5, <3>1
    <3>3. \E a \in 1 .. n - 1 : r[a] = x
      <4>1. CASE b < j
        BY <1>1, <1>5, <1>6, <3>1, <4>1
      <4>2. CASE b > j
        <5>1. b - 1 \in 1 .. n - 1 /\ ~ (b - 1 < j) /\ (b - 1) + 1 = b
          BY <1>1, <1>5, <4>2
        <5> QED BY <1>6, <3>1, <5>1
      <4> QED BY <1>5, <3>2, <4>1, <4>2
    <3> QED BY <1>7, <3>3 DEF ToSet
  <2> QED BY <2>1, <2>2
<1> QED BY <1>5, <1>6, <1>8, <1>9 DEF r

-----------------------------------------------------------------------------
(***************************************************************************)
(* KeysAscending of any list of descriptors.                               *)
(***************************************************************************)
Ascending(l, key) == \A i, j \in DOMAIN l : i < j => key[l[i]] < key[l[j]]

(***************************************************************************)
(* A list stays ascending when a descriptor is taken out.                  *)
(***************************************************************************)
LEMMA RemoveAscending ==
  ASSUME NEW l \in Seq(Semd), NEW d \in ToSet(l), IsInjective(l),
         NEW key, Ascending(l, key)
  PROVE  Ascending(RemoveFirst(l, d), key)
<1> DEFINE r == RemoveFirst(l, d)
<1>1. r \in Seq(Semd) /\ Len(r) = Len(l) - 1
  BY RemoveFirstProperties
<1>2. PICK j \in 1 .. Len(l) :
        \A i \in 1 .. Len(r) : r[i] = IF i < j THEN l[i] ELSE l[i + 1]
  BY RemoveFirstProperties
<1> HIDE DEF r
<1>3. DOMAIN r = 1 .. Len(l) - 1 /\ DOMAIN l = 1 .. Len(l) /\ Len(l) \in Nat
  BY <1>1
<1> DEFINE from(i) == IF i < j THEN i ELSE i + 1
<1>4. \A i \in DOMAIN r : r[i] = l[from(i)] /\ from(i) \in DOMAIN l
  BY <1>1, <1>2, <1>3
<1>5. \A a, b \in DOMAIN r : a < b => from(a) < from(b)
  BY <1>3
<1> HIDE DEF from
<1>6. Ascending(r, key)
  BY <1>4, <1>5 DEF Ascending
<1> QED BY <1>6 DEF r

(***************************************************************************)
(* Where insertBlocked puts a new key, all before are smaller and all      *)
(* behind are larger.                                                      *)
(***************************************************************************)
LEMMA AslPosRange ==
  ASSUME semd_h \in Seq(Semd), Ascending(semd_h, s_key), NEW k \in Int,
         \A i \in DOMAIN semd_h : s_key[semd_h[i]] \in Int /\ s_key[semd_h[i]] # k
  PROVE  /\ AslPos(k) \in 1 .. Len(semd_h) + 1
         /\ \A i \in DOMAIN semd_h :
              /\ i < AslPos(k) => s_key[semd_h[i]] < k
              /\ i >= AslPos(k) => k < s_key[semd_h[i]]
<1> DEFINE n == Len(semd_h)
           I == {i \in 1 .. n : s_key[semd_h[i]] > k}
           l == IF I # {} THEN Min(I) ELSE 0
<1>1. n \in Nat /\ DOMAIN semd_h = 1 .. n
  OBVIOUS
<1>2. AslPos(k) = IF l = 0 THEN n + 1 ELSE l
  BY DEF AslPos, SelectInSeq
<1>3. l \in 0 .. n /\ (l # 0 => l \in I) /\ \A i \in 1 .. n : l = 0 \/ i < l => i \notin I
  <2>1. I \in SUBSET (1 .. n)
    OBVIOUS
  <2> HIDE DEF I
  <2> QED BY <1>1, <2>1, FirstPosition
<1> HIDE DEF l
<1>4. CASE l = 0
  BY <1>1, <1>2, <1>3, <1>4
<1>5. CASE l # 0
  <2>1. l \in 1 .. n /\ s_key[semd_h[l]] > k /\ AslPos(k) = l
    BY <1>2, <1>3, <1>5
  <2>2. \A i \in 1 .. n : i < l => s_key[semd_h[i]] < k
    BY <1>1, <1>3
  <2>3. ASSUME NEW i \in 1 .. n, i >= l PROVE k < s_key[semd_h[i]]
    <3>1. i = l \/ s_key[semd_h[l]] < s_key[semd_h[i]]
      BY <1>1, <2>1, <2>3 DEF Ascending
    <3> QED BY <1>1, <2>1, <3>1
  <2> QED BY <1>1, <2>1, <2>2, <2>3
<1> QED BY <1>4, <1>5

(***************************************************************************)
(* So the list with a new descriptor d for k is ascending.                 *)
(***************************************************************************)
LEMMA InsertAscending ==
  ASSUME semd_h \in Seq(Semd), Ascending(semd_h, s_key), NEW k \in Int,
         \A i \in DOMAIN semd_h : s_key[semd_h[i]] \in Int /\ s_key[semd_h[i]] # k,
         IsInjective(semd_h),
         NEW d \in Semd, d \notin ToSet(semd_h), s_key \in [Semd -> Key \cup {NULL}]
  PROVE  LET r == InsertAt(semd_h, AslPos(k), d)
         IN  /\ r \in Seq(Semd)
             /\ ToSet(r) = ToSet(semd_h) \cup {d}
             /\ IsInjective(r)
             /\ Ascending(r, [s_key EXCEPT ![d] = k])
<1> DEFINE n == Len(semd_h)
           x == AslPos(k)
           r == InsertAt(semd_h, x, d)
           key == [s_key EXCEPT ![d] = k]
<1>1. n \in Nat /\ DOMAIN semd_h = 1 .. n /\ \A i \in 1 .. n : semd_h[i] \in Semd
  OBVIOUS
<1>2. /\ x \in 1 .. n + 1
      /\ \A i \in 1 .. n : /\ i < x => s_key[semd_h[i]] < k
                           /\ i >= x => k < s_key[semd_h[i]]
  BY <1>1, AslPosRange
<1> HIDE DEF x
<1>3. /\ r \in Seq(Semd) /\ Len(r) = n + 1
      /\ \A i \in 1 .. n + 1 :
           r[i] = IF i < x THEN semd_h[i] ELSE IF i = x THEN d ELSE semd_h[i - 1]
  BY <1>2, InsertAtProperties
<1> HIDE DEF r
<1>4. DOMAIN r = 1 .. n + 1
  BY <1>1, <1>3
<1> DEFINE from(i) == IF i < x THEN i ELSE i - 1
<1>5. \A i \in 1 .. n + 1 : i # x => from(i) \in 1 .. n /\ r[i] = semd_h[from(i)]
  BY <1>1, <1>2, <1>3
<1>6. r[x] = d
  BY <1>1, <1>2, <1>3
<1>7. \A i \in 1 .. n : semd_h[i] # d
  BY <1>1 DEF ToSet
<1>8. key[d] = k /\ \A i \in 1 .. n : key[semd_h[i]] = s_key[semd_h[i]]
  BY <1>1, <1>7
<1>9. \A a, b \in 1 .. n + 1 : a # x /\ b # x => (a < b <=> from(a) < from(b))
  BY <1>1, <1>2
<1> HIDE DEF from, key
<1>10. IsInjective(r)
  <2> SUFFICES ASSUME NEW a \in 1 .. n + 1, NEW b \in 1 .. n + 1, r[a] = r[b]
               PROVE  a = b
    BY <1>4 DEF IsInjective
  <2>1. CASE a = x \/ b = x
    BY <1>5, <1>6, <1>7, <2>1
  <2>2. CASE a # x /\ b # x
    <3>1. from(a) = from(b)
      BY <1>1, <1>5, <2>2 DEF IsInjective
    <3>2. ~ (a < b) /\ ~ (b < a)
      BY <1>1, <1>5, <1>9, <2>2, <3>1
    <3> QED BY <1>1, <3>2
  <2> QED BY <2>1, <2>2
<1>11. Ascending(r, key)
  <2> SUFFICES ASSUME NEW a \in 1 .. n + 1, NEW b \in 1 .. n + 1, a < b
               PROVE  key[r[a]] < key[r[b]]
    BY <1>4 DEF Ascending
  <2>1. CASE a = x
    <3>1. b # x /\ from(b) >= x
      BY <1>1, <1>2, <2>1 DEF from
    <3> QED BY <1>1, <1>2, <1>5, <1>6, <1>8, <2>1, <3>1
  <2>2. CASE b = x
    <3>1. a # x /\ from(a) < x
      BY <1>1, <1>2, <2>2 DEF from
    <3> QED BY <1>1, <1>2, <1>5, <1>6, <1>8, <2>2, <3>1
  <2>3. CASE a # x /\ b # x
    <3>1. from(a) < from(b)
      BY <1>9, <2>3
    <3> QED BY <1>1, <1>5, <1>8, <2>3, <3>1 DEF Ascending
  <2> QED BY <2>1, <2>2, <2>3
<1>12. ToSet(r) = ToSet(semd_h) \cup {d}
  <2>1. ASSUME NEW y \in ToSet(r) PROVE y \in ToSet(semd_h) \cup {d}
    <3>1. PICK a \in 1 .. n + 1 : r[a] = y
      BY <1>4 DEF ToSet
    <3> QED BY <1>1, <1>5, <1>6, <3>1 DEF ToSet
  <2>2. ASSUME NEW i \in 1 .. n PROVE semd_h[i] \in ToSet(r)
    <3>1. \E a \in 1 .. n + 1 : r[a] = semd_h[i]
      <4>1. CASE i < x
        BY <1>1, <1>3, <4>1
      <4>2. CASE i >= x
        <5>1. i + 1 \in 1 .. n + 1 /\ ~ (i + 1 < x) /\ i + 1 # x /\ (i + 1) - 1 = i
          BY <1>1, <1>2, <4>2
        <5> QED BY <1>3, <5>1
      <4> QED BY <1>1, <1>2, <4>1, <4>2
    <3> QED BY <1>4, <3>1 DEF ToSet
  <2>3. d \in ToSet(r)
    BY <1>2, <1>4, <1>6 DEF ToSet
  <2> QED BY <1>1, <2>1, <2>2, <2>3 DEF ToSet
<1> QED BY <1>3, <1>10, <1>11, <1>12 DEF r, key, x

-----------------------------------------------------------------------------
(***************************************************************************)
(* The inductive invariant: the invariants of the runs, and that the key   *)
(* of an active descriptor is a semaphore's address and that p_semAdd      *)
(* always names an active descriptor.                                      *)
(***************************************************************************)
Keyed == \A d \in ToSet(semd_h) : s_key[d] \in Key

Somewhere ==
  \A p \in Pcb : p_semAdd[p] # NULL => \E d \in ToSet(semd_h) : s_key[d] = p_semAdd[p]

AslInv ==
  /\ TypeOK
  /\ KeysAscending
  /\ DescriptorsPartitioned
  /\ ActiveIffWaiting
  /\ BlockedWhereItSays
  /\ Keyed
  /\ Somewhere

(***************************************************************************)
(* findSemd finds the one active descriptor of a key, if there is one.     *)
(***************************************************************************)
Finds ==
  /\ \A k : IF findSemd(k) = NULL
            THEN \A d \in ToSet(semd_h) : s_key[d] # k
            ELSE findSemd(k) \in ToSet(semd_h) /\ s_key[findSemd(k)] = k
  /\ \A d \in ToSet(semd_h) : findSemd(s_key[d]) = d
  /\ \A d, e \in ToSet(semd_h) : s_key[d] = s_key[e] => d = e

LEMMA FindSemd == AslInv => Finds
<1> SUFFICES ASSUME AslInv PROVE Finds
  OBVIOUS
<1> DEFINE n == Len(semd_h)
<1>1. n \in Nat /\ DOMAIN semd_h = 1 .. n /\ \A i \in 1 .. n : semd_h[i] \in Semd
  BY DEF AslInv, TypeOK
<1>2. ToSet(semd_h) = {semd_h[i] : i \in 1 .. n} /\ ToSet(semd_h) \subseteq Semd
  BY <1>1 DEF ToSet
<1>3. ASSUME NEW k
      PROVE  IF findSemd(k) = NULL
             THEN \A d \in ToSet(semd_h) : s_key[d] # k
             ELSE findSemd(k) \in ToSet(semd_h) /\ s_key[findSemd(k)] = k
  <2> DEFINE I == {i \in 1 .. n : s_key[semd_h[i]] = k}
             l == IF I # {} THEN Min(I) ELSE 0
  <2>1. findSemd(k) = IF l = 0 THEN NULL ELSE semd_h[l]
    BY DEF findSemd, SelectInSeq
  <2>2. l \in 0 .. n /\ (l # 0 => l \in I) /\ \A i \in 1 .. n : l = 0 \/ i < l => i \notin I
    <3>1. I \in SUBSET (1 .. n)
      OBVIOUS
    <3> HIDE DEF I
    <3> QED BY <1>1, <3>1, FirstPosition
  <2> HIDE DEF l
  <2>3. l # 0 => semd_h[l] \in Semd /\ s_key[semd_h[l]] = k /\ l \in 1 .. n
    BY <1>1, <2>2
  <2> QED BY <1>2, <2>1, <2>2, <2>3, NULLAssumption
<1>4. ASSUME NEW d \in ToSet(semd_h), NEW e \in ToSet(semd_h), s_key[d] = s_key[e]
      PROVE  d = e
  <2>1. PICK i \in 1 .. n : semd_h[i] = d
    BY <1>2
  <2>2. PICK j \in 1 .. n : semd_h[j] = e
    BY <1>2
  <2>3. s_key[d] \in Int
    BY KeyAssumption DEF AslInv, Keyed
  <2>4. ~ (i < j) /\ ~ (j < i)
    BY <1>1, <1>4, <2>1, <2>2, <2>3 DEF AslInv, KeysAscending
  <2> QED BY <1>1, <2>1, <2>2, <2>4
<1>5. ASSUME NEW d \in ToSet(semd_h) PROVE findSemd(s_key[d]) = d
  BY <1>3, <1>4
<1> QED BY <1>3, <1>4, <1>5 DEF Finds

(***************************************************************************)
(* A PCB in the queue of an active descriptor leaves it.                   *)
(***************************************************************************)
Leaves(d, p, q) ==
  /\ d \in ToSet(semd_h) /\ p \in ToSet(s_procq[d])
  /\ q \in Seq(Pcb) /\ IsInjective(q) /\ ToSet(q) = ToSet(s_procq[d]) \ {p}
  /\ SetProcq(d, q)
  /\ p_semAdd' = [p_semAdd EXCEPT ![p] = NULL]
  /\ s_key' = s_key
  /\ ret' = p

LEMMA LeavesStep ==
  ASSUME AslInv, NEW d, NEW p, NEW q, Leaves(d, p, q)
  PROVE  AslInv'
<1>1. /\ d \in Semd /\ p \in Pcb /\ d \in ToSet(semd_h)
      /\ semd_h \in Seq(Semd) /\ semdFree_h \in Seq(Semd)
      /\ s_key \in [Semd -> Key \cup {NULL}] /\ s_procq \in [Semd -> Seq(Pcb)]
      /\ p_semAdd \in [Pcb -> Key \cup {NULL}]
  BY ElementsType DEF AslInv, TypeOK, Leaves
<1>2. /\ s_procq' = [s_procq EXCEPT ![d] = q] /\ s_key' = s_key /\ ret' = p
      /\ p_semAdd' = [p_semAdd EXCEPT ![p] = NULL]
      /\ q \in Seq(Pcb) /\ IsInjective(q) /\ ToSet(q) = ToSet(s_procq[d]) \ {p}
      /\ p \in ToSet(s_procq[d])
  BY DEF Leaves, SetProcq
<1>3. p_semAdd[p] = s_key[d] /\ s_key[d] \in Key
  BY <1>1, <1>2 DEF AslInv, BlockedWhereItSays, Keyed
<1>4. /\ IsInjective(semd_h) /\ IsInjective(semdFree_h) /\ Ascending(semd_h, s_key)
      /\ ToSet(semd_h) \cap ToSet(semdFree_h) = {}
      /\ ToSet(semd_h) \cup ToSet(semdFree_h) = Semd
  BY DEF AslInv, KeysAscending, Ascending, DescriptorsPartitioned
<1>5. q = <<>> <=> ToSet(q) = {}
  BY <1>2, ElementsType
<1>6. /\ semd_h' \in Seq(Semd) /\ semdFree_h' \in Seq(Semd)
      /\ IsInjective(semd_h') /\ IsInjective(semdFree_h') /\ Ascending(semd_h', s_key)
      /\ ToSet(semd_h') = IF q = <<>> THEN ToSet(semd_h) \ {d} ELSE ToSet(semd_h)
      /\ ToSet(semdFree_h') = IF q = <<>> THEN ToSet(semdFree_h) \cup {d}
                              ELSE ToSet(semdFree_h)
  <2>1. CASE q = <<>>
    <3>1. semd_h' = RemoveFirst(semd_h, d) /\ semdFree_h' = Append(semdFree_h, d)
      BY <2>1 DEF Leaves, SetProcq
    <3>2. /\ RemoveFirst(semd_h, d) \in Seq(Semd)
          /\ ToSet(RemoveFirst(semd_h, d)) = ToSet(semd_h) \ {d}
          /\ IsInjective(RemoveFirst(semd_h, d))
      BY <1>1, <1>4, RemoveFirstProperties
    <3>3. Ascending(RemoveFirst(semd_h, d), s_key)
      BY <1>1, <1>4, RemoveAscending
    <3>4. /\ Append(semdFree_h, d) \in Seq(Semd)
          /\ ToSet(Append(semdFree_h, d)) = ToSet(semdFree_h) \cup {d}
          /\ IsInjective(Append(semdFree_h, d))
      BY <1>1, <1>4, AppendPlaces
    <3> QED BY <2>1, <3>1, <3>2, <3>3, <3>4
  <2>2. CASE q # <<>>
    <3>1. semd_h' = semd_h /\ semdFree_h' = semdFree_h
      BY <2>2 DEF Leaves, SetProcq
    <3> QED BY <1>1, <1>4, <2>2, <3>1
  <2> QED BY <2>1, <2>2
<1>7. TypeOK'
  BY <1>1, <1>2, <1>6 DEF TypeOK
<1>8. KeysAscending'
  BY <1>2, <1>6 DEF KeysAscending, Ascending
<1>9. DescriptorsPartitioned'
  BY <1>1, <1>4, <1>6 DEF DescriptorsPartitioned
<1>10. ActiveIffWaiting'
  BY <1>1, <1>2, <1>6 DEF AslInv, ActiveIffWaiting
<1>11. BlockedWhereItSays'
  <2>1. ASSUME NEW e \in Semd PROVE IsInjective(s_procq'[e])
    BY <1>1, <1>2 DEF AslInv, BlockedWhereItSays
  <2>2. ASSUME NEW x \in Pcb, NEW e \in Semd
        PROVE  x \in ToSet(s_procq'[e]) <=> /\ e \in ToSet(semd_h')
                                            /\ p_semAdd'[x] = s_key'[e]
    <3>1. x \in ToSet(s_procq[e]) <=> e \in ToSet(semd_h) /\ p_semAdd[x] = s_key[e]
      BY DEF AslInv, BlockedWhereItSays
    <3>2. x \in ToSet(s_procq[d]) <=> p_semAdd[x] = s_key[d]
      BY <1>1 DEF AslInv, BlockedWhereItSays
    <3>3. CASE e = d
      <4>1. x \in ToSet(s_procq'[d]) <=> x \in ToSet(s_procq[d]) /\ x # p
        BY <1>1, <1>2
      <4>2. p_semAdd'[x] = s_key'[d] <=> x # p /\ p_semAdd[x] = s_key[d]
        BY <1>1, <1>2, <1>3, NULLAssumption
      <4>3. x \in ToSet(s_procq[d]) /\ x # p => d \in ToSet(semd_h')
        BY <1>1, <1>2, <1>5, <1>6
      <4> QED BY <3>2, <3>3, <4>1, <4>2, <4>3
    <3>4. CASE e # d
      <4>1. s_procq'[e] = s_procq[e] /\ (e \in ToSet(semd_h') <=> e \in ToSet(semd_h))
        BY <1>1, <1>2, <1>6, <3>4
      <4>2. CASE x # p
        BY <1>1, <1>2, <3>1, <4>1, <4>2
      <4>3. CASE x = p
        <5>1. e \in ToSet(semd_h) => s_key[e] # NULL /\ s_key[e] # s_key[d]
          BY <1>1, <3>4, FindSemd, NULLAssumption DEF Finds, AslInv, Keyed
        <5> QED BY <1>1, <1>2, <1>3, <3>1, <4>1, <4>3, <5>1
      <4> QED BY <4>2, <4>3
    <3> QED BY <3>3, <3>4
  <2> QED BY <2>1, <2>2 DEF BlockedWhereItSays
<1>12. Keyed'
  BY <1>2, <1>6 DEF AslInv, Keyed
<1>13. Somewhere'
  <2> SUFFICES ASSUME NEW x \in Pcb, p_semAdd'[x] # NULL
               PROVE  \E e \in ToSet(semd_h') : s_key'[e] = p_semAdd'[x]
    BY DEF Somewhere
  <2>1. x # p /\ p_semAdd'[x] = p_semAdd[x]
    BY <1>1, <1>2
  <2>2. PICK e \in ToSet(semd_h) : s_key[e] = p_semAdd[x]
    BY <2>1 DEF AslInv, Somewhere
  <2>3. e \in ToSet(semd_h')
    <3>1. CASE e = d
      <4>1. x \in ToSet(s_procq[d])
        BY <1>1, <2>2, <3>1 DEF AslInv, BlockedWhereItSays
      <4> QED BY <1>1, <1>2, <1>5, <1>6, <2>1, <3>1, <4>1
    <3>2. CASE e # d
      BY <1>6, <2>2, <3>2
    <3> QED BY <3>1, <3>2
  <2> QED BY <1>2, <2>1, <2>2, <2>3
<1> QED BY <1>7, <1>8, <1>9, <1>10, <1>11, <1>12, <1>13 DEF AslInv

(***************************************************************************)
(* A PCB that is not blocked is in no queue.                               *)
(***************************************************************************)
LEMMA Unblocked ==
  ASSUME AslInv, NEW p \in Pcb, p_semAdd[p] = NULL, NEW e \in Semd
  PROVE  p \notin ToSet(s_procq[e])
BY NULLAssumption DEF AslInv, BlockedWhereItSays, Keyed

(***************************************************************************)
(* insertBlocked on a semaphore that is active.                            *)
(***************************************************************************)
LEMMA InsertActiveStep ==
  ASSUME AslInv, NEW k \in Key, NEW p \in Pcb, p_semAdd[p] = NULL, InsertActive(k, p)
  PROVE  AslInv'
<1> DEFINE d == findSemd(k)
           q == InsertProcQ(s_procq[d], p, p_prio)
<1>1. /\ d # NULL /\ s_procq' = [s_procq EXCEPT ![d] = q]
      /\ p_semAdd' = [p_semAdd EXCEPT ![p] = k] /\ ret' = 0
      /\ semdFree_h' = semdFree_h /\ semd_h' = semd_h /\ s_key' = s_key
  BY DEF InsertActive
<1>2. d \in ToSet(semd_h) /\ s_key[d] = k
  BY <1>1, FindSemd DEF Finds
<1> HIDE DEF d
<1>3. /\ d \in Semd
      /\ semd_h \in Seq(Semd) /\ semdFree_h \in Seq(Semd)
      /\ s_key \in [Semd -> Key \cup {NULL}] /\ s_procq \in [Semd -> Seq(Pcb)]
      /\ p_semAdd \in [Pcb -> Key \cup {NULL}] /\ p_prio \in [Pcb -> Int]
  BY <1>2, ElementsType, PrioAssumption DEF AslInv, TypeOK
<1>4. p \notin ToSet(s_procq[d]) /\ IsInjective(s_procq[d]) /\ s_procq[d] \in Seq(Pcb)
  BY <1>3, Unblocked DEF AslInv, BlockedWhereItSays
<1>5. q \in Seq(Pcb) /\ ToSet(q) = ToSet(s_procq[d]) \cup {p} /\ IsInjective(q)
  BY <1>3, <1>4, InsertProcQProperties
<1> HIDE DEF q
<1>6. q # <<>>
  BY <1>5, ElementsType
<1>7. TypeOK'
  BY <1>1, <1>3, <1>5 DEF TypeOK
<1>8. KeysAscending' /\ DescriptorsPartitioned' /\ Keyed'
  BY <1>1 DEF AslInv, KeysAscending, DescriptorsPartitioned, Keyed
<1>9. ActiveIffWaiting'
  BY <1>1, <1>2, <1>3, <1>6 DEF AslInv, ActiveIffWaiting
<1>10. BlockedWhereItSays'
  <2>1. ASSUME NEW e \in Semd PROVE IsInjective(s_procq'[e])
    BY <1>1, <1>3, <1>5 DEF AslInv, BlockedWhereItSays
  <2>2. ASSUME NEW x \in Pcb, NEW e \in Semd
        PROVE  x \in ToSet(s_procq'[e]) <=> /\ e \in ToSet(semd_h')
                                            /\ p_semAdd'[x] = s_key'[e]
    <3>1. x \in ToSet(s_procq[e]) <=> e \in ToSet(semd_h) /\ p_semAdd[x] = s_key[e]
      BY DEF AslInv, BlockedWhereItSays
    <3>2. p \notin ToSet(s_procq[e])
      BY Unblocked
    <3>3. CASE e = d
      <4>1. x \in ToSet(s_procq'[d]) <=> x \in ToSet(s_procq[d]) \/ x = p
        BY <1>1, <1>3, <1>5
      <4> QED BY <1>1, <1>2, <1>3, <3>1, <3>3, <4>1
    <3>4. CASE e # d
      <4>1. s_procq'[e] = s_procq[e]
        BY <1>1, <1>3, <3>4
      <4>2. CASE x # p
        BY <1>1, <1>3, <3>1, <4>1, <4>2
      <4>3. CASE x = p
        <5>1. e \in ToSet(semd_h) => s_key[e] # k
          BY <1>2, <3>4, FindSemd DEF Finds
        <5> QED BY <1>1, <1>3, <3>2, <4>1, <4>3, <5>1
      <4> QED BY <4>2, <4>3
    <3> QED BY <3>3, <3>4
  <2> QED BY <2>1, <2>2 DEF BlockedWhereItSays
<1>11. Somewhere'
  BY <1>1, <1>2, <1>3 DEF AslInv, Somewhere
<1> QED BY <1>7, <1>8, <1>9, <1>10, <1>11 DEF AslInv

(***************************************************************************)
(* insertBlocked on a semaphore that becomes active.                       *)
(***************************************************************************)
LEMMA InsertNewStep ==
  ASSUME AslInv, NEW k \in Key, NEW p \in Pcb, p_semAdd[p] = NULL, InsertNew(k, p)
  PROVE  AslInv'
<1> DEFINE d == Head(semdFree_h)
           q == InsertProcQ(<<>>, p, p_prio)
           r == InsertAt(semd_h, AslPos(k), d)
<1>1. /\ findSemd(k) = NULL /\ semdFree_h # <<>>
      /\ semdFree_h' = Tail(semdFree_h) /\ semd_h' = r
      /\ s_key' = [s_key EXCEPT ![d] = k] /\ s_procq' = [s_procq EXCEPT ![d] = q]
      /\ p_semAdd' = [p_semAdd EXCEPT ![p] = k] /\ ret' = 0
  BY DEF InsertNew, Activate
<1>2. /\ semd_h \in Seq(Semd) /\ semdFree_h \in Seq(Semd)
      /\ s_key \in [Semd -> Key \cup {NULL}] /\ s_procq \in [Semd -> Seq(Pcb)]
      /\ p_semAdd \in [Pcb -> Key \cup {NULL}] /\ p_prio \in [Pcb -> Int]
  BY PrioAssumption DEF AslInv, TypeOK
<1>3. /\ IsInjective(semd_h) /\ IsInjective(semdFree_h) /\ Ascending(semd_h, s_key)
      /\ ToSet(semd_h) \cap ToSet(semdFree_h) = {}
      /\ ToSet(semd_h) \cup ToSet(semdFree_h) = Semd
  BY DEF AslInv, KeysAscending, Ascending, DescriptorsPartitioned
<1>4. /\ d \in Semd /\ Tail(semdFree_h) \in Seq(Semd)
      /\ ToSet(semdFree_h) = ToSet(Tail(semdFree_h)) \cup {d}
      /\ IsInjective(Tail(semdFree_h)) /\ d \notin ToSet(Tail(semdFree_h))
  BY <1>1, <1>2, <1>3, HeadTailPlaces
<1>5. \A e \in ToSet(semd_h) : s_key[e] # k
  BY <1>1, FindSemd DEF Finds
<1>6. \A i \in DOMAIN semd_h : s_key[semd_h[i]] \in Int /\ s_key[semd_h[i]] # k
  <2>1. \A e \in ToSet(semd_h) : s_key[e] \in Int
    BY KeyAssumption DEF AslInv, Keyed
  <2> QED BY <1>5, <2>1 DEF ToSet
<1> HIDE DEF d
<1>7. /\ r \in Seq(Semd) /\ ToSet(r) = ToSet(semd_h) \cup {d} /\ IsInjective(r)
      /\ Ascending(r, [s_key EXCEPT ![d] = k])
  <2>1. d \notin ToSet(semd_h) /\ k \in Int
    BY <1>3, <1>4, KeyAssumption
  <2> QED BY <1>2, <1>3, <1>4, <1>6, <2>1, InsertAscending
<1>8. q \in Seq(Pcb) /\ ToSet(q) = {p} /\ IsInjective(q)
  <2> DEFINE e == <<>>
  <2>1. e \in Seq(Pcb) /\ ToSet(e) = {} /\ IsInjective(e)
    BY DEF ToSet, IsInjective
  <2>2. q = InsertProcQ(e, p, p_prio)
    OBVIOUS
  <2> HIDE DEF e, q
  <2>3. p \in Pcb /\ p_prio \in [Pcb -> Int] /\ p \notin ToSet(e)
    BY <1>2, <2>1
  <2>4. InsertProcQ(e, p, p_prio) \in Seq(Pcb)
    BY <2>1, <2>3, InsertProcQProperties
  <2>5. ToSet(InsertProcQ(e, p, p_prio)) = ToSet(e) \cup {p}
    BY <2>1, <2>3, InsertProcQProperties
  <2>6. IsInjective(InsertProcQ(e, p, p_prio))
    BY <2>1, <2>3, InsertProcQProperties
  <2> QED BY <2>1, <2>2, <2>4, <2>5, <2>6
<1> HIDE DEF q, r
<1>9. q # <<>>
  BY <1>8, ElementsType
<1>10. d \notin ToSet(semd_h) /\ s_procq[d] = <<>>
  BY <1>3, <1>4 DEF AslInv, ActiveIffWaiting
<1>11. TypeOK'
  BY <1>1, <1>2, <1>4, <1>7, <1>8 DEF TypeOK
<1>12. KeysAscending'
  BY <1>1, <1>7 DEF KeysAscending, Ascending
<1>13. DescriptorsPartitioned'
  BY <1>1, <1>3, <1>4, <1>7 DEF DescriptorsPartitioned
<1>14. ActiveIffWaiting'
  BY <1>1, <1>2, <1>4, <1>7, <1>9 DEF AslInv, ActiveIffWaiting
<1>15. \A x \in Pcb : p_semAdd[x] # k
  BY <1>5, NULLAssumption DEF AslInv, Somewhere
<1>16. BlockedWhereItSays'
  <2>1. ASSUME NEW e \in Semd PROVE IsInjective(s_procq'[e])
    BY <1>1, <1>2, <1>4, <1>8 DEF AslInv, BlockedWhereItSays
  <2>2. ASSUME NEW x \in Pcb, NEW e \in Semd
        PROVE  x \in ToSet(s_procq'[e]) <=> /\ e \in ToSet(semd_h')
                                            /\ p_semAdd'[x] = s_key'[e]
    <3>1. x \in ToSet(s_procq[e]) <=> e \in ToSet(semd_h) /\ p_semAdd[x] = s_key[e]
      BY DEF AslInv, BlockedWhereItSays
    <3>2. p \notin ToSet(s_procq[e])
      BY Unblocked
    <3>3. CASE e = d
      <4>1. x \in ToSet(s_procq'[d]) <=> x = p
        BY <1>1, <1>2, <1>4, <1>8
      <4>2. p_semAdd'[x] = s_key'[d] <=> x = p
        BY <1>1, <1>2, <1>4, <1>15
      <4>3. d \in ToSet(semd_h')
        BY <1>1, <1>7
      <4> QED BY <3>3, <4>1, <4>2, <4>3
    <3>4. CASE e # d
      <4>1. /\ s_procq'[e] = s_procq[e] /\ s_key'[e] = s_key[e]
            /\ e \in ToSet(semd_h') <=> e \in ToSet(semd_h)
        BY <1>1, <1>2, <1>4, <1>7, <3>4
      <4>2. CASE x # p
        BY <1>1, <1>2, <3>1, <4>1, <4>2
      <4>3. CASE x = p
        BY <1>1, <1>2, <1>5, <3>2, <4>1, <4>3
      <4> QED BY <4>2, <4>3
    <3> QED BY <3>3, <3>4
  <2> QED BY <2>1, <2>2 DEF BlockedWhereItSays
<1>17. Keyed'
  BY <1>1, <1>2, <1>4, <1>7 DEF AslInv, Keyed
<1>18. Somewhere'
  <2> SUFFICES ASSUME NEW x \in Pcb, p_semAdd'[x] # NULL
               PROVE  \E e \in ToSet(semd_h') : s_key'[e] = p_semAdd'[x]
    BY DEF Somewhere
  <2>1. CASE x = p
    BY <1>1, <1>2, <1>4, <1>7, <2>1
  <2>2. CASE x # p
    <3>1. p_semAdd'[x] = p_semAdd[x]
      BY <1>1, <1>2, <2>2
    <3>2. PICK e \in ToSet(semd_h) : s_key[e] = p_semAdd[x]
      BY <3>1 DEF AslInv, Somewhere
    <3>3. e # d /\ e \in ToSet(semd_h') /\ e \in Semd
      BY <1>1, <1>2, <1>7, <1>10, <3>2, ElementsType
    <3> QED BY <1>1, <1>2, <3>1, <3>2, <3>3
  <2> QED BY <2>1, <2>2
<1> QED BY <1>11, <1>12, <1>13, <1>14, <1>16, <1>17, <1>18 DEF AslInv

-----------------------------------------------------------------------------
(***************************************************************************)
(* What removeBlocked and outBlocked do: somebody leaves, or nobody.       *)
(***************************************************************************)
LEMMA RemoveLeaves ==
  ASSUME AslInv, NEW k \in Key, RemoveBlocked(k)
  PROVE  LET d == findSemd(k)
         IN  \/ /\ d = NULL
                /\ ret' = NULL
                /\ UNCHANGED <<lists, p_semAdd>>
             \/ /\ d # NULL
                /\ s_procq[d] # <<>>
                /\ Leaves(d, Head(s_procq[d]), Tail(s_procq[d]))
<1> DEFINE d == findSemd(k)
           p == Head(s_procq[d])
<1>1. CASE d = NULL
  BY <1>1 DEF RemoveBlocked
<1>2. CASE d # NULL
  <2>1. d \in ToSet(semd_h)
    BY <1>2, FindSemd DEF Finds
  <2>2. /\ d \in Semd /\ s_procq[d] \in Seq(Pcb) /\ IsInjective(s_procq[d])
        /\ s_procq[d] # <<>> /\ p_semAdd \in [Pcb -> Key \cup {NULL}]
    BY <2>1, ElementsType DEF AslInv, TypeOK, ActiveIffWaiting, BlockedWhereItSays
  <2>3. /\ SetProcq(d, Tail(s_procq[d])) /\ ret' = p
        /\ p_semAdd' = [x \in Pcb |-> IF x = ret' THEN NULL ELSE p_semAdd[x]]
        /\ s_key' = s_key
    BY <1>2, <2>2 DEF RemoveBlocked
  <2> HIDE DEF d
  <2>4. /\ p \in Pcb /\ Tail(s_procq[d]) \in Seq(Pcb)
        /\ ToSet(s_procq[d]) = ToSet(Tail(s_procq[d])) \cup {p}
        /\ IsInjective(Tail(s_procq[d])) /\ p \notin ToSet(Tail(s_procq[d]))
    BY <2>2, HeadTailPlaces
  <2>5. p_semAdd' = [p_semAdd EXCEPT ![p] = NULL]
    BY <2>2, <2>3, <2>4
  <2> HIDE DEF p
  <2>6. Leaves(d, p, Tail(s_procq[d]))
    BY <2>1, <2>3, <2>4, <2>5 DEF Leaves
  <2> QED BY <1>2, <2>2, <2>6 DEF d, p
<1> QED BY <1>1, <1>2

LEMMA OutLeaves ==
  ASSUME AslInv, NEW p \in Pcb, OutBlocked(p)
  PROVE  LET d == findSemd(p_semAdd[p])
         IN  \/ /\ p_semAdd[p] = NULL
                /\ ret' = NULL
                /\ UNCHANGED <<lists, p_semAdd>>
             \/ /\ p_semAdd[p] # NULL
                /\ Leaves(d, p, OutProcQ(s_procq[d], p))
<1> DEFINE d == findSemd(p_semAdd[p])
<1>1. CASE p_semAdd[p] = NULL
  BY <1>1 DEF OutBlocked
<1>2. CASE p_semAdd[p] # NULL
  <2>1. d # NULL /\ d \in ToSet(semd_h) /\ s_key[d] = p_semAdd[p]
    BY <1>2, FindSemd DEF AslInv, Somewhere, Finds
  <2>2. d \in Semd /\ s_procq[d] \in Seq(Pcb) /\ IsInjective(s_procq[d])
    BY <2>1, ElementsType DEF AslInv, TypeOK, BlockedWhereItSays
  <2>3. p \in ToSet(s_procq[d])
    BY <2>1, <2>2 DEF AslInv, BlockedWhereItSays
  <2>4. /\ SetProcq(d, OutProcQ(s_procq[d], p)) /\ ret' = p
        /\ p_semAdd' = [p_semAdd EXCEPT ![p] = NULL] /\ s_key' = s_key
    BY <1>2, <2>1, <2>3 DEF OutBlocked
  <2> HIDE DEF d
  <2>5. /\ RemoveFirst(s_procq[d], p) \in Seq(Pcb)
        /\ ToSet(RemoveFirst(s_procq[d], p)) = ToSet(s_procq[d]) \ {p}
        /\ IsInjective(RemoveFirst(s_procq[d], p))
    BY <2>2, <2>3, RemoveFirstProperties
  <2>6. OutProcQ(s_procq[d], p) = RemoveFirst(s_procq[d], p)
    BY DEF OutProcQ
  <2>7. Leaves(d, p, OutProcQ(s_procq[d], p))
    BY <2>1, <2>3, <2>4, <2>5, <2>6 DEF Leaves
  <2> QED BY <1>2, <2>7 DEF d
<1> QED BY <1>1, <1>2

LEMMA HeadType ==
  ASSUME AslInv, NEW k, HeadBlocked(k)
  PROVE  ret' \in Pcb \cup {NULL}
<1> DEFINE d == findSemd(k)
<1>1. CASE d = NULL \/ s_procq[d] = <<>>
  BY <1>1 DEF HeadBlocked
<1>2. CASE d # NULL /\ s_procq[d] # <<>>
  <2>1. d \in ToSet(semd_h)
    BY <1>2, FindSemd DEF Finds
  <2>2. s_procq[d] \in Seq(Pcb)
    BY <2>1, ElementsType DEF AslInv, TypeOK
  <2>3. Head(s_procq[d]) \in Pcb
    BY <1>2, <2>2, HeadTailPlaces
  <2> QED BY <1>2, <2>3 DEF HeadBlocked
<1> QED BY <1>1, <1>2

(***************************************************************************)
(* Every call of the ASL keeps the invariant.                              *)
(***************************************************************************)
LEMMA AslStep == AslInv /\ [Next]_vars => AslInv'
<1> SUFFICES ASSUME AslInv, [Next]_vars PROVE AslInv'
  OBVIOUS
<1>1. ASSUME UNCHANGED <<lists, p_semAdd>>, ret' \in Pcb \cup {NULL, 0, 1} PROVE AslInv'
  <2>1. /\ semdFree_h' = semdFree_h /\ semd_h' = semd_h /\ s_key' = s_key
        /\ s_procq' = s_procq /\ p_semAdd' = p_semAdd
    BY <1>1 DEF lists
  <2> QED BY <1>1, <2>1 DEF AslInv, TypeOK, KeysAscending, DescriptorsPartitioned,
                            ActiveIffWaiting, BlockedWhereItSays, Keyed, Somewhere
<1>2. CASE UNCHANGED vars
  BY <1>1, <1>2 DEF vars, lists, AslInv, TypeOK
<1>3. ASSUME NEW k \in Key, NEW p \in Pcb, InsertBlocked(k, p) PROVE AslInv'
  <2>1. CASE p_semAdd[p] = NULL /\ InsertActive(k, p)
    BY <2>1, InsertActiveStep
  <2>2. CASE p_semAdd[p] = NULL /\ InsertNew(k, p)
    BY <2>2, InsertNewStep
  <2>3. CASE InsertRefused(k, p)
    BY <1>1, <2>3 DEF InsertRefused
  <2> QED BY <1>3, <2>1, <2>2, <2>3 DEF InsertBlocked
<1>4. ASSUME NEW k \in Key, RemoveBlocked(k) PROVE AslInv'
  BY <1>1, <1>4, RemoveLeaves, LeavesStep
<1>5. ASSUME NEW k \in Key, HeadBlocked(k) PROVE AslInv'
  BY <1>1, <1>5, HeadType DEF HeadBlocked
<1>6. ASSUME NEW p \in Pcb, OutBlocked(p) PROVE AslInv'
  BY <1>1, <1>6, OutLeaves, LeavesStep
<1> QED BY <1>2, <1>3, <1>4, <1>5, <1>6 DEF Next

(***************************************************************************)
(* initASL establishes it.                                                 *)
(***************************************************************************)
LEMMA AslInit == Init => AslInv
<1> SUFFICES ASSUME Init PROVE AslInv
  OBVIOUS
<1>1. /\ semdFree_h = [i \in 1 .. MAXPROC |-> i] /\ semd_h = <<>>
      /\ s_key = [d \in Semd |-> NULL] /\ s_procq = [d \in Semd |-> <<>>]
      /\ p_semAdd = [p \in Pcb |-> NULL] /\ ret = NULL
  BY DEF Init, Semd
<1>2. MAXPROC \in Nat
  BY SizeAssumption
<1>3. semdFree_h \in Seq(Semd) /\ DOMAIN semdFree_h = 1 .. MAXPROC
  <2>1. semdFree_h \in [1 .. MAXPROC -> Semd]
    BY <1>1 DEF Semd
  <2> QED BY <1>1, <1>2, <2>1, SeqDef
<1>4. IsInjective(semdFree_h) /\ ToSet(semdFree_h) = Semd
  BY <1>1, <1>3 DEF IsInjective, ToSet, Semd
<1>5. ToSet(<<>>) = {} /\ IsInjective(<<>>) /\ <<>> \in Seq(Semd) /\ <<>> \in Seq(Pcb)
  BY DEF ToSet, IsInjective
<1>6. TypeOK
  BY <1>1, <1>3, <1>5 DEF TypeOK
<1>7. KeysAscending
  BY <1>1 DEF KeysAscending
<1>8. DescriptorsPartitioned
  BY <1>1, <1>4, <1>5 DEF DescriptorsPartitioned
<1>9. ActiveIffWaiting /\ BlockedWhereItSays /\ Keyed
  BY <1>1, <1>5 DEF ActiveIffWaiting, BlockedWhereItSays, Keyed
<1>10. Somewhere
  BY <1>1 DEF Somewhere
<1> QED BY <1>6, <1>7, <1>8, <1>9, <1>10 DEF AslInv

(***************************************************************************)
(* The invariant of the ASL in all reachable states.                       *)
(***************************************************************************)
THEOREM AslCorrect == Spec => []AslInv
  BY AslInit, AslStep, PTL DEF Spec

(***************************************************************************)
(* Every variable keeps its type: the links of both lists lead to entries  *)
(* of semd_table, the queues hold PCBs, whatever is called in what order.  *)
(***************************************************************************)
THEOREM AslTypes == Spec => []TypeOK
<1>1. AslInv => TypeOK
  BY DEF AslInv
<1> QED BY <1>1, AslCorrect, PTL

(***************************************************************************)
(* The ASL stays sorted by key, so that no semaphore gets a second         *)
(* descriptor.                                                             *)
(***************************************************************************)
THEOREM AslSorted == Spec => []KeysAscending
<1>1. AslInv => KeysAscending
  BY DEF AslInv
<1> QED BY <1>1, AslCorrect, PTL

(***************************************************************************)
(* No descriptor leaks, none is in two lists.                              *)
(***************************************************************************)
THEOREM NoDescriptorLeaks == Spec => []DescriptorsPartitioned
<1>1. AslInv => DescriptorsPartitioned
  BY DEF AslInv
<1> QED BY <1>1, AslCorrect, PTL

(***************************************************************************)
(* Active are exactly the semaphores that somebody waits for.              *)
(***************************************************************************)
THEOREM ActiveDescriptorsHaveWaiters == Spec => []ActiveIffWaiting
<1>1. AslInv => ActiveIffWaiting
  BY DEF AslInv
<1> QED BY <1>1, AslCorrect, PTL

(***************************************************************************)
(* p_semAdd always names the semaphore on which the PCB is blocked.        *)
(***************************************************************************)
THEOREM SemAddNamesTheQueue == Spec => []BlockedWhereItSays
<1>1. AslInv => BlockedWhereItSays
  BY DEF AslInv
<1> QED BY <1>1, AslCorrect, PTL

-----------------------------------------------------------------------------
(***************************************************************************)
(* AslSpec has its own copy of the queue operators; they are the same.     *)
(***************************************************************************)
LEMMA SameInsert ==
  ASSUME NEW q, NEW p
  PROVE  Abstract!InsertProcQ(q, p, p_prio) = InsertProcQ(q, p, p_prio)
BY DEF Abstract!InsertProcQ, InsertProcQ, Abstract!InsertAt, InsertAt,
       Abstract!InsertPos, InsertPos, Abstract!SelectInSeq, SelectInSeq,
       Abstract!SelectLastInSeq, SelectLastInSeq, Abstract!Min, Min, Abstract!Max, Max

LEMMA SameOut ==
  ASSUME NEW q, NEW p
  PROVE  Abstract!OutProcQ(q, p) = OutProcQ(q, p)
BY DEF Abstract!OutProcQ, OutProcQ, Abstract!RemoveFirst, RemoveFirst,
       Abstract!RemoveAt, RemoveAt, Abstract!SelectInSeq, SelectInSeq, Abstract!Min, Min

(***************************************************************************)
(* The abstract queue of a key is that of its descriptor, or empty.        *)
(***************************************************************************)
WaitingFacts ==
  /\ Waiting = [k \in Key |-> Waiting[k]]
  /\ \A k \in Key : (\A d \in ToSet(semd_h) : s_key[d] # k) => Waiting[k] = <<>>
  /\ \A d \in ToSet(semd_h) : Waiting[s_key[d]] = s_procq[d]

LEMMA WaitingRight == AslInv => WaitingFacts
<1> SUFFICES ASSUME AslInv PROVE WaitingFacts
  OBVIOUS
<1>1. \A k \in Key : Waiting[k] = IF findSemd(k) = NULL THEN <<>> ELSE s_procq[findSemd(k)]
  BY DEF Waiting
<1>2. Waiting = [k \in Key |-> Waiting[k]]
  BY DEF Waiting
<1>3. ASSUME NEW k \in Key, \A d \in ToSet(semd_h) : s_key[d] # k
      PROVE  Waiting[k] = <<>>
  BY <1>1, <1>3, FindSemd DEF Finds
<1>4. ASSUME NEW d \in ToSet(semd_h) PROVE Waiting[s_key[d]] = s_procq[d]
  <2>1. d \in Semd /\ s_key[d] \in Key
    BY ElementsType DEF AslInv, TypeOK, Keyed
  <2> QED BY <1>1, <2>1, FindSemd, NULLAssumption DEF Finds
<1> QED BY <1>2, <1>3, <1>4 DEF WaitingFacts

LEMMA WaitingRightNext == AslInv' => WaitingFacts'
  BY WaitingRight, PTL

(***************************************************************************)
(* When only the descriptor d of k changes, only the queue of k changes.   *)
(***************************************************************************)
LEMMA WaitingChanges ==
  ASSUME AslInv, AslInv', NEW d \in Semd, NEW k \in Key, NEW q,
         s_procq' = [s_procq EXCEPT ![d] = q],
         s_key' = [s_key EXCEPT ![d] = k],
         d \in ToSet(semd_h) => s_key[d] = k,
         \A e \in ToSet(semd_h) : s_key[e] = k => e = d
  PROVE  Waiting' = [Waiting EXCEPT ![k] = q]
<1>1. WaitingFacts /\ WaitingFacts'
  BY WaitingRight, WaitingRightNext
<1>2. /\ s_procq \in [Semd -> Seq(Pcb)] /\ s_key \in [Semd -> Key \cup {NULL}]
      /\ ToSet(semd_h) \subseteq Semd /\ ToSet(semd_h') \subseteq Semd
  BY ElementsType DEF AslInv, TypeOK
<1>3. /\ \A e \in Semd : e \in ToSet(semd_h) <=> s_procq[e] # <<>>
      /\ \A e \in Semd : e \in ToSet(semd_h') <=> s_procq'[e] # <<>>
  BY DEF AslInv, ActiveIffWaiting
<1>4. \A e \in Semd : e # d => s_procq'[e] = s_procq[e] /\ s_key'[e] = s_key[e]
  BY <1>2
<1>5. s_procq'[d] = q /\ s_key'[d] = k
  BY <1>2
<1>6. Waiting'[k] = q
  <2>1. CASE q = <<>>
    <3>1. \A e \in ToSet(semd_h') : s_key'[e] # k
      BY <1>2, <1>3, <1>4, <1>5, <2>1
    <3> QED BY <1>1, <2>1, <3>1 DEF WaitingFacts
  <2>2. CASE q # <<>>
    <3>1. d \in ToSet(semd_h')
      BY <1>3, <1>5, <2>2
    <3> QED BY <1>1, <1>5, <3>1 DEF WaitingFacts
  <2> QED BY <2>1, <2>2
<1>7. ASSUME NEW l \in Key, l # k PROVE Waiting'[l] = Waiting[l]
  <2>1. CASE \E e \in ToSet(semd_h) : s_key[e] = l
    <3>1. PICK e \in ToSet(semd_h) : s_key[e] = l
      BY <2>1
    <3>2. e # d
      BY <1>7, <3>1
    <3>3. e \in ToSet(semd_h') /\ s_key'[e] = l /\ s_procq'[e] = s_procq[e]
      BY <1>2, <1>3, <1>4, <3>1, <3>2
    <3> QED BY <1>1, <3>1, <3>3 DEF WaitingFacts
  <2>2. CASE ~ \E e \in ToSet(semd_h) : s_key[e] = l
    <3>1. \A e \in ToSet(semd_h') : s_key'[e] # l
      BY <1>2, <1>3, <1>4, <1>5, <1>7, <2>2
    <3> QED BY <1>1, <2>2, <3>1 DEF WaitingFacts
  <2> QED BY <2>1, <2>2
<1>8. Waiting' = [l \in Key |-> Waiting'[l]] /\ Waiting = [l \in Key |-> Waiting[l]]
  BY <1>1 DEF WaitingFacts
<1> HIDE DEF Waiting
<1> QED BY <1>6, <1>7, <1>8

LEMMA WaitingStays ==
  ASSUME AslInv, AslInv', UNCHANGED lists
  PROVE  Waiting' = Waiting
<1>1. WaitingFacts /\ WaitingFacts'
  BY WaitingRight, WaitingRightNext
<1>2. semd_h' = semd_h /\ s_key' = s_key /\ s_procq' = s_procq
  BY DEF lists
<1>3. \A l \in Key : Waiting'[l] = Waiting[l]
  BY <1>1, <1>2 DEF WaitingFacts
<1> QED BY <1>1, <1>3 DEF WaitingFacts

(***************************************************************************)
(* A PCB that leaves its queue.                                            *)
(***************************************************************************)
LEMMA LeavesWaiting ==
  ASSUME AslInv, AslInv', NEW d, NEW p, NEW q, Leaves(d, p, q)
  PROVE  /\ Waiting' = [Waiting EXCEPT ![s_key[d]] = q]
         /\ Waiting[s_key[d]] = s_procq[d] /\ s_key[d] \in Key
<1>1. /\ d \in Semd /\ d \in ToSet(semd_h) /\ s_key[d] \in Key
      /\ s_key \in [Semd -> Key \cup {NULL}]
  BY ElementsType DEF AslInv, TypeOK, Keyed, Leaves
<1>2. s_procq' = [s_procq EXCEPT ![d] = q] /\ s_key' = [s_key EXCEPT ![d] = s_key[d]]
  BY <1>1 DEF Leaves, SetProcq
<1>3. \A e \in ToSet(semd_h) : s_key[e] = s_key[d] => e = d
  BY <1>1, FindSemd DEF Finds
<1>4. Waiting' = [Waiting EXCEPT ![s_key[d]] = q]
  BY <1>1, <1>2, <1>3, WaitingChanges
<1>5. Waiting[s_key[d]] = s_procq[d]
  BY <1>1, WaitingRight DEF WaitingFacts
<1> QED BY <1>1, <1>4, <1>5

(***************************************************************************)
(* insertBlocked of a PCB that is not blocked.                             *)
(***************************************************************************)
LEMMA InsertWaiting ==
  ASSUME AslInv, AslInv', NEW k \in Key, NEW p \in Pcb, p_semAdd[p] = NULL,
         InsertActive(k, p) \/ InsertNew(k, p)
  PROVE  Waiting' = [Waiting EXCEPT ![k] = InsertProcQ(Waiting[k], p, p_prio)]
<1>1. CASE InsertActive(k, p)
  <2> DEFINE d == findSemd(k)
  <2>1. d \in ToSet(semd_h) /\ s_key[d] = k
    BY <1>1, FindSemd DEF Finds, InsertActive
  <2>2. d \in Semd /\ s_key \in [Semd -> Key \cup {NULL}]
    BY <2>1, ElementsType DEF AslInv, TypeOK
  <2>3. \A e \in ToSet(semd_h) : s_key[e] = k => e = d
    BY <2>1, FindSemd DEF Finds
  <2>4. /\ s_procq' = [s_procq EXCEPT ![d] = InsertProcQ(s_procq[d], p, p_prio)]
        /\ s_key' = [s_key EXCEPT ![d] = k]
    BY <1>1, <2>1, <2>2 DEF InsertActive
  <2>5. Waiting[k] = s_procq[d]
    BY <2>1, WaitingRight DEF WaitingFacts
  <2> HIDE DEF d
  <2>6. Waiting' = [Waiting EXCEPT ![k] = InsertProcQ(s_procq[d], p, p_prio)]
    BY <2>1, <2>2, <2>3, <2>4, WaitingChanges
  <2> QED BY <2>5, <2>6
<1>2. CASE InsertNew(k, p)
  <2> DEFINE d == Head(semdFree_h)
             q == InsertProcQ(<<>>, p, p_prio)
  <2>1. \A e \in ToSet(semd_h) : s_key[e] # k
    BY <1>2, FindSemd DEF Finds, InsertNew
  <2>2. /\ semdFree_h \in Seq(Semd) /\ semdFree_h # <<>>
        /\ s_procq' = [s_procq EXCEPT ![d] = q] /\ s_key' = [s_key EXCEPT ![d] = k]
    BY <1>2 DEF AslInv, TypeOK, InsertNew, Activate
  <2>3. d \in Semd /\ d \in ToSet(semdFree_h)
    BY <2>2, HeadTailPlaces
  <2>4. d \notin ToSet(semd_h)
    BY <2>3 DEF AslInv, DescriptorsPartitioned
  <2>5. Waiting[k] = <<>>
    BY <2>1, WaitingRight DEF WaitingFacts
  <2> HIDE DEF d
  <2>6. Waiting' = [Waiting EXCEPT ![k] = q]
    <3>1. s_procq' = [s_procq EXCEPT ![d] = q] /\ s_key' = [s_key EXCEPT ![d] = k]
      BY <2>2
    <3>2. /\ d \in Semd /\ (d \in ToSet(semd_h) => s_key[d] = k)
          /\ \A e \in ToSet(semd_h) : s_key[e] = k => e = d
      BY <2>1, <2>3, <2>4
    <3> HIDE DEF q
    <3> QED BY <3>1, <3>2, WaitingChanges
  <2> QED BY <2>5, <2>6
<1> QED BY <1>1, <1>2

(***************************************************************************)
(* insertBlocked refuses only when every descriptor is active: each of     *)
(* them has a waiter, and there are as many PCBs as descriptors, so every  *)
(* PCB is blocked, each alone on its semaphore.                            *)
(***************************************************************************)
LEMMA RefusedWaiting ==
  ASSUME AslInv, NEW k \in Key, InsertRefused(k, NULL)
  PROVE  /\ Waiting[k] = <<>>
         /\ \A p \in Pcb : p_semAdd[p] # NULL
         /\ \A p, q \in Pcb : p # q => p_semAdd[p] # p_semAdd[q]
<1>1. findSemd(k) = NULL /\ semdFree_h = <<>>
  BY DEF InsertRefused
<1>2. Waiting[k] = <<>>
  BY <1>1, FindSemd, WaitingRight DEF WaitingFacts, Finds
<1>3. ToSet(semd_h) = Semd
  <2>1. ToSet(semdFree_h) = {}
    BY <1>1 DEF ToSet
  <2> QED BY <2>1 DEF AslInv, DescriptorsPartitioned
<1> DEFINE first(d) == Head(s_procq[d])
           f == [d \in Semd |-> first(d)]
<1>4. \A d \in Semd : first(d) \in Pcb /\ first(d) \in ToSet(s_procq[d])
  <2> SUFFICES ASSUME NEW d \in Semd PROVE first(d) \in Pcb /\ first(d) \in ToSet(s_procq[d])
    OBVIOUS
  <2>1. s_procq[d] # <<>> /\ s_procq[d] \in Seq(Pcb)
    BY <1>3 DEF AslInv, ActiveIffWaiting, TypeOK
  <2> QED BY <2>1, HeadTailPlaces
<1> HIDE DEF first
<1>5. \A d \in Semd : p_semAdd[first(d)] = s_key[d] /\ s_key[d] \in Key
  BY <1>3, <1>4 DEF AslInv, BlockedWhereItSays, Keyed
<1>6. \A d, e \in Semd : s_key[d] = s_key[e] => d = e
  BY <1>3, FindSemd DEF Finds
<1>7. f \in Injection(Semd, Pcb)
  <2>1. f \in [Semd -> Pcb]
    BY <1>4
  <2>2. \A d, e \in Semd : f[d] = f[e] => d = e
    BY <1>5, <1>6
  <2> QED BY <2>1, <2>2 DEF Injection, IsInjective
<1>8. Cardinality(Semd) = Cardinality(Pcb)
  <2>1. MAXPROC \in Nat /\ Cardinality(Pcb) = MAXPROC
    BY SizeAssumption
  <2>2. Cardinality(1 .. MAXPROC) = MAXPROC
    BY <2>1, FS_Interval
  <2> QED BY <2>1, <2>2 DEF Semd
<1>9. f \in Surjection(Semd, Pcb)
  <2> HIDE DEF f
  <2> QED BY <1>7, <1>8, SizeAssumption, FS_Injection
<1>10. \A p \in Pcb : \E d \in Semd : p = first(d)
  BY <1>9 DEF Surjection
<1>11. \A p \in Pcb : p_semAdd[p] # NULL
  BY <1>5, <1>10, NULLAssumption
<1>12. \A p, q \in Pcb : p # q => p_semAdd[p] # p_semAdd[q]
  BY <1>5, <1>6, <1>10
<1> QED BY <1>2, <1>11, <1>12

(***************************************************************************)
(* Every call of the ASL is one of AslSpec, or changes nothing there.      *)
(***************************************************************************)
LEMMA ImplementsStep ==
  AslInv /\ AslInv' /\ [Next]_vars => [Abstract!Next]_(Abstract!vars)
<1> SUFFICES ASSUME AslInv, AslInv', [Next]_vars
             PROVE  Abstract!Next \/ UNCHANGED Abstract!vars
  OBVIOUS
<1>1. CASE UNCHANGED vars
  BY <1>1, WaitingStays DEF vars, lists, Abstract!vars
<1>2. ASSUME NEW k \in Key, NEW p \in Pcb, InsertBlocked(k, p) PROVE Abstract!Next
  <2>1. CASE p_semAdd[p] = NULL /\ (InsertActive(k, p) \/ InsertNew(k, p))
    <3>1. Waiting' = [Waiting EXCEPT ![k] = InsertProcQ(Waiting[k], p, p_prio)]
      BY <2>1, InsertWaiting
    <3>2. p_semAdd' = [p_semAdd EXCEPT ![p] = k] /\ ret' = 0
      BY <2>1 DEF InsertActive, InsertNew
    <3>3. Abstract!InsertProcQ(Waiting[k], p, p_prio) = InsertProcQ(Waiting[k], p, p_prio)
      BY SameInsert
    <3>4. Abstract!InsertBlocked(k, p)
      BY <2>1, <3>1, <3>2, <3>3 DEF Abstract!InsertBlocked
    <3> QED BY <3>4 DEF Abstract!Next
  <2>2. CASE InsertRefused(k, p)
    <3>1. UNCHANGED <<lists, p_semAdd>> /\ ret' = 1 /\ InsertRefused(k, NULL)
      BY <2>2 DEF InsertRefused
    <3>2. Waiting' = Waiting
      BY <3>1, WaitingStays
    <3>3. Abstract!RefuseBlocked(k)
      BY <3>1, <3>2, RefusedWaiting DEF Abstract!RefuseBlocked
    <3> QED BY <3>3 DEF Abstract!Next
  <2> QED BY <1>2, <2>1, <2>2 DEF InsertBlocked
<1>3. ASSUME NEW k \in Key, RemoveBlocked(k) PROVE Abstract!Next
  <2> DEFINE d == findSemd(k)
  <2>1. CASE d = NULL /\ ret' = NULL /\ UNCHANGED <<lists, p_semAdd>>
    <3>1. Waiting' = Waiting
      BY <2>1, WaitingStays
    <3>2. Waiting[k] = <<>>
      BY <2>1, FindSemd, WaitingRight DEF WaitingFacts, Finds
    <3>3. Abstract!RemoveBlocked(k)
      BY <2>1, <3>1, <3>2 DEF Abstract!RemoveBlocked
    <3> QED BY <3>3 DEF Abstract!Next
  <2>2. CASE d # NULL /\ s_procq[d] # <<>> /\ Leaves(d, Head(s_procq[d]), Tail(s_procq[d]))
    <3>1. s_key[d] = k
      BY <2>2, FindSemd DEF Finds
    <3>2. /\ Waiting' = [Waiting EXCEPT ![s_key[d]] = Tail(s_procq[d])]
          /\ Waiting[s_key[d]] = s_procq[d]
      BY <2>2, LeavesWaiting
    <3>3. p_semAdd' = [p_semAdd EXCEPT ![Head(s_procq[d])] = NULL] /\ ret' = Head(s_procq[d])
      BY <2>2 DEF Leaves
    <3> HIDE DEF d
    <3>4. Abstract!RemoveBlocked(k)
      BY <2>2, <3>1, <3>2, <3>3 DEF Abstract!RemoveBlocked
    <3> QED BY <3>4 DEF Abstract!Next
  <2> QED BY <1>3, <2>1, <2>2, RemoveLeaves
<1>4. ASSUME NEW k \in Key, HeadBlocked(k) PROVE Abstract!Next
  <2> DEFINE d == findSemd(k)
  <2>1. Waiting' = Waiting /\ p_semAdd' = p_semAdd
    BY <1>4, WaitingStays DEF HeadBlocked
  <2>2. Waiting[k] = IF d = NULL THEN <<>> ELSE s_procq[d]
    BY DEF Waiting
  <2>3. ret' = IF Waiting[k] = <<>> THEN NULL ELSE Head(Waiting[k])
    BY <1>4, <2>2 DEF HeadBlocked
  <2>4. Abstract!HeadBlocked(k)
    BY <2>1, <2>3 DEF Abstract!HeadBlocked
  <2> QED BY <2>4 DEF Abstract!Next
<1>5. ASSUME NEW p \in Pcb, OutBlocked(p) PROVE Abstract!Next
  <2> DEFINE d == findSemd(p_semAdd[p])
  <2>1. CASE p_semAdd[p] = NULL /\ ret' = NULL /\ UNCHANGED <<lists, p_semAdd>>
    <3>1. Waiting' = Waiting
      BY <2>1, WaitingStays
    <3>2. Abstract!OutBlocked(p)
      BY <2>1, <3>1 DEF Abstract!OutBlocked
    <3> QED BY <3>2 DEF Abstract!Next
  <2>2. CASE p_semAdd[p] # NULL /\ Leaves(d, p, OutProcQ(s_procq[d], p))
    <3>1. p_semAdd[p] = s_key[d]
      BY <2>2, ElementsType DEF Leaves, AslInv, TypeOK, BlockedWhereItSays
    <3>2. /\ Waiting' = [Waiting EXCEPT ![s_key[d]] = OutProcQ(s_procq[d], p)]
          /\ Waiting[s_key[d]] = s_procq[d]
      BY <2>2, LeavesWaiting
    <3>3. p_semAdd' = [p_semAdd EXCEPT ![p] = NULL] /\ ret' = p
      BY <2>2 DEF Leaves
    <3>4. Abstract!OutProcQ(s_procq[d], p) = OutProcQ(s_procq[d], p)
      BY SameOut
    <3> HIDE DEF d
    <3>5. Abstract!OutBlocked(p)
      BY <2>2, <3>1, <3>2, <3>3, <3>4 DEF Abstract!OutBlocked
    <3> QED BY <3>5 DEF Abstract!Next
  <2> QED BY <1>5, <2>1, <2>2, OutLeaves
<1> QED BY <1>1, <1>2, <1>3, <1>4, <1>5 DEF Next

(***************************************************************************)
(* initASL leaves all queues empty.                                        *)
(***************************************************************************)
LEMMA ImplementsInit == Init => Abstract!Init
<1> SUFFICES ASSUME Init PROVE Abstract!Init
  OBVIOUS
<1>1. semd_h = <<>> /\ p_semAdd = [p \in Pcb |-> NULL] /\ ret = NULL
  BY DEF Init
<1>2. ToSet(semd_h) = {}
  BY <1>1 DEF ToSet
<1>3. WaitingFacts
  BY AslInit, WaitingRight
<1>4. \A k \in Key : Waiting[k] = <<>>
  BY <1>2, <1>3 DEF WaitingFacts
<1>5. Waiting = [k \in Key |-> <<>>]
  BY <1>3, <1>4 DEF WaitingFacts
<1> QED BY <1>1, <1>5 DEF Abstract!Init

(***************************************************************************)
(* The ASL with its descriptors implements the queues without them:        *)
(* whatever the number of PCBs, insertBlocked never runs out of            *)
(* descriptors for a PCB that is not blocked.                              *)
(***************************************************************************)
THEOREM AslImplementsItsSpec == Spec => ImplementsAslSpec
<1>1. Init => Abstract!Init
  BY ImplementsInit
<1>2. AslInv /\ AslInv' /\ [Next]_vars => [Abstract!Next]_(Abstract!vars)
  BY ImplementsStep
<1> QED BY <1>1, <1>2, AslCorrect, PTL DEF Spec, ImplementsAslSpec, Abstract!Spec
=============================================================================
