--------------------------- MODULE PcbLinksProofs ---------------------------
(***************************************************************************)
(* Theorems about the pointers of the PCB lists and trees: they stay       *)
(* disjoint circles with one sentinel each, and implement the queues and   *)
(* the families of PcbSpec, for any number of PCBs and queues.             *)
(***************************************************************************)
EXTENDS PcbLinks, FiniteSetTheorems, TLAPS

Queues == INSTANCE ProcQueueProofs

Links(N) == [next : [N -> N], prev : [N -> N]]

(***************************************************************************)
(* A node that is in no list is a circle of its own.                       *)
(***************************************************************************)
Alone(L, n) == L.next[n] = n /\ L.prev[n] = n

(***************************************************************************)
(* list_del closes the circle behind the node and leaves it alone.         *)
(***************************************************************************)
LEMMA ListDelCircles ==
  ASSUME NEW N, NEW L \in Links(N), Circles(L, N), NEW n \in N
  PROVE  LET D == ListDel(L, n)
         IN  /\ D \in Links(N) /\ Circles(D, N) /\ Alone(D, n)
             /\ \A x \in N : D.next[x] = IF x = n THEN n
                                         ELSE IF L.next[x] = n THEN L.next[n]
                                         ELSE L.next[x]
<1> DEFINE nx == L.next
           pv == L.prev
           dn == [nx EXCEPT ![pv[n]] = nx[n], ![n] = n]
           dp == [pv EXCEPT ![nx[n]] = pv[n], ![n] = n]
<1>1. nx \in [N -> N] /\ pv \in [N -> N] /\ \A x \in N : pv[nx[x]] = x /\ nx[pv[x]] = x
  BY DEF Links, Circles
<1>2. ListDel(L, n) = [next |-> dn, prev |-> dp]
  BY DEF ListDel
<1> HIDE DEF nx, pv
<1>3. dn \in [N -> N] /\ dp \in [N -> N]
  BY <1>1
<1>4. \A x \in N : dn[x] = IF x = n THEN n ELSE IF nx[x] = n THEN nx[n] ELSE nx[x]
  BY <1>1
<1>5. \A x \in N : dp[x] = IF x = n THEN n ELSE IF pv[x] = n THEN pv[n] ELSE pv[x]
  BY <1>1
<1> HIDE DEF dn, dp
<1>6. \A x \in N : dp[dn[x]] = x /\ dn[dp[x]] = x
  BY <1>1, <1>3, <1>4, <1>5
<1>7. dn[n] = n /\ dp[n] = n
  BY <1>4, <1>5
<1> QED BY <1>2, <1>3, <1>4, <1>6, <1>7 DEF Links, Circles, Alone, nx

(***************************************************************************)
(* INIT_LIST_HEAD of a node that is alone changes nothing, and list_del    *)
(* of one neither.                                                         *)
(***************************************************************************)
LEMMA AloneStays ==
  ASSUME NEW N, NEW L \in Links(N), NEW n \in N, Alone(L, n)
  PROVE  InitListHead(L, n) = L /\ ListDel(L, n) = L
<1>1. L = [next |-> L.next, prev |-> L.prev] /\ L.next \in [N -> N] /\ L.prev \in [N -> N]
  BY DEF Links
<1>2. [L.next EXCEPT ![n] = n] = L.next /\ [L.prev EXCEPT ![n] = n] = L.prev
  BY <1>1 DEF Alone
<1>3. InitListHead(L, n) = L
  BY <1>1, <1>2 DEF InitListHead
<1>4. /\ [L.next EXCEPT ![L.prev[n]] = L.next[n], ![n] = n] = L.next
      /\ [L.prev EXCEPT ![L.next[n]] = L.prev[n], ![n] = n] = L.prev
  BY <1>1 DEF Alone
<1>5. ListDel(L, n) = L
  BY <1>1, <1>4 DEF ListDel
<1> QED BY <1>3, <1>5

(***************************************************************************)
(* So Unlink is list_del.                                                  *)
(***************************************************************************)
LEMMA UnlinkIsListDel ==
  ASSUME NEW N, NEW L \in Links(N), Circles(L, N), NEW n \in N
  PROVE  Unlink(L, n) = ListDel(L, n)
<1> DEFINE D == ListDel(L, n)
<1>1. CASE Linked(L, n)
  <2>1. D \in Links(N) /\ Alone(D, n)
    BY ListDelCircles
  <2> HIDE DEF D
  <2>2. InitListHead(D, n) = D
    BY <2>1, AloneStays
  <2> QED BY <1>1, <2>2 DEF Unlink, D
<1>2. CASE ~ Linked(L, n)
  <2>1. Alone(L, n)
    BY <1>2 DEF Linked, Alone
  <2> QED BY <1>2, <2>1, AloneStays DEF Unlink
<1> QED BY <1>1, <1>2

(***************************************************************************)
(* __list_add of a node that is alone, between two neighbours.             *)
(***************************************************************************)
LEMMA ListAddCircles ==
  ASSUME NEW N, NEW L \in Links(N), Circles(L, N), NEW new \in N, Alone(L, new),
         NEW p \in N, p # new, NEW n \in N, L.next[p] = n
  PROVE  LET A == ListAdd(L, new, p, n)
         IN  /\ A \in Links(N) /\ Circles(A, N)
             /\ \A x \in N : A.next[x] = IF x = new THEN n
                                         ELSE IF x = p THEN new ELSE L.next[x]
<1> DEFINE nx == L.next
           pv == L.prev
           an == [nx EXCEPT ![new] = n, ![p] = new]
           ap == [pv EXCEPT ![n] = new, ![new] = p]
<1>1. /\ nx \in [N -> N] /\ pv \in [N -> N] /\ \A x \in N : pv[nx[x]] = x /\ nx[pv[x]] = x
      /\ nx[new] = new /\ pv[new] = new /\ nx[p] = n
  BY DEF Links, Circles, Alone
<1>2. ListAdd(L, new, p, n) = [next |-> an, prev |-> ap]
  BY DEF ListAdd
<1> HIDE DEF nx, pv
<1>3. n # new /\ pv[n] = p
  BY <1>1
<1>4. an \in [N -> N] /\ ap \in [N -> N]
  BY <1>1
<1>5. \A x \in N : an[x] = IF x = new THEN n ELSE IF x = p THEN new ELSE nx[x]
  BY <1>1
<1>6. \A x \in N : ap[x] = IF x = new THEN p ELSE IF x = n THEN new ELSE pv[x]
  BY <1>1, <1>3
<1> HIDE DEF an, ap
<1>7. \A x \in N : ap[an[x]] = x /\ an[ap[x]] = x
  BY <1>1, <1>3, <1>4, <1>5, <1>6
<1> QED BY <1>2, <1>4, <1>5, <1>7 DEF Links, Circles, nx

-----------------------------------------------------------------------------
(***************************************************************************)
(* A colouring gives all nodes of a circle one colour.                     *)
(***************************************************************************)
Coloured(L, N, colour) == \A x \in N : colour[L.next[x]] = colour[x]

(***************************************************************************)
(* A node that list_del leaves alone may take any colour.                  *)
(***************************************************************************)
LEMMA DelColoured ==
  ASSUME NEW N, NEW L \in Links(N), Circles(L, N), NEW n \in N,
         NEW C, NEW colour \in [N -> C], Coloured(L, N, colour), NEW c \in C
  PROVE  Coloured(ListDel(L, n), N, [colour EXCEPT ![n] = c])
<1> DEFINE D == ListDel(L, n)
<1>1. /\ D \in Links(N)
      /\ \A x \in N : D.next[x] = IF x = n THEN n
                                  ELSE IF L.next[x] = n THEN L.next[n] ELSE L.next[x]
  BY ListDelCircles
<1>2. L.next \in [N -> N] /\ D.next \in [N -> N] /\ \A x \in N : L.prev[L.next[x]] = x
  BY <1>1 DEF Links, Circles
<1> HIDE DEF D
<1>3. \A x \in N : x # n => D.next[x] # n
  BY <1>1, <1>2
<1>4. \A x \in N : x # n => colour[D.next[x]] = colour[x]
  BY <1>1, <1>2 DEF Coloured
<1>5. Coloured(D, N, [colour EXCEPT ![n] = c])
  BY <1>1, <1>2, <1>3, <1>4 DEF Coloured
<1> QED BY <1>5 DEF D

(***************************************************************************)
(* A node that is added takes the colour of its neighbours.                *)
(***************************************************************************)
LEMMA AddColoured ==
  ASSUME NEW N, NEW L \in Links(N), Circles(L, N), NEW new \in N, Alone(L, new),
         NEW p \in N, p # new, NEW n \in N, L.next[p] = n,
         NEW C, NEW colour \in [N -> C], Coloured(L, N, colour)
  PROVE  Coloured(ListAdd(L, new, p, n), N, [colour EXCEPT ![new] = colour[p]])
<1> DEFINE A == ListAdd(L, new, p, n)
<1>1. \A x \in N : A.next[x] = IF x = new THEN n ELSE IF x = p THEN new ELSE L.next[x]
  BY ListAddCircles
<1>2. L.next \in [N -> N] /\ \A x \in N : L.prev[L.next[x]] = x
  BY DEF Links, Circles
<1>3. n # new /\ \A x \in N : x # new => L.next[x] # new
  BY <1>2 DEF Alone
<1>4. colour[n] = colour[p]
  BY DEF Coloured
<1> HIDE DEF A
<1>5. Coloured(A, N, [colour EXCEPT ![new] = colour[p]])
  BY <1>1, <1>2, <1>3, <1>4 DEF Coloured
<1> QED BY <1>5 DEF A

-----------------------------------------------------------------------------
(***************************************************************************)
(* from[k][pos]: at most k nodes of a walk from pos along succ until h.    *)
(***************************************************************************)
Steps(succ, N, h, n, from) ==
  /\ \A pos \in N : from[0][pos] = <<>>
  /\ \A k \in 1 .. n : \A pos \in N :
       from[k][pos] = IF pos = h THEN <<>> ELSE <<pos>> \o from[k - 1][succ[pos]]

(***************************************************************************)
(* A walk of at most n steps from any node exists.                         *)
(***************************************************************************)
LEMMA WalkLoop ==
  ASSUME NEW N, IsFiniteSet(N), NEW succ \in [N -> N], NEW h \in N
  PROVE  \E from : /\ Steps(succ, N, h, Cardinality(N), from)
                   /\ Walk(succ, h) = from[Cardinality(N)][succ[h]]
<1> DEFINE n == Cardinality(DOMAIN succ)
           more(pos, s) == IF pos = h THEN <<>> ELSE <<pos>> \o s
           F(f) == [k \in 0 .. n |->
                      [pos \in DOMAIN succ |->
                         IF k = 0 \/ pos = h THEN <<>> ELSE <<pos>> \o f[k - 1][succ[pos]]]]
           from == CHOOSE f : f = F(f)
           X == [N -> Seq(N)]
           a == [pos \in N |-> <<>>]
           G == [k \in 1 .. n |-> [t \in X |-> [pos \in N |-> more(pos, t[succ[pos]])]]]
<1>1. n \in Nat /\ DOMAIN succ = N /\ n = Cardinality(N)
  BY FS_CardinalityType
<1>2. \E f : f = F(f)
  <2>1. \A pos \in N, s \in Seq(N) : more(pos, s) \in Seq(N)
    OBVIOUS
  <2>2. a \in X
    OBVIOUS
  <2>3. G \in [1 .. n -> [X -> X]]
    <3> HIDE DEF more
    <3>1. ASSUME NEW t \in X PROVE [pos \in N |-> more(pos, t[succ[pos]])] \in X
      BY <2>1
    <3> HIDE DEF X
    <3> QED BY <3>1
  <2>4. PICK g \in [0 .. n -> X] : g[0] = a /\ \A k \in 1 .. n : g[k] = G[k][g[k - 1]]
    <3> HIDE DEF X, a, G, n
    <3>1. \E g \in [0 .. n -> X] : Queues!IsLoop(g, n, a, G)
      BY <1>1, <2>2, <2>3, Queues!LoopExists
    <3> QED BY <3>1 DEF Queues!IsLoop
  <2>5. ASSUME NEW k \in 1 .. n
        PROVE  g[k] = [pos \in N |-> IF pos = h THEN <<>> ELSE <<pos>> \o g[k - 1][succ[pos]]]
    <3>1. k - 1 \in 0 .. n
      BY <1>1
    <3>2. g[k - 1] \in X
      BY <2>4, <3>1
    <3> HIDE DEF more, X, n
    <3>3. g[k] = [p \in N |-> more(p, g[k - 1][succ[p]])]
      BY <2>4, <3>2
    <3> QED BY <3>3 DEF more
  <2>6. \A k \in 0 .. n : k = 0 \/ k \in 1 .. n
    BY <1>1
  <2> HIDE DEF n
  <2>7. ASSUME NEW k \in 0 .. n
        PROVE  g[k] = [pos \in N |-> IF k = 0 \/ pos = h THEN <<>>
                                     ELSE <<pos>> \o g[k - 1][succ[pos]]]
    <3>1. CASE k = 0
      BY <2>4, <3>1
    <3>2. CASE k # 0
      <4>1. k \in 1 .. n
        BY <2>6, <3>2
      <4>2. g[k] = [pos \in N |-> IF pos = h THEN <<>> ELSE <<pos>> \o g[k - 1][succ[pos]]]
        BY <2>5, <4>1
      <4>3. \A pos \in N : (k = 0 \/ pos = h) = (pos = h)
        BY <3>2
      <4> QED BY <4>2, <4>3
    <3> QED BY <3>1, <3>2
  <2>8. g = F(g)
    BY <1>1, <2>7
  <2> QED BY <2>8
<1>3. from = F(from)
  <2> HIDE DEF F
  <2> QED BY <1>2, Zenon
<1>4. Walk(succ, h) = from[n][succ[h]]
  BY Zenon DEF Walk
<1> HIDE DEF from, n
<1>5. \A k \in 0 .. n : from[k] = [pos \in N |-> IF k = 0 \/ pos = h THEN <<>>
                                     ELSE <<pos>> \o from[k - 1][succ[pos]]]
  BY <1>1, <1>3
<1>6. Steps(succ, N, h, n, from)
  <2>1. 0 \in 0 .. n /\ \A k \in 1 .. n : k \in 0 .. n /\ k # 0
    BY <1>1
  <2>2. ASSUME NEW k \in 0 .. n, NEW pos \in N
        PROVE  from[k][pos] = IF k = 0 \/ pos = h THEN <<>>
                              ELSE <<pos>> \o from[k - 1][succ[pos]]
    <3>1. from[k] = [p \in N |-> IF k = 0 \/ p = h THEN <<>>
                                 ELSE <<p>> \o from[k - 1][succ[p]]]
      BY <1>5
    <3> QED BY <3>1, Zenon
  <2>3. \A pos \in N : from[0][pos] = <<>>
    BY <2>1, <2>2
  <2>4. ASSUME NEW k \in 1 .. n, NEW pos \in N
        PROVE  from[k][pos] = IF pos = h THEN <<>> ELSE <<pos>> \o from[k - 1][succ[pos]]
    BY <2>1, <2>2
  <2> QED BY <2>3, <2>4, Zenon DEF Steps
<1> QED BY <1>1, <1>4, <1>6

(***************************************************************************)
(* A walk stays in any set that is not left along succ except for h.       *)
(***************************************************************************)
LEMMA WalkStays ==
  ASSUME NEW N, IsFiniteSet(N), NEW succ \in [N -> N], NEW h \in N,
         NEW M \in SUBSET N, h \notin M,
         succ[h] \in M \cup {h}, \A x \in M : succ[x] \in M \cup {h}
  PROVE  Walk(succ, h) \in Seq(M)
<1> DEFINE n == Cardinality(N)
<1>1. n \in Nat
  BY FS_CardinalityType
<1>2. PICK from : Steps(succ, N, h, n, from) /\ Walk(succ, h) = from[n][succ[h]]
  BY WalkLoop
<1> DEFINE S == {k \in 0 .. n : \A pos \in M \cup {h} : from[k][pos] \in Seq(M)}
<1> HIDE DEF n
<1>3. 0 \in S
  <2>1. \A pos \in M \cup {h} : from[0][pos] = <<>>
    BY <1>2 DEF Steps
  <2>2. <<>> \in Seq(M)
    OBVIOUS
  <2>3. 0 \in 0 .. n
    BY <1>1
  <2> QED BY <2>1, <2>2, <2>3, Zenon
<1>4. ASSUME NEW k \in 1 .. n, k - 1 \in S PROVE k \in S
  <2> SUFFICES ASSUME NEW pos \in M \cup {h} PROVE from[k][pos] \in Seq(M)
    BY <1>1
  <2>1. from[k][pos] = IF pos = h THEN <<>> ELSE <<pos>> \o from[k - 1][succ[pos]]
    BY <1>2 DEF Steps
  <2>2. pos # h => pos \in M /\ from[k - 1][succ[pos]] \in Seq(M)
    BY <1>4
  <2> DEFINE rest == from[k - 1][succ[pos]]
  <2> HIDE DEF rest
  <2>3. pos # h => <<pos>> \o rest \in Seq(M)
    BY <2>2 DEF rest
  <2> QED BY <2>1, <2>3 DEF rest
<1>5. \A k \in 0 .. n : k \in S
  <2> HIDE DEF S
  <2> QED BY <1>1, <1>3, <1>4, Queues!UpTo
<1> QED BY <1>1, <1>2, <1>5

(***************************************************************************)
(* A walk shorter than its bound ends before h, so that it meets, with h,  *)
(* every node that can be reached along succ.                              *)
(***************************************************************************)
Chain(s, succ, N, h) ==
  /\ s \in Seq(N \ {h})
  /\ \A i \in 1 .. Len(s) - 1 : s[i + 1] = succ[s[i]]

LEMMA WalkChain ==
  ASSUME NEW N, IsFiniteSet(N), NEW succ \in [N -> N], NEW h \in N
  PROVE  LET w == Walk(succ, h)
         IN  /\ Chain(w, succ, N, h)
             /\ w = <<>> => succ[h] = h
             /\ w # <<>> => w[1] = succ[h]
             /\ w # <<>> /\ Len(w) < Cardinality(N) => succ[w[Len(w)]] = h
<1> DEFINE n == Cardinality(N)
<1>1. n \in Nat /\ n # 0
  BY FS_CardinalityType, FS_EmptySet
<1>2. PICK from : Steps(succ, N, h, n, from) /\ Walk(succ, h) = from[n][succ[h]]
  BY WalkLoop
<1> DEFINE Good(k, pos, s) ==
             /\ Chain(s, succ, N, h)
             /\ s = <<>> => k = 0 \/ pos = h
             /\ s # <<>> => s[1] = pos
             /\ Len(s) < k => IF s = <<>> THEN pos = h ELSE succ[s[Len(s)]] = h
           S == {k \in 0 .. n : \A pos \in N : Good(k, pos, from[k][pos])}
<1> HIDE DEF n
<1>3. 0 \in S
  <2>1. \A pos \in N : from[0][pos] = <<>>
    BY <1>2 DEF Steps
  <2>2. \A pos \in N : Good(0, pos, <<>>)
    BY DEF Chain
  <2> QED BY <1>1, <2>1, <2>2
<1>4. ASSUME NEW k \in 1 .. n, k - 1 \in S PROVE k \in S
  <2> SUFFICES ASSUME NEW pos \in N PROVE Good(k, pos, from[k][pos])
    BY <1>1
  <2>1. from[k][pos] = IF pos = h THEN <<>> ELSE <<pos>> \o from[k - 1][succ[pos]]
    BY <1>2 DEF Steps
  <2> DEFINE rest == from[k - 1][succ[pos]]
  <2>2. Good(k - 1, succ[pos], rest)
    BY <1>4
  <2> HIDE DEF rest
  <2>3. CASE pos = h
    <3>1. Good(k, pos, <<>>)
      BY <2>3 DEF Chain
    <3> QED BY <2>1, <2>3, <3>1
  <2>4. CASE pos # h
    <3> DEFINE s == <<pos>> \o rest
    <3>1. rest \in Seq(N \ {h}) /\ Len(rest) \in Nat
      BY <2>2 DEF Chain
    <3>2. /\ s \in Seq(N \ {h}) /\ s # <<>> /\ Len(s) = Len(rest) + 1 /\ s[1] = pos
          /\ \A i \in 1 .. Len(rest) : s[i + 1] = rest[i]
      BY <2>4, <3>1
    <3> HIDE DEF s
    <3>3. ASSUME NEW i \in 1 .. Len(s) - 1 PROVE s[i + 1] = succ[s[i]]
      <4>1. CASE i = 1
        <5>1. rest # <<>> /\ s[2] = rest[1]
          BY <3>1, <3>2, <3>3, <4>1
        <5> QED BY <2>2, <3>2, <4>1, <5>1
      <4>2. CASE i # 1
        <5>1. i - 1 \in 1 .. Len(rest) - 1 /\ i \in 1 .. Len(rest) /\ i - 1 \in 1 .. Len(rest)
          BY <3>1, <3>2, <3>3, <4>2
        <5>2. rest[(i - 1) + 1] = succ[rest[i - 1]] /\ s[(i - 1) + 1] = rest[i - 1]
              /\ s[i + 1] = rest[i]
          BY <2>2, <3>2, <5>1 DEF Chain
        <5> QED BY <5>1, <5>2
      <4> QED BY <4>1, <4>2
    <3>4. ASSUME Len(s) < k PROVE succ[s[Len(s)]] = h
      <4>1. Len(rest) < k - 1
        BY <1>1, <3>1, <3>2, <3>4
      <4>2. CASE rest = <<>>
        BY <2>2, <3>2, <4>1, <4>2
      <4>3. CASE rest # <<>>
        <5>1. Len(rest) \in 1 .. Len(rest)
          BY <3>1, <4>3
        <5> QED BY <2>2, <3>2, <4>1, <4>3, <5>1
      <4> QED BY <4>2, <4>3
    <3>5. Good(k, pos, s)
      BY <3>2, <3>3, <3>4 DEF Chain
    <3>6. from[k][pos] = s
      BY <2>1, <2>4 DEF s, rest
    <3> HIDE DEF Good
    <3> QED BY <3>5, <3>6
  <2> QED BY <2>3, <2>4
<1>5. n \in S
  <2> HIDE DEF S
  <2>1. \A k \in 0 .. n : k \in S
    BY <1>1, <1>3, <1>4, Queues!UpTo
  <2> QED BY <1>1, <2>1
<1>6. Good(n, succ[h], Walk(succ, h))
  BY <1>2, <1>5
<1> QED BY <1>1, <1>6 DEF n

(***************************************************************************)
(* s lists the nodes of the circle of h behind h, in order.                *)
(***************************************************************************)
At(s, h, i) == IF i \in 1 .. Len(s) THEN s[i] ELSE h

Visits(s, succ, N, h) ==
  /\ s \in Seq(N \ {h})
  /\ \A i, j \in 1 .. Len(s) : s[i] = s[j] => i = j
  /\ \A i \in 0 .. Len(s) : succ[At(s, h, i)] = At(s, h, i + 1)

(***************************************************************************)
(* On circles a walk meets no node twice: it would have met h before.      *)
(***************************************************************************)
LEMMA WalkCloses ==
  ASSUME NEW N, IsFiniteSet(N), NEW L \in Links(N), Circles(L, N), NEW h \in N
  PROVE  LET w == Walk(L.next, h)
         IN  /\ ToSet(w) \subseteq N \ {h}
             /\ \A x \in ToSet(w) \cup {h} : L.next[x] \in ToSet(w) \cup {h}
             /\ Visits(w, L.next, N, h)
<1> DEFINE succ == L.next
           w == Walk(succ, h)
           n == Cardinality(N)
           l == Len(w)
<1>1. succ \in [N -> N] /\ \A x, y \in N : succ[x] = succ[y] => x = y
  BY DEF Links, Circles
<1> HIDE DEF succ
<1>2. /\ w \in Seq(N \ {h}) /\ \A i \in 1 .. l - 1 : w[i + 1] = succ[w[i]]
      /\ w = <<>> => succ[h] = h
      /\ w # <<>> => w[1] = succ[h]
      /\ w # <<>> /\ l < n => succ[w[l]] = h
  BY <1>1, WalkChain DEF Chain
<1> HIDE DEF w
<1>3. /\ l \in Nat /\ DOMAIN w = 1 .. l /\ \A i \in 1 .. l : w[i] \in N /\ w[i] # h
  BY <1>2
<1> HIDE DEF l
<1> DEFINE S == {k \in 0 .. l : \A i \in 1 .. k, j \in 1 .. l : i < j => w[i] # w[j]}
<1>4. 0 \in S
  BY <1>3
<1>5. ASSUME NEW k \in 1 .. l, k - 1 \in S PROVE k \in S
  <2> SUFFICES ASSUME NEW j \in 1 .. l, k < j, w[k] = w[j] PROVE FALSE
    <3>1. \A i \in 1 .. k : i \in 1 .. k - 1 \/ i = k
      OBVIOUS
    <3> QED BY <1>3, <1>5, <3>1
  <2>1. j - 1 \in 1 .. l /\ j - 1 \in 1 .. l - 1 /\ (j - 1) + 1 = j
    BY <1>3
  <2>2. w[j] = succ[w[j - 1]] /\ w[j - 1] \in N /\ w[j - 1] # h
    BY <1>2, <1>3, <2>1
  <2>3. CASE k = 1
    <3>1. w # <<>>
      BY <1>3
    <3>2. succ[w[j - 1]] = succ[h]
      BY <1>2, <2>2, <2>3, <3>1
    <3> QED BY <1>1, <2>2, <3>2
  <2>4. CASE k # 1
    <3>1. k - 1 \in 1 .. l /\ k - 1 \in 1 .. l - 1 /\ (k - 1) + 1 = k /\ k - 1 < j - 1
          /\ k - 1 \in 1 .. k - 1
      BY <1>3, <2>4
    <3>2. w[k] = succ[w[k - 1]] /\ w[k - 1] \in N
      BY <1>2, <1>3, <3>1
    <3>3. w[k - 1] = w[j - 1]
      BY <1>1, <2>2, <3>2
    <3> QED BY <1>5, <2>1, <3>1, <3>3
  <2> QED BY <2>3, <2>4
<1>6. l \in S
  <2> HIDE DEF S
  <2>1. \A k \in 0 .. l : k \in S
    BY <1>3, <1>4, <1>5, Queues!UpTo
  <2> QED BY <1>3, <2>1
<1>7. \A i, j \in 1 .. l : w[i] = w[j] => i = j
  <2>1. \A i, j \in 1 .. l : i < j => w[i] # w[j]
    BY <1>6
  <2>2. \A i, j \in 1 .. l : i # j => i < j \/ j < i
    BY <1>3
  <2> QED BY <2>1, <2>2
<1>8. l < n
  <2>1. w \in Injection(1 .. l, N \ {h})
    <3>1. w \in [1 .. l -> N \ {h}]
      BY <1>2, <1>3
    <3> QED BY <1>7, <3>1 DEF Injection, IsInjective
  <2>2. IsFiniteSet(N \ {h}) /\ Cardinality(N \ {h}) = n - 1 /\ n \in Nat
    BY FS_RemoveElement, FS_CardinalityType
  <2>3. Cardinality(1 .. l) <= Cardinality(N \ {h})
    BY <2>1, <2>2, FS_Injection
  <2>4. Cardinality(1 .. l) = l
    BY <1>3, FS_Interval
  <2> QED BY <1>3, <2>2, <2>3, <2>4
<1>9. ToSet(w) = {w[i] : i \in 1 .. l}
  BY <1>3 DEF ToSet
<1>10. ToSet(w) \subseteq N \ {h}
  BY <1>3, <1>9
<1>11. succ[h] \in ToSet(w) \cup {h}
  <2>1. CASE w = <<>>
    BY <1>2, <2>1
  <2>2. CASE w # <<>>
    <3>1. 1 \in 1 .. l
      BY <1>2, <1>3, <2>2 DEF l
    <3> QED BY <1>2, <1>9, <2>2, <3>1
  <2> QED BY <2>1, <2>2
<1>12. ASSUME NEW i \in 1 .. l PROVE succ[w[i]] \in ToSet(w) \cup {h}
  <2>1. CASE i = l
    <3>1. w # <<>>
      BY <1>3
    <3> QED BY <1>2, <1>8, <2>1, <3>1
  <2>2. CASE i # l
    <3>1. i \in 1 .. l - 1 /\ i + 1 \in 1 .. l
      BY <1>3, <2>2
    <3>2. w[i + 1] = succ[w[i]]
      BY <1>2, <3>1
    <3> QED BY <1>9, <3>1, <3>2
  <2> QED BY <2>1, <2>2
<1>13. \A x \in ToSet(w) \cup {h} : succ[x] \in ToSet(w) \cup {h}
  BY <1>9, <1>11, <1>12
<1>14. ASSUME NEW i \in 0 .. l PROVE succ[At(w, h, i)] = At(w, h, i + 1)
  <2>1. CASE i = 0 /\ l = 0
    <3>1. w = <<>>
      BY <1>2, <2>1 DEF l
    <3> QED BY <1>2, <2>1, <3>1 DEF At, l
  <2>2. CASE i = 0 /\ l # 0
    <3>1. w # <<>> /\ 1 \in 1 .. l
      BY <1>3, <2>2 DEF l
    <3> QED BY <1>2, <2>2, <3>1 DEF At, l
  <2>3. CASE i # 0 /\ i = l
    <3>1. w # <<>> /\ i \in 1 .. l /\ ~ (i + 1 \in 1 .. l)
      BY <1>3, <2>3 DEF l
    <3> QED BY <1>2, <1>8, <2>3, <3>1 DEF At, l
  <2>4. CASE i # 0 /\ i # l
    <3>1. i \in 1 .. l - 1 /\ i \in 1 .. l /\ i + 1 \in 1 .. l
      BY <1>3, <2>4
    <3> QED BY <1>2, <3>1 DEF At, l
  <2> QED BY <1>3, <2>1, <2>2, <2>3, <2>4
<1>15. Visits(w, succ, N, h)
  BY <1>2, <1>7, <1>14 DEF Visits, l
<1> QED BY <1>10, <1>13, <1>15 DEF w, succ

LEMMA VisitsFacts ==
  ASSUME NEW N, NEW succ, NEW h \in N, NEW s, Visits(s, succ, N, h)
  PROVE  /\ Len(s) \in Nat
         /\ \A i \in 1 .. Len(s) : s[i] \in N /\ s[i] # h /\ At(s, h, i) = s[i]
         /\ \A i : At(s, h, i) \in N
         /\ At(s, h, 0) = h /\ At(s, h, Len(s) + 1) = h
         /\ ToSet(s) = {s[i] : i \in 1 .. Len(s)}
<1>1. s \in Seq(N \ {h})
  BY DEF Visits
<1>2. /\ Len(s) \in Nat /\ DOMAIN s = 1 .. Len(s)
      /\ \A i \in 1 .. Len(s) : s[i] \in N /\ s[i] # h
  BY <1>1
<1> QED BY <1>2 DEF At, ToSet

(***************************************************************************)
(* There is one such sequence.                                             *)
(***************************************************************************)
LEMMA VisitsOne ==
  ASSUME NEW N, NEW succ, NEW h \in N, NEW s, NEW t,
         Visits(s, succ, N, h), Visits(t, succ, N, h)
  PROVE  s = t
<1>1. /\ Len(s) \in Nat /\ Len(t) \in Nat
      /\ \A i \in 1 .. Len(s) : s[i] # h
      /\ \A i \in 1 .. Len(t) : t[i] # h
      /\ s \in Seq(N \ {h}) /\ t \in Seq(N \ {h})
      /\ \A i \in 0 .. Len(s) : succ[At(s, h, i)] = At(s, h, i + 1)
      /\ \A i \in 0 .. Len(t) : succ[At(t, h, i)] = At(t, h, i + 1)
  BY VisitsFacts DEF Visits
<1>2. ASSUME NEW u \in Seq(N \ {h}), NEW v \in Seq(N \ {h}), Len(u) \in Nat, Len(v) \in Nat,
             Len(u) <= Len(v),
             \A i \in 1 .. Len(v) : v[i] # h,
             \A i \in 0 .. Len(u) : succ[At(u, h, i)] = At(u, h, i + 1),
             \A i \in 0 .. Len(v) : succ[At(v, h, i)] = At(v, h, i + 1)
      PROVE  u = v
  <2> DEFINE n == Len(u)
             S == {k \in 0 .. n + 1 : At(u, h, k) = At(v, h, k)}
  <2>1. 0 \in S
    BY <1>2 DEF At
  <2>2. ASSUME NEW k \in 1 .. n + 1, k - 1 \in S PROVE k \in S
    <3>1. k - 1 \in 0 .. Len(u) /\ k - 1 \in 0 .. Len(v) /\ (k - 1) + 1 = k
      BY <1>2
    <3>2. At(u, h, k) = succ[At(u, h, k - 1)] /\ At(v, h, k) = succ[At(v, h, k - 1)]
      BY <1>2, <3>1
    <3> QED BY <2>2, <3>2
  <2>3. \A k \in 0 .. n + 1 : k \in S
    <3> HIDE DEF S
    <3>1. n + 1 \in Nat
      BY <1>2
    <3> HIDE DEF n
    <3> QED BY <2>1, <2>2, <3>1, Queues!UpTo
  <2>4. Len(u) = Len(v)
    <3> SUFFICES ASSUME Len(u) < Len(v) PROVE FALSE
      BY <1>2
    <3>1. n + 1 \in 0 .. n + 1 /\ n + 1 \in 1 .. Len(v) /\ ~ (n + 1 \in 1 .. Len(u))
      BY <1>2
    <3>2. At(u, h, n + 1) = h /\ At(v, h, n + 1) = v[n + 1]
      BY <3>1 DEF At
    <3>3. At(u, h, n + 1) = At(v, h, n + 1)
      BY <2>3, <3>1
    <3> QED BY <1>2, <3>1, <3>2, <3>3
  <2>5. ASSUME NEW i \in 1 .. Len(u) PROVE u[i] = v[i]
    <3>1. i \in 0 .. n + 1 /\ i \in 1 .. Len(v)
      BY <1>2, <2>4
    <3>2. At(u, h, i) = At(v, h, i)
      BY <2>3, <3>1
    <3> QED BY <3>1, <3>2 DEF At
  <2> QED BY <1>2, <2>4, <2>5
<1>3. CASE Len(s) <= Len(t)
  BY <1>1, <1>2, <1>3
<1>4. CASE Len(t) <= Len(s)
  BY <1>1, <1>2, <1>4
<1> QED BY <1>1, <1>3, <1>4

(***************************************************************************)
(* What RemoveFirst and InsertAt do, by positions.                         *)
(***************************************************************************)
LEMMA RemoveFirstPlaces ==
  ASSUME NEW T, NEW s \in Seq(T), NEW e,
         \A i, j \in 1 .. Len(s) : s[i] = s[j] => i = j
  PROVE  LET r == RemoveFirst(s, e)
         IN  /\ (\A i \in 1 .. Len(s) : s[i] # e) => r = s
             /\ \A k \in 1 .. Len(s) : s[k] = e =>
                  /\ r \in Seq(T) /\ Len(r) = Len(s) - 1
                  /\ \A i \in 1 .. Len(s) - 1 : r[i] = IF i < k THEN s[i] ELSE s[i + 1]
<1>1. (\A i \in 1 .. Len(s) : s[i] # e) => RemoveFirst(s, e) = s
  BY DEF RemoveFirst
<1>2. ASSUME NEW k \in 1 .. Len(s), s[k] = e
      PROVE  /\ RemoveFirst(s, e) \in Seq(T) /\ Len(RemoveFirst(s, e)) = Len(s) - 1
             /\ \A i \in 1 .. Len(s) - 1 :
                  RemoveFirst(s, e)[i] = IF i < k THEN s[i] ELSE s[i + 1]
  <2> DEFINE I == {i \in 1 .. Len(s) : s[i] = e}
             r == SubSeq(s, 1, k - 1) \o SubSeq(s, k + 1, Len(s))
  <2>1. I = {k}
    BY <1>2
  <2>2. Min({k}) = k
    <3>1. {k} \in SUBSET Nat /\ {k} # {}
      OBVIOUS
    <3>2. Queues!Min({k}) \in {k}
      BY <3>1, Queues!MinIsLeast
    <3>3. Min({k}) = Queues!Min({k})
      BY Zenon DEF Min, Queues!Min
    <3> QED BY <3>2, <3>3
  <2>3. SelectInSeq(s, LAMBDA v : v = e) = k
    <3>1. SelectInSeq(s, LAMBDA v : v = e) = IF I # {} THEN Min(I) ELSE 0
      BY DEF SelectInSeq
    <3> HIDE DEF I
    <3> QED BY <2>1, <2>2, <3>1
  <2>4. RemoveFirst(s, e) = r
    BY <1>2, <2>3 DEF RemoveFirst, RemoveAt
  <2>5. /\ SubSeq(s, 1, k - 1) \in Seq(T) /\ SubSeq(s, k + 1, Len(s)) \in Seq(T)
        /\ Len(SubSeq(s, 1, k - 1)) = k - 1
        /\ Len(SubSeq(s, k + 1, Len(s))) = Len(s) - k
        /\ \A i \in 1 .. k - 1 : SubSeq(s, 1, k - 1)[i] = s[i]
        /\ \A i \in 1 .. Len(s) - k : SubSeq(s, k + 1, Len(s))[i] = s[k + i]
    <3>1. Len(s) \in Nat /\ \A i \in 1 .. Len(s) : s[i] \in T
      OBVIOUS
    <3> QED BY <3>1
  <2>6. /\ r \in Seq(T) /\ Len(r) = Len(s) - 1
        /\ \A i \in 1 .. Len(s) - 1 : r[i] = IF i < k THEN s[i] ELSE s[i + 1]
    <3> DEFINE a == SubSeq(s, 1, k - 1)
               b == SubSeq(s, k + 1, Len(s))
    <3>1. a \in Seq(T) /\ b \in Seq(T) /\ Len(a) = k - 1 /\ Len(b) = Len(s) - k
      BY <2>5
    <3>2. \A i \in 1 .. Len(s) - 1 : i >= k => b[i - (k - 1)] = s[i + 1]
      <4> TAKE i \in 1 .. Len(s) - 1
      <4>1. i >= k => i - (k - 1) \in 1 .. Len(s) - k /\ k + (i - (k - 1)) = i + 1
        OBVIOUS
      <4> HIDE DEF b
      <4> QED BY <2>5, <4>1 DEF b
    <3>3. \A i \in 1 .. k - 1 : a[i] = s[i]
      BY <2>5
    <3> HIDE DEF a, b
    <3>4. a \o b \in Seq(T) /\ Len(a \o b) = Len(s) - 1
      <4>1. a \in Seq(T) /\ b \in Seq(T)
        BY <3>1
      <4>2. a \o b \in Seq(T)
        BY <4>1
      <4>3. Len(a \o b) = Len(a) + Len(b)
        BY <4>1, Queues!ConcatProperties
      <4>4. Len(s) \in Nat
        OBVIOUS
      <4> QED BY <3>1, <4>2, <4>3, <4>4
    <3>5. ASSUME NEW i \in 1 .. Len(s) - 1
          PROVE  (a \o b)[i] = IF i < k THEN s[i] ELSE s[i + 1]
      <4>1. i \in 1 .. Len(a) + Len(b)
        BY <3>1
      <4>2. (a \o b)[i] = IF i <= Len(a) THEN a[i] ELSE b[i - Len(a)]
        BY <3>1, <4>1, Queues!ConcatProperties
      <4>3. CASE i < k
        BY <3>1, <3>3, <4>2, <4>3
      <4>4. CASE i >= k
        BY <3>1, <3>2, <4>2, <4>4
      <4>5. i < k \/ i >= k
        OBVIOUS
      <4> QED BY <4>3, <4>4, <4>5, Zenon
    <3> QED BY <3>4, <3>5 DEF a, b
  <2> HIDE DEF r
  <2> QED BY <2>4, <2>6
<1> QED BY <1>1, <1>2

(***************************************************************************)
(* list_del of a node takes it out of the sequence it is in.               *)
(***************************************************************************)
LEMMA DelVisits ==
  ASSUME NEW N, NEW f, NEW g, NEW h \in N, NEW n \in N, n # h, NEW s,
         Visits(s, f, N, h),
         \A x \in N : g[x] = IF x = n THEN n ELSE IF f[x] = n THEN f[n] ELSE f[x]
  PROVE  Visits(RemoveFirst(s, n), g, N, h)
<1> DEFINE r == RemoveFirst(s, n)
           l == Len(s)
<1>1. /\ l \in Nat /\ s \in Seq(N \ {h})
      /\ \A i \in 1 .. l : s[i] \in N /\ s[i] # h
      /\ \A i : At(s, h, i) \in N
      /\ \A i, j \in 1 .. l : s[i] = s[j] => i = j
      /\ \A i \in 0 .. l : f[At(s, h, i)] = At(s, h, i + 1)
  BY VisitsFacts DEF Visits
<1> HIDE DEF l, r
<1>2. CASE \A i \in 1 .. l : s[i] # n
  <2>1. r = s
    BY <1>1, <1>2, RemoveFirstPlaces DEF r, l
  <2>2. \A i : At(s, h, i) # n
    BY <1>2 DEF At, l
  <2>3. \A i \in 0 .. l : g[At(s, h, i)] = f[At(s, h, i)]
    BY <1>1, <2>2
  <2> QED BY <1>1, <2>1, <2>3 DEF Visits, l, r
<1>3. ASSUME NEW k \in 1 .. l, s[k] = n PROVE Visits(r, g, N, h)
  <2>1. /\ r \in Seq(N \ {h}) /\ Len(r) = l - 1
        /\ \A i \in 1 .. l - 1 : r[i] = IF i < k THEN s[i] ELSE s[i + 1]
    BY <1>1, <1>3, RemoveFirstPlaces DEF r, l
  <2>2. ASSUME NEW i \in 0 .. l PROVE At(r, h, i) = IF i < k THEN At(s, h, i) ELSE At(s, h, i + 1)
    BY <1>1, <2>1 DEF At, l
  <2>3. \A i \in 0 .. l + 1 : At(s, h, i) = n <=> i = k
    BY <1>1, <1>3 DEF At, l
  <2>4. ASSUME NEW i \in 0 .. l - 1 PROVE g[At(r, h, i)] = At(r, h, i + 1)
    <3>1. CASE i < k - 1
      <4>1. i \in 0 .. l /\ i + 1 \in 0 .. l /\ i < k /\ i + 1 < k /\ i + 1 \in 0 .. l + 1 /\ i \in 0 .. l + 1
        BY <1>1, <3>1
      <4>2. At(r, h, i) = At(s, h, i) /\ At(r, h, i + 1) = At(s, h, i + 1)
        BY <2>2, <4>1
      <4>3. At(s, h, i) # n /\ At(s, h, i + 1) # n
        BY <2>3, <4>1
      <4> QED BY <1>1, <4>1, <4>2, <4>3
    <3>2. CASE i = k - 1
      <4>1. i \in 0 .. l /\ i + 1 = k /\ i < k /\ ~ (k < k) /\ k \in 0 .. l /\ i \in 0 .. l + 1 /\ k \in 0 .. l + 1 /\ i # k
        BY <1>1, <3>2
      <4>2. At(r, h, i) = At(s, h, i) /\ At(r, h, i + 1) = At(s, h, k + 1)
        BY <2>2, <4>1
      <4>3. At(s, h, i) # n /\ At(s, h, k) = n
        BY <2>3, <4>1
      <4>4. f[At(s, h, i)] = n /\ f[n] = At(s, h, k + 1)
        BY <1>1, <4>1, <4>3
      <4> QED BY <1>1, <4>2, <4>3, <4>4
    <3>3. CASE i > k - 1
      <4>1. /\ i \in 0 .. l /\ i + 1 \in 0 .. l /\ ~ (i < k) /\ ~ (i + 1 < k) /\ (i + 1) + 1 \in 0 .. l + 1
            /\ i + 1 \in 0 .. l + 1 /\ i + 1 # k /\ (i + 1) + 1 # k
        BY <1>1, <3>3
      <4>2. At(r, h, i) = At(s, h, i + 1) /\ At(r, h, i + 1) = At(s, h, (i + 1) + 1)
        BY <2>2, <4>1
      <4>3. At(s, h, i + 1) # n /\ At(s, h, (i + 1) + 1) # n
        BY <2>3, <4>1
      <4> QED BY <1>1, <4>1, <4>2, <4>3
    <3> QED BY <1>1, <3>1, <3>2, <3>3
  <2>5. ASSUME NEW i \in 1 .. Len(r), NEW j \in 1 .. Len(r), r[i] = r[j] PROVE i = j
    <3>1. i \in 1 .. l - 1 /\ j \in 1 .. l - 1
      BY <2>1
    <3> DEFINE to(x) == IF x < k THEN x ELSE x + 1
    <3>2. ASSUME NEW x \in 1 .. l - 1
          PROVE  r[x] = s[to(x)] /\ to(x) \in 1 .. l
      <4>1. x \in 1 .. l /\ x + 1 \in 1 .. l
        BY <1>1
      <4>2. r[x] = IF x < k THEN s[x] ELSE s[x + 1]
        BY <2>1
      <4> QED BY <4>1, <4>2
    <3>3. to(i) = to(j)
      <4>1. s[to(i)] = s[to(j)] /\ to(i) \in 1 .. l /\ to(j) \in 1 .. l
        <5> HIDE DEF to
        <5> QED BY <2>5, <3>1, <3>2
      <4> HIDE DEF to
      <4> QED BY <1>1, <4>1
    <3>4. i \in Int /\ j \in Int /\ k \in Int
      BY <1>1, <3>1
    <3> QED BY <3>3, <3>4
  <2> QED BY <2>1, <2>4, <2>5 DEF Visits
<1> QED BY <1>2, <1>3 DEF r

(***************************************************************************)
(* A node that is added between two neighbours stands there in the         *)
(* sequence.                                                               *)
(***************************************************************************)
LEMMA AddVisits ==
  ASSUME NEW N, NEW f, NEW g, NEW h \in N, NEW new \in N, new # h, NEW s,
         Visits(s, f, N, h), \A i \in 1 .. Len(s) : s[i] # new,
         NEW k \in 1 .. Len(s) + 1,
         \A x \in N : g[x] = IF x = new THEN At(s, h, k)
                             ELSE IF x = At(s, h, k - 1) THEN new ELSE f[x]
  PROVE  Visits(InsertAt(s, k, new), g, N, h)
<1> DEFINE r == InsertAt(s, k, new)
           l == Len(s)
           T == N \ {h}
<1>1. /\ l \in Nat /\ s \in Seq(T)
      /\ \A i \in 1 .. l : s[i] \in N /\ s[i] # h
      /\ \A i : At(s, h, i) \in N
      /\ \A i, j \in 1 .. l : s[i] = s[j] => i = j
      /\ \A i \in 0 .. l : f[At(s, h, i)] = At(s, h, i + 1)
  BY VisitsFacts DEF Visits
<1>2. /\ r \in Seq(T) /\ Len(r) = l + 1
      /\ \A i \in 1 .. l + 1 : r[i] = IF i < k THEN s[i] ELSE IF i = k THEN new ELSE s[i - 1]
  <2>1. new \in T /\ k \in 1 .. Len(s) + 1
    OBVIOUS
  <2>2. InsertAt(s, k, new) = Queues!InsertAt(s, k, new)
    BY DEF InsertAt, Queues!InsertAt
  <2> HIDE DEF T
  <2>3. s \in Seq(T) /\ l = Len(s)
    BY <1>1
  <2>4. LET q == Queues!InsertAt(s, k, new)
        IN  /\ q \in Seq(T)
            /\ Len(q) = Len(s) + 1
            /\ \A i \in 1 .. Len(s) + 1 :
                  q[i] = IF i < k THEN s[i] ELSE IF i = k THEN new ELSE s[i - 1]
    BY <2>1, <2>3, Queues!InsertAtProperties
  <2>5. r = Queues!InsertAt(s, k, new)
    BY <2>2
  <2> HIDE DEF r, l
  <2> QED BY <2>3, <2>4, <2>5
<1> HIDE DEF l, r
<1>3. l = Len(s)
  BY DEF l
<1>4. ASSUME NEW i \in 0 .. l + 2
      PROVE  At(r, h, i) = IF i < k THEN At(s, h, i)
                           ELSE IF i = k THEN new ELSE At(s, h, i - 1)
  BY <1>1, <1>2, <1>3 DEF At
<1>5. \A i \in 0 .. l + 1 : At(s, h, i) # new
  BY <1>3 DEF At
<1>6. \A i \in 0 .. l : i # k - 1 => At(s, h, i) # At(s, h, k - 1)
  BY <1>1, <1>3 DEF At
<1>7. ASSUME NEW i \in 0 .. l + 1 PROVE g[At(r, h, i)] = At(r, h, i + 1)
  <2>0. k \in 1 .. l + 1
    BY <1>3
  <2>1. CASE i < k - 1
    <3>1. i \in 0 .. l + 2 /\ i + 1 \in 0 .. l + 2 /\ i < k /\ i + 1 < k /\ i \in 0 .. l /\ i # k - 1 /\ i \in 0 .. l + 1
      BY <1>1, <2>0, <2>1
    <3>2. At(r, h, i) = At(s, h, i) /\ At(r, h, i + 1) = At(s, h, i + 1)
      BY <1>4, <3>1
    <3>3. At(s, h, i) # new /\ At(s, h, i) # At(s, h, k - 1)
      BY <1>5, <1>6, <3>1
    <3> QED BY <1>1, <3>1, <3>2, <3>3
  <2>2. CASE i = k - 1
    <3>1. i \in 0 .. l + 2 /\ k \in 0 .. l + 2 /\ i < k /\ ~ (k < k) /\ i + 1 = k /\ i \in 0 .. l + 1
      BY <1>1, <2>0, <2>2
    <3>2. At(r, h, i) = At(s, h, k - 1) /\ At(r, h, i + 1) = new
      BY <1>4, <2>2, <3>1
    <3>3. At(s, h, k - 1) # new
      BY <1>5, <2>2, <3>1
    <3> QED BY <1>1, <3>2, <3>3
  <2>3. CASE i = k
    <3>1. i \in 0 .. l + 2 /\ k + 1 \in 0 .. l + 2 /\ ~ (k < k) /\ ~ (k + 1 < k) /\ k + 1 # k /\ (k + 1) - 1 = k
      BY <1>1, <2>0, <2>3
    <3>2. At(r, h, i) = new /\ At(r, h, i + 1) = At(s, h, k)
      BY <1>4, <2>3, <3>1
    <3> QED BY <3>2
  <2>4. CASE i > k
    <3>1. /\ i \in 0 .. l + 2 /\ i + 1 \in 0 .. l + 2 /\ ~ (i < k) /\ i # k /\ ~ (i + 1 < k) /\ i + 1 # k
          /\ (i + 1) - 1 = i /\ i - 1 \in 0 .. l /\ i - 1 \in 0 .. l + 1 /\ i - 1 # k - 1 /\ (i - 1) + 1 = i
      BY <1>1, <2>0, <2>4
    <3>2. At(r, h, i) = At(s, h, i - 1) /\ At(r, h, i + 1) = At(s, h, i)
      BY <1>4, <3>1
    <3>3. At(s, h, i - 1) # new /\ At(s, h, i - 1) # At(s, h, k - 1)
      BY <1>5, <1>6, <3>1
    <3>4. f[At(s, h, i - 1)] = At(s, h, i)
      BY <1>1, <3>1
    <3> QED BY <1>1, <3>2, <3>3, <3>4
  <2> QED BY <1>1, <2>0, <2>1, <2>2, <2>3, <2>4
<1>8. ASSUME NEW i \in 1 .. l + 1, NEW j \in 1 .. l + 1, r[i] = r[j], i < j PROVE FALSE
  <2>0. k \in 1 .. l + 1
    BY <1>3
  <2>1. CASE i # k /\ j # k
    <3> DEFINE a == IF i < k THEN i ELSE i - 1
               b == IF j < k THEN j ELSE j - 1
    <3>1. a \in 1 .. l /\ b \in 1 .. l /\ a # b
      BY <1>1, <1>8, <2>0, <2>1
    <3>2. r[i] = s[a] /\ r[j] = s[b]
      BY <1>2, <2>1
    <3> HIDE DEF a, b
    <3> QED BY <1>1, <1>8, <3>1, <3>2
  <2>2. CASE i = k
    <3>1. j - 1 \in 1 .. l /\ r[j] = s[j - 1] /\ r[i] = new
      BY <1>1, <1>2, <1>8, <2>2
    <3> QED BY <1>3, <1>8, <3>1
  <2>3. CASE j = k
    <3>1. i \in 1 .. l /\ r[i] = s[i] /\ r[j] = new
      BY <1>1, <1>2, <1>8, <2>3
    <3> QED BY <1>3, <1>8, <3>1
  <2> QED BY <2>1, <2>2, <2>3
<1>9. \A i, j \in 1 .. l + 1 : r[i] = r[j] => i = j
  <2>1. \A i, j \in 1 .. l + 1 : i # j => i < j \/ j < i
    BY <1>1
  <2> QED BY <1>8, <2>1
<1>10. Visits(r, g, N, h)
  BY <1>2, <1>7, <1>9 DEF Visits
<1> QED BY <1>10 DEF r

(***************************************************************************)
(* A node that is added elsewhere changes nothing.                         *)
(***************************************************************************)
LEMMA AddElsewhere ==
  ASSUME NEW N, NEW f, NEW g, NEW h \in N, NEW s, Visits(s, f, N, h),
         NEW new, new # h, \A i \in 1 .. Len(s) : s[i] # new,
         NEW a, a # h, \A i \in 1 .. Len(s) : s[i] # a,
         \A x \in N : x # new /\ x # a => g[x] = f[x]
  PROVE  Visits(s, g, N, h)
<1>1. /\ \A i : At(s, h, i) \in N
      /\ \A i \in 0 .. Len(s) : f[At(s, h, i)] = At(s, h, i + 1)
  BY VisitsFacts DEF Visits
<1>2. \A i : At(s, h, i) # new /\ At(s, h, i) # a
  BY DEF At
<1> QED BY <1>1, <1>2 DEF Visits

-----------------------------------------------------------------------------
(***************************************************************************)
(* Nothing but the circle of h has the colour of h: whoever follows the    *)
(* links from h meets every node of that colour.                           *)
(***************************************************************************)
Ring(L, N, colour, h) ==
  \A S \in SUBSET N : h \in S /\ (\A x \in S : L.next[x] \in S)
                      => {x \in N : colour[x] = colour[h]} \subseteq S

LEMMA WalkMeetsItsColour ==
  ASSUME NEW N, IsFiniteSet(N), NEW L \in Links(N), Circles(L, N), NEW h \in N,
         NEW colour, Coloured(L, N, colour), Ring(L, N, colour, h)
  PROVE  ToSet(Walk(L.next, h)) = {x \in N : colour[x] = colour[h]} \ {h}
<1> DEFINE w == Walk(L.next, h)
           M == {x \in N : colour[x] = colour[h]} \ {h}
<1>1. L.next \in [N -> N]
  BY DEF Links
<1>2. w \in Seq(M)
  <2>1. L.next[h] \in M \cup {h} /\ \A x \in M : L.next[x] \in M \cup {h}
    BY <1>1 DEF Coloured
  <2>2. M \in SUBSET N /\ h \notin M
    OBVIOUS
  <2> HIDE DEF M
  <2> QED BY <1>1, <2>1, <2>2, WalkStays
<1>3. ToSet(w) \subseteq M
  <2> HIDE DEF M, w
  <2> QED BY <1>2 DEF ToSet
<1>4. /\ ToSet(w) \subseteq N \ {h}
      /\ \A x \in ToSet(w) \cup {h} : L.next[x] \in ToSet(w) \cup {h}
  BY WalkCloses
<1> HIDE DEF w
<1>5. ToSet(w) \cup {h} \in SUBSET N
  BY <1>4
<1>6. {x \in N : colour[x] = colour[h]} \subseteq ToSet(w) \cup {h}
  BY <1>4, <1>5 DEF Ring
<1>7. ToSet(w) = M
  BY <1>3, <1>6
<1> QED BY <1>7 DEF w

LEMMA DelRing ==
  ASSUME NEW N, NEW L \in Links(N), Circles(L, N), NEW n \in N,
         NEW C, NEW colour \in [N -> C], NEW c \in C,
         NEW h \in N, h # n, c # colour[h], Ring(L, N, colour, h)
  PROVE  Ring(ListDel(L, n), N, [colour EXCEPT ![n] = c], h)
<1> DEFINE D == ListDel(L, n)
           recoloured == [colour EXCEPT ![n] = c]
<1>1. /\ D \in Links(N)
      /\ \A x \in N : D.next[x] = IF x = n THEN n
                                  ELSE IF L.next[x] = n THEN L.next[n] ELSE L.next[x]
  BY ListDelCircles
<1>2. /\ L.next \in [N -> N] /\ D.next \in [N -> N] /\ L.prev \in [N -> N]
      /\ \A x \in N : L.prev[L.next[x]] = x /\ L.next[L.prev[x]] = x
  BY <1>1 DEF Links, Circles
<1> HIDE DEF D
<1>3. ASSUME NEW S \in SUBSET N, h \in S, \A x \in S : D.next[x] \in S
      PROVE  {x \in N : recoloured[x] = recoloured[h]} \subseteq S
  <2> DEFINE T == IF L.prev[n] \in S THEN S \cup {n} ELSE S \ {n}
  <2>1. T \in SUBSET N /\ h \in T
    BY <1>3
  <2>2. ASSUME NEW x \in T PROVE L.next[x] \in T
    <3>1. x \in N /\ x # n => x \in S /\ D.next[x] \in S
      BY <1>3
    <3>2. CASE x = n
      <4>1. L.prev[n] \in S
        BY <3>2
      <4>2. L.prev[n] = n => L.next[n] = n
        BY <1>2
      <4>3. L.prev[n] # n => D.next[L.prev[n]] = L.next[n]
        BY <1>1, <1>2
      <4> QED BY <1>3, <3>2, <4>1, <4>2, <4>3
    <3>3. CASE x # n /\ L.next[x] = n
      <4>1. L.prev[n] = x /\ x \in S
        BY <1>2, <3>1, <3>3
      <4> QED BY <3>3, <4>1
    <3>4. CASE x # n /\ L.next[x] # n
      <4>1. L.next[x] \in S
        BY <1>1, <3>1, <3>4
      <4> QED BY <3>4, <4>1
    <3> QED BY <3>2, <3>3, <3>4
  <2> HIDE DEF T
  <2>3. {x \in N : colour[x] = colour[h]} \subseteq T
    BY <2>1, <2>2 DEF Ring
  <2>4. \A x \in N : recoloured[x] = recoloured[h] => x # n /\ colour[x] = colour[h]
    OBVIOUS
  <2> QED BY <2>3, <2>4 DEF T
<1>4. Ring(D, N, recoloured, h)
  <2> HIDE DEF recoloured
  <2> QED BY <1>3 DEF Ring
<1> QED BY <1>4 DEF D

LEMMA AddRing ==
  ASSUME NEW N, NEW L \in Links(N), Circles(L, N), NEW new \in N, Alone(L, new),
         NEW p \in N, p # new, NEW n \in N, L.next[p] = n,
         NEW C, NEW colour \in [N -> C],
         NEW h \in N, h # new, Ring(L, N, colour, h)
  PROVE  Ring(ListAdd(L, new, p, n), N, [colour EXCEPT ![new] = colour[p]], h)
<1> DEFINE A == ListAdd(L, new, p, n)
           recoloured == [colour EXCEPT ![new] = colour[p]]
<1>1. \A x \in N : A.next[x] = IF x = new THEN n ELSE IF x = p THEN new ELSE L.next[x]
  BY ListAddCircles
<1>2. /\ L.next \in [N -> N] /\ L.next[new] = new
      /\ \A x \in N : L.prev[L.next[x]] = x
  BY DEF Links, Circles, Alone
<1> HIDE DEF A
<1>3. ASSUME NEW S \in SUBSET N, h \in S, \A x \in S : A.next[x] \in S
      PROVE  {x \in N : recoloured[x] = recoloured[h]} \subseteq S
  <2> DEFINE T == S \ {new}
  <2>1. T \in SUBSET N /\ h \in T
    BY <1>3
  <2>2. ASSUME NEW x \in T PROVE L.next[x] \in T
    <3>1. x \in N /\ x # new /\ L.next[x] # new
      BY <1>2
    <3>2. CASE x = p
      <4>1. new \in S
        BY <1>1, <1>3, <3>1, <3>2
      <4>2. n \in S
        BY <1>1, <1>3, <4>1
      <4> QED BY <3>1, <3>2, <4>2
    <3>3. CASE x # p
      BY <1>1, <1>3, <3>1, <3>3
    <3> QED BY <3>2, <3>3
  <2> HIDE DEF T
  <2>3. {x \in N : colour[x] = colour[h]} \subseteq T
    BY <2>1, <2>2 DEF Ring
  <2>4. ASSUME NEW x \in N, recoloured[x] = recoloured[h] PROVE x \in S
    <3>1. CASE x # new
      BY <2>3, <2>4, <3>1 DEF T
    <3>2. CASE x = new
      <4>1. colour[p] = colour[h]
        BY <2>4, <3>2
      <4>2. p \in S
        BY <2>3, <4>1 DEF T
      <4> QED BY <1>1, <1>3, <3>2, <4>2
    <3> QED BY <3>1, <3>2
  <2> QED BY <2>4
<1>4. Ring(A, N, recoloured, h)
  <2> HIDE DEF recoloured
  <2> QED BY <1>3 DEF Ring
<1> QED BY <1>4 DEF A

-----------------------------------------------------------------------------
(***************************************************************************)
(* The lists of PCBs.  A list head has its own colour, the PCBs of its     *)
(* list have it too, and a PCB in no list has any other.                   *)
(***************************************************************************)
Heads == Queue \cup {pcbFree_h}

Lists(L, colour) ==
  /\ L \in Links(Node) /\ Circles(L, Node)
  /\ colour \in [Node -> Node] /\ Coloured(L, Node, colour)
  /\ \A h \in Heads : colour[h] = h /\ Ring(L, Node, colour, h)

LEMMA Sorts == /\ Heads \subseteq Node /\ Pcb \subseteq Node /\ Node = Pcb \cup Heads
               /\ \A p \in Pcb : p \notin Heads
               /\ pcbFree_h \in Heads /\ Queue \subseteq Heads
               /\ \A h \in Queue : h # pcbFree_h
  BY NodeAssumption DEF Heads, Node

LEMMA Removed ==
  ASSUME NEW L, NEW colour, Lists(L, colour), NEW p \in Pcb
  PROVE  Lists(ListDel(L, p), [colour EXCEPT ![p] = p]) /\ Alone(ListDel(L, p), p)
<1> DEFINE D == ListDel(L, p)
           recoloured == [colour EXCEPT ![p] = p]
<1>1. /\ L \in Links(Node) /\ Circles(L, Node) /\ p \in Node
      /\ colour \in [Node -> Node] /\ Coloured(L, Node, colour)
  BY Sorts DEF Lists
<1>2. D \in Links(Node) /\ Circles(D, Node) /\ Alone(D, p)
  BY <1>1, ListDelCircles
<1>3. recoloured \in [Node -> Node] /\ Coloured(D, Node, recoloured)
  BY <1>1, DelColoured
<1>4. ASSUME NEW h \in Heads PROVE recoloured[h] = h /\ Ring(D, Node, recoloured, h)
  <2>1. h \in Node /\ h # p /\ colour[h] = h /\ Ring(L, Node, colour, h)
    BY <1>4, Sorts DEF Lists
  <2>2. Ring(D, Node, recoloured, h)
    <3> HIDE DEF recoloured, D
    <3> QED BY <1>1, <2>1, DelRing DEF recoloured, D
  <2> QED BY <1>1, <2>1, <2>2
<1> HIDE DEF D, recoloured
<1>5. Lists(D, recoloured)
  BY <1>2, <1>3, <1>4 DEF Lists
<1> QED BY <1>2, <1>5 DEF D, recoloured

LEMMA Added ==
  ASSUME NEW L, NEW colour, Lists(L, colour), NEW p \in Pcb, Alone(L, p),
         NEW a \in Node, a # p, NEW n \in Node, L.next[a] = n
  PROVE  Lists(ListAdd(L, p, a, n), [colour EXCEPT ![p] = colour[a]])
<1> DEFINE A == ListAdd(L, p, a, n)
           recoloured == [colour EXCEPT ![p] = colour[a]]
<1>1. /\ L \in Links(Node) /\ Circles(L, Node) /\ p \in Node
      /\ colour \in [Node -> Node] /\ Coloured(L, Node, colour)
  BY Sorts DEF Lists
<1>2. A \in Links(Node) /\ Circles(A, Node)
  BY <1>1, ListAddCircles
<1>3. recoloured \in [Node -> Node] /\ Coloured(A, Node, recoloured)
  BY <1>1, AddColoured
<1>4. ASSUME NEW h \in Heads PROVE recoloured[h] = h /\ Ring(A, Node, recoloured, h)
  <2>1. h \in Node /\ h # p /\ colour[h] = h /\ Ring(L, Node, colour, h)
    BY <1>4, Sorts DEF Lists
  <2>2. Ring(A, Node, recoloured, h)
    <3> HIDE DEF recoloured, A
    <3> QED BY <1>1, <2>1, AddRing DEF recoloured, A
  <2> QED BY <1>1, <2>1, <2>2
<1> HIDE DEF A, recoloured
<1>5. Lists(A, recoloured)
  BY <1>2, <1>3, <1>4 DEF Lists
<1> QED BY <1>5 DEF A, recoloured

(***************************************************************************)
(* A list that is not empty begins with a PCB of its colour.               *)
(***************************************************************************)
LEMMA FirstIsPcb ==
  ASSUME NEW L, NEW colour, Lists(L, colour), NEW h \in Heads, ~ ListEmpty(L, h)
  PROVE  L.next[h] \in Pcb /\ colour[L.next[h]] = h
<1>1. h \in Node /\ L.next[h] \in Node /\ L.next[h] # h /\ colour[L.next[h]] = h
  BY Sorts DEF Lists, Links, Coloured, ListEmpty
<1>2. L.next[h] \notin Heads
  BY <1>1 DEF Lists
<1> QED BY <1>1, <1>2, Sorts

(***************************************************************************)
(* Wherever insertProcQ puts p, that is between a node of the queue and    *)
(* the next one.                                                           *)
(***************************************************************************)
LEMMA PlaceIsAdd ==
  ASSUME NEW L, NEW colour, Lists(L, colour), NEW h \in Queue,
         NEW p \in Pcb, Alone(L, p), colour[p] = p
  PROVE  \E a \in Node : /\ a # p /\ colour[a] = h /\ L.next[a] \in Node
                         /\ Place(L, h, p) = ListAdd(L, p, a, L.next[a])
<1> DEFINE seen == Walk(L.next, h)
           I == {i \in 1 .. Len(seen) : p_prio[seen[i]] < p_prio[p]}
           J == {i \in 1 .. Len(seen) : p_prio[seen[i]] = p_prio[p]}
           lower == IF I # {} THEN Min(I) ELSE 0
           equal == IF J # {} THEN Max(J) ELSE 0
           M == {x \in Node : colour[x] = h} \ {h}
<1>1. /\ h \in Node /\ colour[h] = h /\ h # p /\ p \in Node
      /\ L.next \in [Node -> Node] /\ L.prev \in [Node -> Node]
      /\ \A x \in Node : L.prev[L.next[x]] = x /\ L.next[L.prev[x]] = x
      /\ \A x \in Node : colour[L.next[x]] = colour[x]
  BY Sorts DEF Lists, Links, Circles, Coloured
<1>2. \A x \in Node : colour[L.prev[x]] = colour[x]
  BY <1>1
<1>3. Place(L, h, p) = IF lower # 0 THEN ListAdd(L, p, L.prev[seen[lower]], seen[lower])
                       ELSE IF equal # 0 THEN ListAdd(L, p, seen[equal], L.next[seen[equal]])
                       ELSE ListAdd(L, p, L.prev[h], h)
  BY DEF Place, SelectInSeq, SelectLastInSeq, ListAddTail
<1>4. seen \in Seq(M)
  <2>1. M \in SUBSET Node /\ h \notin M
    OBVIOUS
  <2>2. L.next[h] \in M \cup {h} /\ \A x \in M : L.next[x] \in M \cup {h}
    BY <1>1
  <2> HIDE DEF M
  <2> QED BY <1>1, <2>1, <2>2, NodeAssumption, WalkStays
<1> HIDE DEF seen
<1>5. Len(seen) \in Nat /\ \A i \in 1 .. Len(seen) : seen[i] \in M
  <2> HIDE DEF M
  <2> QED BY <1>4
<1>6. lower # 0 => lower \in 1 .. Len(seen)
  <2>1. I \in SUBSET Nat /\ I \subseteq 1 .. Len(seen)
    BY <1>5
  <2>2. Min(I) = Queues!Min(I)
    BY Zenon DEF Min, Queues!Min
  <2> HIDE DEF I
  <2>3. I # {} => Queues!Min(I) \in I
    BY <2>1, Queues!MinIsLeast
  <2> QED BY <2>1, <2>2, <2>3 DEF lower
<1>7. equal # 0 => equal \in 1 .. Len(seen)
  <2>1. J \in SUBSET (1 .. Len(seen))
    OBVIOUS
  <2>2. Max(J) = Queues!Max(J)
    BY Zenon DEF Max, Queues!Max
  <2> HIDE DEF J
  <2>3. J # {} => Queues!Max(J) \in J
    BY <1>5, <2>1, Queues!MaxIsGreatest
  <2> QED BY <2>1, <2>2, <2>3 DEF equal
<1> HIDE DEF lower, equal
<1>8. CASE lower # 0
  <2> DEFINE c == seen[lower]
  <2>1. c \in Node /\ colour[c] = h
    BY <1>5, <1>6, <1>8
  <2> HIDE DEF c
  <2>2. /\ L.prev[c] \in Node /\ colour[L.prev[c]] = h /\ L.prev[c] # p
        /\ L.next[L.prev[c]] = c
    BY <1>1, <1>2, <2>1
  <2>3. Place(L, h, p) = ListAdd(L, p, L.prev[c], c)
    BY <1>3, <1>8 DEF c
  <2> QED BY <2>1, <2>2, <2>3
<1>9. CASE lower = 0 /\ equal # 0
  <2> DEFINE c == seen[equal]
  <2>1. c \in Node /\ colour[c] = h
    BY <1>5, <1>7, <1>9
  <2> HIDE DEF c
  <2>2. c # p /\ L.next[c] \in Node
    BY <1>1, <2>1
  <2>3. Place(L, h, p) = ListAdd(L, p, c, L.next[c])
    BY <1>3, <1>9 DEF c
  <2> QED BY <2>1, <2>2, <2>3
<1>10. CASE lower = 0 /\ equal = 0
  <2>1. /\ L.prev[h] \in Node /\ colour[L.prev[h]] = h /\ L.prev[h] # p
        /\ L.next[L.prev[h]] = h
    BY <1>1, <1>2
  <2>2. Place(L, h, p) = ListAdd(L, p, L.prev[h], h)
    BY <1>3, <1>10
  <2> QED BY <1>1, <2>1, <2>2
<1> QED BY <1>8, <1>9, <1>10

-----------------------------------------------------------------------------
(***************************************************************************)
(* The lists of children.  p_child of p and the p_sib of its children have *)
(* the owner p; the p_sib of a PCB without a parent has none, and is in no *)
(* list.                                                                   *)
(***************************************************************************)
Owner(parent) == [x \in KinNode |-> IF x[1] = "p_child" THEN x[2] ELSE parent[x[2]]]

Families(K, parent) ==
  /\ K \in Links(KinNode) /\ Circles(K, KinNode)
  /\ parent \in [Pcb -> Pcb \cup {NULL}]
  /\ Coloured(K, KinNode, Owner(parent))
  /\ \A p \in Pcb : /\ Ring(K, KinNode, Owner(parent), Child(p))
                    /\ parent[p] = NULL => Alone(K, Sib(p))

LEMMA Kinds ==
  /\ \A p \in Pcb : Child(p) \in KinNode /\ Sib(p) \in KinNode
  /\ \A p, q \in Pcb : /\ Child(p) # Sib(q)
                       /\ Child(p) = Child(q) => p = q
                       /\ Sib(p) = Sib(q) => p = q
  /\ \A x \in KinNode : \E p \in Pcb : x = Child(p) \/ x = Sib(p)
  /\ \A p \in Pcb : Sib(p)[2] = p
  BY DEF Child, Sib, KinNode

LEMMA KinFinite == IsFiniteSet(KinNode)
<1>1. IsFiniteSet(Pcb)
  BY NodeAssumption, Sorts, FS_Subset
<1>2. IsFiniteSet({"p_child"})
  BY FS_Singleton
<1>3. IsFiniteSet({"p_child"} \cup {"p_sib"})
  BY <1>2, FS_AddElement
<1>4. {"p_child", "p_sib"} = {"p_child"} \cup {"p_sib"}
  OBVIOUS
<1> QED BY <1>1, <1>3, <1>4, FS_Product DEF KinNode

LEMMA OwnerOf ==
  ASSUME NEW parent \in [Pcb -> Pcb \cup {NULL}]
  PROVE  /\ Owner(parent) \in [KinNode -> Pcb \cup {NULL}]
         /\ \A p \in Pcb : /\ Owner(parent)[Child(p)] = p
                           /\ Owner(parent)[Sib(p)] = parent[p]
<1>1. \A p \in Pcb : /\ Owner(parent)[Child(p)] = p
                    /\ Owner(parent)[Sib(p)] = parent[p]
  BY Kinds DEF Owner, Child, Sib
<1>2. Owner(parent) \in [KinNode -> Pcb \cup {NULL}]
  <2>1. \A x \in KinNode : Owner(parent)[x] \in Pcb \cup {NULL}
    BY <1>1, Kinds
  <2> QED BY <2>1 DEF Owner
<1> QED BY <1>1, <1>2

LEMMA OwnerMoves ==
  ASSUME NEW parent \in [Pcb -> Pcb \cup {NULL}], NEW p \in Pcb, NEW c \in Pcb \cup {NULL}
  PROVE  [Owner(parent) EXCEPT ![Sib(p)] = c] = Owner([parent EXCEPT ![p] = c])
<1> DEFINE moved == [parent EXCEPT ![p] = c]
           f == [Owner(parent) EXCEPT ![Sib(p)] = c]
           g == Owner(moved)
<1>1. /\ Owner(parent) \in [KinNode -> Pcb \cup {NULL}]
      /\ \A q \in Pcb : Owner(parent)[Child(q)] = q /\ Owner(parent)[Sib(q)] = parent[q]
  BY OwnerOf
<1>2. moved \in [Pcb -> Pcb \cup {NULL}] /\ \A q \in Pcb : moved[q] = IF q = p THEN c ELSE parent[q]
  OBVIOUS
<1> HIDE DEF moved
<1>3. /\ g \in [KinNode -> Pcb \cup {NULL}]
      /\ \A q \in Pcb : g[Child(q)] = q /\ g[Sib(q)] = moved[q]
  BY <1>2, OwnerOf
<1>4. f \in [KinNode -> Pcb \cup {NULL}]
  BY <1>1
<1>5. \A q \in Pcb : f[Child(q)] = q /\ f[Sib(q)] = IF q = p THEN c ELSE parent[q]
  BY <1>1, Kinds
<1> HIDE DEF f, g
<1>6. \A x \in KinNode : f[x] = g[x]
  BY <1>2, <1>3, <1>5, Kinds
<1>7. f = g
  BY <1>3, <1>4, <1>6
<1> QED BY <1>7 DEF f, g, moved

(***************************************************************************)
(* list_del of the p_sib of p takes p out of the list of its parent, and   *)
(* leaves every node alone that was.                                       *)
(***************************************************************************)
LEMMA Orphaned ==
  ASSUME NEW K, NEW parent, Families(K, parent), NEW p \in Pcb
  PROVE  LET D == ListDel(K, Sib(p))
         IN  /\ Families(D, [parent EXCEPT ![p] = NULL])
             /\ Alone(D, Sib(p))
             /\ \A x \in KinNode : Alone(K, x) => Alone(D, x)
<1> DEFINE s == Sib(p)
           D == ListDel(K, s)
           left == [parent EXCEPT ![p] = NULL]
<1>1. /\ K \in Links(KinNode) /\ Circles(K, KinNode) /\ s \in KinNode
      /\ parent \in [Pcb -> Pcb \cup {NULL}] /\ Coloured(K, KinNode, Owner(parent))
  BY Kinds DEF Families
<1>2. /\ Owner(parent) \in [KinNode -> Pcb \cup {NULL}]
      /\ \A q \in Pcb : Owner(parent)[Child(q)] = q
      /\ Owner(left) = [Owner(parent) EXCEPT ![s] = NULL]
      /\ NULL \in Pcb \cup {NULL}
  <2>1. /\ Owner(parent) \in [KinNode -> Pcb \cup {NULL}]
        /\ \A q \in Pcb : Owner(parent)[Child(q)] = q
    BY <1>1, OwnerOf
  <2>2. Owner(left) = [Owner(parent) EXCEPT ![s] = NULL]
    BY <1>1, OwnerMoves
  <2> HIDE DEF left
  <2> QED BY <2>1, <2>2, Zenon
<1> HIDE DEF s
<1>3. /\ D \in Links(KinNode) /\ Circles(D, KinNode) /\ Alone(D, s)
      /\ \A x \in KinNode : D.next[x] = IF x = s THEN s
                                         ELSE IF K.next[x] = s THEN K.next[s]
                                         ELSE K.next[x]
  BY <1>1, ListDelCircles
<1> HIDE DEF D
<1>4. \A x \in KinNode : Alone(K, x) => Alone(D, x)
  BY <1>1, <1>3 DEF Alone, Circles
<1>5. Coloured(D, KinNode, Owner(left))
  <2> DEFINE C == Pcb \cup {NULL}
  <2>1. Owner(parent) \in [KinNode -> C] /\ NULL \in C
    BY <1>2
  <2> HIDE DEF C
  <2>2. Coloured(ListDel(K, s), KinNode, [Owner(parent) EXCEPT ![s] = NULL])
    BY <1>1, <2>1, DelColoured
  <2> QED BY <1>2, <2>2 DEF D
<1>6. ASSUME NEW q \in Pcb PROVE Ring(D, KinNode, Owner(left), Child(q))
  <2>1. /\ Child(q) \in KinNode /\ Child(q) # s /\ Owner(parent)[Child(q)] = q /\ q # NULL
        /\ Ring(K, KinNode, Owner(parent), Child(q))
    BY <1>2, Kinds, NodeAssumption DEF Node, Families, s
  <2>2. Ring(ListDel(K, s), KinNode, [Owner(parent) EXCEPT ![s] = NULL], Child(q))
    <3> DEFINE C == Pcb \cup {NULL}
    <3>1. Owner(parent) \in [KinNode -> C] /\ NULL \in C
      BY <1>2
    <3> HIDE DEF C
    <3> QED BY <1>1, <2>1, <3>1, DelRing
  <2> QED BY <1>2, <2>2 DEF D
<1>7. ASSUME NEW q \in Pcb, left[q] = NULL PROVE Alone(D, Sib(q))
  <2>1. CASE q = p
    BY <1>3, <2>1 DEF s
  <2>2. CASE q # p
    <3>1. Alone(K, Sib(q))
      BY <1>1, <1>7, <2>2 DEF Families
    <3> QED BY <1>4, <3>1, Kinds
  <2> QED BY <2>1, <2>2
<1>8. left \in [Pcb -> Pcb \cup {NULL}]
  BY <1>1
<1> HIDE DEF left
<1>9. Families(D, left)
  BY <1>3, <1>5, <1>6, <1>7, <1>8 DEF Families
<1> QED BY <1>3, <1>4, <1>9 DEF D, s, left

(***************************************************************************)
(* list_add_tail of the p_sib of a PCB that is in no list of children.     *)
(***************************************************************************)
LEMMA Adopted ==
  ASSUME NEW K, NEW parent, Families(K, parent), NEW p \in Pcb,
         Alone(K, Sib(p)), NEW q \in Pcb
  PROVE  LET A == ListAddTail(K, Sib(p), Child(q))
         IN  /\ Families(A, [parent EXCEPT ![p] = q])
             /\ \A x \in KinNode : Alone(K, x) /\ x # Sib(p) /\ x # Child(q) => Alone(A, x)
<1> DEFINE s == Sib(p)
           h == Child(q)
           a == K.prev[h]
           A == ListAdd(K, s, a, h)
           joined == [parent EXCEPT ![p] = q]
<1>1. /\ K \in Links(KinNode) /\ Circles(K, KinNode)
      /\ s \in KinNode /\ h \in KinNode /\ h # s /\ Alone(K, s)
      /\ parent \in [Pcb -> Pcb \cup {NULL}] /\ Coloured(K, KinNode, Owner(parent))
  BY Kinds DEF Families
<1>2. /\ Owner(parent) \in [KinNode -> Pcb \cup {NULL}]
      /\ Owner(parent)[h] = q
      /\ Owner(joined) = [Owner(parent) EXCEPT ![s] = q]
  <2>1. Owner(joined) = [Owner(parent) EXCEPT ![s] = q]
    <3>1. q \in Pcb \cup {NULL}
      OBVIOUS
    <3> QED BY <1>1, <3>1, OwnerMoves DEF s
  <2>2. Owner(parent) \in [KinNode -> Pcb \cup {NULL}] /\ Owner(parent)[h] = q
    BY <1>1, OwnerOf
  <2> QED BY <2>1, <2>2
<1> HIDE DEF s, h
<1>3. /\ a \in KinNode /\ K.next[a] = h /\ a # s /\ Owner(parent)[a] = q
  BY <1>1, <1>2 DEF Links, Circles, Coloured, Alone
<1> HIDE DEF a
<1>4. /\ A \in Links(KinNode) /\ Circles(A, KinNode)
      /\ \A x \in KinNode : A.next[x] = IF x = s THEN h ELSE IF x = a THEN s ELSE K.next[x]
  BY <1>1, <1>3, ListAddCircles
<1>5. \A x \in KinNode : Alone(K, x) /\ x # s /\ x # h => Alone(A, x)
  <2> HIDE DEF A
  <2> QED BY <1>1, <1>3, <1>4 DEF Alone, Circles
<1>6. Coloured(A, KinNode, Owner(joined))
  <2> DEFINE C == Pcb \cup {NULL}
  <2>1. Owner(parent) \in [KinNode -> C]
    BY <1>2
  <2> HIDE DEF C
  <2>2. Coloured(ListAdd(K, s, a, h), KinNode, [Owner(parent) EXCEPT ![s] = Owner(parent)[a]])
    BY <1>1, <1>3, <2>1, AddColoured
  <2> QED BY <1>2, <1>3, <2>2
<1>7. ASSUME NEW r \in Pcb PROVE Ring(A, KinNode, Owner(joined), Child(r))
  <2>1. /\ Child(r) \in KinNode /\ Child(r) # s
        /\ Ring(K, KinNode, Owner(parent), Child(r))
    BY Kinds DEF Families, s
  <2>2. Ring(A, KinNode, [Owner(parent) EXCEPT ![s] = Owner(parent)[a]], Child(r))
    BY <1>1, <1>2, <1>3, <2>1, AddRing
  <2> QED BY <1>2, <1>3, <2>2
<1>8. ASSUME NEW r \in Pcb, joined[r] = NULL PROVE Alone(A, Sib(r))
  <2>1. r # p /\ parent[r] = NULL
    BY <1>1, <1>8, NodeAssumption DEF Node
  <2>2. Alone(K, Sib(r)) /\ Sib(r) # s /\ Sib(r) # h /\ Sib(r) \in KinNode
    BY <2>1, Kinds DEF Families, s, h
  <2> QED BY <1>5, <2>2
<1>9. joined \in [Pcb -> Pcb \cup {NULL}]
  BY <1>1
<1> HIDE DEF A, joined
<1>10. Families(A, joined)
  BY <1>4, <1>6, <1>7, <1>8, <1>9 DEF Families
<1> QED BY <1>5, <1>10 DEF A, s, h, a, joined, ListAddTail

-----------------------------------------------------------------------------
(***************************************************************************)
(* The inductive invariant: the lists of PCBs have a colouring in which    *)
(* the free PCBs are those of the colour of the free list, the lists of    *)
(* children have their owners, and a free PCB has no family.               *)
(***************************************************************************)
FreeOnes(colour) == \A p \in Pcb : p \in free <=> colour[p] = pcbFree_h

QueuesInv == \E colour : Lists(link, colour) /\ FreeOnes(colour)

FamilyInv ==
  /\ Families(kin, p_parent)
  /\ \A p \in free : p_parent[p] = NULL /\ Alone(kin, Child(p))

LinkInv ==
  /\ QueuesInv
  /\ FamilyInv
  /\ free \in SUBSET Pcb
  /\ ret \in Pcb \cup {NULL}

LEMMA TableCircle ==
  ASSUME NEW n \in Nat \ {0}, NEW table \in [1 .. n -> Pcb],
         \A x \in Pcb : \E i \in 1 .. n : table[i] = x,
         \A i, j \in 1 .. n : table[i] = table[j] => i = j,
         NEW L \in Links(Node),
         \A q \in Queue : L.next[q] = q /\ L.prev[q] = q,
         L.next[pcbFree_h] = table[1], L.prev[pcbFree_h] = table[n],
         \A i \in 1 .. n :
            /\ L.next[table[i]] = IF i = n THEN pcbFree_h ELSE table[i + 1]
            /\ L.prev[table[i]] = IF i = 1 THEN pcbFree_h ELSE table[i - 1]
  PROVE  Lists(L, [x \in Node |-> IF x \in Queue THEN x ELSE pcbFree_h])
<1> DEFINE colour == [x \in Node |-> IF x \in Queue THEN x ELSE pcbFree_h]
<1>1. /\ Pcb \subseteq Node /\ pcbFree_h \in Node /\ Queue \subseteq Node
      /\ \A x \in Node : x \in Queue \/ x = pcbFree_h \/ \E i \in 1 .. n : table[i] = x
      /\ pcbFree_h \notin Queue /\ \A i \in 1 .. n : table[i] \notin Queue /\ table[i] \in Node
  BY Sorts, NodeAssumption DEF Heads
<1>2. Circles(L, Node)
  <2>1. ASSUME NEW i \in 1 .. n
        PROVE  L.prev[L.next[table[i]]] = table[i] /\ L.next[L.prev[table[i]]] = table[i]
    <3>1. i # n => i + 1 \in 1 .. n /\ (i + 1) - 1 = i /\ i + 1 # 1
      OBVIOUS
    <3>2. i # 1 => i - 1 \in 1 .. n /\ (i - 1) + 1 = i /\ i - 1 # n
      OBVIOUS
    <3>3. L.prev[L.next[table[i]]] = table[i]
      BY <3>1
    <3>4. L.next[L.prev[table[i]]] = table[i]
      BY <3>2
    <3> QED BY <3>3, <3>4
  <2>2. L.prev[L.next[pcbFree_h]] = pcbFree_h /\ L.next[L.prev[pcbFree_h]] = pcbFree_h
    <3>1. 1 \in 1 .. n /\ n \in 1 .. n
      OBVIOUS
    <3> QED BY <3>1
  <2> QED BY <1>1, <2>1, <2>2 DEF Circles
<1>3. colour \in [Node -> Node]
  BY <1>1
<1>4. Coloured(L, Node, colour)
  <2>1. \A i \in 1 .. n : colour[table[i]] = pcbFree_h
    BY <1>1
  <2>2. colour[pcbFree_h] = pcbFree_h /\ 1 \in 1 .. n
    BY <1>1
  <2>3. \A q \in Queue : colour[L.next[q]] = colour[q]
    OBVIOUS
  <2> HIDE DEF colour
  <2>4. \A i \in 1 .. n : colour[L.next[table[i]]] = pcbFree_h
    <3> TAKE i \in 1 .. n
    <3>1. i # n => i + 1 \in 1 .. n
      OBVIOUS
    <3> QED BY <2>1, <2>2, <3>1
  <2> QED BY <1>1, <2>1, <2>2, <2>3, <2>4 DEF Coloured
<1>5. ASSUME NEW h \in Queue PROVE colour[h] = h /\ Ring(L, Node, colour, h)
  BY <1>1, <1>5 DEF Ring
<1>6. ASSUME NEW S \in SUBSET Node, pcbFree_h \in S, \A x \in S : L.next[x] \in S
      PROVE  {x \in Node : colour[x] = colour[pcbFree_h]} \subseteq S
  <2> DEFINE T == {k \in 0 .. n : k = 0 \/ table[k] \in S}
  <2>1. 0 \in T
    OBVIOUS
  <2>2. ASSUME NEW k \in 1 .. n, k - 1 \in T PROVE k \in T
    <3>1. CASE k = 1
      BY <1>6, <3>1
    <3>2. CASE k # 1
      <4>1. k - 1 \in 1 .. n /\ k - 1 # n /\ (k - 1) + 1 = k
        BY <3>2
      <4>2. table[k - 1] \in S
        BY <2>2, <4>1
      <4>3. L.next[table[k - 1]] = table[k]
        BY <4>1
      <4> QED BY <1>6, <4>2, <4>3
    <3> QED BY <3>1, <3>2
  <2>3. \A k \in 0 .. n : k \in T
    <3> HIDE DEF T
    <3> QED BY <2>1, <2>2, Queues!UpTo
  <2>4. \A k \in 1 .. n : table[k] \in S
    BY <2>3
  <2>5. \A x \in Node : colour[x] = colour[pcbFree_h] => x \notin Queue
    BY <1>1
  <2> QED BY <1>1, <1>6, <2>4, <2>5
<1>7. colour[pcbFree_h] = pcbFree_h /\ Ring(L, Node, colour, pcbFree_h)
  <2>1. colour[pcbFree_h] = pcbFree_h
    BY <1>1
  <2> HIDE DEF colour
  <2> QED BY <1>6, <2>1 DEF Ring
<1> HIDE DEF colour
<1>8. Lists(L, colour)
  BY <1>2, <1>3, <1>4, <1>5, <1>7 DEF Lists, Heads
<1> QED BY <1>8 DEF colour

(***************************************************************************)
(* Init links the table of PCBs to the free list, in its order.            *)
(***************************************************************************)
TableLinked(table) ==
  LET n == Cardinality(Pcb)
  IN  /\ n \in Nat \ {0} /\ table \in Seq(Pcb) /\ Len(table) = n /\ ToSet(table) = Pcb
      /\ \A x \in Pcb : \E i \in 1 .. n : table[i] = x
      /\ \A i, j \in 1 .. n : table[i] = table[j] => i = j
      /\ link \in Links(Node)
      /\ \A q \in Queue : link.next[q] = q /\ link.prev[q] = q
      /\ link.next[pcbFree_h] = table[1] /\ link.prev[pcbFree_h] = table[n]
      /\ \A i \in 1 .. n :
           /\ link.next[table[i]] = IF i = n THEN pcbFree_h ELSE table[i + 1]
           /\ link.prev[table[i]] = IF i = 1 THEN pcbFree_h ELSE table[i - 1]

LEMMA InitLinks ==
  ASSUME Init PROVE \E table \in [1 .. Cardinality(Pcb) -> Pcb] : TableLinked(table)
<1> DEFINE n == Cardinality(Pcb)
<1>1. n \in Nat \ {0} /\ IsFiniteSet(Pcb)
  <2>1. IsFiniteSet(Pcb)
    BY NodeAssumption, Sorts, FS_Subset
  <2> QED BY <2>1, NodeAssumption, FS_CardinalityType, FS_EmptySet
<1> DEFINE place(table, x) == CHOOSE i \in 1 .. Len(table) : table[i] = x
           nx(table, m) == [x \in Node |->
                     IF x \in Queue THEN x
                     ELSE IF x = pcbFree_h THEN table[1]
                     ELSE IF place(table, x) = m THEN pcbFree_h
                     ELSE table[place(table, x) + 1]]
           pv(table, m) == [x \in Node |->
                     IF x \in Queue THEN x
                     ELSE IF x = pcbFree_h THEN table[m]
                     ELSE IF place(table, x) = 1 THEN pcbFree_h
                     ELSE table[place(table, x) - 1]]
<1>2. PICK table \in [1 .. n -> Pcb] :
        ToSet(table) = Pcb /\ link = [next |-> nx(table, Len(table)), prev |-> pv(table, Len(table))]
  BY DEF Init
<1> HIDE DEF n
<1>3. table \in Seq(Pcb) /\ Len(table) = n
  BY <1>1
<1>4. Len(table) = n /\ \A x \in Pcb : \E i \in 1 .. n : table[i] = x
  BY <1>1, <1>2, <1>3 DEF ToSet
<1>5. \A i, j \in 1 .. n : table[i] = table[j] => i = j
  <2>1. table \in Surjection(1 .. n, Pcb)
    BY <1>4 DEF Surjection
  <2>2. IsFiniteSet(1 .. n) /\ Cardinality(1 .. n) = n
    BY <1>1, FS_Interval
  <2>3. table \in Injection(1 .. n, Pcb)
    BY <2>1, <2>2, FS_Surjection DEF n
  <2> QED BY <1>1, <2>3 DEF Injection, IsInjective
<1>6. \A i \in 1 .. n : place(table, table[i]) = i
  BY <1>4, <1>5
<1> HIDE DEF place
<1>7. /\ Pcb \subseteq Node /\ pcbFree_h \in Node /\ Queue \subseteq Node
      /\ pcbFree_h \notin Queue /\ pcbFree_h \notin Pcb
      /\ \A i \in 1 .. n : table[i] \in Node /\ table[i] \notin Queue /\ table[i] # pcbFree_h
  BY Sorts, NodeAssumption DEF Heads
<1> DEFINE next == nx(table, n)
           prev == pv(table, n)
<1>8. /\ \A q \in Queue : next[q] = q /\ prev[q] = q
      /\ next[pcbFree_h] = table[1] /\ prev[pcbFree_h] = table[n]
  BY <1>7
<1>9. \A i \in 1 .. n : /\ next[table[i]] = IF i = n THEN pcbFree_h ELSE table[i + 1]
                        /\ prev[table[i]] = IF i = 1 THEN pcbFree_h ELSE table[i - 1]
  BY <1>6, <1>7
<1>10. next \in [Node -> Node] /\ prev \in [Node -> Node]
  <2>1. next = [x \in Node |-> next[x]] /\ prev = [x \in Node |-> prev[x]]
    OBVIOUS
  <2> HIDE DEF next, prev
  <2>2. \A i \in 1 .. n : next[table[i]] \in Node /\ prev[table[i]] \in Node
    <3> TAKE i \in 1 .. n
    <3>1. (i # n => i + 1 \in 1 .. n) /\ (i # 1 => i - 1 \in 1 .. n)
      BY <1>1
    <3> QED BY <1>7, <1>9, <3>1
  <2>3. 1 \in 1 .. n /\ n \in 1 .. n
    BY <1>1
  <2>4. \A x \in Node : next[x] \in Node /\ prev[x] \in Node
    <3> TAKE x \in Node
    <3>1. x \in Queue \/ x = pcbFree_h \/ \E i \in 1 .. n : table[i] = x
      BY <1>4 DEF Node
    <3> QED BY <1>7, <1>8, <2>2, <2>3, <3>1
  <2> QED BY <2>1, <2>4
<1>11. link = [next |-> next, prev |-> prev]
  BY <1>2, <1>4
<1> HIDE DEF next, prev
<1>12. link \in Links(Node) /\ link.next = next /\ link.prev = prev
  BY <1>10, <1>11 DEF Links
<1>13. TableLinked(table)
  BY <1>1, <1>2, <1>3, <1>4, <1>5, <1>8, <1>9, <1>12 DEF TableLinked, n
<1> QED BY <1>13 DEF n

LEMMA LinkInit == Init => LinkInv
<1> SUFFICES ASSUME Init PROVE LinkInv
  OBVIOUS
<1> DEFINE n == Cardinality(Pcb)
<1>1. PICK table \in [1 .. n -> Pcb] : TableLinked(table)
  BY InitLinks
<1>2. n \in Nat \ {0}
  BY <1>1 DEF TableLinked
<1>3. /\ kin = [next |-> [x \in KinNode |-> x], prev |-> [x \in KinNode |-> x]]
      /\ p_parent = [p \in Pcb |-> NULL] /\ free = Pcb /\ ret = NULL
  BY DEF Init
<1> DEFINE colour == [x \in Node |-> IF x \in Queue THEN x ELSE pcbFree_h]
<1>12. Lists(link, colour)
  BY <1>1, <1>2, TableCircle DEF TableLinked
<1>13. FreeOnes(colour)
  BY <1>3, Sorts DEF FreeOnes
<1>14. QueuesInv
  <2> HIDE DEF colour
  <2> QED BY <1>12, <1>13 DEF QueuesInv
<1>15. \A x \in KinNode : Alone(kin, x)
  BY <1>3 DEF Alone
<1>16. Families(kin, p_parent)
  <2>1. kin \in Links(KinNode) /\ Circles(kin, KinNode) /\ p_parent \in [Pcb -> Pcb \cup {NULL}]
    BY <1>3 DEF Links, Circles
  <2>2. Coloured(kin, KinNode, Owner(p_parent))
    BY <1>15 DEF Coloured, Alone
  <2>3. ASSUME NEW p \in Pcb PROVE Ring(kin, KinNode, Owner(p_parent), Child(p))
    <3> DEFINE own == Owner(p_parent)
    <3>1. \A q \in Pcb : own[Child(q)] = q /\ own[Sib(q)] = NULL /\ q # NULL
      BY <1>3, <2>1, OwnerOf, NodeAssumption DEF Node
    <3> HIDE DEF own
    <3>2. \A x \in KinNode : own[x] = own[Child(p)] => x = Child(p)
      BY <3>1, Kinds
    <3>3. Ring(kin, KinNode, own, Child(p))
      BY <3>2 DEF Ring
    <3> QED BY <3>3 DEF own
  <2> QED BY <1>15, <2>1, <2>2, <2>3, Kinds DEF Families
<1>17. FamilyInv
  BY <1>3, <1>15, <1>16, Kinds DEF FamilyInv
<1> QED BY <1>3, <1>14, <1>17 DEF LinkInv

-----------------------------------------------------------------------------
(***************************************************************************)
(* What the invariant says of one colouring, and of single nodes.          *)
(***************************************************************************)
LEMMA ListFacts ==
  ASSUME NEW L, NEW colour, Lists(L, colour)
  PROVE  /\ L \in Links(Node) /\ Circles(L, Node) /\ colour \in [Node -> Node]
         /\ \A h \in Heads : h \in Node /\ colour[h] = h
         /\ \A x \in Node : /\ L.next[x] \in Node /\ L.prev[x] \in Node
                            /\ L.next[L.prev[x]] = x /\ L.prev[L.next[x]] = x
                            /\ colour[L.next[x]] = colour[x]
  BY Sorts DEF Lists, Links, Circles, Coloured

LEMMA FamilyFacts ==
  ASSUME FamilyInv
  PROVE  /\ kin \in Links(KinNode) /\ Circles(kin, KinNode)
         /\ p_parent \in [Pcb -> Pcb \cup {NULL}]
         /\ \A x \in KinNode : kin.next[x] \in KinNode
         /\ \A p \in Pcb : /\ Child(p) \in KinNode /\ Sib(p) \in KinNode
                           /\ p_parent[p] = NULL => Alone(kin, Sib(p))
                           /\ ListEmpty(kin, Child(p)) => Alone(kin, Child(p))
                           /\ p # NULL
  BY Kinds, NodeAssumption DEF FamilyInv, Families, Links, Circles, Alone, ListEmpty, Node

LEMMA KinFresh ==
  ASSUME FamilyInv, NEW p \in Pcb, Alone(kin, Child(p)), Alone(kin, Sib(p))
  PROVE  InitKin(kin, p) = kin
<1>1. kin \in Links(KinNode) /\ Child(p) \in KinNode /\ Sib(p) \in KinNode
  BY FamilyFacts
<1>2. InitListHead(kin, Child(p)) = kin /\ InitListHead(kin, Sib(p)) = kin
  BY <1>1, AloneStays
<1> QED BY <1>2 DEF InitKin

-----------------------------------------------------------------------------
(***************************************************************************)
(* The calls on lists of PCBs.                                             *)
(***************************************************************************)
LEMMA AllocPcbStep == LinkInv /\ AllocPcb => LinkInv'
<1> SUFFICES ASSUME LinkInv, AllocPcb PROVE LinkInv'
  OBVIOUS
<1> DEFINE first == link.next[pcbFree_h]
<1>1. CASE ListEmpty(link, pcbFree_h)
  <2>1. ret' = NULL /\ UNCHANGED <<link, kin, p_parent, free>>
    BY <1>1 DEF AllocPcb
  <2> QED BY <2>1 DEF LinkInv, QueuesInv, FreeOnes, FamilyInv
<1>2. CASE ~ ListEmpty(link, pcbFree_h)
  <2>1. /\ link' = InitListHead(ListDel(link, first), first)
        /\ kin' = InitKin(kin, first) /\ p_parent' = [p_parent EXCEPT ![first] = NULL]
        /\ free' = free \ {first} /\ ret' = first
    BY <1>2 DEF AllocPcb
  <2>2. PICK colour : Lists(link, colour) /\ FreeOnes(colour)
    BY DEF LinkInv, QueuesInv
  <2>3. first \in Pcb /\ colour[first] = pcbFree_h
    BY <1>2, <2>2, Sorts, FirstIsPcb
  <2>4. first \in free
    BY <2>2, <2>3 DEF FreeOnes
  <2> HIDE DEF first
  <2> DEFINE D == ListDel(link, first)
             recoloured == [colour EXCEPT ![first] = first]
  <2>5. Lists(D, recoloured) /\ Alone(D, first)
    BY <2>2, <2>3, Removed
  <2>6. link' = D
    <3>1. D \in Links(Node) /\ first \in Node
      BY <2>3, <2>5, ListFacts, Sorts
    <3> HIDE DEF D
    <3> QED BY <2>1, <2>5, <3>1, AloneStays DEF D
  <2>7. \A p \in Pcb : p \in free' <=> recoloured[p] = pcbFree_h
    <3>1. colour \in [Node -> Node]
      BY <2>2, ListFacts
    <3> QED BY <2>1, <2>2, <2>3, <3>1, Sorts DEF FreeOnes
  <2>8. QueuesInv'
    <3> HIDE DEF D, recoloured
    <3> QED BY <2>5, <2>6, <2>7 DEF QueuesInv, FreeOnes
  <2>9. kin' = kin /\ p_parent' = p_parent
    <3>1. FamilyInv /\ p_parent[first] = NULL /\ Alone(kin, Child(first))
      BY <2>4 DEF LinkInv, FamilyInv
    <3>2. Alone(kin, Sib(first)) /\ p_parent \in [Pcb -> Pcb \cup {NULL}]
      BY <2>3, <3>1, FamilyFacts
    <3> QED BY <2>1, <2>3, <3>1, <3>2, KinFresh
  <2>10. FamilyInv'
    BY <2>1, <2>9 DEF LinkInv, FamilyInv
  <2> QED BY <2>1, <2>3, <2>8, <2>10 DEF LinkInv
<1> QED BY <1>1, <1>2

LEMMA FreePcbStep == ASSUME NEW p \in Pcb PROVE LinkInv /\ FreePcb(p) => LinkInv'
<1> SUFFICES ASSUME LinkInv, FreePcb(p) PROVE LinkInv'
  OBVIOUS
<1> DEFINE a == link.prev[pcbFree_h]
<1>1. PICK colour : Lists(link, colour) /\ FreeOnes(colour)
  BY DEF LinkInv, QueuesInv
<1>2. /\ p \in Node /\ Alone(link, p) /\ pcbFree_h \in Node
      /\ link \in Links(Node) /\ colour \in [Node -> Node]
      /\ a \in Node /\ link.next[a] = pcbFree_h /\ colour[a] = pcbFree_h /\ a # p
  <2>1. Alone(link, p) /\ p \in Node /\ pcbFree_h \in Heads /\ p # pcbFree_h
    BY Sorts DEF FreePcb, Linked, Alone
  <2> QED BY <1>1, <2>1, ListFacts DEF Alone
<1>3. link' = ListAdd(link, p, a, pcbFree_h)
  <2>1. InitListHead(link, p) = link
    BY <1>2, AloneStays
  <2> QED BY <2>1 DEF FreePcb, ListAddTail
<1> HIDE DEF a
<1> DEFINE recoloured == [colour EXCEPT ![p] = colour[a]]
<1>4. Lists(link', recoloured)
  BY <1>1, <1>2, <1>3, Added
<1>5. \A x \in Pcb : x \in free' <=> recoloured[x] = pcbFree_h
  BY <1>1, <1>2, Sorts DEF FreeOnes, FreePcb
<1>6. QueuesInv'
  <2> HIDE DEF recoloured
  <2> QED BY <1>4, <1>5 DEF QueuesInv, FreeOnes
<1>7. kin' = kin /\ p_parent' = p_parent /\ Alone(kin, Child(p)) /\ p_parent[p] = NULL
  <2>1. FamilyInv /\ p_parent[p] = NULL /\ ListEmpty(kin, Child(p))
    BY DEF LinkInv, FreePcb
  <2>2. Alone(kin, Sib(p)) /\ Alone(kin, Child(p))
    BY <2>1, FamilyFacts
  <2>3. InitKin(kin, p) = kin
    BY <2>1, <2>2, KinFresh
  <2> QED BY <2>1, <2>2, <2>3 DEF FreePcb
<1>8. FamilyInv'
  BY <1>7 DEF LinkInv, FamilyInv, FreePcb
<1> QED BY <1>6, <1>8 DEF LinkInv, FreePcb

(***************************************************************************)
(* Taking a PCB that is not free out of its list, if any.                  *)
(***************************************************************************)
LEMMA TakenOut ==
  ASSUME NEW p \in Pcb, NEW colour, Lists(link, colour), FreeOnes(colour), p \notin free,
         link' = ListDel(link, p), UNCHANGED free
  PROVE  QueuesInv'
<1> DEFINE recoloured == [colour EXCEPT ![p] = p]
<1>1. Lists(link', recoloured) /\ colour \in [Node -> Node]
  BY Removed, ListFacts
<1>2. \A x \in Pcb : x \in free' <=> recoloured[x] = pcbFree_h
  BY <1>1, Sorts DEF FreeOnes
<1> HIDE DEF recoloured
<1> QED BY <1>1, <1>2 DEF QueuesInv, FreeOnes

LEMMA InsertProcQStep ==
  ASSUME NEW h \in Queue, NEW p \in Pcb PROVE LinkInv /\ InsertProcQ(h, p) => LinkInv'
<1> SUFFICES ASSUME LinkInv, InsertProcQ(h, p) PROVE LinkInv'
  OBVIOUS
<1> DEFINE D == ListDel(link, p)
<1>1. PICK colour : Lists(link, colour) /\ FreeOnes(colour)
  BY DEF LinkInv, QueuesInv
<1> DEFINE taken == [colour EXCEPT ![p] = p]
<1>2. Lists(D, taken) /\ Alone(D, p) /\ colour \in [Node -> Node] /\ p \in Node
  BY <1>1, Removed, ListFacts, Sorts
<1>3. link' = Place(D, h, p)
  <2>1. Unlink(link, p) = D
    BY <1>1, <1>2, ListFacts, UnlinkIsListDel
  <2> QED BY <2>1 DEF InsertProcQ
<1>4. taken[p] = p /\ taken \in [Node -> Node] /\ \A x \in Node : x # p => taken[x] = colour[x]
  BY <1>2
<1> HIDE DEF D, taken
<1>5. PICK a \in Node : /\ a # p /\ taken[a] = h /\ D.next[a] \in Node
                       /\ Place(D, h, p) = ListAdd(D, p, a, D.next[a])
  BY <1>2, <1>4, PlaceIsAdd
<1> DEFINE recoloured == [taken EXCEPT ![p] = taken[a]]
<1>6. Lists(link', recoloured)
  BY <1>2, <1>3, <1>5, Added
<1>7. \A x \in Pcb : x \in free' <=> recoloured[x] = pcbFree_h
  BY <1>1, <1>4, <1>5, Sorts DEF FreeOnes, InsertProcQ
<1>8. QueuesInv'
  <2> HIDE DEF recoloured
  <2> QED BY <1>6, <1>7 DEF QueuesInv, FreeOnes
<1> QED BY <1>8 DEF LinkInv, FamilyInv, InsertProcQ

LEMMA RemoveProcQStep ==
  ASSUME NEW h \in Queue PROVE LinkInv /\ RemoveProcQ(h) => LinkInv'
<1> SUFFICES ASSUME LinkInv, RemoveProcQ(h) PROVE LinkInv'
  OBVIOUS
<1> DEFINE p == link.next[h]
<1>1. CASE ListEmpty(link, h)
  BY <1>1 DEF LinkInv, QueuesInv, FreeOnes, FamilyInv, RemoveProcQ
<1>2. CASE ~ ListEmpty(link, h)
  <2>1. PICK colour : Lists(link, colour) /\ FreeOnes(colour)
    BY DEF LinkInv, QueuesInv
  <2>2. p \in Pcb /\ colour[p] = h
    BY <1>2, <2>1, Sorts, FirstIsPcb
  <2>3. p \notin free
    BY <2>1, <2>2, Sorts DEF FreeOnes
  <2>4. ret' = p /\ link' = ListDel(link, p) /\ UNCHANGED <<kin, p_parent, free>>
    BY <1>2 DEF RemoveProcQ
  <2> HIDE DEF p
  <2>5. QueuesInv'
    BY <2>1, <2>2, <2>3, <2>4, TakenOut
  <2> QED BY <2>2, <2>4, <2>5 DEF LinkInv, FamilyInv
<1> QED BY <1>1, <1>2

LEMMA OutProcQStep ==
  ASSUME NEW h \in Queue, NEW p \in Pcb PROVE LinkInv /\ OutProcQ(h, p) => LinkInv'
<1> SUFFICES ASSUME LinkInv, OutProcQ(h, p) PROVE LinkInv'
  OBVIOUS
<1>1. CASE p \in ToSet(Walk(link.next, h))
  <2>1. PICK colour : Lists(link, colour) /\ FreeOnes(colour)
    BY DEF LinkInv, QueuesInv
  <2>2. /\ p \notin free /\ ret' = p /\ link' = ListDel(link, p)
        /\ UNCHANGED <<kin, p_parent, free>>
    BY <1>1 DEF OutProcQ
  <2>3. QueuesInv'
    BY <2>1, <2>2, TakenOut
  <2> QED BY <2>2, <2>3 DEF LinkInv, FamilyInv
<1>2. CASE p \notin ToSet(Walk(link.next, h))
  BY <1>2 DEF LinkInv, QueuesInv, FreeOnes, FamilyInv, OutProcQ
<1> QED BY <1>1, <1>2

-----------------------------------------------------------------------------
(***************************************************************************)
(* The calls on trees.                                                     *)
(***************************************************************************)
LEMMA TreeStep ==
  ASSUME LinkInv, UNCHANGED <<link, free>>, ret' \in Pcb \cup {NULL}, FamilyInv'
  PROVE  LinkInv'
  BY DEF LinkInv, QueuesInv, FreeOnes

(***************************************************************************)
(* A PCB leaves its parent.                                                *)
(***************************************************************************)
LEMMA LeavesParent ==
  ASSUME LinkInv, NEW p \in Pcb, UNCHANGED free,
         kin' = ListDel(kin, Sib(p)), p_parent' = [p_parent EXCEPT ![p] = NULL]
  PROVE  FamilyInv'
<1>1. /\ Families(kin, p_parent) /\ p_parent \in [Pcb -> Pcb \cup {NULL}]
      /\ \A q \in free : p_parent[q] = NULL /\ Alone(kin, Child(q)) /\ q \in Pcb
  BY DEF LinkInv, FamilyInv, Families
<1>2. /\ Families(kin', p_parent')
      /\ \A x \in KinNode : Alone(kin, x) => Alone(kin', x)
  BY <1>1, Orphaned
<1>3. \A q \in free' : p_parent'[q] = NULL /\ Alone(kin', Child(q))
  BY <1>1, <1>2, Kinds
<1> QED BY <1>2, <1>3 DEF FamilyInv

LEMMA OutChildStep == ASSUME NEW p \in Pcb PROVE LinkInv /\ OutChild(p) => LinkInv'
<1> SUFFICES ASSUME LinkInv, OutChild(p) PROVE LinkInv'
  OBVIOUS
<1>1. CASE p_parent[p] # NULL /\ InParentsList(p)
  <2>1. /\ ret' = p /\ kin' = ListDel(kin, Sib(p))
        /\ p_parent' = [p_parent EXCEPT ![p] = NULL] /\ UNCHANGED <<link, free>>
    BY <1>1 DEF OutChild
  <2>2. FamilyInv'
    BY <2>1, LeavesParent
  <2> QED BY <2>1, <2>2, TreeStep
<1>2. CASE ~ (p_parent[p] # NULL /\ InParentsList(p))
  BY <1>2, TreeStep DEF OutChild, tree, LinkInv, FamilyInv
<1> QED BY <1>1, <1>2

LEMMA InsertChildStep ==
  ASSUME NEW prnt \in Pcb, NEW p \in Pcb PROVE LinkInv /\ InsertChild(prnt, p) => LinkInv'
<1> SUFFICES ASSUME LinkInv, InsertChild(prnt, p) PROVE LinkInv'
  OBVIOUS
<1> DEFINE D == ListDel(kin, Sib(p))
           out == IF p_parent[p] # NULL /\ InParentsList(p) THEN D ELSE kin
           left == [p_parent EXCEPT ![p] = NULL]
<1>1. /\ Families(kin, p_parent) /\ FamilyInv
      /\ \A q \in free : p_parent[q] = NULL /\ Alone(kin, Child(q)) /\ q \in Pcb
  BY DEF LinkInv, FamilyInv
<1>2. /\ kin \in Links(KinNode) /\ Circles(kin, KinNode) /\ Sib(p) \in KinNode
      /\ p_parent \in [Pcb -> Pcb \cup {NULL}]
  BY <1>1, FamilyFacts
<1>3. /\ Families(D, left) /\ Alone(D, Sib(p))
      /\ \A x \in KinNode : Alone(kin, x) => Alone(D, x)
  BY <1>1, Orphaned
<1>4. D \in Links(KinNode) /\ Circles(D, KinNode)
  BY <1>3 DEF Families
<1> HIDE DEF D, left
<1>5. Unlink(out, Sib(p)) = D
  <2>1. Unlink(D, Sib(p)) = D
    BY <1>2, <1>3, <1>4, AloneStays, UnlinkIsListDel
  <2>2. Unlink(kin, Sib(p)) = D
    BY <1>2, UnlinkIsListDel DEF D
  <2> QED BY <2>1, <2>2
<1>6. /\ kin' = ListAddTail(D, Sib(p), Child(prnt))
      /\ p_parent' = [p_parent EXCEPT ![p] = prnt] /\ ret' = NULL
      /\ UNCHANGED <<link, free>> /\ prnt \notin free /\ p \notin free
  <2> HIDE DEF out
  <2>1. kin' = ListAddTail(Unlink(out, Sib(p)), Sib(p), Child(prnt))
    BY DEF InsertChild, out, D
  <2> QED BY <1>5, <2>1 DEF InsertChild
<1>7. /\ Families(kin', [left EXCEPT ![p] = prnt])
      /\ \A x \in KinNode : Alone(D, x) /\ x # Sib(p) /\ x # Child(prnt) => Alone(kin', x)
  BY <1>3, <1>6, Adopted
<1>8. [left EXCEPT ![p] = prnt] = p_parent'
  BY <1>2, <1>6 DEF left
<1>9. \A q \in free' : p_parent'[q] = NULL /\ Alone(kin', Child(q))
  BY <1>1, <1>2, <1>3, <1>6, <1>7, Kinds
<1>10. FamilyInv'
  BY <1>7, <1>8, <1>9 DEF FamilyInv
<1> QED BY <1>6, <1>10, TreeStep

(***************************************************************************)
(* The first node of a list of children is the p_sib of a child.           *)
(***************************************************************************)
LEMMA RemoveChildStep == ASSUME NEW p \in Pcb PROVE LinkInv /\ RemoveChild(p) => LinkInv'
<1> SUFFICES ASSUME LinkInv, RemoveChild(p) PROVE LinkInv'
  OBVIOUS
<1>1. CASE ListEmpty(kin, Child(p))
  BY <1>1, TreeStep DEF RemoveChild, tree, LinkInv, FamilyInv
<1>2. CASE ~ ListEmpty(kin, Child(p))
  <2> DEFINE first == kin.next[Child(p)]
             own == Owner(p_parent)
  <2>1. /\ Families(kin, p_parent) /\ p_parent \in [Pcb -> Pcb \cup {NULL}]
        /\ first \in KinNode /\ first # Child(p) /\ own[first] = own[Child(p)]
    <3>1. FamilyInv /\ Families(kin, p_parent) /\ Child(p) \in KinNode
      BY Kinds DEF LinkInv, FamilyInv
    <3> QED BY <1>2, <3>1, FamilyFacts DEF ListEmpty, Families, Coloured
  <2>2. /\ ret' = first[2] /\ kin' = ListDel(kin, first)
        /\ p_parent' = [p_parent EXCEPT ![first[2]] = NULL] /\ UNCHANGED <<link, free>>
    BY <1>2 DEF RemoveChild
  <2>3. \A q \in Pcb : own[Child(q)] = q
    BY <2>1, OwnerOf
  <2> HIDE DEF first, own
  <2>4. PICK child \in Pcb : first = Sib(child)
    BY <2>1, <2>3, Kinds
  <2>5. first[2] = child
    BY <2>4, Kinds
  <2>6. FamilyInv'
    BY <2>2, <2>4, <2>5, LeavesParent
  <2> QED BY <2>2, <2>5, <2>6, TreeStep
<1> QED BY <1>1, <1>2

LEMMA LinkStep == LinkInv /\ [Next]_vars => LinkInv'
<1> SUFFICES ASSUME LinkInv, [Next]_vars PROVE LinkInv'
  OBVIOUS
<1>1. CASE AllocPcb
  BY <1>1, AllocPcbStep
<1>2. ASSUME NEW p \in Pcb, FreePcb(p) \/ OutChild(p) \/ RemoveChild(p) PROVE LinkInv'
  BY <1>2, FreePcbStep, OutChildStep, RemoveChildStep
<1>3. ASSUME NEW prnt \in Pcb, NEW p \in Pcb, InsertChild(prnt, p) PROVE LinkInv'
  BY <1>3, InsertChildStep
<1>4. ASSUME NEW h \in Queue, NEW p \in Pcb, InsertProcQ(h, p) \/ OutProcQ(h, p)
      PROVE  LinkInv'
  BY <1>4, InsertProcQStep, OutProcQStep
<1>5. ASSUME NEW h \in Queue, RemoveProcQ(h) PROVE LinkInv'
  BY <1>5, RemoveProcQStep
<1>6. CASE UNCHANGED vars
  BY <1>6 DEF vars, LinkInv, QueuesInv, FreeOnes, FamilyInv
<1> QED BY <1>1, <1>2, <1>3, <1>4, <1>5, <1>6 DEF Next

-----------------------------------------------------------------------------
(***************************************************************************)
(* The invariant holds in every reachable state, for any number of PCBs    *)
(* and of queues.                                                          *)
(***************************************************************************)
THEOREM LinksCorrect == Spec => []LinkInv
  BY LinkInit, LinkStep, PTL DEF Spec

(***************************************************************************)
(* TypeOK: no pointer assignment of listx.h makes a link to anything but a *)
(* node of the same kind.                                                  *)
(***************************************************************************)
THEOREM LinksStayNodes == Spec => []TypeOK
<1>1. LinkInv => TypeOK
  <2> SUFFICES ASSUME LinkInv PROVE TypeOK
    OBVIOUS
  <2>1. link \in Links(Node)
    BY DEF LinkInv, QueuesInv, Lists
  <2>2. kin \in Links(KinNode) /\ p_parent \in [Pcb -> Pcb \cup {NULL}]
    BY FamilyFacts DEF LinkInv
  <2> QED BY <2>1, <2>2 DEF LinkInv, TypeOK, Links
<1> QED BY <1>1, LinksCorrect, PTL

(***************************************************************************)
(* The lists of PCBs and of children can be walked both ways, after any    *)
(* sequence of calls.                                                      *)
(***************************************************************************)
THEOREM ListsStayCircles == Spec => []LinksInverse
<1>1. LinkInv => LinksInverse
  <2> SUFFICES ASSUME LinkInv PROVE LinksInverse
    OBVIOUS
  <2>1. Circles(link, Node)
    BY DEF LinkInv, QueuesInv, Lists
  <2>2. Circles(kin, KinNode)
    BY FamilyFacts DEF LinkInv
  <2> QED BY <2>1, <2>2 DEF LinksInverse
<1> QED BY <1>1, LinksCorrect, PTL

(***************************************************************************)
(* A walk along a process queue meets PCBs in use only, and one along the  *)
(* free list meets exactly the free ones.                                  *)
(***************************************************************************)
THEOREM WalksMeetPcbs == Spec => []OneSentinelPerCircle
<1>1. LinkInv => OneSentinelPerCircle
  <2> SUFFICES ASSUME LinkInv PROVE OneSentinelPerCircle
    OBVIOUS
  <2>1. PICK colour : Lists(link, colour) /\ FreeOnes(colour)
    BY DEF LinkInv, QueuesInv
  <2>2. ASSUME NEW h \in Heads
        PROVE  ToSet(Walk(link.next, h)) = {x \in Pcb : colour[x] = h}
    <3>1. /\ h \in Node /\ colour[h] = h /\ link \in Links(Node) /\ Circles(link, Node)
          /\ Coloured(link, Node, colour) /\ Ring(link, Node, colour, h)
      BY <2>1, Sorts DEF Lists
    <3>2. ToSet(Walk(link.next, h)) = {x \in Node : colour[x] = colour[h]} \ {h}
      BY <3>1, NodeAssumption, WalkMeetsItsColour
    <3>3. \A x \in Node : colour[x] = h /\ x # h => x \in Pcb
      BY <2>1, Sorts DEF Lists
    <3> QED BY <3>1, <3>2, <3>3, Sorts
  <2>3. \A h \in Queue : ToSet(Walk(link.next, h)) \subseteq Pcb \ free
    BY <2>1, <2>2, Sorts DEF FreeOnes
  <2>4. ToSet(Walk(link.next, pcbFree_h)) = free
    BY <2>1, <2>2, Sorts DEF FreeOnes, LinkInv
  <2> QED BY <2>3, <2>4 DEF OneSentinelPerCircle
<1> QED BY <1>1, LinksCorrect, PTL

(***************************************************************************)
(* A walk along the list of children of p meets the p_sib of exactly the   *)
(* PCBs whose p_parent is p, so that outChild finds every child where it   *)
(* looks.                                                                  *)
(***************************************************************************)
THEOREM ChildrenAreFound == Spec => []ParentsAgree
<1>1. LinkInv => ParentsAgree
  <2> SUFFICES ASSUME LinkInv, NEW p \in Pcb
               PROVE  ToSet(Walk(kin.next, Child(p)))
                        = {Sib(c) : c \in {x \in Pcb : p_parent[x] = p}}
    BY DEF ParentsAgree
  <2> DEFINE own == Owner(p_parent)
  <2>1. /\ kin \in Links(KinNode) /\ Circles(kin, KinNode) /\ Child(p) \in KinNode
        /\ Coloured(kin, KinNode, own) /\ Ring(kin, KinNode, own, Child(p))
        /\ p_parent \in [Pcb -> Pcb \cup {NULL}]
    BY Kinds DEF LinkInv, FamilyInv, Families
  <2>2. \A q \in Pcb : own[Child(q)] = q /\ own[Sib(q)] = p_parent[q]
    BY <2>1, OwnerOf
  <2> HIDE DEF own
  <2>3. IsFiniteSet(KinNode)
    BY KinFinite
  <2>4. ToSet(Walk(kin.next, Child(p))) = {x \in KinNode : own[x] = own[Child(p)]} \ {Child(p)}
    BY <2>1, <2>3, WalkMeetsItsColour
  <2>5. ASSUME NEW x \in KinNode
        PROVE  own[x] = own[Child(p)] /\ x # Child(p)
                 <=> x \in {Sib(c) : c \in {y \in Pcb : p_parent[y] = p}}
    BY <2>2, Kinds
  <2>6. {Sib(c) : c \in {y \in Pcb : p_parent[y] = p}} \subseteq KinNode
    BY Kinds
  <2> QED BY <2>4, <2>5, <2>6
<1> QED BY <1>1, LinksCorrect, PTL

-----------------------------------------------------------------------------
(***************************************************************************)
(* Walks are such sequences, and the operations on links are operations on *)
(* the walks.                                                              *)
(***************************************************************************)
LEMMA WalkIs ==
  ASSUME NEW N, IsFiniteSet(N), NEW L \in Links(N), Circles(L, N), NEW h \in N,
         NEW s, Visits(s, L.next, N, h)
  PROVE  Walk(L.next, h) = s
<1> DEFINE w == Walk(L.next, h)
<1>1. Visits(w, L.next, N, h)
  BY WalkCloses
<1> HIDE DEF w
<1>2. w = s
  BY <1>1, VisitsOne
<1> QED BY <1>2 DEF w

LEMMA WalkDel ==
  ASSUME NEW N, IsFiniteSet(N), NEW L \in Links(N), Circles(L, N), NEW h \in N,
         NEW n \in N, n # h
  PROVE  Walk(ListDel(L, n).next, h) = RemoveFirst(Walk(L.next, h), n)
<1> DEFINE D == ListDel(L, n)
           s == Walk(L.next, h)
<1>1. /\ D \in Links(N) /\ Circles(D, N)
      /\ \A x \in N : D.next[x] = IF x = n THEN n ELSE IF L.next[x] = n THEN L.next[n]
                                  ELSE L.next[x]
  BY ListDelCircles
<1>2. Visits(s, L.next, N, h)
  BY WalkCloses
<1> HIDE DEF D, s
<1>3. Visits(RemoveFirst(s, n), D.next, N, h)
  BY <1>1, <1>2, DelVisits
<1>4. Walk(D.next, h) = RemoveFirst(s, n)
  BY <1>1, <1>3, WalkIs
<1> QED BY <1>4 DEF D, s

LEMMA WalkAdd ==
  ASSUME NEW N, IsFiniteSet(N), NEW L \in Links(N), Circles(L, N), NEW h \in N,
         NEW new \in N, new # h, Alone(L, new),
         NEW k \in 1 .. Len(Walk(L.next, h)) + 1
  PROVE  LET s == Walk(L.next, h)
             A == ListAdd(L, new, At(s, h, k - 1), At(s, h, k))
         IN  /\ Walk(A.next, h) = InsertAt(s, k, new)
             /\ At(s, h, k - 1) \in N /\ At(s, h, k - 1) # new
             /\ L.next[At(s, h, k - 1)] = At(s, h, k)
<1> DEFINE s == Walk(L.next, h)
           a == At(s, h, k - 1)
           b == At(s, h, k)
           A == ListAdd(L, new, a, b)
<1>1. Visits(s, L.next, N, h) /\ k \in 1 .. Len(s) + 1
  BY WalkCloses
<1> HIDE DEF s
<1>2. /\ Len(s) \in Nat /\ a \in N /\ b \in N /\ L.next[a] = b
      /\ \A i : At(s, h, i) \in N
      /\ \A i \in 0 .. Len(s) : L.next[At(s, h, i)] = At(s, h, i + 1)
  <2>1. Len(s) \in Nat /\ a \in N /\ b \in N /\ \A i : At(s, h, i) \in N
    BY <1>1, VisitsFacts
  <2>2. \A i \in 0 .. Len(s) : L.next[At(s, h, i)] = At(s, h, i + 1)
    BY <1>1 DEF Visits
  <2>3. k - 1 \in 0 .. Len(s) /\ (k - 1) + 1 = k
    BY <1>1, <2>1
  <2> QED BY <2>1, <2>2, <2>3
<1>3. \A i \in 0 .. Len(s) + 1 : At(s, h, i) # new
  <2> SUFFICES ASSUME NEW i \in 0 .. Len(s) + 1, At(s, h, i) = new PROVE FALSE
    OBVIOUS
  <2> DEFINE S == {j \in 0 .. Len(s) + 1 : At(s, h, j) = new => FALSE}
  <2>1. L.next \in [N -> N] /\ \A x \in N : L.prev[L.next[x]] = x
    BY DEF Links, Circles
  <2>2. 0 \in S
    BY <1>2 DEF At
  <2>3. ASSUME NEW j \in 1 .. Len(s) + 1, j - 1 \in S PROVE j \in S
    <3>1. j - 1 \in 0 .. Len(s) /\ (j - 1) + 1 = j /\ At(s, h, j - 1) # new
      BY <1>2, <2>3
    <3>2. L.next[At(s, h, j - 1)] = At(s, h, j) /\ At(s, h, j - 1) \in N
      BY <1>2, <3>1
    <3>3. At(s, h, j) # new
      BY <2>1, <3>1, <3>2 DEF Alone
    <3> QED BY <3>3
  <2>4. \A j \in 0 .. Len(s) + 1 : j \in S
    <3> HIDE DEF S
    <3>1. Len(s) + 1 \in Nat
      BY <1>2
    <3> QED BY <2>2, <2>3, <3>1, Queues!UpTo
  <2> QED BY <2>4
<1>4. a # new /\ \A i \in 1 .. Len(s) : s[i] # new
  <2>1. k - 1 \in 0 .. Len(s) + 1
    BY <1>1, <1>2
  <2>2. \A i \in 1 .. Len(s) : At(s, h, i) = s[i] /\ i \in 0 .. Len(s) + 1
    BY <1>2 DEF At
  <2> QED BY <1>3, <2>1, <2>2
<1>5. /\ A \in Links(N) /\ Circles(A, N)
      /\ \A x \in N : A.next[x] = IF x = new THEN b ELSE IF x = a THEN new ELSE L.next[x]
  <2> HIDE DEF a, b
  <2> QED BY <1>2, <1>4, ListAddCircles
<1> HIDE DEF A
<1>6. Visits(InsertAt(s, k, new), A.next, N, h)
  BY <1>1, <1>4, <1>5, AddVisits
<1>7. Walk(A.next, h) = InsertAt(s, k, new)
  BY <1>5, <1>6, WalkIs
<1> HIDE DEF a, b
<1> QED BY <1>2, <1>4, <1>7 DEF A, s, a, b

LEMMA WalkElsewhere ==
  ASSUME NEW N, IsFiniteSet(N), NEW L \in Links(N), Circles(L, N), NEW h \in N,
         NEW new \in N, new # h, Alone(L, new),
         NEW a \in N, a # new, a # h, a \notin ToSet(Walk(L.next, h)), new \notin ToSet(Walk(L.next, h))
  PROVE  Walk(ListAdd(L, new, a, L.next[a]).next, h) = Walk(L.next, h)
<1> DEFINE s == Walk(L.next, h)
           A == ListAdd(L, new, a, L.next[a])
<1>1. Visits(s, L.next, N, h) /\ a \notin ToSet(s) /\ new \notin ToSet(s)
  BY WalkCloses
<1> HIDE DEF s
<1>2. L.next[a] \in N
  BY DEF Links
<1>3. /\ A \in Links(N) /\ Circles(A, N)
      /\ \A x \in N : A.next[x] = IF x = new THEN L.next[a] ELSE IF x = a THEN new ELSE L.next[x]
  BY <1>2, ListAddCircles
<1> HIDE DEF A
<1>4. \A i \in 1 .. Len(s) : s[i] # new /\ s[i] # a
  <2>1. ToSet(s) = {s[i] : i \in 1 .. Len(s)}
    <3>1. s \in Seq(N \ {h})
      BY <1>1 DEF Visits
    <3> QED BY <3>1 DEF ToSet
  <2> QED BY <1>1, <2>1
<1>5. Visits(s, A.next, N, h)
  <2> DEFINE g == A.next
             f == L.next
  <2>0. Visits(s, f, N, h)
    BY <1>1
  <2>1. \A x \in N : x # new /\ x # a => g[x] = f[x]
    BY <1>3
  <2> HIDE DEF f, g
  <2>2. (\A i \in 1 .. Len(s) : s[i] # new) /\ (\A i \in 1 .. Len(s) : s[i] # a)
    BY <1>4
  <2>3. Visits(s, g, N, h)
    BY <2>0, <2>1, <2>2, AddElsewhere, Zenon
  <2> QED BY <2>3 DEF g
<1>6. Walk(A.next, h) = s
  BY <1>3, <1>5, WalkIs
<1> QED BY <1>6 DEF A, s

(***************************************************************************)
(* The tail of a list is behind its last node.                             *)
(***************************************************************************)
LEMMA WalkAddTail ==
  ASSUME NEW N, IsFiniteSet(N), NEW L \in Links(N), Circles(L, N), NEW h \in N,
         NEW new \in N, new # h, Alone(L, new)
  PROVE  Walk(ListAddTail(L, new, h).next, h) = Append(Walk(L.next, h), new)
<1> DEFINE s == Walk(L.next, h)
           k == Len(s) + 1
<1>1. Visits(s, L.next, N, h)
  BY WalkCloses
<1>2. /\ Len(s) \in Nat /\ s \in Seq(N \ {h}) /\ k \in 1 .. Len(s) + 1
      /\ At(s, h, k) = h /\ k - 1 = Len(s)
      /\ At(s, h, Len(s)) \in N /\ L.next[At(s, h, Len(s))] = h
  <2> HIDE DEF s
  <2>1. /\ Len(s) \in Nat /\ At(s, h, Len(s)) \in N /\ At(s, h, Len(s) + 1) = h
    <3>1. s \in Seq(N \ {h})
      BY <1>1 DEF Visits
    <3>2. Len(s) \in Nat /\ \A i \in 1 .. Len(s) : s[i] \in N
      BY <3>1
    <3> QED BY <3>2 DEF At
  <2>2. /\ s \in Seq(N \ {h})
        /\ \A i \in 0 .. Len(s) : L.next[At(s, h, i)] = At(s, h, i + 1)
    BY <1>1 DEF Visits
  <2>3. Len(s) \in 0 .. Len(s)
    BY <2>1
  <2> QED BY <2>1, <2>2, <2>3
<1>3. L.prev[h] = At(s, h, k - 1)
  <2> HIDE DEF s
  <2> QED BY <1>2 DEF Circles
<1>4. Walk(ListAdd(L, new, At(s, h, k - 1), At(s, h, k)).next, h) = InsertAt(s, k, new)
  BY <1>2, WalkAdd
<1> HIDE DEF s
<1>5. InsertAt(s, Len(s) + 1, new) = Append(s, new)
  <2> DEFINE T == N
             r == InsertAt(s, Len(s) + 1, new)
  <2>1. InsertAt(s, Len(s) + 1, new) = Queues!InsertAt(s, Len(s) + 1, new)
    BY DEF InsertAt, Queues!InsertAt
  <2>2. s \in Seq(T)
    BY <1>2
  <2> HIDE DEF T
  <2>3. /\ r \in Seq(T) /\ Len(r) = Len(s) + 1
        /\ \A i \in 1 .. Len(s) + 1 : r[i] = IF i < Len(s) + 1 THEN s[i] ELSE IF i = Len(s) + 1 THEN new ELSE s[i - 1]
    <3>1. Len(s) + 1 \in 1 .. Len(s) + 1 /\ new \in T
      BY <1>2 DEF T
    <3> QED BY <2>1, <2>2, <3>1, Queues!InsertAtProperties
  <2> HIDE DEF r
  <2>4. \A i \in 1 .. Len(s) + 1 : r[i] = Append(s, new)[i]
    BY <1>2, <2>2, <2>3
  <2>5. r = Append(s, new)
    BY <1>2, <2>2, <2>3, <2>4 DEF T
  <2> QED BY <2>5 DEF r
<1> QED BY <1>2, <1>3, <1>4, <1>5 DEF ListAddTail, s

(***************************************************************************)
(* To remove what stands first is to take the tail; to remove what is not  *)
(* there is nothing.                                                       *)
(***************************************************************************)
LEMMA RemoveHead ==
  ASSUME NEW T, NEW s \in Seq(T), s # <<>>,
         \A i, j \in 1 .. Len(s) : s[i] = s[j] => i = j
  PROVE  RemoveFirst(s, Head(s)) = Tail(s)
<1> DEFINE r == RemoveFirst(s, Head(s))
<1>1. Len(s) \in Nat \ {0} /\ 1 \in 1 .. Len(s) /\ s[1] = Head(s)
  OBVIOUS
<1>2. /\ r \in Seq(T) /\ Len(r) = Len(s) - 1
      /\ \A i \in 1 .. Len(s) - 1 : r[i] = IF i < 1 THEN s[i] ELSE s[i + 1]
  BY <1>1, RemoveFirstPlaces
<1>3. Tail(s) \in Seq(T) /\ Len(Tail(s)) = Len(s) - 1 /\ \A i \in 1 .. Len(s) - 1 : Tail(s)[i] = s[i + 1]
  BY <1>1
<1> HIDE DEF r
<1>4. r = Tail(s)
  BY <1>1, <1>2, <1>3
<1> QED BY <1>4 DEF r

LEMMA RemoveNone ==
  ASSUME NEW s, NEW e, \A i \in 1 .. Len(s) : s[i] # e
  PROVE  RemoveFirst(s, e) = s
  BY DEF RemoveFirst


-----------------------------------------------------------------------------
(***************************************************************************)
(* The operators of PcbSpec on queues are those of the community modules.  *)
(***************************************************************************)
LEMMA AbstractOut ==
  ASSUME NEW q, NEW p PROVE Abstract!OutProcQ(q, p) = RemoveFirst(q, p)
  BY DEF Abstract!OutProcQ, Abstract!RemoveFirst, RemoveFirst, Abstract!RemoveAt, RemoveAt,
         Abstract!SelectInSeq, SelectInSeq, Abstract!Min, Min

Position(q, p) ==
  LET lower == SelectInSeq(q, LAMBDA c : p_prio[c] < p_prio[p])
      equal == SelectLastInSeq(q, LAMBDA c : p_prio[c] = p_prio[p])
  IN  CASE lower # 0               -> lower
        [] lower = 0 /\ equal # 0  -> equal + 1
        [] OTHER                   -> Len(q) + 1

LEMMA AbstractInsert ==
  ASSUME NEW q, NEW p
  PROVE  Abstract!InsertProcQ(q, p, p_prio) = InsertAt(q, Position(q, p), p)
<1>1. Abstract!InsertPos(q, p, p_prio) = Position(q, p)
  BY DEF Abstract!InsertPos, Position, Abstract!SelectInSeq, SelectInSeq, Abstract!SelectLastInSeq,
         SelectLastInSeq, Abstract!Min, Min, Abstract!Max, Max
<1>2. Abstract!InsertAt(q, Position(q, p), p) = InsertAt(q, Position(q, p), p)
  BY DEF Abstract!InsertAt, InsertAt
<1> QED BY <1>1, <1>2 DEF Abstract!InsertProcQ

(***************************************************************************)
(* A walk from a list head.                                                *)
(***************************************************************************)
LEMMA ListWalk ==
  ASSUME NEW L, NEW colour, Lists(L, colour), NEW h \in Heads
  PROVE  LET w == Walk(L.next, h)
         IN  /\ w \in Seq(Pcb) /\ \A i, j \in 1 .. Len(w) : w[i] = w[j] => i = j
             /\ ToSet(w) = {x \in Pcb : colour[x] = h}
             /\ \A i \in 1 .. Len(w) : w[i] \in Pcb /\ colour[w[i]] = h
             /\ w = <<>> <=> ListEmpty(L, h)
             /\ w # <<>> => Head(w) = L.next[h]
             /\ Visits(w, L.next, Node, h)
<1> DEFINE w == Walk(L.next, h)
<1>1. /\ h \in Node /\ colour[h] = h /\ L \in Links(Node) /\ Circles(L, Node)
      /\ Coloured(L, Node, colour) /\ Ring(L, Node, colour, h)
      /\ \A x \in Node : colour[x] = h /\ x # h => x \in Pcb
      /\ h \notin Pcb /\ Pcb \subseteq Node
  BY Sorts DEF Lists
<1>2. ToSet(w) = {x \in Node : colour[x] = colour[h]} \ {h}
  BY <1>1, NodeAssumption, WalkMeetsItsColour
<1>3. Visits(w, L.next, Node, h)
  BY <1>1, NodeAssumption, WalkCloses
<1> HIDE DEF w
<1>4. ToSet(w) = {x \in Pcb : colour[x] = h}
  BY <1>1, <1>2
<1>5. /\ w \in Seq(Node \ {h}) /\ \A i, j \in 1 .. Len(w) : w[i] = w[j] => i = j
      /\ \A i \in 0 .. Len(w) : L.next[At(w, h, i)] = At(w, h, i + 1)
  BY <1>3 DEF Visits
<1>6. \A i \in 1 .. Len(w) : w[i] \in ToSet(w)
  BY <1>5 DEF ToSet
<1>7. \A i \in 1 .. Len(w) : w[i] \in Pcb /\ colour[w[i]] = h
  BY <1>4, <1>6
<1>8. w \in Seq(Pcb)
  BY <1>5, <1>7
<1>9. L.next[h] = At(w, h, 1)
  <2>1. 0 \in 0 .. Len(w) /\ 0 + 1 = 1 /\ At(w, h, 0) = h
    BY <1>5 DEF At
  <2> QED BY <1>5, <2>1
<1>10. /\ w = <<>> <=> ListEmpty(L, h)
       /\ w # <<>> => Head(w) = L.next[h]
  <2>1. CASE w = <<>>
    BY <1>9, <2>1 DEF At, ListEmpty
  <2>2. CASE w # <<>>
    <3>1. 1 \in 1 .. Len(w) /\ Head(w) = w[1]
      BY <1>8, <2>2
    <3>2. L.next[h] = w[1] /\ w[1] \in Pcb
      BY <1>7, <1>9, <3>1 DEF At
    <3> QED BY <1>1, <2>2, <3>1, <3>2 DEF ListEmpty
  <2> QED BY <2>1, <2>2
<1> QED BY <1>3, <1>4, <1>5, <1>7, <1>8, <1>10 DEF w

(***************************************************************************)
(* list_del of a PCB takes it out of its own list and leaves the others.   *)
(***************************************************************************)
LEMMA WalkOut ==
  ASSUME NEW L, NEW colour, Lists(L, colour), NEW p \in Pcb, NEW h \in Heads
  PROVE  /\ Walk(ListDel(L, p).next, h) = RemoveFirst(Walk(L.next, h), p)
         /\ colour[p] # h => RemoveFirst(Walk(L.next, h), p) = Walk(L.next, h)
<1>1. /\ L \in Links(Node) /\ Circles(L, Node) /\ p \in Node /\ h \in Node /\ p # h
  BY Sorts DEF Lists
<1>2. Walk(ListDel(L, p).next, h) = RemoveFirst(Walk(L.next, h), p)
  BY <1>1, NodeAssumption, WalkDel
<1> DEFINE w == Walk(L.next, h)
<1>3. \A i \in 1 .. Len(w) : colour[w[i]] = h
  BY ListWalk
<1> HIDE DEF w
<1>4. colour[p] # h => RemoveFirst(w, p) = w
  BY <1>3, RemoveNone
<1> QED BY <1>2, <1>4 DEF w

LEMMA WalkFirstOut ==
  ASSUME NEW L, NEW colour, Lists(L, colour), NEW h \in Heads, ~ ListEmpty(L, h)
  PROVE  LET first == L.next[h]
         IN  /\ first = Head(Walk(L.next, h)) /\ Walk(L.next, h) # <<>>
             /\ Walk(ListDel(L, first).next, h) = Tail(Walk(L.next, h))
             /\ \A g \in Heads \ {h} : Walk(ListDel(L, first).next, g) = Walk(L.next, g)
<1> DEFINE first == L.next[h]
           w == Walk(L.next, h)
<1>1. first \in Pcb /\ colour[first] = h
  BY FirstIsPcb
<1>2. /\ w \in Seq(Pcb) /\ \A i, j \in 1 .. Len(w) : w[i] = w[j] => i = j
      /\ w # <<>> /\ Head(w) = first
  BY ListWalk
<1>3. \A g \in Heads \ {h} : Walk(ListDel(L, first).next, g) = Walk(L.next, g)
  <2> HIDE DEF first
  <2> QED BY <1>1, WalkOut
<1>4. Walk(ListDel(L, first).next, h) = RemoveFirst(w, first)
  <2> HIDE DEF first
  <2> QED BY <1>1, WalkOut
<1> HIDE DEF w, first
<1>5. RemoveFirst(w, first) = Tail(w)
  BY <1>2, RemoveHead
<1> QED BY <1>2, <1>3, <1>4, <1>5 DEF w, first

(***************************************************************************)
(* insertProcQ puts a PCB in no list where PcbSpec does.                   *)
(***************************************************************************)
LEMMA WalkPlace ==
  ASSUME NEW L, NEW colour, Lists(L, colour), NEW h \in Queue,
         NEW p \in Pcb, Alone(L, p), colour[p] = p
  PROVE  /\ Walk(Place(L, h, p).next, h) = Abstract!InsertProcQ(Walk(L.next, h), p, p_prio)
         /\ \A g \in Heads \ {h} : Walk(Place(L, h, p).next, g) = Walk(L.next, g)
<1> DEFINE s == Walk(L.next, h)
           I == {i \in 1 .. Len(s) : p_prio[s[i]] < p_prio[p]}
           J == {i \in 1 .. Len(s) : p_prio[s[i]] = p_prio[p]}
           lower == IF I # {} THEN Min(I) ELSE 0
           equal == IF J # {} THEN Max(J) ELSE 0
           k == Position(s, p)
<1>1. /\ h \in Heads /\ h \in Node /\ h # p /\ p \in Node
      /\ L \in Links(Node) /\ Circles(L, Node) /\ Node = Pcb \cup Heads
      /\ \A x \in Node : L.prev[L.next[x]] = x /\ colour[L.next[x]] = colour[x]
      /\ \A g \in Heads : colour[g] = g /\ g # p /\ g \in Node
  BY Sorts DEF Lists, Circles, Coloured
<1>2. Place(L, h, p) = IF lower # 0 THEN ListAdd(L, p, L.prev[s[lower]], s[lower])
                       ELSE IF equal # 0 THEN ListAdd(L, p, s[equal], L.next[s[equal]])
                       ELSE ListAdd(L, p, L.prev[h], h)
  BY DEF Place, SelectInSeq, SelectLastInSeq, ListAddTail
<1>3. k = IF lower # 0 THEN lower ELSE IF equal # 0 THEN equal + 1 ELSE Len(s) + 1
  BY DEF Position, SelectInSeq, SelectLastInSeq
<1>4. /\ s \in Seq(Pcb) /\ Visits(s, L.next, Node, h)
      /\ ToSet(s) = {x \in Pcb : colour[x] = h}
  <2>1. s \in Seq(Pcb)
    BY <1>1, ListWalk
  <2>2. Visits(s, L.next, Node, h)
    BY <1>1, ListWalk
  <2>3. ToSet(s) = {x \in Pcb : colour[x] = h}
    BY <1>1, ListWalk
  <2> QED BY <2>1, <2>2, <2>3
<1> HIDE DEF s
<1>5. /\ Len(s) \in Nat
      /\ \A i \in 1 .. Len(s) : s[i] = At(s, h, i) /\ colour[s[i]] = h
      /\ \A i : At(s, h, i) \in Node /\ colour[At(s, h, i)] = h
      /\ \A i \in 0 .. Len(s) : L.next[At(s, h, i)] = At(s, h, i + 1)
      /\ At(s, h, Len(s) + 1) = h
  <2>1. Len(s) \in Nat /\ DOMAIN s = 1 .. Len(s) /\ \A i \in 1 .. Len(s) : s[i] \in Pcb
    BY <1>4
  <2>2. \A i \in 1 .. Len(s) : s[i] \in ToSet(s)
    BY <2>1 DEF ToSet
  <2>3. \A i \in 1 .. Len(s) : s[i] = At(s, h, i) /\ colour[s[i]] = h
    BY <1>4, <2>2 DEF At
  <2>4. \A i : At(s, h, i) \in Node /\ colour[At(s, h, i)] = h
    BY <1>1, <2>1, <2>3 DEF At
  <2>5. \A i \in 0 .. Len(s) : L.next[At(s, h, i)] = At(s, h, i + 1)
    BY <1>4 DEF Visits
  <2>6. At(s, h, Len(s) + 1) = h
    BY <2>1 DEF At
  <2> QED BY <2>1, <2>3, <2>4, <2>5, <2>6
<1>6. lower \in 0 .. Len(s)
  <2>1. I \in SUBSET Nat /\ I \subseteq 1 .. Len(s)
    BY <1>5
  <2>2. Min(I) = Queues!Min(I)
    BY Zenon DEF Min, Queues!Min
  <2> HIDE DEF I
  <2>3. I # {} => Queues!Min(I) \in I
    BY <2>1, Queues!MinIsLeast
  <2>4. I = {} => lower = 0
    BY DEF lower
  <2>5. I # {} => lower \in 1 .. Len(s)
    BY <2>1, <2>2, <2>3 DEF lower
  <2> QED BY <1>5, <2>4, <2>5
<1>7. equal \in 0 .. Len(s)
  <2>1. J \in SUBSET (1 .. Len(s))
    OBVIOUS
  <2>2. Max(J) = Queues!Max(J)
    BY Zenon DEF Max, Queues!Max
  <2> HIDE DEF J
  <2>3. J # {} => Queues!Max(J) \in J
    BY <1>5, <2>1, Queues!MaxIsGreatest
  <2>4. J = {} => equal = 0
    BY DEF equal
  <2>5. J # {} => equal \in 1 .. Len(s)
    BY <2>1, <2>2, <2>3 DEF equal
  <2> QED BY <1>5, <2>4, <2>5
<1> HIDE DEF lower, equal, I, J, k
<1>8. k \in 1 .. Len(s) + 1
  BY <1>3, <1>5, <1>6, <1>7
<1>9. Place(L, h, p) = ListAdd(L, p, At(s, h, k - 1), At(s, h, k))
  <2>1. CASE lower # 0
    <3>1. lower - 1 \in 0 .. Len(s) /\ (lower - 1) + 1 = lower /\ lower \in 1 .. Len(s)
      BY <1>5, <1>6, <2>1
    <3>2. s[lower] = At(s, h, lower) /\ L.next[At(s, h, lower - 1)] = At(s, h, lower)
      BY <1>5, <3>1
    <3>3. L.prev[s[lower]] = At(s, h, lower - 1)
      BY <1>1, <1>5, <3>2
    <3> QED BY <1>2, <1>3, <2>1, <3>2, <3>3
  <2>2. CASE lower = 0 /\ equal # 0
    <3>1. equal \in 1 .. Len(s) /\ equal \in 0 .. Len(s) /\ (equal + 1) - 1 = equal
      BY <1>5, <1>7, <2>2
    <3>2. s[equal] = At(s, h, equal) /\ L.next[s[equal]] = At(s, h, equal + 1)
      BY <1>5, <3>1
    <3> QED BY <1>2, <1>3, <2>2, <3>1, <3>2
  <2>3. CASE lower = 0 /\ equal = 0
    <3>1. Len(s) \in 0 .. Len(s) /\ (Len(s) + 1) - 1 = Len(s)
      BY <1>5
    <3>2. L.next[At(s, h, Len(s))] = h /\ At(s, h, Len(s) + 1) = h
      BY <1>5, <3>1
    <3>3. L.prev[h] = At(s, h, Len(s))
      BY <1>1, <1>5, <3>2
    <3> QED BY <1>2, <1>3, <2>3, <3>1, <3>2, <3>3
  <2> QED BY <2>1, <2>2, <2>3
<1> DEFINE a == At(s, h, k - 1)
           b == At(s, h, k)
<1>10. /\ Walk(ListAdd(L, p, a, b).next, h) = InsertAt(s, k, p)
       /\ a # p /\ L.next[a] = b
  BY <1>1, <1>8, NodeAssumption, WalkAdd DEF s
<1>11. a \in Node /\ colour[a] = h
  BY <1>5
<1> HIDE DEF a, b
<1>12. ASSUME NEW g \in Heads \ {h} PROVE Walk(ListAdd(L, p, a, b).next, g) = Walk(L.next, g)
  <2>1. /\ g \in Heads /\ g \in Node /\ g # p /\ g # a
    BY <1>1, <1>11
  <2>2. a \notin ToSet(Walk(L.next, g)) /\ p \notin ToSet(Walk(L.next, g))
    <3>1. ToSet(Walk(L.next, g)) = {x \in Pcb : colour[x] = g}
      BY <2>1, ListWalk
    <3> QED BY <1>11, <2>1, <3>1
  <2>3. Walk(ListAdd(L, p, a, L.next[a]).next, g) = Walk(L.next, g)
    BY <1>1, <1>10, <1>11, <2>1, <2>2, NodeAssumption, WalkElsewhere
  <2> QED BY <1>10, <2>3
<1>13. Abstract!InsertProcQ(s, p, p_prio) = InsertAt(s, k, p)
  BY AbstractInsert DEF k
<1> QED BY <1>9, <1>10, <1>12, <1>13 DEF s, a, b


-----------------------------------------------------------------------------
(***************************************************************************)
(* The lists of PCBs as PcbSpec sees them.                                 *)
(***************************************************************************)
QueueLists(L) == [h \in Queue |-> Walk(L.next, h)]
Names(w)  == [i \in DOMAIN w |-> w[i][2]]
Kids(K)   == [p \in Pcb |-> Names(Walk(K.next, Child(p)))]

(***************************************************************************)
(* No walk from elsewhere meets a node that is alone.                      *)
(***************************************************************************)
LEMMA AloneNotMet ==
  ASSUME NEW N, IsFiniteSet(N), NEW L \in Links(N), Circles(L, N), NEW h \in N,
         NEW n \in N, n # h, Alone(L, n)
  PROVE  n \notin ToSet(Walk(L.next, h))
<1> DEFINE s == Walk(L.next, h)
<1>1. Visits(s, L.next, N, h)
  BY WalkCloses
<1> HIDE DEF s
<1>2. /\ Len(s) \in Nat /\ ToSet(s) = {s[i] : i \in 1 .. Len(s)}
      /\ At(s, h, Len(s) + 1) = h /\ \A i \in 1 .. Len(s) : At(s, h, i) = s[i]
  <2>1. s \in Seq(N \ {h})
    BY <1>1 DEF Visits
  <2>2. Len(s) \in Nat /\ DOMAIN s = 1 .. Len(s)
    BY <2>1
  <2> QED BY <2>2 DEF At, ToSet
<1>3. /\ \A i, j \in 1 .. Len(s) : s[i] = s[j] => i = j
      /\ \A i \in 0 .. Len(s) : L.next[At(s, h, i)] = At(s, h, i + 1)
  BY <1>1 DEF Visits
<1>4. ASSUME NEW i \in 1 .. Len(s), s[i] = n PROVE FALSE
  <2>1. i \in 0 .. Len(s) /\ L.next[s[i]] = n /\ At(s, h, i + 1) = n
    BY <1>2, <1>3, <1>4 DEF Alone
  <2>2. CASE i = Len(s)
    BY <1>2, <2>1, <2>2
  <2>3. CASE i # Len(s)
    <3>1. i + 1 \in 1 .. Len(s) /\ i + 1 # i
      BY <1>2, <2>3
    <3> QED BY <1>2, <1>3, <1>4, <2>1, <3>1
  <2> QED BY <2>2, <2>3
<1> QED BY <1>2, <1>4 DEF s

(***************************************************************************)
(* The calls on lists of PCBs do to the walks what PcbSpec says.           *)
(***************************************************************************)
LEMMA SimAlloc ==
  ASSUME LinkInv, AllocPcb
  PROVE  Abstract!AllocPcb /\ QueueLists(link)' = QueueLists(link) /\ Kids(kin)' = Kids(kin)
<1> DEFINE first == link.next[pcbFree_h]
           w == Walk(link.next, pcbFree_h)
<1>1. PICK colour : Lists(link, colour) /\ FreeOnes(colour)
  BY DEF LinkInv, QueuesInv
<1>2. w = <<>> <=> ListEmpty(link, pcbFree_h)
  BY <1>1, Sorts, ListWalk
<1>3. CASE ListEmpty(link, pcbFree_h)
  <2>1. ret' = NULL /\ link' = link /\ kin' = kin
    BY <1>3 DEF AllocPcb
  <2> QED BY <1>2, <1>3, <2>1 DEF Abstract!AllocPcb, QueueLists, Kids
<1>4. CASE ~ ListEmpty(link, pcbFree_h)
  <2>1. /\ first = Head(w) /\ w # <<>>
        /\ Walk(ListDel(link, first).next, pcbFree_h) = Tail(w)
        /\ \A g \in Heads \ {pcbFree_h} : Walk(ListDel(link, first).next, g) = Walk(link.next, g)
    BY <1>1, <1>4, Sorts, WalkFirstOut
  <2>2. first \in Pcb /\ colour[first] = pcbFree_h
    BY <1>1, <1>4, Sorts, FirstIsPcb
  <2>3. /\ link' = InitListHead(ListDel(link, first), first)
        /\ kin' = InitKin(kin, first) /\ ret' = first
    BY <1>4 DEF AllocPcb
  <2> HIDE DEF first, w
  <2>4. link' = ListDel(link, first)
    <3> DEFINE D == ListDel(link, first)
    <3>1. Lists(D, [colour EXCEPT ![first] = first]) /\ Alone(D, first)
      BY <1>1, <2>2, Removed
    <3>2. D \in Links(Node) /\ first \in Node
      BY <2>2, <3>1, ListFacts, Sorts
    <3> HIDE DEF D
    <3> QED BY <2>3, <3>1, <3>2, AloneStays DEF D
  <2>5. kin' = kin
    <3>1. FamilyInv /\ p_parent[first] = NULL /\ Alone(kin, Child(first))
      BY <1>1, <2>2 DEF LinkInv, FamilyInv, FreeOnes
    <3>2. Alone(kin, Sib(first))
      BY <2>2, <3>1, FamilyFacts
    <3> QED BY <2>2, <2>3, <3>1, <3>2, KinFresh
  <2>6. Walk(link'.next, pcbFree_h) = Tail(w) /\ \A h \in Queue : Walk(link'.next, h) = Walk(link.next, h)
    BY <2>1, <2>4, Sorts
  <2> QED BY <2>1, <2>3, <2>5, <2>6 DEF Abstract!AllocPcb, QueueLists, Kids, w
<1> QED BY <1>3, <1>4

LEMMA SimFree ==
  ASSUME LinkInv, NEW p \in Pcb, FreePcb(p)
  PROVE  /\ Walk(link.next, pcbFree_h)' = Append(Walk(link.next, pcbFree_h), p)
         /\ QueueLists(link)' = QueueLists(link) /\ kin' = kin
         /\ \A h \in Heads : p \notin ToSet(Walk(link.next, h))
<1>1. PICK colour : Lists(link, colour) /\ FreeOnes(colour)
  BY DEF LinkInv, QueuesInv
<1> DEFINE a == link.prev[pcbFree_h]
<1>2. /\ p \in Node /\ Alone(link, p) /\ pcbFree_h \in Node /\ pcbFree_h \in Heads
      /\ link \in Links(Node) /\ Circles(link, Node) /\ p # pcbFree_h
      /\ a \in Node /\ link.next[a] = pcbFree_h /\ colour[a] = pcbFree_h /\ a # p
  <2>1. Alone(link, p) /\ p \in Node /\ pcbFree_h \in Heads /\ p # pcbFree_h
    BY Sorts DEF FreePcb, Linked, Alone
  <2> QED BY <1>1, <2>1, ListFacts DEF Alone
<1>3. link' = ListAddTail(link, p, pcbFree_h) /\ link' = ListAdd(link, p, a, link.next[a])
  <2>1. InitListHead(link, p) = link
    BY <1>2, AloneStays
  <2> QED BY <1>2, <2>1 DEF FreePcb, ListAddTail
<1>4. kin' = kin
  <2>1. FamilyInv /\ p_parent[p] = NULL /\ ListEmpty(kin, Child(p)) /\ kin' = InitKin(kin, p)
    BY DEF LinkInv, FreePcb
  <2>2. Alone(kin, Sib(p)) /\ Alone(kin, Child(p))
    BY <2>1, FamilyFacts
  <2> QED BY <2>1, <2>2, KinFresh
<1> HIDE DEF a
<1>5. Walk(link'.next, pcbFree_h) = Append(Walk(link.next, pcbFree_h), p)
  <2>1. Walk(ListAddTail(link, p, pcbFree_h).next, pcbFree_h) = Append(Walk(link.next, pcbFree_h), p)
    BY <1>2, NodeAssumption, WalkAddTail
  <2> QED BY <1>3, <2>1
<1>6. \A h \in Heads : p \notin ToSet(Walk(link.next, h))
  <2> TAKE h \in Heads
  <2>1. h \in Node /\ p # h
    BY Sorts
  <2> QED BY <1>2, <2>1, NodeAssumption, AloneNotMet
<1>7. ASSUME NEW h \in Queue PROVE Walk(link'.next, h) = Walk(link.next, h)
  <2>1. h \in Heads /\ h \in Node /\ h # p /\ h # pcbFree_h /\ colour[h] = h
    BY <1>1, Sorts DEF Lists
  <2>2. ToSet(Walk(link.next, h)) = {x \in Pcb : colour[x] = h}
    BY <1>1, <2>1, ListWalk
  <2>3. a \notin ToSet(Walk(link.next, h)) /\ a # h
    BY <1>2, <2>1, <2>2
  <2>4. Walk(ListAdd(link, p, a, link.next[a]).next, h) = Walk(link.next, h)
    BY <1>2, <1>6, <2>1, <2>3, NodeAssumption, WalkElsewhere
  <2> QED BY <1>3, <2>4
<1> QED BY <1>4, <1>5, <1>6, <1>7 DEF QueueLists

LEMMA SimInsertProcQ ==
  ASSUME LinkInv, NEW h \in Queue, NEW p \in Pcb, InsertProcQ(h, p)
  PROVE  /\ Walk(link.next, pcbFree_h)' = Walk(link.next, pcbFree_h)
         /\ QueueLists(link)' = [g \in Queue |->
              IF g = h
              THEN Abstract!InsertProcQ(Abstract!OutProcQ(Walk(link.next, h), p), p, p_prio)
              ELSE Abstract!OutProcQ(Walk(link.next, g), p)]
<1> DEFINE D == ListDel(link, p)
<1>1. PICK colour : Lists(link, colour) /\ FreeOnes(colour)
  BY DEF LinkInv, QueuesInv
<1> DEFINE taken == [colour EXCEPT ![p] = p]
<1>2. Lists(D, taken) /\ Alone(D, p) /\ taken[p] = p
  BY <1>1, Removed, ListFacts, Sorts
<1>3. link' = Place(D, h, p)
  <2>1. Unlink(link, p) = D
    BY <1>1, Sorts, ListFacts, UnlinkIsListDel
  <2> QED BY <2>1 DEF InsertProcQ
<1>4. /\ \A g \in Heads : Walk(D.next, g) = RemoveFirst(Walk(link.next, g), p)
      /\ Walk(D.next, pcbFree_h) = Walk(link.next, pcbFree_h)
  <2>1. colour[p] # pcbFree_h
    BY <1>1 DEF FreeOnes, InsertProcQ
  <2> QED BY <1>1, <2>1, Sorts, WalkOut
<1> HIDE DEF D, taken
<1>5. /\ Walk(link'.next, h) = Abstract!InsertProcQ(Walk(D.next, h), p, p_prio)
      /\ \A g \in Heads \ {h} : Walk(link'.next, g) = Walk(D.next, g)
  BY <1>2, <1>3, WalkPlace
<1>6. Walk(link'.next, pcbFree_h) = Walk(link.next, pcbFree_h)
  BY <1>4, <1>5, Sorts
<1>7. \A g \in Queue : Walk(D.next, g) = Abstract!OutProcQ(Walk(link.next, g), p)
  BY <1>4, AbstractOut, Sorts
<1>8. \A g \in Queue :
        Walk(link'.next, g) =
          IF g = h THEN Abstract!InsertProcQ(Abstract!OutProcQ(Walk(link.next, h), p), p, p_prio)
          ELSE Abstract!OutProcQ(Walk(link.next, g), p)
  BY <1>5, <1>7, Sorts
<1> QED BY <1>6, <1>8, Zenon DEF QueueLists

LEMMA SimRemoveProcQ ==
  ASSUME LinkInv, NEW h \in Queue, RemoveProcQ(h)
  PROVE  LET q == Walk(link.next, h)
         IN  /\ ret' = IF q = <<>> THEN NULL ELSE Head(q)
             /\ QueueLists(link)' = [QueueLists(link) EXCEPT ![h] = IF @ = <<>> THEN @ ELSE Tail(@)]
             /\ Walk(link.next, pcbFree_h)' = Walk(link.next, pcbFree_h)
<1> DEFINE q == Walk(link.next, h)
           first == link.next[h]
<1>1. PICK colour : Lists(link, colour) /\ FreeOnes(colour)
  BY DEF LinkInv, QueuesInv
<1>2. q = <<>> <=> ListEmpty(link, h)
  BY <1>1, Sorts, ListWalk
<1>3. CASE ListEmpty(link, h)
  <2>1. ret' = NULL /\ link' = link
    BY <1>3 DEF RemoveProcQ
  <2> HIDE DEF q
  <2>2. [QueueLists(link) EXCEPT ![h] = IF @ = <<>> THEN @ ELSE Tail(@)] = QueueLists(link)
    BY <1>2, <1>3 DEF QueueLists, q
  <2> QED BY <1>2, <1>3, <2>1, <2>2 DEF q
<1>4. CASE ~ ListEmpty(link, h)
  <2>1. /\ first = Head(q) /\ q # <<>>
        /\ Walk(ListDel(link, first).next, h) = Tail(q)
        /\ \A g \in Heads \ {h} : Walk(ListDel(link, first).next, g) = Walk(link.next, g)
    BY <1>1, <1>4, Sorts, WalkFirstOut
  <2>2. ret' = first /\ link' = ListDel(link, first)
    BY <1>4 DEF RemoveProcQ
  <2> HIDE DEF first, q
  <2>3. /\ Walk(link'.next, h) = Tail(q)
        /\ \A g \in Heads \ {h} : Walk(link'.next, g) = Walk(link.next, g)
    BY <2>1, <2>2
  <2>4. QueueLists(link)' = [QueueLists(link) EXCEPT ![h] = IF @ = <<>> THEN @ ELSE Tail(@)]
    BY <2>1, <2>3, Sorts DEF QueueLists, q
  <2> QED BY <2>1, <2>2, <2>3, <2>4, Sorts DEF q
<1> QED BY <1>3, <1>4

LEMMA SimOutProcQ ==
  ASSUME LinkInv, NEW h \in Queue, NEW p \in Pcb, OutProcQ(h, p)
  PROVE  /\ ret' = IF p \in ToSet(Walk(link.next, h)) THEN p ELSE NULL
         /\ QueueLists(link)' = [QueueLists(link) EXCEPT ![h] = Abstract!OutProcQ(@, p)]
         /\ Walk(link.next, pcbFree_h)' = Walk(link.next, pcbFree_h)
<1>1. PICK colour : Lists(link, colour) /\ FreeOnes(colour)
  BY DEF LinkInv, QueuesInv
<1>2. \A g \in Heads : ToSet(Walk(link.next, g)) = {x \in Pcb : colour[x] = g}
  BY <1>1, ListWalk
<1>3. CASE p \in ToSet(Walk(link.next, h))
  <2>1. ret' = p /\ link' = ListDel(link, p)
    BY <1>3 DEF OutProcQ
  <2>2. colour[p] = h
    BY <1>2, <1>3, Sorts
  <2>3. \A g \in Heads : Walk(link'.next, g) = IF g = h THEN RemoveFirst(Walk(link.next, g), p)
                                               ELSE Walk(link.next, g)
    BY <1>1, <2>1, <2>2, WalkOut
  <2>4. \A g \in Queue : Walk(link'.next, g) = IF g = h THEN Abstract!OutProcQ(Walk(link.next, g), p)
                                               ELSE Walk(link.next, g)
    BY <2>3, AbstractOut, Sorts
  <2>5. QueueLists(link)' = [QueueLists(link) EXCEPT ![h] = Abstract!OutProcQ(@, p)]
    BY <2>4, Zenon DEF QueueLists
  <2> QED BY <1>3, <2>1, <2>3, <2>5, Sorts
<1>4. CASE p \notin ToSet(Walk(link.next, h))
  <2>1. ret' = NULL /\ link' = link
    BY <1>4 DEF OutProcQ
  <2>2. colour[p] # h /\ h \in Heads
    BY <1>2, <1>4, Sorts
  <2>3. RemoveFirst(Walk(link.next, h), p) = Walk(link.next, h)
    BY <1>1, <2>2, WalkOut
  <2>4. Abstract!OutProcQ(Walk(link.next, h), p) = Walk(link.next, h)
    BY <2>3, AbstractOut
  <2>5. QueueLists(link) = [QueueLists(link) EXCEPT ![h] = Abstract!OutProcQ(@, p)]
    BY <2>4 DEF QueueLists
  <2> QED BY <1>4, <2>1, <2>5
<1> QED BY <1>3, <1>4


-----------------------------------------------------------------------------
(***************************************************************************)
(* The lists of children as PcbSpec sees them: the PCBs of the p_sib.      *)
(***************************************************************************)
Sibs == {Sib(c) : c \in Pcb}

LEMMA NamesFacts ==
  ASSUME NEW w \in Seq(Sibs)
  PROVE  /\ Names(w) \in Seq(Pcb) /\ Len(Names(w)) = Len(w)
         /\ \A i \in 1 .. Len(w) : w[i] = Sib(Names(w)[i])
         /\ Names(w) = <<>> <=> w = <<>>
         /\ w # <<>> => Head(Names(w)) = Head(w)[2]
<1> DEFINE v == Names(w)
<1>1. /\ DOMAIN w = 1 .. Len(w) /\ Len(w) \in Nat /\ \A i \in 1 .. Len(w) : w[i] \in Sibs
  OBVIOUS
<1>2. \A x \in Sibs : x[2] \in Pcb /\ x = Sib(x[2])
  BY Kinds DEF Sibs
<1>3. v = [i \in 1 .. Len(w) |-> w[i][2]]
  BY <1>1 DEF Names
<1>4. \A i \in 1 .. Len(w) : v[i] \in Pcb /\ v[i] = w[i][2] /\ w[i] = Sib(v[i])
  BY <1>1, <1>2, <1>3
<1>5. v \in [1 .. Len(w) -> Pcb]
  BY <1>3, <1>4
<1> HIDE DEF v
<1>6. v \in Seq(Pcb) /\ Len(v) = Len(w)
  BY <1>1, <1>5
<1>7. v = <<>> <=> w = <<>>
  BY <1>6
<1>8. w # <<>> => Head(v) = Head(w)[2]
  <2> SUFFICES ASSUME w # <<>> PROVE Head(v) = Head(w)[2]
    OBVIOUS
  <2>1. 1 \in 1 .. Len(w) /\ Head(w) = w[1] /\ Head(v) = v[1]
    BY <1>6, <1>7
  <2> QED BY <1>4, <2>1
<1> QED BY <1>4, <1>6, <1>7, <1>8 DEF v

LEMMA NamesOne ==   \* a sequence is known by its names
  ASSUME NEW w \in Seq(Sibs), NEW s \in Seq(Pcb), Len(s) = Len(w),
         \A i \in 1 .. Len(w) : w[i] = Sib(s[i])
  PROVE  Names(w) = s
<1> DEFINE v == Names(w)
<1>1. v \in Seq(Pcb) /\ Len(v) = Len(w) /\ \A i \in 1 .. Len(w) : w[i] = Sib(v[i])
  BY NamesFacts
<1> HIDE DEF v
<1>2. \A i \in 1 .. Len(w) : v[i] \in Pcb /\ s[i] \in Pcb
  BY <1>1
<1>3. \A i \in 1 .. Len(w) : v[i] = s[i]
  BY <1>1, <1>2, Kinds
<1>4. v = s
  BY <1>1, <1>3
<1> QED BY <1>4 DEF v

LEMMA NamesAppend ==
  ASSUME NEW w \in Seq(Sibs), NEW c \in Pcb
  PROVE  Names(Append(w, Sib(c))) = Append(Names(w), c)
<1> DEFINE v == Names(w)
<1>1. v \in Seq(Pcb) /\ Len(v) = Len(w) /\ \A i \in 1 .. Len(w) : w[i] = Sib(v[i])
  BY NamesFacts
<1> HIDE DEF v
<1> DEFINE x == Append(w, Sib(c))
           s == Append(v, c)
           n == Len(w)
<1>2. /\ x \in Seq(Sibs) /\ s \in Seq(Pcb) /\ Len(x) = n + 1 /\ Len(s) = n + 1 /\ n \in Nat
      /\ \A i \in 1 .. n : x[i] = w[i] /\ s[i] = v[i]
      /\ x[n + 1] = Sib(c) /\ s[n + 1] = c
  BY <1>1 DEF Sibs
<1> HIDE DEF x, s
<1>3. \A i \in 1 .. Len(x) : x[i] = Sib(s[i])
  <2> TAKE i \in 1 .. Len(x)
  <2>1. i \in 1 .. n \/ i = n + 1
    BY <1>2
  <2> QED BY <1>1, <1>2, <2>1
<1>4. Names(x) = s
  BY <1>2, <1>3, NamesOne
<1> QED BY <1>4 DEF x, s, v

LEMMA NamesRemove ==
  ASSUME NEW w \in Seq(Sibs), NEW c \in Pcb,
         \A i, j \in 1 .. Len(w) : w[i] = w[j] => i = j
  PROVE  Names(RemoveFirst(w, Sib(c))) = RemoveFirst(Names(w), c)
<1> DEFINE v == Names(w)
<1>1. v \in Seq(Pcb) /\ Len(v) = Len(w) /\ \A i \in 1 .. Len(w) : w[i] = Sib(v[i])
  BY NamesFacts
<1> HIDE DEF v
<1>2. \A i \in 1 .. Len(w) : v[i] \in Pcb /\ (w[i] = Sib(c) <=> v[i] = c)
  BY <1>1, Kinds
<1>3. \A i, j \in 1 .. Len(v) : v[i] = v[j] => i = j
  BY <1>1
<1>4. CASE \A i \in 1 .. Len(w) : w[i] # Sib(c)
  <2>1. RemoveFirst(w, Sib(c)) = w /\ RemoveFirst(v, c) = v
    BY <1>1, <1>2, <1>4, RemoveNone
  <2> QED BY <2>1 DEF v
<1>5. ASSUME NEW k \in 1 .. Len(w), w[k] = Sib(c)
      PROVE  Names(RemoveFirst(w, Sib(c))) = RemoveFirst(v, c)
  <2> DEFINE x == RemoveFirst(w, Sib(c))
             s == RemoveFirst(v, c)
  <2>1. /\ x \in Seq(Sibs) /\ Len(x) = Len(w) - 1
        /\ \A i \in 1 .. Len(w) - 1 : x[i] = IF i < k THEN w[i] ELSE w[i + 1]
    BY <1>5, RemoveFirstPlaces
  <2>2. /\ s \in Seq(Pcb) /\ Len(s) = Len(v) - 1
        /\ \A i \in 1 .. Len(v) - 1 : s[i] = IF i < k THEN v[i] ELSE v[i + 1]
    <3>1. v[k] = c /\ k \in 1 .. Len(v)
      BY <1>1, <1>2, <1>5
    <3> QED BY <1>1, <1>3, <3>1, RemoveFirstPlaces
  <2> HIDE DEF x, s
  <2>3. \A i \in 1 .. Len(x) : x[i] = Sib(s[i])
    <3> TAKE i \in 1 .. Len(x)
    <3>1. i \in 1 .. Len(w) - 1 /\ i \in 1 .. Len(w) /\ i + 1 \in 1 .. Len(w)
      BY <2>1
    <3> QED BY <1>1, <2>1, <2>2, <3>1
  <2>4. Names(x) = s
    BY <1>1, <2>1, <2>2, <2>3, NamesOne
  <2> QED BY <2>4 DEF x, s
<1> QED BY <1>4, <1>5 DEF v

(***************************************************************************)
(* A walk along the children of a PCB.                                     *)
(***************************************************************************)
LEMMA ChildWalk ==
  ASSUME NEW K, NEW parent, Families(K, parent), NEW p \in Pcb
  PROVE  LET w == Walk(K.next, Child(p))
         IN  /\ w \in Seq(Sibs) /\ \A i, j \in 1 .. Len(w) : w[i] = w[j] => i = j
             /\ ToSet(w) = {Sib(c) : c \in {x \in Pcb : parent[x] = p}}
             /\ \A x \in ToSet(w) : Owner(parent)[x] = p
             /\ \A c \in Pcb : parent[c] = p => Sib(c) \in ToSet(w)
             /\ w = <<>> <=> ListEmpty(K, Child(p))
             /\ w # <<>> => Head(w) = K.next[Child(p)]
<1> DEFINE own == Owner(parent)
           h == Child(p)
           w == Walk(K.next, h)
           T == {Sib(c) : c \in {x \in Pcb : parent[x] = p}}
<1>1. /\ K \in Links(KinNode) /\ Circles(K, KinNode) /\ h \in KinNode
      /\ Coloured(K, KinNode, own) /\ Ring(K, KinNode, own, h)
      /\ parent \in [Pcb -> Pcb \cup {NULL}]
  BY Kinds DEF Families
<1>2. \A q \in Pcb : own[Child(q)] = q /\ own[Sib(q)] = parent[q]
  BY <1>1, OwnerOf
<1> HIDE DEF own
<1>3. ToSet(w) = {x \in KinNode : own[x] = own[h]} \ {h}
  <2> HIDE DEF h
  <2> QED BY <1>1, KinFinite, WalkMeetsItsColour
<1>4. ToSet(w) = T
  <2>1. ASSUME NEW x \in KinNode PROVE own[x] = own[h] /\ x # h <=> x \in T
    BY <1>2, Kinds
  <2>2. T \subseteq KinNode
    BY Kinds
  <2> QED BY <1>3, <2>1, <2>2
<1>5. Visits(w, K.next, KinNode, h)
  <2> HIDE DEF h
  <2> QED BY <1>1, KinFinite, WalkCloses
<1> HIDE DEF w
<1>10. (\A x \in ToSet(w) : own[x] = p) /\ \A c \in Pcb : parent[c] = p => Sib(c) \in ToSet(w)
  BY <1>2, <1>4
<1>6. /\ w \in Seq(KinNode \ {h}) /\ \A i, j \in 1 .. Len(w) : w[i] = w[j] => i = j
      /\ \A i \in 0 .. Len(w) : K.next[At(w, h, i)] = At(w, h, i + 1)
  BY <1>5 DEF Visits
<1>7. w \in Seq(Sibs)
  <2>1. \A i \in 1 .. Len(w) : w[i] \in ToSet(w)
    BY <1>6 DEF ToSet
  <2>2. T \subseteq Sibs
    BY DEF Sibs
  <2>3. \A i \in 1 .. Len(w) : w[i] \in Sibs
    BY <1>4, <2>1, <2>2
  <2> QED BY <1>6, <2>3
<1>8. K.next[h] = At(w, h, 1)
  <2>1. 0 \in 0 .. Len(w) /\ 0 + 1 = 1 /\ At(w, h, 0) = h
    BY <1>6 DEF At
  <2> QED BY <1>6, <2>1
<1>9. /\ w = <<>> <=> ListEmpty(K, h)
      /\ w # <<>> => Head(w) = K.next[h]
  <2> HIDE DEF h
  <2>1. CASE w = <<>>
    BY <1>8, <2>1 DEF At, ListEmpty
  <2>2. CASE w # <<>>
    <3>1. 1 \in 1 .. Len(w) /\ Head(w) = w[1] /\ w[1] \in KinNode \ {h}
      BY <1>6, <2>2
    <3>2. K.next[h] = w[1]
      BY <1>8, <3>1 DEF At
    <3> QED BY <2>2, <3>1, <3>2 DEF ListEmpty
  <2> QED BY <2>1, <2>2
<1> QED BY <1>4, <1>6, <1>7, <1>9, <1>10 DEF w, own

(***************************************************************************)
(* list_del of the p_sib of c takes c out of every list of children.       *)
(***************************************************************************)
LEMMA KidsOut ==
  ASSUME NEW K, NEW parent, Families(K, parent), NEW c \in Pcb
  PROVE  Kids(ListDel(K, Sib(c))) = [p \in Pcb |-> RemoveFirst(Kids(K)[p], c)]
<1> DEFINE D == ListDel(K, Sib(c))
<1>1. K \in Links(KinNode) /\ Circles(K, KinNode) /\ Sib(c) \in KinNode
  BY Kinds DEF Families
<1>2. ASSUME NEW p \in Pcb
      PROVE  Names(Walk(D.next, Child(p))) = RemoveFirst(Names(Walk(K.next, Child(p))), c)
  <2>1. Child(p) \in KinNode /\ Child(p) # Sib(c)
    BY Kinds
  <2>2. Walk(D.next, Child(p)) = RemoveFirst(Walk(K.next, Child(p)), Sib(c))
    BY <1>1, <2>1, KinFinite, WalkDel
  <2> DEFINE w == Walk(K.next, Child(p))
  <2>3. w \in Seq(Sibs) /\ \A i, j \in 1 .. Len(w) : w[i] = w[j] => i = j
    BY ChildWalk
  <2> HIDE DEF w
  <2>4. Names(RemoveFirst(w, Sib(c))) = RemoveFirst(Names(w), c)
    BY <2>3, NamesRemove
  <2> QED BY <2>2, <2>4 DEF w
<1> HIDE DEF D
<1>3. Kids(D) = [p \in Pcb |-> RemoveFirst(Kids(K)[p], c)]
  BY <1>2, Zenon DEF Kids
<1> QED BY <1>3 DEF D

(***************************************************************************)
(* list_add_tail of the p_sib of c to the children of q.                   *)
(***************************************************************************)
LEMMA KidsAdded ==
  ASSUME NEW K, NEW parent, Families(K, parent), NEW c \in Pcb, Alone(K, Sib(c)), NEW q \in Pcb
  PROVE  Kids(ListAddTail(K, Sib(c), Child(q))) = [Kids(K) EXCEPT ![q] = Append(@, c)]
<1> DEFINE s == Sib(c)
           h == Child(q)
           a == K.prev[h]
           A == ListAddTail(K, s, h)
<1>1. /\ K \in Links(KinNode) /\ Circles(K, KinNode) /\ s \in KinNode /\ h \in KinNode
      /\ h # s /\ Alone(K, s)
      /\ parent \in [Pcb -> Pcb \cup {NULL}] /\ Coloured(K, KinNode, Owner(parent))
  BY Kinds DEF Families
<1>2. Owner(parent)[h] = q /\ \A p \in Pcb : Owner(parent)[Child(p)] = p /\ Owner(parent)[Sib(p)] = parent[p]
  BY <1>1, OwnerOf
<1>3. a \in KinNode /\ K.next[a] = h /\ a # s /\ Owner(parent)[a] = q
  <2> HIDE DEF s, h
  <2> QED BY <1>1, <1>2 DEF Links, Circles, Coloured, Alone
<1>4. Walk(A.next, h) = Append(Walk(K.next, h), s)
  <2> HIDE DEF s, h
  <2> QED BY <1>1, KinFinite, WalkAddTail
<1>5. ASSUME NEW p \in Pcb, p # q PROVE Walk(A.next, Child(p)) = Walk(K.next, Child(p))
  <2> DEFINE g == Child(p)
  <2>1. g \in KinNode /\ g # s /\ g # h /\ Owner(parent)[g] = p
    BY <1>2, <1>5, Kinds
  <2>2. s \notin ToSet(Walk(K.next, g))
    <3> HIDE DEF s, g
    <3> QED BY <1>1, <2>1, KinFinite, AloneNotMet
  <2>3. a # g /\ a \notin ToSet(Walk(K.next, g))
    <3>1. a # g
      BY <1>3, <1>5, <2>1
    <3>3. \A x \in ToSet(Walk(K.next, g)) : Owner(parent)[x] = p
      BY ChildWalk
    <3> QED BY <1>3, <1>5, <3>1, <3>3
  <2> HIDE DEF s, g, a, h
  <2>4. Walk(ListAdd(K, s, a, K.next[a]).next, g) = Walk(K.next, g)
    BY <1>1, <1>3, <2>1, <2>2, <2>3, KinFinite, WalkElsewhere
  <2>5. A = ListAdd(K, s, a, K.next[a])
    BY <1>3 DEF ListAddTail, a
  <2> QED BY <2>4, <2>5 DEF g
<1>6. Names(Append(Walk(K.next, h), s)) = Append(Names(Walk(K.next, h)), c)
  <2> DEFINE w == Walk(K.next, h)
  <2>1. w \in Seq(Sibs)
    BY ChildWalk
  <2> HIDE DEF w
  <2>2. Names(Append(w, Sib(c))) = Append(Names(w), c)
    BY <2>1, NamesAppend
  <2> QED BY <2>2 DEF w
<1>7. \A p \in Pcb : Names(Walk(A.next, Child(p))) =
                       IF p = q THEN Append(Names(Walk(K.next, Child(p))), c)
                       ELSE Names(Walk(K.next, Child(p)))
  BY <1>4, <1>5, <1>6
<1> HIDE DEF A
<1>8. Kids(A) = [Kids(K) EXCEPT ![q] = Append(@, c)]
  BY <1>7, Zenon DEF Kids
<1> QED BY <1>8 DEF A, s, h


-----------------------------------------------------------------------------
(***************************************************************************)
(* What PcbSpec reads, in terms of the pointers.                           *)
(***************************************************************************)
LEMMA InUseIs == LinkInv => Abstract!InUse = Pcb \ free
<1> SUFFICES ASSUME LinkInv PROVE Abstract!InUse = Pcb \ free
  OBVIOUS
<1>1. PICK colour : Lists(link, colour) /\ FreeOnes(colour)
  BY DEF LinkInv, QueuesInv
<1>2. ToSet(Walk(link.next, pcbFree_h)) = {x \in Pcb : colour[x] = pcbFree_h}
  BY <1>1, Sorts, ListWalk
<1>3. Abstract!ToSet(Walk(link.next, pcbFree_h)) = ToSet(Walk(link.next, pcbFree_h))
  BY DEF Abstract!ToSet, ToSet
<1> QED BY <1>1, <1>2, <1>3 DEF Abstract!InUse, FreeOnes

LEMMA KidsAre ==
  ASSUME LinkInv, NEW p \in Pcb
  PROVE  /\ Kids(kin)[p] = Names(Walk(kin.next, Child(p)))
         /\ Kids(kin)[p] \in Seq(Pcb)
         /\ \A i \in 1 .. Len(Kids(kin)[p]) : p_parent[Kids(kin)[p][i]] = p
         /\ \A c \in Pcb : p_parent[c] = p => c \in ToSet(Kids(kin)[p])
         /\ Kids(kin)[p] = <<>> <=> ListEmpty(kin, Child(p))
         /\ Kids(kin)[p] # <<>> => Head(Kids(kin)[p]) = kin.next[Child(p)][2]
<1> DEFINE w == Walk(kin.next, Child(p))
           v == Names(w)
<1>1. /\ w \in Seq(Sibs) /\ ToSet(w) = {Sib(c) : c \in {x \in Pcb : p_parent[x] = p}}
      /\ w = <<>> <=> ListEmpty(kin, Child(p))
      /\ w # <<>> => Head(w) = kin.next[Child(p)]
  <2>1. Families(kin, p_parent)
    BY DEF LinkInv, FamilyInv
  <2>2. /\ w \in Seq(Sibs) /\ \A i, j \in 1 .. Len(w) : w[i] = w[j] => i = j
        /\ ToSet(w) = {Sib(c) : c \in {x \in Pcb : p_parent[x] = p}}
        /\ \A x \in ToSet(w) : Owner(p_parent)[x] = p
        /\ \A c \in Pcb : p_parent[c] = p => Sib(c) \in ToSet(w)
        /\ w = <<>> <=> ListEmpty(kin, Child(p))
        /\ w # <<>> => Head(w) = kin.next[Child(p)]
    BY <2>1, ChildWalk
  <2> HIDE DEF w
  <2> QED BY <2>2
<1>2. Kids(kin)[p] = v
  BY DEF Kids
<1> HIDE DEF w
<1>3. /\ v \in Seq(Pcb) /\ Len(v) = Len(w) /\ \A i \in 1 .. Len(w) : w[i] = Sib(v[i])
      /\ v = <<>> <=> w = <<>>
      /\ w # <<>> => Head(v) = Head(w)[2]
  BY <1>1, NamesFacts
<1> HIDE DEF v
<1>4. /\ Len(w) \in Nat /\ DOMAIN w = 1 .. Len(w) /\ DOMAIN v = 1 .. Len(v)
      /\ \A i \in 1 .. Len(w) : v[i] \in Pcb
  BY <1>1, <1>3
<1>5. \A i \in 1 .. Len(v) : p_parent[v[i]] = p
  <2> TAKE i \in 1 .. Len(v)
  <2>1. w[i] \in ToSet(w) /\ w[i] = Sib(v[i]) /\ v[i] \in Pcb
    BY <1>3, <1>4 DEF ToSet
  <2> QED BY <1>1, <2>1, Kinds
<1>6. \A c \in Pcb : p_parent[c] = p => c \in ToSet(v)
  <2> SUFFICES ASSUME NEW c \in Pcb, p_parent[c] = p PROVE c \in ToSet(v)
    OBVIOUS
  <2>1. Sib(c) \in ToSet(w)
    BY <1>1
  <2>2. PICK i \in 1 .. Len(w) : w[i] = Sib(c)
    BY <1>4, <2>1 DEF ToSet
  <2>3. v[i] = c
    BY <1>3, <1>4, <2>2, Kinds
  <2> QED BY <1>3, <1>4, <2>3 DEF ToSet
<1> QED BY <1>1, <1>2, <1>3, <1>5, <1>6 DEF v, w

LEMMA ChildrenIs == [p \in Pcb |-> LET w == Walk(kin.next, Child(p))
                                   IN  [i \in DOMAIN w |-> w[i][2]]] = Kids(kin)
  BY DEF Kids, Names

LEMMA ParentsIs ==
  ASSUME LinkInv, NEW p \in Pcb
  PROVE  Abstract!Parents(p) = {x \in Pcb : p_parent[p] = x}
<1>1. Abstract!Parents(p) = {x \in Pcb : p \in ToSet(Kids(kin)[x])}
  BY ChildrenIs DEF Abstract!Parents, Abstract!ToSet, ToSet
<1>2. ASSUME NEW x \in Pcb PROVE p \in ToSet(Kids(kin)[x]) <=> p_parent[p] = x
  <2> DEFINE v == Kids(kin)[x]
  <2>1. /\ v \in Seq(Pcb) /\ \A i \in 1 .. Len(v) : p_parent[v[i]] = x
        /\ p_parent[p] = x => p \in ToSet(v)
    BY KidsAre
  <2> HIDE DEF v
  <2>2. DOMAIN v = 1 .. Len(v)
    BY <2>1
  <2>3. p \in ToSet(v) <=> p_parent[p] = x
    BY <2>1, <2>2 DEF ToSet
  <2> QED BY <2>3 DEF v
<1> QED BY <1>1, <1>2

LEMMA LeaveIs ==
  ASSUME NEW p \in Pcb
  PROVE  Abstract!Leave(p) = [x \in Pcb |-> RemoveFirst(Kids(kin)[x], p)]
<1>1. Abstract!Leave(p) = [x \in Pcb |-> Abstract!OutProcQ(Kids(kin)[x], p)]
  BY ChildrenIs DEF Abstract!Leave
<1> QED BY <1>1, AbstractOut

LEMMA InListIffParent ==
  ASSUME LinkInv, NEW p \in Pcb
  PROVE  /\ p_parent[p] \in Pcb \cup {NULL} /\ NULL \notin Pcb
         /\ (p_parent[p] # NULL /\ InParentsList(p)) <=> p_parent[p] \in Pcb
<1>1. p_parent[p] \in Pcb \cup {NULL} /\ NULL \notin Pcb
  BY NodeAssumption DEF LinkInv, FamilyInv, Families, Node
<1>2. ASSUME p_parent[p] \in Pcb PROVE InParentsList(p)
  <2>1. Families(kin, p_parent)
    BY DEF LinkInv, FamilyInv
  <2>2. Sib(p) \in ToSet(Walk(kin.next, Child(p_parent[p])))
    BY <1>2, <2>1, ChildWalk
  <2> QED BY <2>2 DEF InParentsList
<1> QED BY <1>1, <1>2

(***************************************************************************)
(* Nothing changes in the lists of children for a PCB without a parent.    *)
(***************************************************************************)
LEMMA NoParentNoChange ==
  ASSUME LinkInv, NEW p \in Pcb, p_parent[p] = NULL
  PROVE  [x \in Pcb |-> RemoveFirst(Kids(kin)[x], p)] = Kids(kin)
<1>1. ASSUME NEW x \in Pcb PROVE RemoveFirst(Kids(kin)[x], p) = Kids(kin)[x]
  <2>1. \A i \in 1 .. Len(Kids(kin)[x]) : p_parent[Kids(kin)[x][i]] = x
    BY KidsAre
  <2>2. x # NULL
    BY InListIffParent
  <2> QED BY <2>1, <2>2, RemoveNone
<1>2. Kids(kin) = [x \in Pcb |-> Kids(kin)[x]]
  BY DEF Kids
<1> QED BY <1>1, <1>2

-----------------------------------------------------------------------------
(***************************************************************************)
(* The calls on trees are those of PcbSpec.                                *)
(***************************************************************************)
LEMMA SimOutChild ==
  ASSUME LinkInv, NEW p \in Pcb, OutChild(p)
  PROVE  Abstract!OutChild(p)
<1>1. p \in Abstract!InUse
  BY InUseIs DEF OutChild
<1>2. CASE p_parent[p] \in Pcb
  <2>1. ret' = p /\ kin' = ListDel(kin, Sib(p))
    BY <1>2, InListIffParent DEF OutChild
  <2>2. Families(kin, p_parent)
    BY DEF LinkInv, FamilyInv
  <2>3. Kids(kin') = [x \in Pcb |-> RemoveFirst(Kids(kin)[x], p)]
    BY <2>1, <2>2, KidsOut
  <2>4. Abstract!Parents(p) # {}
    BY <1>2, ParentsIs
  <2> QED BY <1>1, <2>1, <2>3, <2>4, LeaveIs DEF Abstract!OutChild, Kids, Names
<1>3. CASE p_parent[p] = NULL
  <2>1. ret' = NULL /\ kin' = kin
    BY <1>3, InListIffParent DEF OutChild, tree
  <2>2. Abstract!Parents(p) = {}
    BY <1>3, ParentsIs, InListIffParent
  <2>3. Kids(kin') = Abstract!Leave(p)
    BY <1>3, <2>1, LeaveIs, NoParentNoChange
  <2> QED BY <1>1, <2>1, <2>2, <2>3 DEF Abstract!OutChild, Kids, Names
<1> QED BY <1>2, <1>3, InListIffParent

LEMMA SimInsertChild ==
  ASSUME LinkInv, NEW prnt \in Pcb, NEW p \in Pcb, InsertChild(prnt, p)
  PROVE  Abstract!InsertChild(prnt, p)
<1>1. p \in Abstract!InUse /\ prnt \in Abstract!InUse /\ ret' = NULL
  BY InUseIs DEF InsertChild
<1> DEFINE D == ListDel(kin, Sib(p))
           out == IF p_parent[p] # NULL /\ InParentsList(p) THEN D ELSE kin
<1>2. Families(kin, p_parent) /\ kin \in Links(KinNode) /\ Circles(kin, KinNode) /\ Sib(p) \in KinNode
  BY Kinds DEF LinkInv, FamilyInv, Families
<1>3. Families(D, [p_parent EXCEPT ![p] = NULL]) /\ Alone(D, Sib(p))
  BY <1>2, Orphaned
<1>4. D \in Links(KinNode) /\ Circles(D, KinNode)
  BY <1>3 DEF Families
<1>5. Kids(D) = Abstract!Leave(p)
  BY <1>2, LeaveIs, KidsOut
<1> HIDE DEF D
<1>6. Unlink(out, Sib(p)) = D
  <2>1. Unlink(D, Sib(p)) = D
    BY <1>2, <1>3, <1>4, AloneStays, UnlinkIsListDel
  <2>2. Unlink(kin, Sib(p)) = D
    BY <1>2, UnlinkIsListDel DEF D
  <2> QED BY <2>1, <2>2
<1>7. kin' = ListAddTail(D, Sib(p), Child(prnt))
  <2> HIDE DEF out
  <2>1. kin' = ListAddTail(Unlink(out, Sib(p)), Sib(p), Child(prnt))
    BY DEF InsertChild, out, D
  <2> QED BY <1>6, <2>1
<1>8. Kids(kin') = [Abstract!Leave(p) EXCEPT ![prnt] = Append(@, p)]
  <2>1. Kids(ListAddTail(D, Sib(p), Child(prnt))) = [Kids(D) EXCEPT ![prnt] = Append(@, p)]
    BY <1>3, KidsAdded
  <2> QED BY <1>5, <1>7, <2>1
<1> QED BY <1>1, <1>8 DEF Abstract!InsertChild, Kids, Names

LEMMA SimRemoveChild ==
  ASSUME LinkInv, NEW p \in Pcb, RemoveChild(p)
  PROVE  Abstract!RemoveChild(p)
<1>1. p \in Abstract!InUse
  BY InUseIs DEF RemoveChild
<1> DEFINE v == Kids(kin)[p]
           first == kin.next[Child(p)]
<1>2. /\ v = <<>> <=> ListEmpty(kin, Child(p))
      /\ v # <<>> => Head(v) = first[2]
      /\ v = Names(Walk(kin.next, Child(p))) /\ v \in Seq(Pcb)
      /\ \A i \in 1 .. Len(v) : p_parent[v[i]] = p
  BY KidsAre
<1>3. Families(kin, p_parent)
  BY DEF LinkInv, FamilyInv
<1>4. CASE ListEmpty(kin, Child(p))
  <2>1. ret' = NULL /\ kin' = kin
    BY <1>4 DEF RemoveChild, tree
  <2>2. Kids(kin') = [Kids(kin) EXCEPT ![p] = IF @ = <<>> THEN @ ELSE Tail(@)]
    BY <1>2, <1>4, <2>1 DEF Kids
  <2>3. ret' = IF v = <<>> THEN NULL ELSE Head(v)
    BY <1>2, <1>4, <2>1
  <2> QED BY <1>1, <2>2, <2>3 DEF Abstract!RemoveChild, Kids, Names
<1>5. CASE ~ ListEmpty(kin, Child(p))
  <2>1. ret' = first[2] /\ kin' = ListDel(kin, first)
    BY <1>5 DEF RemoveChild
  <2> DEFINE w == Walk(kin.next, Child(p))
             c == Head(v)
  <2>2. /\ w \in Seq(Sibs) /\ \A i, j \in 1 .. Len(w) : w[i] = w[j] => i = j
        /\ w # <<>> /\ Head(w) = first
    BY <1>3, <1>5, ChildWalk
  <2> HIDE DEF w, v, first
  <2>3. /\ Len(v) = Len(w) /\ \A i \in 1 .. Len(w) : w[i] = Sib(v[i])
    BY <1>2, <2>2, NamesFacts DEF w
  <2>4. 1 \in 1 .. Len(v) /\ c = v[1] /\ c \in Pcb /\ first = Sib(c) /\ p_parent[c] = p
    <3>1. 1 \in 1 .. Len(w) /\ Head(w) = w[1]
      BY <2>2
    <3>2. 1 \in 1 .. Len(v) /\ Head(v) = v[1] /\ v[1] \in Pcb
      BY <1>2, <1>5, <2>3, <3>1
    <3> QED BY <1>2, <2>2, <2>3, <3>1, <3>2
  <2>5. \A i, j \in 1 .. Len(v) : v[i] = v[j] => i = j
    BY <2>2, <2>3
  <2> HIDE DEF c
  <2>6. Kids(kin') = [x \in Pcb |-> RemoveFirst(Kids(kin)[x], c)]
    BY <1>3, <2>1, <2>4, KidsOut
  <2>7. RemoveFirst(v, c) = Tail(v)
    BY <1>2, <1>5, <2>5, RemoveHead DEF c
  <2>8. ASSUME NEW x \in Pcb, x # p PROVE RemoveFirst(Kids(kin)[x], c) = Kids(kin)[x]
    <3>1. \A i \in 1 .. Len(Kids(kin)[x]) : p_parent[Kids(kin)[x][i]] = x
      BY KidsAre
    <3> QED BY <2>4, <2>8, <3>1, RemoveNone
  <2>9. Kids(kin) = [x \in Pcb |-> Kids(kin)[x]]
    BY DEF Kids
  <2>10. Kids(kin') = [Kids(kin) EXCEPT ![p] = IF @ = <<>> THEN @ ELSE Tail(@)]
    BY <1>2, <1>5, <2>6, <2>7, <2>8, <2>9 DEF v
  <2>11. ret' = IF v = <<>> THEN NULL ELSE Head(v)
    BY <1>2, <1>5, <2>1
  <2> QED BY <1>1, <2>10, <2>11 DEF Abstract!RemoveChild, Kids, Names, v
<1> QED BY <1>4, <1>5

-----------------------------------------------------------------------------
(***************************************************************************)
(* The table of Init is the free list of PcbSpec, in some order.           *)
(***************************************************************************)
LEMMA SimInit == Init => Abstract!Init
<1> SUFFICES ASSUME Init PROVE Abstract!Init
  OBVIOUS
<1> DEFINE n == Cardinality(Pcb)
<1>1. PICK table \in [1 .. n -> Pcb] : TableLinked(table)
  BY InitLinks
<1>2. /\ n \in Nat \ {0} /\ table \in Seq(Pcb) /\ Len(table) = n /\ ToSet(table) = Pcb
      /\ \A i, j \in 1 .. n : table[i] = table[j] => i = j
      /\ link \in Links(Node) /\ link.next[pcbFree_h] = table[1]
      /\ \A q \in Queue : link.next[q] = q
      /\ \A i \in 1 .. n : link.next[table[i]] = IF i = n THEN pcbFree_h ELSE table[i + 1]
  BY <1>1 DEF TableLinked
<1> HIDE DEF n
<1>3. /\ kin = [next |-> [x \in KinNode |-> x], prev |-> [x \in KinNode |-> x]] /\ ret = NULL
  BY DEF Init
<1>4. /\ Circles(link, Node) /\ \A h \in Heads : h \in Node
      /\ Pcb \subseteq Node \ {pcbFree_h}
  <2>1. PICK colour : Lists(link, colour)
    BY LinkInit DEF LinkInv, QueuesInv
  <2> QED BY <2>1, ListFacts, Sorts DEF Heads
<1>5. Walk(link.next, pcbFree_h) = table
  <2>1. table \in Seq(Node \ {pcbFree_h})
    BY <1>2, <1>4
  <2>2. ASSUME NEW i \in 0 .. n
        PROVE  link.next[At(table, pcbFree_h, i)] = At(table, pcbFree_h, i + 1)
    <3>1. CASE i = 0
      BY <1>2, <3>1 DEF At
    <3>2. CASE i # 0
      <4>1. i \in 1 .. n /\ (i = n <=> i + 1 \notin 1 .. n)
        BY <1>2, <3>2
      <4> QED BY <1>2, <4>1 DEF At
    <3> QED BY <3>1, <3>2
  <2>3. Visits(table, link.next, Node, pcbFree_h)
    BY <1>2, <2>1, <2>2 DEF Visits
  <2> QED BY <1>2, <1>4, <2>3, NodeAssumption, Sorts, WalkIs
<1>6. ASSUME NEW h \in Queue PROVE Walk(link.next, h) = <<>>
  <2>1. Visits(<<>>, link.next, Node, h)
    BY <1>2 DEF Visits, At
  <2> QED BY <1>2, <1>4, <2>1, NodeAssumption, Sorts, WalkIs
<1>7. ASSUME NEW p \in Pcb PROVE Kids(kin)[p] = <<>>
  <2>1. kin.next[Child(p)] = Child(p)
    BY <1>3, Kinds
  <2> QED BY <2>1, LinkInit, KidsAre DEF ListEmpty
<1>8. Kids(kin) = [p \in Pcb |-> <<>>]
  BY <1>7 DEF Kids
<1>9. Abstract!ToSet(table) = Pcb
  BY <1>2 DEF Abstract!ToSet, ToSet
<1>10. [h \in Queue |-> Walk(link.next, h)] = [h \in Queue |-> <<>>]
  BY <1>6
<1>11. Abstract!Cardinality(Pcb) = n
  BY Zenon DEF Abstract!Cardinality, Abstract!IsFiniteSet, Cardinality, IsFiniteSet, n
<1> QED BY <1>3, <1>5, <1>8, <1>9, <1>10, <1>11 DEF Abstract!Init, Kids, Names

(***************************************************************************)
(* Every step is one of PcbSpec.                                           *)
(***************************************************************************)
LEMMA SimStep == LinkInv /\ [Next]_vars => [Abstract!Next]_Abstract!vars
<1> SUFFICES ASSUME LinkInv, [Next]_vars PROVE [Abstract!Next]_Abstract!vars
  OBVIOUS
<1>1. CASE AllocPcb
  BY <1>1, SimAlloc DEF Abstract!Next, QueueLists, Kids, Names
<1>2. ASSUME NEW p \in Pcb, FreePcb(p) PROVE Abstract!Next
  <2>1. /\ Walk(link.next, pcbFree_h)' = Append(Walk(link.next, pcbFree_h), p)
        /\ QueueLists(link)' = QueueLists(link) /\ kin' = kin
        /\ \A h \in Heads : p \notin ToSet(Walk(link.next, h))
    BY <1>2, SimFree
  <2>2. p \in Abstract!InUse /\ ret' = NULL /\ ListEmpty(kin, Child(p)) /\ p_parent[p] = NULL
    BY <1>2, InUseIs DEF FreePcb
  <2>3. Kids(kin)[p] = <<>> /\ Abstract!Parents(p) = {}
    BY <2>2, KidsAre, ParentsIs, InListIffParent
  <2>4. ~ Abstract!Queued(p)
    BY <2>1, Sorts DEF Abstract!Queued, Abstract!ToSet, ToSet
  <2>5. Abstract!FreePcb(p)
    BY <2>1, <2>2, <2>3, <2>4 DEF Abstract!FreePcb, Kids, Names
  <2> QED BY <2>1, <2>5 DEF Abstract!Next, QueueLists, Kids
<1>3. ASSUME NEW p \in Pcb, OutChild(p) PROVE Abstract!Next
  <2>1. Abstract!OutChild(p) /\ link' = link
    BY <1>3, SimOutChild DEF OutChild
  <2> QED BY <2>1 DEF Abstract!Next
<1>4. ASSUME NEW p \in Pcb, RemoveChild(p) PROVE Abstract!Next
  <2>1. Abstract!RemoveChild(p) /\ link' = link
    BY <1>4, SimRemoveChild DEF RemoveChild
  <2> QED BY <2>1 DEF Abstract!Next
<1>5. ASSUME NEW prnt \in Pcb, NEW p \in Pcb, InsertChild(prnt, p) PROVE Abstract!Next
  <2>1. Abstract!InsertChild(prnt, p) /\ link' = link
    BY <1>5, SimInsertChild DEF InsertChild
  <2> QED BY <2>1 DEF Abstract!Next
<1>6. ASSUME NEW h \in Queue, NEW p \in Pcb, InsertProcQ(h, p) PROVE Abstract!Next
  <2>1. p \in Abstract!InUse /\ ret' = NULL /\ kin' = kin
    BY <1>6, InUseIs DEF InsertProcQ
  <2>2. Abstract!PutProcQ(h, p) /\ Walk(link.next, pcbFree_h)' = Walk(link.next, pcbFree_h)
    BY <1>6, <2>1, SimInsertProcQ DEF Abstract!PutProcQ, QueueLists
  <2> QED BY <2>1, <2>2 DEF Abstract!Next
<1>7. ASSUME NEW h \in Queue, NEW p \in Pcb, OutProcQ(h, p) PROVE Abstract!Next
  <2>1. p \in Abstract!InUse /\ kin' = kin
    BY <1>7, InUseIs DEF OutProcQ
  <2>2. Abstract!TakeProcQ(h, p) /\ Walk(link.next, pcbFree_h)' = Walk(link.next, pcbFree_h)
    BY <1>7, <2>1, SimOutProcQ DEF Abstract!TakeProcQ, QueueLists, Abstract!ToSet, ToSet
  <2> QED BY <2>1, <2>2 DEF Abstract!Next
<1>8. ASSUME NEW h \in Queue, RemoveProcQ(h) PROVE Abstract!Next
  <2>1. kin' = kin
    BY <1>8 DEF RemoveProcQ
  <2>2. Abstract!RemoveProcQ(h) /\ Walk(link.next, pcbFree_h)' = Walk(link.next, pcbFree_h)
    BY <1>8, SimRemoveProcQ DEF Abstract!RemoveProcQ, QueueLists
  <2> QED BY <2>1, <2>2 DEF Abstract!Next
<1>9. CASE UNCHANGED vars
  BY <1>9 DEF vars, Abstract!vars
<1> QED BY <1>1, <1>2, <1>3, <1>4, <1>5, <1>6, <1>7, <1>8, <1>9 DEF Next

(***************************************************************************)
(* The pointers of pcb.c and listx.h implement the queues and the families *)
(* of PcbSpec, for any number of PCBs and of queues: no call loses or      *)
(* reorders a PCB, and every call returns the right one.                   *)
(***************************************************************************)
THEOREM PcbLinksImplementsItsSpec == Spec => ImplementsPcbSpec
<1>1. LinkInv /\ [Next]_vars => [Abstract!Next]_Abstract!vars
  BY SimStep
<1> QED BY <1>1, SimInit, LinksCorrect, PTL DEF Spec, ImplementsPcbSpec, Abstract!Spec
=============================================================================
