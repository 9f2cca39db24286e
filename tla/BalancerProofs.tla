------------------------- MODULE BalancerProofs -------------------------
(***************************************************************************)
(* Proofs about Balancer, for any packets, VIPs, rings, sizes and rates.   *)
(*                                                                         *)
(* Four inductive invariants. SendInv: the connection table is a cache in  *)
(* step with its index, and what an entry holds for a flow, like what was  *)
(* sent, is a real its VIP has had. RateInv: the entries added within a    *)
(* second belong to at most two quanta of the rate counter, each with no   *)
(* more than the rate. PinInv: the entry of a flow that must keep its real *)
(* is preceded in the list only by flows that were used since, so pruning  *)
(* spares it. PortInv: packets of a service that hashes the destination    *)
(* port only find no entry.                                                *)
(***************************************************************************)
EXTENDS Balancer, FiniteSetTheorems, TLAPS

-----------------------------------------------------------------------------
(* The cache. *)

\* Nodes with any key and value from a set of them.
AreNodes(N) == \A x \in N : x = Node(x.key, x.value)

\* A cache whose list is made of nodes of N and agrees with its index.
CacheOf(N, c) ==
    /\ c = [keys_ |-> c.keys_, cache_ |-> c.cache_]
    /\ c.keys_ \in Seq(N)
    /\ InStep(c)

KeysIn(s) == {s[i].key : i \in DOMAIN s}

\* No key is twice in a list.
Distinct(s) == \A i, j \in DOMAIN s : s[i].key = s[j].key => i = j

LEMMA CacheIs ==
    ASSUME NEW N, NEW s \in Seq(N), NEW S, S = KeysIn(s), Distinct(s)
    PROVE  CacheOf(N, [keys_ |-> s, cache_ |-> S])
BY DEF CacheOf, InStep, KeysIn, Distinct

LEMMA EmptyIs ==
    ASSUME NEW N
    PROVE  CacheOf(N, EmptyCache)
BY DEF CacheOf, InStep, EmptyCache

\* The iterator of a key leads to its node.
LEMMA NodeOfProps ==
    ASSUME NEW N, NEW c, CacheOf(N, c), NEW k, Contains(c, k)
    PROVE  /\ NodeOf(c, k) \in DOMAIN c.keys_
           /\ c.keys_[NodeOf(c, k)].key = k
           /\ \A i \in DOMAIN c.keys_ : c.keys_[i].key = k => i = NodeOf(c, k)
<1>1. \E i \in DOMAIN c.keys_ : c.keys_[i].key = k
  BY DEF CacheOf, InStep, Contains
<1>2. NodeOf(c, k) \in DOMAIN c.keys_ /\ c.keys_[NodeOf(c, k)].key = k
  BY <1>1 DEF NodeOf
<1> QED BY <1>2 DEF CacheOf, InStep

\* What a lookup gives is a node of N.
LEMMA ValueProps ==
    ASSUME NEW N, AreNodes(N), NEW c, CacheOf(N, c), NEW k, Contains(c, k)
    PROVE  Node(k, ValueIn(c, k)) \in N
<1> DEFINE x == c.keys_[NodeOf(c, k)]
<1>1. x.key = k /\ NodeOf(c, k) \in DOMAIN c.keys_
  BY NodeOfProps
<1>2. c.keys_ \in Seq(N)
  BY DEF CacheOf
<1>3. x \in N
  BY <1>1, <1>2
<1>4. x = Node(x.key, x.value)
  BY <1>3 DEF AreNodes
<1> QED BY <1>1, <1>3, <1>4 DEF ValueIn

\* A splice permutes the list.
LEMMA SpliceProps ==
    ASSUME NEW N, NEW s \in Seq(N), NEW i \in DOMAIN s
    PROVE  /\ Splice(s, i) \in Seq(N) /\ DOMAIN Splice(s, i) = DOMAIN s
           /\ KeysIn(Splice(s, i)) = KeysIn(s)
           /\ Distinct(s) => Distinct(Splice(s, i))
<1> DEFINE t == Splice(s, i)
           From(j) == IF j = 1 THEN i ELSE IF j <= i THEN j - 1 ELSE j
           n == Len(s)
<1>1. n \in Nat /\ DOMAIN s = 1..n /\ i \in 1..n /\ \A j \in 1..n : s[j] \in N
  BY DEF n
<1> HIDE DEF n
<1>2. \A j \in 1..n : From(j) \in 1..n
  BY <1>1
<1>3. DOMAIN t = 1..n /\ \A j \in 1..n : t[j] = s[From(j)]
  BY <1>1 DEF Splice
<1>4. \A j, k \in 1..n : From(j) = From(k) => j = k
  BY <1>1
<1>5. \A j \in 1..n : \E k \in 1..n : From(k) = j
  <2> TAKE j \in 1..n
  <2>1. CASE j = i
    BY <1>1, <2>1
  <2>2. CASE j < i
    <3>1. j + 1 \in 1..n /\ From(j + 1) = j
      BY <1>1, <2>2
    <3> QED BY <3>1
  <2>3. CASE j > i
    <3>1. From(j) = j
      BY <1>1, <2>3
    <3> QED BY <3>1
  <2> QED BY <1>1, <2>1, <2>2, <2>3
<1>6. t \in Seq(N)
  <2>1. t \in [1..n -> N]
    BY <1>1, <1>2, <1>3 DEF Splice
  <2> QED BY <1>1, <2>1
<1> HIDE DEF t, From
<1>7. KeysIn(t) = KeysIn(s)
  <2>1. \A j \in 1..n : \E k \in 1..n : t[j].key = s[k].key
    BY <1>2, <1>3
  <2>2. \A k \in 1..n : \E j \in 1..n : s[k].key = t[j].key
    BY <1>3, <1>5, Zenon
  <2>3. KeysIn(t) = {t[j].key : j \in 1..n} /\ KeysIn(s) = {s[j].key : j \in 1..n}
    BY <1>1, <1>3 DEF KeysIn
  <2>4. ASSUME NEW x \in KeysIn(t) PROVE x \in KeysIn(s)
    BY <2>1, <2>3, <2>4, Zenon
  <2>5. ASSUME NEW x \in KeysIn(s) PROVE x \in KeysIn(t)
    BY <2>2, <2>3, <2>5, Zenon
  <2> QED BY <2>4, <2>5
<1>8. Distinct(s) => Distinct(t)
  <2> SUFFICES ASSUME Distinct(s), NEW j \in 1..n, NEW k \in 1..n, t[j].key = t[k].key
               PROVE  j = k
    BY <1>3 DEF Distinct
  <2>1. s[From(j)].key = s[From(k)].key /\ From(j) \in DOMAIN s /\ From(k) \in DOMAIN s
    BY <1>1, <1>2, <1>3, Zenon
  <2>2. From(j) = From(k)
    BY <2>1, Zenon DEF Distinct
  <2> QED BY <1>4, <2>2
<1> QED BY <1>1, <1>3, <1>6, <1>7, <1>8 DEF t
\* tryGetRef keeps the cache in step.
LEMMA LookedUp ==
    ASSUME NEW N, NEW c, CacheOf(N, c), NEW k, Contains(c, k)
    PROVE  CacheOf(N, TryGetRef(c, k)) /\ TryGetRef(c, k).cache_ = c.cache_
<1> DEFINE i == NodeOf(c, k)
           s == c.keys_
<1>1. s \in Seq(N) /\ i \in DOMAIN s /\ c.cache_ = KeysIn(s) /\ Distinct(s)
  BY NodeOfProps DEF CacheOf, InStep, KeysIn, Distinct
<1>2. TryGetRef(c, k) = [keys_ |-> Splice(s, i), cache_ |-> c.cache_]
  BY DEF TryGetRef, CacheOf
<1> HIDE DEF i, s
<1>3. Splice(s, i) \in Seq(N) /\ KeysIn(Splice(s, i)) = KeysIn(s) /\ Distinct(Splice(s, i))
  BY <1>1, SpliceProps
<1> QED BY <1>1, <1>2, <1>3, CacheIs

\* Assigning to the value of a node keeps the cache in step.
LEMMA Assigned ==
    ASSUME NEW N, NEW c, CacheOf(N, c), AreNodes(N), NEW k, Contains(c, k),
           NEW v, Node(k, v) \in N
    PROVE  CacheOf(N, Assign(c, k, v)) /\ Assign(c, k, v).cache_ = c.cache_
<1> DEFINE i == NodeOf(c, k)
           s == c.keys_
           t == [s EXCEPT ![i].value = v]
<1>1. s \in Seq(N) /\ i \in DOMAIN s /\ s[i].key = k /\ c.cache_ = KeysIn(s) /\ Distinct(s)
  BY NodeOfProps DEF CacheOf, InStep, KeysIn, Distinct
<1>2. Assign(c, k, v) = [keys_ |-> t, cache_ |-> c.cache_]
  BY DEF Assign, CacheOf
<1> HIDE DEF i, s
<1>3. t = [s EXCEPT ![i] = Node(k, v)]
  <2>1. s[i] = Node(k, s[i].value)
    BY <1>1 DEF AreNodes
  <2>2. [s[i] EXCEPT !.value = v] = Node(k, v)
    BY <2>1 DEF Node
  <2> QED BY <2>2
<1>4. t \in Seq(N) /\ DOMAIN t = DOMAIN s /\ \A j \in DOMAIN s : t[j].key = s[j].key
  <2>1. Node(k, v).key = k
    BY DEF Node
  <2> QED BY <1>1, <1>3, <2>1
<1> HIDE DEF t
<1>5. KeysIn(t) = KeysIn(s) /\ Distinct(t)
  BY <1>1, <1>4 DEF KeysIn, Distinct
<1> QED BY <1>1, <1>2, <1>4, <1>5, CacheIs

\* A list has at least as many nodes as keys.
LEMMA ListLength ==
    ASSUME NEW N, NEW s \in Seq(N)
    PROVE  IsFiniteSet(KeysIn(s)) /\ Cardinality(KeysIn(s)) <= Len(s)
<1> DEFINE n == Len(s)
           f == [i \in 1..n |-> s[i].key]
<1>1. n \in Nat /\ DOMAIN s = 1..n
  BY DEF n
<1>2. IsFiniteSet(1..n) /\ Cardinality(1..n) = n
  <2>1. Cardinality(1..n) = IF 1 > n THEN 0 ELSE n - 1 + 1
    BY <1>1, FS_Interval
  <2> QED BY <1>1, <2>1, FS_Interval, SMTT(30)
<1> HIDE DEF n
<1>3. f \in Surjection(1..n, KeysIn(s))
  BY <1>1 DEF Surjection, KeysIn
<1> HIDE DEF f
<1> QED BY <1>2, <1>3, FS_Surjection DEF n

\* prune keeps the cache in step.
LEMMA Pruned ==
    ASSUME NEW N, NEW c, CacheOf(N, c)
    PROVE  CacheOf(N, Prune(c))
<1> DEFINE s == c.keys_
           S == c.cache_
           n == Len(s)
           t == SubSeq(s, 1, MaxSize)
           T == S \ {s[i].key : i \in MaxSize + 1..n}
<1>1. s \in Seq(N) /\ S = KeysIn(s) /\ Distinct(s) /\ n \in Nat /\ DOMAIN s = 1..n
  BY DEF CacheOf, InStep, KeysIn, Distinct
<1>2. CASE Cardinality(S) < MaxSize + Elasticity
  BY <1>2 DEF Prune
<1>3. CASE ~(Cardinality(S) < MaxSize + Elasticity)
  <2>1. Prune(c) = [keys_ |-> t, cache_ |-> T]
    BY <1>3 DEF Prune
  <2> HIDE DEF s, S, n
  <2>2. MaxSize \in Nat /\ 0 < MaxSize /\ MaxSize <= n
    <3>1. Cardinality(S) \in Nat /\ Cardinality(S) <= n
      BY <1>1, ListLength, FS_CardinalityType DEF n
    <3> QED BY <1>1, <1>3, <3>1, SizeAssumption
  <2>3. t \in Seq(N) /\ DOMAIN t = 1..MaxSize /\ \A i \in 1..MaxSize : t[i] = s[i]
    BY <1>1, <2>2 DEF n
  <2> HIDE DEF t
  <2>4. Distinct(t)
    <3>1. \A i \in 1..MaxSize : i \in 1..n
      BY <1>1, <2>2
    <3> QED BY <1>1, <2>3, <3>1 DEF Distinct
  <2>5. T = KeysIn(t)
    <3>1. ASSUME NEW k \in T PROVE k \in KeysIn(t)
      <4>1. PICK i \in 1..n : s[i].key = k
        BY <1>1 DEF KeysIn
      <4>2. i \notin MaxSize + 1..n
        BY <4>1
      <4>3. i \in 1..MaxSize
        BY <1>1, <2>2, <4>2
      <4> QED BY <2>3, <4>1, <4>3 DEF KeysIn
    <3>2. ASSUME NEW k \in KeysIn(t) PROVE k \in T
      <4>1. PICK i \in 1..MaxSize : t[i].key = k
        BY <2>3 DEF KeysIn
      <4>2. i \in 1..n /\ s[i].key = k
        BY <1>1, <2>2, <2>3, <4>1
      <4>3. ASSUME NEW j \in MaxSize + 1..n, s[j].key = k PROVE FALSE
        <5>1. j \in 1..n /\ j # i
          BY <1>1, <2>2, <4>3
        <5> QED BY <1>1, <4>2, <4>3, <5>1 DEF Distinct
      <4> QED BY <1>1, <4>2, <4>3 DEF KeysIn
    <3> QED BY <3>1, <3>2
  <2> HIDE DEF T
  <2> QED BY <2>1, <2>3, <2>4, <2>5, CacheIs
<1> QED BY <1>2, <1>3

\* The list with a new node in front of it, before it is pruned.
Front(c, k, v) == [keys_ |-> <<Node(k, v)>> \o c.keys_, cache_ |-> c.cache_ \cup {k}]

LEMMA FrontCache ==
    ASSUME NEW N, NEW c, CacheOf(N, c), NEW k, ~Contains(c, k), NEW v, Node(k, v) \in N
    PROVE  CacheOf(N, Front(c, k, v))
<1> DEFINE s == c.keys_
           t == <<Node(k, v)>> \o s
           n == Len(s)
<1>1. s \in Seq(N) /\ c.cache_ = KeysIn(s) /\ Distinct(s) /\ n \in Nat /\ DOMAIN s = 1..n
  BY DEF CacheOf, InStep, KeysIn, Distinct
<1>2. Node(k, v).key = k
  BY DEF Node
<1>3. Front(c, k, v) = [keys_ |-> t, cache_ |-> c.cache_ \cup {k}]
  BY DEF Front
<1> HIDE DEF s
<1>4. t \in Seq(N) /\ DOMAIN t = 1..(n + 1) /\ t[1] = Node(k, v)
      /\ \A i \in 1..n : t[i + 1] = s[i]
  BY <1>1
<1> HIDE DEF t, n
<1>5. \A j \in 1..(n + 1) : j = 1 \/ (j - 1 \in 1..n /\ t[j] = s[j - 1])
  <2> TAKE j \in 1..(n + 1)
  <2>1. j # 1 => j - 1 \in 1..n /\ (j - 1) + 1 = j
    BY <1>1
  <2> QED BY <1>4, <2>1
<1>6. \A i \in 1..n : s[i].key # k
  BY <1>1 DEF Contains, KeysIn
<1>7. KeysIn(t) = c.cache_ \cup {k}
  <2>1. ASSUME NEW x \in KeysIn(t) PROVE x \in c.cache_ \cup {k}
    <3>1. PICK j \in 1..(n + 1) : t[j].key = x
      BY <1>4 DEF KeysIn
    <3>2. CASE j = 1
      BY <1>2, <1>4, <3>1, <3>2
    <3>3. CASE j - 1 \in 1..n /\ t[j] = s[j - 1]
      BY <1>1, <3>1, <3>3 DEF KeysIn
    <3> QED BY <1>5, <3>2, <3>3
  <2>2. ASSUME NEW x \in c.cache_ PROVE x \in KeysIn(t)
    <3>1. PICK i \in 1..n : s[i].key = x
      BY <1>1 DEF KeysIn
    <3>2. i + 1 \in 1..(n + 1) /\ t[i + 1].key = x
      BY <1>1, <1>4, <3>1
    <3> QED BY <1>4, <3>2 DEF KeysIn
  <2>3. k \in KeysIn(t)
    <3>1. 1 \in 1..(n + 1)
      BY <1>1
    <3> QED BY <1>2, <1>4, <3>1 DEF KeysIn
  <2> QED BY <2>1, <2>2, <2>3
<1>8. Distinct(t)
  <2> SUFFICES ASSUME NEW i \in 1..(n + 1), NEW j \in 1..(n + 1), t[i].key = t[j].key
               PROVE  i = j
    BY <1>4 DEF Distinct
  <2>1. CASE i = 1 \/ j = 1
    BY <1>2, <1>4, <1>5, <1>6, <2>1
  <2>2. CASE i # 1 /\ j # 1
    <3>1. i - 1 = j - 1
      BY <1>1, <1>5, <2>2, SMTT(30) DEF Distinct
    <3> QED BY <1>1, <3>1
  <2> QED BY <2>1, <2>2
<1>9. CacheOf(N, [keys_ |-> t, cache_ |-> c.cache_ \cup {k}])
  BY <1>4, <1>7, <1>8, CacheIs
<1> QED BY <1>3, <1>9

\* insert keeps the cache in step, with a new key and with an old one.
LEMMA Inserted ==
    ASSUME NEW N, AreNodes(N), NEW c, CacheOf(N, c), NEW k, NEW v, Node(k, v) \in N
    PROVE  CacheOf(N, Insert(c, k, v))
<1>1. CASE Contains(c, k)
  <2>1. CacheOf(N, Assign(c, k, v)) /\ Contains(Assign(c, k, v), k)
    BY <1>1, Assigned DEF Contains
  <2> QED BY <1>1, <2>1, LookedUp DEF Insert
<1>2. CASE ~Contains(c, k)
  <2>1. Insert(c, k, v) = Prune(Front(c, k, v))
    BY <1>2 DEF Insert, Front
  <2> QED BY <1>2, <2>1, FrontCache, Pruned
<1> QED BY <1>1, <1>2


\* More nodes may be in a cache.
LEMMA CacheMore ==
    ASSUME NEW M, NEW N, M \subseteq N, NEW c, CacheOf(M, c)
    PROVE  CacheOf(N, c)
<1>1. c.keys_ \in Seq(N)
  BY DEF CacheOf
<1> QED BY <1>1 DEF CacheOf

-----------------------------------------------------------------------------
(* Flows and VIPs. *)

\* The part of a key that no flag takes away belongs to the VIP of packet p.
LeadsTo(k, p) ==
    k.dst = FlowKey[p].dst /\ k.dport = FlowKey[p].dport /\ k.proto = FlowKey[p].proto

LEMMA RoutedVip ==
    ASSUME NEW p \in Routed
    PROVE  /\ Vip[p] \in DOMAIN VipMap /\ Vip[p] = VipOf(FlowOf(p))
           /\ VipMap[Vip[p]].num \in VipNums
<1>2. VipOf(FlowOf(p)) # None
  BY DEF Routed, ReturnsEarly
<1>3. VipOf(FlowOf(p)) \in DOMAIN VipMap
  BY <1>2 DEF VipOf
<1>4. Vip[p] = VipOf(FlowOf(p))
  BY DEF Vip
<1> QED BY <1>3, <1>4 DEF VipNums

\* What KeyOf does to a flow.
LEMMA KeyIs ==
    ASSUME NEW a, NEW b, NEW c, NEW d, NEW e, NEW h,
           h = [src |-> a, dst |-> b, sport |-> c, dport |-> d, proto |-> e]
    PROVE  KeyOf(h) = [src |-> Word(a), dst |-> Word(b), sport |-> c, dport |-> d, proto |-> e]
<1>1. KeyOf(h) = [h EXCEPT !.src = Word(h.src), !.dst = Word(h.dst)]
  BY DEF KeyOf
<1> QED BY <1>1

LEMMA FlowIs ==
    ASSUME NEW p \in Routed, NEW f, f = Flow[p]
    PROVE  f = [src |-> f.src, dst |-> f.dst, sport |-> f.sport, dport |-> f.dport, proto |-> f.proto]
<1> DEFINE g == FlowOf(p)
<1>1. g = [src |-> g.src, dst |-> g.dst, sport |-> g.sport, dport |-> g.dport, proto |-> g.proto]
  BY DEF FlowOf
<1>2. \E d, s : f = [g EXCEPT !.dport = d, !.sport = s]
  BY DEF Flow, DropPorts
<1> HIDE DEF g
<1> QED BY <1>1, <1>2

\* The fields of the keys of a packet.
LEMMA KeyFields ==
    ASSUME NEW p \in Routed, NEW f, f = FlowOf(p), NEW v, v = Vip[p]
    PROVE  /\ FlowKey[p].dst = Word(f.dst)
           /\ FlowKey[p].proto = f.proto
           /\ FlowKey[p].dport = IF /\ ThisPort(f) \notin DOMAIN VipMap
                                    /\ "HASH_DPORT_ONLY" \notin VipMap[v].flags
                                    /\ "HASH_SRC_DST_PORT" \notin VipMap[v].flags
                                 THEN 0 ELSE f.dport
           /\ LeadsTo(FlowKey[p], p) /\ LeadsTo(HashedKey[p], p)
<1> DEFINE g == DropPorts(f)
           dp == IF /\ ThisPort(f) \notin DOMAIN VipMap
                    /\ "HASH_DPORT_ONLY" \notin VipMap[v].flags
                    /\ "HASH_SRC_DST_PORT" \notin VipMap[v].flags
                 THEN 0 ELSE f.dport
<1>1. f = [src |-> f.src, dst |-> f.dst, sport |-> f.sport, dport |-> f.dport, proto |-> f.proto]
  BY DEF FlowOf
<1>2. v = VipOf(f)
  BY RoutedVip
<1> DEFINE sp == IF "HASH_NO_SRC_PORT" \in VipMap[v].flags THEN 0 ELSE f.sport
<1>3. g = [src |-> f.src, dst |-> f.dst, sport |-> sp, dport |-> dp, proto |-> f.proto]
  <2>1. g = [f EXCEPT !.dport = dp, !.sport = sp]
    BY <1>2 DEF DropPorts, Flagged
  <2> HIDE DEF dp, sp
  <2> QED BY <1>1, <2>1
<1>4. Flow[p] = g
  BY DEF Flow
<1> HIDE DEF g, dp, sp
<1>5. FlowKey[p] = [src |-> Word(f.src), dst |-> Word(f.dst), sport |-> sp, dport |-> dp,
                    proto |-> f.proto]
  BY <1>3, <1>4, KeyIs DEF FlowKey
<1>6. PICK s1, s2 : HashedFlow[p] =
        [src |-> s1, dst |-> f.dst, sport |-> s2, dport |-> dp, proto |-> f.proto]
  <2>1. CASE "HASH_DPORT_ONLY" \in Flags[p]
    <3>1. HashedFlow[p] = [g EXCEPT !.src = 0, !.sport = g.dport]
      BY <1>4, <2>1 DEF HashedFlow
    <3> QED BY <1>3, <3>1
  <2>2. CASE "HASH_DPORT_ONLY" \notin Flags[p]
    BY <1>3, <1>4, <2>2 DEF HashedFlow
  <2> QED BY <2>1, <2>2
<1>7. HashedKey[p] = [src |-> Word(s1), dst |-> Word(f.dst), sport |-> s2, dport |-> dp,
                      proto |-> f.proto]
  BY <1>6, KeyIs DEF HashedKey
<1>8. FlowKey[p].dst = Word(f.dst) /\ FlowKey[p].proto = f.proto /\ FlowKey[p].dport = dp
  BY <1>5
<1>9. LeadsTo(FlowKey[p], p) /\ LeadsTo(HashedKey[p], p)
  BY <1>7, <1>8 DEF LeadsTo
<1> QED BY <1>8, <1>9 DEF dp

\* A flow key leads to one VIP, whatever the flags made of its ports.
LEMMA OneVip ==
    ASSUME NEW k, NEW p \in Routed, NEW q \in Routed, LeadsTo(k, p), LeadsTo(k, q)
    PROVE  Vip[p] = Vip[q]
<1> DEFINE f == FlowOf(p)
           g == FlowOf(q)
           x == FlowKey[p].dport
           y == FlowKey[q].dport
<1>1. Vip[p] \in DOMAIN VipMap /\ Vip[p] = VipOf(f) /\ Vip[q] \in DOMAIN VipMap /\ Vip[q] = VipOf(g)
  BY RoutedVip
<1>2. /\ FlowKey[p].dst = Word(f.dst) /\ FlowKey[p].proto = f.proto
      /\ x = 0 \/ x = f.dport
      /\ ThisPort(f) \in DOMAIN VipMap => x = f.dport
  BY KeyFields
<1>3. /\ FlowKey[q].dst = Word(g.dst) /\ FlowKey[q].proto = g.proto
      /\ y = 0 \/ y = g.dport
      /\ ThisPort(g) \in DOMAIN VipMap => y = g.dport
  BY KeyFields
<1>4. Word(f.dst) = Word(g.dst) /\ f.proto = g.proto /\ x = y
  BY <1>2, <1>3 DEF LeadsTo
<1>5. Vip[p].addr = f.dst /\ Vip[q].addr = g.dst
  BY <1>1, VipAssumption DEF VipOf, ThisPort, AnyPort
<1>6. f.dst = g.dst
  BY <1>1, <1>4, <1>5, VipAssumption
<1> HIDE DEF f, g, x, y
<1>7. AnyPort(f) = AnyPort(g)
  BY <1>4, <1>6 DEF AnyPort
<1>8. f.dport = g.dport => ThisPort(f) = ThisPort(g)
  BY <1>4, <1>6 DEF ThisPort
<1>9. /\ f.dport = 0 => ThisPort(f) = AnyPort(f)
      /\ g.dport = 0 => ThisPort(g) = AnyPort(g)
  BY DEF ThisPort, AnyPort
<1>10. CASE ThisPort(f) \in DOMAIN VipMap /\ ThisPort(g) \in DOMAIN VipMap
  BY <1>1, <1>2, <1>3, <1>4, <1>8, <1>10 DEF VipOf
<1>11. CASE ThisPort(f) \in DOMAIN VipMap /\ ThisPort(g) \notin DOMAIN VipMap
  <2>1. f.dport = 0 \/ f.dport = g.dport
    BY <1>2, <1>3, <1>4, <1>11
  <2>2. Vip[q] = AnyPort(g) /\ Vip[p] = ThisPort(f)
    BY <1>1, <1>11, VipAssumption DEF VipOf
  <2> QED BY <1>7, <1>8, <1>9, <1>11, <2>1, <2>2
<1>12. CASE ThisPort(f) \notin DOMAIN VipMap /\ ThisPort(g) \in DOMAIN VipMap
  <2>1. g.dport = 0 \/ f.dport = g.dport
    BY <1>2, <1>3, <1>4, <1>12
  <2>2. Vip[p] = AnyPort(f) /\ Vip[q] = ThisPort(g)
    BY <1>1, <1>12, VipAssumption DEF VipOf
  <2> QED BY <1>7, <1>8, <1>9, <1>12, <2>1, <2>2
<1>13. CASE ThisPort(f) \notin DOMAIN VipMap /\ ThisPort(g) \notin DOMAIN VipMap
  BY <1>1, <1>7, <1>13, VipAssumption DEF VipOf
<1> QED BY <1>10, <1>11, <1>12, <1>13


-----------------------------------------------------------------------------
(* Where packets are sent. *)

\* The maps of the control plane, and what history knows of them.
TablesInv ==
    /\ now \in Nat
    /\ ring \in [VipNums -> [RingPos -> Nat]]
    /\ server_id \in [ServerIds -> Nat]
    /\ ever \in [ring : [VipNums -> SUBSET Nat], id : SUBSET Nat]
    /\ \A v \in VipNums : \A i \in RingPos : ring[v][i] \in ever.ring[v]
    /\ \A s \in ServerIds : server_id[s] \in ever.id

\* Real r was once named for the VIP of packet p.
NamedFor(p, r) ==
    \/ r \in ever.ring[VipMap[Vip[p]].num]
    \/ "QUIC_VIP" \in Flags[p] /\ r \in ever.id

CacheKeys == Keys \cup {HashedKey[p] : p \in Routed}

\* The entries that may be in the connection table: all packets whose key
\* leads there belong to a VIP that has had the real.
Entries ==
    {x \in [key : CacheKeys, value : [pos : Nat, atime : Nat]] :
        \A p \in Routed : LeadsTo(x.key, p) => NamedFor(p, x.value.pos)}

SentInv == out.routed # None => out.vip \in DOMAIN VipMap /\ SentOnlyToVipReals

SendInv == TablesInv /\ CacheOf(Entries, lru) /\ SentInv

LEMMA EntriesNodes == AreNodes(Entries)
<1> SUFFICES ASSUME NEW x \in Entries PROVE x = Node(x.key, x.value)
  BY DEF AreNodes
<1>1. x \in [key : CacheKeys, value : [pos : Nat, atime : Nat]]
  BY DEF Entries
<1> QED BY <1>1 DEF Node

\* A real of its VIP may be stored under either key of a packet.
LEMMA EntryFor ==
    ASSUME NEW p \in Routed, NEW k \in {FlowKey[p], HashedKey[p]}, NEW r \in Nat,
           NamedFor(p, r), NEW t \in Nat
    PROVE  Node(k, [pos |-> r, atime |-> t]) \in Entries
<1> DEFINE x == Node(k, [pos |-> r, atime |-> t])
<1>1. LeadsTo(k, p)
  BY KeyFields
<1>2. k \in CacheKeys
  BY DEF CacheKeys, Keys
<1>3. ASSUME NEW q \in Routed, LeadsTo(k, q) PROVE NamedFor(q, r)
  <2>1. Vip[q] = Vip[p]
    BY <1>1, <1>3, OneVip
  <2> QED BY <2>1 DEF NamedFor, Flags
<1>4. x \in [key : CacheKeys, value : [pos : Nat, atime : Nat]] /\ x.key = k /\ x.value.pos = r
  BY <1>2 DEF Node
<1> QED BY <1>3, <1>4 DEF Entries

\* What the table has under the key of a packet was named for its VIP.
LEMMA EntryOf ==
    ASSUME CacheOf(Entries, lru), NEW p \in Routed, Contains(lru, FlowKey[p]),
           NEW v, v = ValueIn(lru, FlowKey[p])
    PROVE  /\ v.pos \in Nat /\ v.atime \in Nat /\ v = [pos |-> v.pos, atime |-> v.atime]
           /\ NamedFor(p, v.pos)
<1> DEFINE k == FlowKey[p]
<1>1. Node(k, v) \in Entries
  BY EntriesNodes, ValueProps
<1>2. LeadsTo(k, p)
  BY KeyFields
<1> HIDE DEF k
<1>3. Node(k, v).key = k /\ Node(k, v).value = v
  BY DEF Node
<1>4. v \in [pos : Nat, atime : Nat]
  BY <1>1, <1>3 DEF Entries
<1>5. NamedFor(p, v.pos)
  BY <1>1, <1>2, <1>3 DEF Entries
<1> QED BY <1>4, <1>5

\* What a step that handles packet p does to the table and to the packet.
Handled(p) ==
    /\ CacheOf(Entries, lru')
    /\ \/ out' = Quiet
       \/ \E how, r : /\ NamedFor(p, r)
                      /\ out' = [routed |-> how, vip |-> Vip[p], key |-> FlowKey[p], real |-> r,
                                 syn |-> p.syn]

LEMMA EncapSends ==
    ASSUME NEW p \in Routed, NEW how, NEW r, NamedFor(p, r), Encap(p, how, r)
    PROVE  \/ out' = Quiet
           \/ \E h, s : /\ NamedFor(p, s)
                        /\ out' = [routed |-> h, vip |-> Vip[p], key |-> FlowKey[p], real |-> s,
                                   syn |-> p.syn]
BY DEF Encap, NotSent

\* A write through the pointer of a lookup.
LEMMA Written ==
    ASSUME NEW N, AreNodes(N), NEW c, CacheOf(N, c), NEW k, Contains(c, k),
           NEW v, Node(k, v) \in N
    PROVE  CacheOf(N, Write(TryGetRef(c, k), k, v)) /\ CacheOf(N, TryGetRef(c, k))
<1>1. CacheOf(N, TryGetRef(c, k)) /\ Contains(TryGetRef(c, k), k)
  BY LookedUp DEF Contains
<1>2. CacheOf(N, Assign(TryGetRef(c, k), k, v))
  BY <1>1, Assigned
<1> QED BY <1>1, <1>2 DEF Write

LEMMA IdRealNamed ==
    ASSUME TablesInv, NEW p \in Routed, IdReal(p) # 0
    PROVE  IdReal(p) \in Nat /\ NamedFor(p, IdReal(p))
<1>1. "QUIC_VIP" \in Flags[p] /\ p.sid \in ServerIds /\ IdReal(p) = server_id[p.sid]
  BY DEF IdReal
<1> QED BY <1>1 DEF TablesInv, NamedFor

LEMMA ByIdHandles ==
    ASSUME SendInv, NEW p \in Routed, ById(p)
    PROVE  Handled(p)
<1> DEFINE k == FlowKey[p]
           r == IdReal(p)
<1>1. CacheOf(Entries, lru) /\ r \in Nat /\ NamedFor(p, r)
  BY IdRealNamed DEF SendInv, ById
<1> HIDE DEF r
<1>2. CASE r >= MAX_REALS
  BY <1>1, <1>2, RateAssumption DEF ById, NotSent, Handled, r
<1>3. CASE r < MAX_REALS
  <2>1. Encap(p, "id", r)
    BY <1>1, <1>3, RateAssumption DEF ById, r
  <2>2. CASE Contains(lru, k) /\ CheckRealInLru(k, r)
    <3> DEFINE v == ValueIn(lru, k)
    <3>1. v.atime \in Nat /\ v = [pos |-> v.pos, atime |-> v.atime]
      BY <1>1, <2>2, EntryOf
    <3>2. [v EXCEPT !.pos = r] = [pos |-> r, atime |-> v.atime]
      BY <3>1
    <3>3. Node(k, [v EXCEPT !.pos = r]) \in Entries
      BY <1>1, <3>1, <3>2, EntryFor
    <3>4. /\ CacheOf(Entries, Write(TryGetRef(lru, k), k, [v EXCEPT !.pos = r]))
          /\ CacheOf(Entries, TryGetRef(lru, k))
      BY <1>1, <2>2, <3>3, EntriesNodes, Written
    <3>5. CacheOf(Entries, lru')
      BY <2>2, <3>4 DEF CheckRealInLru
    <3> QED BY <1>1, <2>1, <3>5, EncapSends DEF Handled
  <2>3. CASE AddRealToLru(k, r)
    <3>1. Node(k, [pos |-> r, atime |-> 0]) \in Entries
      BY <1>1, EntryFor
    <3>2. CacheOf(Entries, Insert(lru, k, [pos |-> r, atime |-> 0]))
      BY <1>1, <3>1, EntriesNodes, Inserted
    <3>3. CacheOf(Entries, lru')
      BY <1>1, <2>3, <3>2 DEF AddRealToLru
    <3> QED BY <1>1, <2>1, <3>3, EncapSends DEF Handled
  <2> QED BY <1>1, <1>3, <2>2, <2>3, RateAssumption DEF ById, r
<1> QED BY <1>1, <1>2, <1>3, RateAssumption

LEMMA ByLruHandles ==
    ASSUME SendInv, NEW p \in Routed, ByLru(p)
    PROVE  Handled(p)
<1> DEFINE k == FlowKey[p]
           v == ValueIn(lru, k)
<1>1. CacheOf(Entries, lru) /\ now \in Nat /\ Contains(lru, k)
  BY DEF SendInv, TablesInv, ByLru, Hit, LooksUp
<1>2. v.pos \in Nat /\ v = [pos |-> v.pos, atime |-> v.atime] /\ NamedFor(p, v.pos)
  BY <1>1, EntryOf
<1>3. [v EXCEPT !.atime = now] = [pos |-> v.pos, atime |-> now]
  BY <1>2
<1>4. Node(k, [v EXCEPT !.atime = now]) \in Entries
  BY <1>1, <1>2, <1>3, EntryFor
<1>5. /\ CacheOf(Entries, Write(TryGetRef(lru, k), k, [v EXCEPT !.atime = now]))
      /\ CacheOf(Entries, TryGetRef(lru, k))
  BY <1>1, <1>4, EntriesNodes, Written
<1>6. CacheOf(Entries, lru') /\ Encap(p, "lru", v.pos)
  BY <1>5 DEF ByLru
<1> HIDE DEF v
<1> QED BY <1>2, <1>6, EncapSends DEF Handled

LEMMA RingReal ==
    ASSUME TablesInv, NEW p \in Routed
    PROVE  Real(p) \in Nat /\ NamedFor(p, Real(p))
<1>1. RingSlot[p].vip = VipMap[Vip[p]].num /\ RingSlot[p].pos \in RingPos
  BY TablesAssumption DEF RingSlot
<1>2. VipMap[Vip[p]].num \in VipNums
  BY RoutedVip
<1> QED BY <1>1, <1>2 DEF TablesInv, Real, NamedFor

LEMMA ByHashHandles ==
    ASSUME SendInv, NEW p \in Routed, ByHash(p)
    PROVE  Handled(p)
<1> DEFINE looked == IF LooksUp(p) THEN TryGetRef(lru, FlowKey[p]) ELSE lru
           t == IF p.proto = "udp" THEN now ELSE 0
           k == HashedKey[p]
           r == Real(p)
<1>1. CacheOf(Entries, lru) /\ t \in Nat /\ r \in Nat /\ NamedFor(p, r)
  BY RingReal DEF SendInv, TablesInv
<1>2. CacheOf(Entries, looked)
  BY <1>1, LookedUp DEF LooksUp
<1>3. \/ lru' = looked /\ (NotSent \/ Encap(p, "hash", r))
      \/ lru' = Insert(looked, k, [pos |-> r, atime |-> t]) /\ Encap(p, "hash", r)
  BY DEF ByHash
<1> HIDE DEF looked, t, r
<1>4. Node(k, [pos |-> r, atime |-> t]) \in Entries
  BY <1>1, EntryFor
<1>5. CacheOf(Entries, Insert(looked, k, [pos |-> r, atime |-> t]))
  BY <1>2, <1>4, EntriesNodes, Inserted
<1>6. CacheOf(Entries, lru')
  BY <1>2, <1>3, <1>5
<1>7. CASE NotSent
  BY <1>6, <1>7 DEF Handled, NotSent
<1>8. CASE Encap(p, "hash", r)
  BY <1>1, <1>6, <1>8, EncapSends DEF Handled
<1> QED BY <1>3, <1>7, <1>8


LEMMA InitSend == Init => SendInv
<1> SUFFICES ASSUME Init PROVE SendInv
  OBVIOUS
<1>1. Boot \in Nat
  BY RateAssumption DEF Boot
<1>2. TablesInv
  <2>1. ever.ring \in [VipNums -> SUBSET Nat] /\ ever.id \in SUBSET Nat
    BY TablesAssumption DEF Init
  <2>2. ever \in [ring : [VipNums -> SUBSET Nat], id : SUBSET Nat]
    BY <2>1 DEF Init
  <2>3. \A v \in VipNums : \A i \in RingPos : ring[v][i] \in ever.ring[v]
    BY TablesAssumption DEF Init
  <2>4. \A s \in ServerIds : server_id[s] \in ever.id
    BY DEF Init
  <2> QED BY <1>1, <2>2, <2>3, <2>4, TablesAssumption DEF Init, TablesInv
<1>3. CacheOf(Entries, lru)
  BY EmptyIs DEF Init
<1>4. SentInv
  BY DEF Init, Quiet, SentInv
<1> QED BY <1>2, <1>3, <1>4 DEF SendInv

\* A packet was handled, and nothing else happened.
LEMMA HandledKeeps ==
    ASSUME SendInv, NEW p \in Routed, Handled(p), UNCHANGED <<ring, server_id, now, ever>>
    PROVE  SendInv'
<1>1. TablesInv'
  BY DEF SendInv, TablesInv
<1>2. Entries' = Entries
  BY DEF Entries, NamedFor
<1>3. CacheOf(Entries, lru)'
  BY <1>2 DEF Handled, CacheOf, InStep
<1>4. SentInv'
  <2>1. CASE out' = Quiet
    BY <2>1 DEF SentInv, Quiet
  <2>2. CASE \E how, r : /\ NamedFor(p, r)
                         /\ out' = [routed |-> how, vip |-> Vip[p], key |-> FlowKey[p],
                                    real |-> r, syn |-> p.syn]
    <3>1. PICK r : NamedFor(p, r) /\ out'.vip = Vip[p] /\ out'.real = r
      BY <2>2
    <3>2. Vip[p] \in DOMAIN VipMap
      BY RoutedVip
    <3> QED BY <3>1, <3>2 DEF SentInv, SentOnlyToVipReals, NamedFor, Flagged, Flags
  <2> QED BY <2>1, <2>2 DEF Handled
<1> QED BY <1>1, <1>3, <1>4 DEF SendInv

\* The reals a VIP was given only become more.
LEMMA NamedMore ==
    ASSUME SendInv, TablesInv', UNCHANGED <<lru, out>>,
           \A v \in VipNums : ever.ring[v] \subseteq ever'.ring[v],
           ever.id \subseteq ever'.id
    PROVE  SendInv'
<1>1. \A p \in Routed : VipMap[Vip[p]].num \in VipNums
  BY RoutedVip
<1>2. Entries \subseteq Entries'
  BY <1>1 DEF Entries, NamedFor
<1>3. CacheOf(Entries, lru)'
  <2>1. CacheOf(Entries', lru)
    BY <1>2, CacheMore DEF SendInv
  <2> QED BY <2>1 DEF CacheOf, InStep
<1>4. SentInv'
  <2> SUFFICES ASSUME out.routed # None PROVE SentInv'
    BY DEF SentInv
  <2>1. out.vip \in DOMAIN VipMap /\ SentOnlyToVipReals
    BY DEF SendInv, SentInv
  <2>2. VipMap[out.vip].num \in VipNums
    BY <2>1 DEF VipNums
  <2> QED BY <2>1, <2>2 DEF SentInv, SentOnlyToVipReals
<1> QED BY <1>3, <1>4 DEF SendInv

LEMMA SetRingSends ==
    ASSUME SendInv, NEW v \in VipNums, NEW i \in RingPos, NEW r \in 0..MAX_REALS, SetRing(v, i, r)
    PROVE  SendInv'
<1>1. r \in Nat
  BY RateAssumption
<1>2. /\ ring' = [ring EXCEPT ![v][i] = r]
      /\ ever' = [ever EXCEPT !.ring[v] = @ \cup {r}]
      /\ UNCHANGED <<lru, server_id, now, out>>
  BY DEF SetRing
<1>3. ring \in [VipNums -> [RingPos -> Nat]]
  BY DEF SendInv, TablesInv
<1>4. /\ ring' \in [VipNums -> [RingPos -> Nat]]
      /\ \A w \in VipNums : \A j \in RingPos :
            ring'[w][j] = IF w = v /\ j = i THEN r ELSE ring[w][j]
  BY <1>1, <1>2, <1>3
<1> DEFINE e == ever.ring
           d == [e EXCEPT ![v] = @ \cup {r}]
<1>5. e \in [VipNums -> SUBSET Nat] /\ ever.id \in SUBSET Nat /\ ever = [ring |-> e, id |-> ever.id]
  BY DEF SendInv, TablesInv
<1>6. ever' = [ring |-> d, id |-> ever.id]
  BY <1>2, <1>5
<1> HIDE DEF e
<1>7. /\ d \in [VipNums -> SUBSET Nat]
      /\ \A w \in VipNums : e[w] \subseteq d[w]
      /\ r \in d[v]
  BY <1>1, <1>5
<1> HIDE DEF d
<1>8. ever'.ring = d /\ ever'.id = ever.id /\ ever' \in [ring : [VipNums -> SUBSET Nat], id : SUBSET Nat]
  BY <1>5, <1>6, <1>7
<1>9. \A w \in VipNums : \A j \in RingPos : ring'[w][j] \in d[w]
  BY <1>4, <1>7 DEF SendInv, TablesInv, e
<1>10. TablesInv'
  BY <1>2, <1>4, <1>8, <1>9 DEF SendInv, TablesInv
<1> QED BY <1>2, <1>7, <1>8, <1>10, NamedMore DEF e

LEMMA SetServerIdSends ==
    ASSUME SendInv, NEW s \in ServerIds, NEW r \in 0..MAX_REALS, SetServerId(s, r)
    PROVE  SendInv'
<1>1. r \in Nat
  BY RateAssumption
<1>2. /\ server_id' = [server_id EXCEPT ![s] = r]
      /\ ever' = [ever EXCEPT !.id = @ \cup {r}]
      /\ UNCHANGED <<lru, ring, now, out>>
  BY DEF SetServerId
<1>3. /\ server_id' \in [ServerIds -> Nat]
      /\ \A t \in ServerIds : server_id'[t] = IF t = s THEN r ELSE server_id[t]
  BY <1>1, <1>2 DEF SendInv, TablesInv
<1>4. ever.id \in SUBSET Nat /\ ever.ring \in [VipNums -> SUBSET Nat]
      /\ ever = [ring |-> ever.ring, id |-> ever.id]
  BY DEF SendInv, TablesInv
<1>5. ever' = [ring |-> ever.ring, id |-> ever.id \cup {r}]
  BY <1>2, <1>4
<1>6. ever'.ring = ever.ring /\ ever'.id = ever.id \cup {r}
      /\ ever' \in [ring : [VipNums -> SUBSET Nat], id : SUBSET Nat]
  BY <1>1, <1>4, <1>5
<1>7. \A t \in ServerIds : server_id'[t] \in ever'.id
  BY <1>3, <1>6 DEF SendInv, TablesInv
<1>8. TablesInv'
  BY <1>2, <1>3, <1>6, <1>7 DEF SendInv, TablesInv
<1> QED BY <1>2, <1>6, <1>8, NamedMore

LEMMA NextSend == SendInv /\ [Next]_vars => SendInv'
<1> SUFFICES ASSUME SendInv, [Next]_vars PROVE SendInv'
  OBVIOUS
<1>1. ASSUME NEW p \in Routed, ById(p) \/ ByLru(p) \/ ByHash(p) PROVE SendInv'
  <2>1. Handled(p)
    BY <1>1, ByIdHandles, ByLruHandles, ByHashHandles
  <2>2. UNCHANGED <<ring, server_id, now, ever>>
    BY <1>1 DEF ById, ByLru, ByHash
  <2> QED BY <1>1, <2>1, <2>2, HandledKeeps
<1>2. CASE Refuse \/ Tick \/ UNCHANGED vars
  <2>1. UNCHANGED <<lru, ring, server_id, ever>> /\ (out' = Quiet \/ out' = out)
        /\ (now' = now \/ now' = now + 1)
    BY <1>2 DEF Refuse, Tick, NotSent, vars
  <2>2. TablesInv'
    BY <2>1 DEF SendInv, TablesInv
  <2>3. Entries' = Entries
    BY <2>1 DEF Entries, NamedFor
  <2>4. CacheOf(Entries, lru)'
    BY <2>1, <2>3 DEF SendInv, CacheOf, InStep
  <2>5. SentInv'
    BY <2>1 DEF SendInv, SentInv, SentOnlyToVipReals, Quiet
  <2> QED BY <2>2, <2>4, <2>5 DEF SendInv
<1>3. CASE \E r \in 0..MAX_REALS :
             \/ \E v \in VipNums, i \in RingPos : SetRing(v, i, r)
             \/ \E s \in ServerIds : SetServerId(s, r)
  BY <1>3, SetRingSends, SetServerIdSends
<1> QED BY <1>1, <1>2, <1>3 DEF Next

LEMMA SpecSend == Spec => []SendInv
BY InitSend, NextSend, PTL DEF Spec

\* The list and the index of the connection table stay in step, for tables of
\* any size and through every lookup, update and pruning of the program.
THEOREM TableInStep == Spec => []IndexInStep
<1>1. SendInv => IndexInStep
  BY DEF SendInv, CacheOf, IndexInStep
<1> QED BY <1>1, SpecSend, PTL

\* No packet of a VIP goes to a real that the VIP never had, for any VIPs,
\* flags and packets: what one VIP stores in the connection table another one
\* does not find, as long as flow_key tells the addresses of VIPs apart.
THEOREM OnlyToVipReals == Spec => []SentOnlyToVipReals
<1>1. SendInv => SentOnlyToVipReals
  BY DEF SendInv, SentInv, SentOnlyToVipReals
<1> QED BY <1>1, SpecSend, PTL


-----------------------------------------------------------------------------
(* How fast entries are added. *)

\* The entries added, oldest first, fall into those of this quantum, which
\* began at q and has had c connections, those after b; the ones of the quantum
\* before, after a; and older ones, from more than ONE_SEC before this one.
Quanta(s, a, b, c, q) ==
    /\ a \in Nat /\ b \in Nat /\ a <= b /\ b <= Len(s)
    /\ b - a <= MAX_CONN_RATE
    /\ Len(s) - b <= MAX_CONN_RATE /\ Len(s) - b <= c
    /\ \A i \in 1..b : s[i] <= q
    /\ \A i \in 1..a : s[i] + ONE_SEC < q

RateInv ==
    /\ now \in Nat
    /\ rate \in [v1 : 0..(MAX_CONN_RATE + 1), v2 : Nat]
    /\ rate.v2 <= now
    /\ added \in Seq(Nat)
    /\ \A i \in 1..Len(added) : added[i] <= now
    /\ \E a, b : Quanta(added, a, b, rate.v1, rate.v2)

\* A quantum begins at t: the last one becomes the one before.
LEMMA QuantumBegins ==
    ASSUME NEW s \in Seq(Nat), NEW a, NEW b, NEW c \in Nat, NEW q \in Nat, Quanta(s, a, b, c, q),
           NEW t \in Nat, t - q > ONE_SEC, \A i \in 1..Len(s) : s[i] <= t
    PROVE  Quanta(s, b, Len(s), 0, t)
<1> DEFINE n == Len(s)
<1>1. n \in Nat /\ \A i \in 1..n : s[i] \in Nat
  OBVIOUS
<1>2. a \in Nat /\ b \in Nat /\ a <= b /\ b <= n /\ n - b <= MAX_CONN_RATE /\ \A i \in 1..b : s[i] <= q
  BY DEF Quanta
<1> HIDE DEF n
<1>3. ASSUME NEW i \in 1..b PROVE s[i] + ONE_SEC < t
  <2>1. s[i] \in Nat /\ s[i] <= q
    BY <1>1, <1>2, <1>3
  <2> QED BY <2>1, RateAssumption
<1> QED BY <1>1, <1>2, <1>3, RateAssumption DEF Quanta, n

\* An entry is noted.
LEMMA EntryNoted ==
    ASSUME NEW s \in Seq(Nat), NEW a, NEW b, NEW c \in Nat, c < MAX_CONN_RATE,
           NEW q \in Nat, Quanta(s, a, b, c, q), NEW t \in Nat
    PROVE  Quanta(Append(s, t), a, b, c + 1, q)
<1> DEFINE n == Len(s)
           u == Append(s, t)
<1>1. n \in Nat /\ Len(u) = n + 1 /\ \A i \in 1..n : u[i] = s[i]
  OBVIOUS
<1>2. a \in Nat /\ b \in Nat /\ a <= b /\ b <= n /\ b - a <= MAX_CONN_RATE /\ n - b <= c
      /\ (\A i \in 1..b : s[i] <= q) /\ \A i \in 1..a : s[i] + ONE_SEC < q
  BY DEF Quanta
<1> HIDE DEF n, u
<1>3. (\A i \in 1..b : u[i] = s[i]) /\ \A i \in 1..a : u[i] = s[i]
  BY <1>1, <1>2
<1>4. (\A i \in 1..b : u[i] <= q) /\ \A i \in 1..a : u[i] + ONE_SEC < q
  BY <1>2, <1>3
<1>5. b <= n + 1 /\ (n + 1) - b <= MAX_CONN_RATE /\ (n + 1) - b <= c + 1
  BY <1>1, <1>2, RateAssumption
<1> QED BY <1>1, <1>2, <1>4, <1>5 DEF Quanta, u

\* With more than two quanta's worth of entries the first is an older one, and
\* can be forgotten.
LEMMA OldestForgotten ==
    ASSUME NEW s \in Seq(Nat), NEW a, NEW b, NEW c \in Nat, NEW q \in Nat, Quanta(s, a, b, c, q),
           Len(s) > 2 * MAX_CONN_RATE
    PROVE  /\ s[1] + ONE_SEC < q
           /\ Tail(s) \in Seq(Nat) /\ Len(Tail(s)) = Len(s) - 1
           /\ \A i \in 1..Len(Tail(s)) : i + 1 \in 1..Len(s) /\ Tail(s)[i] = s[i + 1]
           /\ Quanta(Tail(s), a - 1, b - 1, c, q)
<1> DEFINE n == Len(s)
           u == Tail(s)
<1>1. n \in Nat /\ n > 0 /\ MAX_CONN_RATE \in Nat
  BY RateAssumption
<1>2. u \in Seq(Nat) /\ Len(u) = n - 1 /\ \A i \in 1..(n - 1) : u[i] = s[i + 1]
  BY <1>1
<1>3. a \in Nat /\ b \in Nat /\ a <= b /\ b <= n /\ b - a <= MAX_CONN_RATE
      /\ n - b <= MAX_CONN_RATE /\ n - b <= c
      /\ (\A i \in 1..b : s[i] <= q) /\ \A i \in 1..a : s[i] + ONE_SEC < q
  BY DEF Quanta
<1>4. n > 2 * MAX_CONN_RATE
  OBVIOUS
<1> HIDE DEF n, u
<1>5. a - 1 \in Nat /\ b - 1 \in Nat /\ a - 1 <= b - 1 /\ b - 1 <= n - 1 /\ 1 \in 1..a
      /\ (b - 1) - (a - 1) <= MAX_CONN_RATE /\ (n - 1) - (b - 1) <= MAX_CONN_RATE
      /\ (n - 1) - (b - 1) <= c
  BY <1>1, <1>3, <1>4
<1>6. ASSUME NEW i \in 1..(b - 1) PROVE u[i] <= q
  <2>1. i + 1 \in 1..b /\ i \in 1..(n - 1)
    BY <1>1, <1>3
  <2> QED BY <1>2, <1>3, <2>1
<1>7. ASSUME NEW i \in 1..(a - 1) PROVE u[i] + ONE_SEC < q
  <2>1. i + 1 \in 1..a /\ i \in 1..(n - 1)
    BY <1>1, <1>3
  <2> QED BY <1>2, <1>3, <2>1
<1>8. \A i \in 1..(n - 1) : i + 1 \in 1..n
  BY <1>1
<1> QED BY <1>2, <1>3, <1>5, <1>6, <1>7, <1>8 DEF Quanta, n, u

\* Connections that add no entry do not matter.
LEMMA QuantaMore ==
    ASSUME NEW s \in Seq(Nat), NEW a, NEW b, NEW c \in Nat, NEW d \in Nat, c <= d, NEW q,
           Quanta(s, a, b, c, q)
    PROVE  Quanta(s, a, b, d, q)
<1> DEFINE n == Len(s)
<1>1. n \in Nat /\ b \in Nat /\ n - b <= c
  BY DEF Quanta
<1> HIDE DEF n
<1>2. n - b <= d
  BY <1>1
<1> QED BY <1>2 DEF Quanta, n

\* What a step does about connections.
Counts ==
    \/ UNCHANGED <<rate, added>>
    \/ CountConnection /\ UNCHANGED added
    \/ CountConnection /\ ~UnderFlood /\ NoteInsert

LEMMA CountsKeep ==
    ASSUME RateInv, Counts, UNCHANGED now
    PROVE  RateInv'
<1> DEFINE M == MAX_CONN_RATE
           c == rate.v1
           q == rate.v2
<1>1. M \in Nat /\ M > 0 /\ ONE_SEC \in Nat
  BY RateAssumption
<1>2. now \in Nat /\ c \in 0..(M + 1) /\ q \in Nat /\ q <= now /\ added \in Seq(Nat)
      /\ rate = [v1 |-> c, v2 |-> q] /\ \A i \in 1..Len(added) : added[i] <= now
  BY DEF RateInv
<1>3. PICK a : \E b : Quanta(added, a, b, c, q)
  BY DEF RateInv
<1>4. PICK b : Quanta(added, a, b, c, q)
  BY <1>3
<1>5. CASE UNCHANGED <<rate, added>>
  BY <1>5 DEF RateInv
<1>6. CASE CountConnection
  <2> DEFINE d == IF NewQuantum THEN 0 ELSE c
             p == IF NewQuantum THEN now ELSE q
  <2>1. PICK e : \E f : Quanta(added, e, f, d, p)
    <3>1. CASE NewQuantum
      <4>1. now - q > ONE_SEC
        BY <3>1 DEF NewQuantum
      <4>2. Quanta(added, b, Len(added), 0, now)
        BY <1>1, <1>2, <1>4, <4>1, QuantumBegins
      <4> QED BY <3>1, <4>2
    <3>2. CASE ~NewQuantum
      BY <1>4, <3>2
    <3> QED BY <3>1, <3>2
  <2>2. PICK f : Quanta(added, e, f, d, p)
    BY <2>1
  <2>3. d \in Nat /\ p \in Nat /\ p <= now
    BY <1>2
  <2>4. /\ rate' = [v1 |-> rate'.v1, v2 |-> p]
        /\ rate'.v1 \in 0..(M + 1) /\ d <= rate'.v1
        /\ ~UnderFlood => d < M /\ rate'.v1 = d + 1
    <3>1. CASE NewQuantum
      BY <1>1, <1>6, <3>1 DEF CountConnection
    <3>2. CASE ~NewQuantum /\ UnderFlood
      <4>1. rate' = [v1 |-> M + 1, v2 |-> q]
        BY <1>2, <1>6, <3>2 DEF CountConnection
      <4> QED BY <1>1, <1>2, <3>2, <4>1
    <3>3. CASE ~NewQuantum /\ ~UnderFlood
      <4>1. rate' = [v1 |-> c + 1, v2 |-> q]
        BY <1>2, <1>6, <3>3 DEF CountConnection
      <4>2. c + 1 <= M
        BY <1>1, <1>2, <3>3 DEF UnderFlood
      <4> QED BY <1>1, <1>2, <3>3, <4>1, <4>2
    <3> QED BY <3>1, <3>2, <3>3
  <2> HIDE DEF d, p
  <2>5. CASE UNCHANGED added
    <3>1. Quanta(added, e, f, rate'.v1, p)
      BY <1>1, <1>2, <2>2, <2>3, <2>4, QuantaMore
    <3> QED BY <1>2, <2>3, <2>4, <2>5, <3>1 DEF RateInv
  <2>6. CASE ~UnderFlood /\ NoteInsert
    <3>1. CASE Len(added) > 2 * M
      <4> DEFINE u == Tail(added)
      <4>1. /\ u \in Seq(Nat)
            /\ \A i \in 1..Len(u) : i + 1 \in 1..Len(added) /\ u[i] = added[i + 1]
            /\ Quanta(u, e - 1, f - 1, d, p)
        BY <1>2, <2>2, <2>3, <3>1, OldestForgotten
      <4>2. added' = Append(u, now)
        BY <2>6, <3>1 DEF NoteInsert
      <4>3. \A i \in 1..Len(u) : u[i] <= now
        BY <1>2, <4>1
      <4> HIDE DEF u
      <4>4. Quanta(added', e - 1, f - 1, rate'.v1, p)
        BY <1>2, <2>3, <2>4, <2>6, <4>1, <4>2, EntryNoted
      <4>5. added' \in Seq(Nat) /\ \A i \in 1..Len(added') : added'[i] <= now
        BY <1>2, <4>1, <4>2, <4>3
      <4> QED BY <1>2, <2>3, <2>4, <4>4, <4>5 DEF RateInv
    <3>2. CASE ~(Len(added) > 2 * M)
      <4>2. added' = Append(added, now)
        BY <2>6, <3>2 DEF NoteInsert
      <4>4. Quanta(added', e, f, rate'.v1, p)
        BY <1>2, <2>2, <2>3, <2>4, <2>6, <4>2, EntryNoted
      <4>5. added' \in Seq(Nat) /\ \A i \in 1..Len(added') : added'[i] <= now
        BY <1>2, <4>2
      <4> QED BY <1>2, <2>3, <2>4, <4>4, <4>5 DEF RateInv
    <3> QED BY <3>1, <3>2
  <2> QED BY <1>5, <1>6, <2>5, <2>6 DEF Counts
<1> QED BY <1>5, <1>6 DEF Counts

LEMMA InitRate == Init => RateInv
<1> SUFFICES ASSUME Init PROVE RateInv
  OBVIOUS
<1>1. now \in Nat /\ rate = [v1 |-> 0, v2 |-> 0] /\ added = <<>> /\ MAX_CONN_RATE \in Nat
  BY RateAssumption DEF Init, Boot
<1>2. Quanta(<<>>, 0, 0, 0, 0)
  BY <1>1 DEF Quanta
<1> QED BY <1>1, <1>2 DEF RateInv

LEMMA NextRate == RateInv /\ [Next]_vars => RateInv'
<1> SUFFICES ASSUME RateInv, [Next]_vars PROVE RateInv'
  OBVIOUS
<1>1. ASSUME NEW p \in Routed, ById(p) PROVE Counts /\ UNCHANGED now
  BY <1>1 DEF ById, CheckRealInLru, AddRealToLru, Counts
<1>2. ASSUME NEW p \in Routed, ByLru(p) PROVE Counts /\ UNCHANGED now
  BY <1>2 DEF ByLru, Counts
<1>3. ASSUME NEW p \in Routed, ByHash(p) PROVE Counts /\ UNCHANGED now
  BY <1>3 DEF ByHash, Counts
<1>4. CASE Refuse \/ UNCHANGED vars
  BY <1>4, CountsKeep DEF Refuse, vars, Counts
<1>5. ASSUME NEW r \in 0..MAX_REALS,
             \/ \E v \in VipNums, i \in RingPos : SetRing(v, i, r)
             \/ \E s \in ServerIds : SetServerId(s, r)
      PROVE  Counts /\ UNCHANGED now
  BY <1>5 DEF SetRing, SetServerId, Counts
<1>6. CASE Tick
  <2>1. now' = now + 1 /\ UNCHANGED <<rate, added>>
    BY <1>6 DEF Tick
  <2>2. \A i \in 1..Len(added) : added[i] \in Nat
    BY DEF RateInv
  <2>3. rate.v2 <= now + 1 /\ \A i \in 1..Len(added) : added[i] <= now + 1
    BY <2>2 DEF RateInv
  <2> QED BY <2>1, <2>3 DEF RateInv
<1> QED BY <1>1, <1>2, <1>3, <1>4, <1>5, <1>6, CountsKeep DEF Next

\* Whatever the rate and the second are, no more than twice the rate of entries
\* is added to the connection table in any second, by both paths together.
THEOREM RateLimited == Spec => []InsertsRateLimited
<1>1. RateInv => InsertsRateLimited
  <2> SUFFICES ASSUME RateInv, Len(added) > 2 * MAX_CONN_RATE PROVE now - added[1] > ONE_SEC
    BY DEF InsertsRateLimited
  <2>1. rate.v1 \in Nat /\ rate.v2 \in Nat /\ rate.v2 <= now /\ now \in Nat /\ added \in Seq(Nat)
    BY RateAssumption DEF RateInv
  <2>2. added[1] + ONE_SEC < rate.v2
    BY <2>1, OldestForgotten DEF RateInv
  <2>3. added[1] \in Nat
    BY <2>1, RateAssumption
  <2> QED BY <2>1, <2>2, <2>3, RateAssumption
<1> QED BY <1>1, InitRate, NextRate, PTL DEF Spec


-----------------------------------------------------------------------------
(* The order of the list. *)

\* The list has value v for key g, and only keys of S before it.
Recent(c, g, v, S) ==
    \E i \in DOMAIN c.keys_ :
        /\ c.keys_[i] = Node(g, v)
        /\ \A j \in 1..(i - 1) : c.keys_[j].key \in S

LEMMA RecentMore ==
    ASSUME NEW c, NEW g, NEW v, NEW S, Recent(c, g, v, S), NEW T, S \subseteq T
    PROVE  Recent(c, g, v, T)
BY DEF Recent

\* It is the entry a lookup of g finds.
LEMMA RecentFound ==
    ASSUME NEW N, NEW c, CacheOf(N, c), NEW g, NEW v, NEW S, Recent(c, g, v, S)
    PROVE  Contains(c, g) /\ ValueIn(c, g) = v
<1>1. PICK i \in DOMAIN c.keys_ : c.keys_[i] = Node(g, v)
  BY DEF Recent
<1>2. c.keys_[i].key = g /\ c.keys_[i].value = v
  BY <1>1 DEF Node
<1>3. Contains(c, g)
  BY <1>2 DEF Contains, CacheOf, InStep
<1>4. i = NodeOf(c, g)
  BY <1>2, <1>3, NodeOfProps
<1> QED BY <1>2, <1>3, <1>4 DEF ValueIn

LEMMA RecentLookup ==
    ASSUME NEW N, NEW c, CacheOf(N, c), NEW k, Contains(c, k),
           NEW g, g # k, NEW v, NEW S, Recent(c, g, v, S)
    PROVE  Recent(TryGetRef(c, k), g, v, S \cup {k})
<1> DEFINE s == c.keys_
           n == Len(s)
           x == NodeOf(c, k)
           t == Splice(s, x)
<1>1. s \in Seq(N) /\ n \in Nat /\ DOMAIN s = 1..n /\ x \in 1..n /\ s[x].key = k
  BY NodeOfProps DEF CacheOf
<1>2. TryGetRef(c, k).keys_ = t
  BY DEF TryGetRef, CacheOf
<1>3. PICK i \in 1..n : s[i] = Node(g, v) /\ \A j \in 1..(i - 1) : s[j].key \in S
  BY <1>1 DEF Recent
<1>4. i # x
  BY <1>1, <1>3 DEF Node
<1> HIDE DEF s, n, x
<1>5. DOMAIN t = 1..n /\ \A j \in 1..n : t[j] = IF j = 1 THEN s[x] ELSE IF j <= x THEN s[j - 1] ELSE s[j]
  BY <1>1 DEF Splice
<1> HIDE DEF t
<1> DEFINE y == IF i < x THEN i + 1 ELSE i
<1>6. y \in 1..n /\ t[y] = s[i]
  BY <1>1, <1>4, <1>5
<1>7. ASSUME NEW j \in 1..(y - 1) PROVE t[j].key \in S \cup {k}
  <2>1. j \in 1..n
    BY <1>1, <1>6
  <2>2. CASE j = 1
    BY <1>1, <1>5, <2>1, <2>2
  <2>3. CASE j # 1 /\ j <= x
    <3>1. j - 1 \in 1..(i - 1) /\ t[j] = s[j - 1]
      BY <1>1, <1>5, <2>1, <2>3
    <3> QED BY <1>3, <3>1
  <2>4. CASE j # 1 /\ ~(j <= x)
    <3>1. j \in 1..(i - 1) /\ t[j] = s[j]
      BY <1>1, <1>5, <2>1, <2>4
    <3> QED BY <1>3, <3>1
  <2> QED BY <2>2, <2>3, <2>4
<1> QED BY <1>2, <1>3, <1>5, <1>6, <1>7 DEF Recent

LEMMA RecentLookupOwn ==
    ASSUME NEW N, AreNodes(N), NEW c, CacheOf(N, c), NEW k, Contains(c, k)
    PROVE  Recent(TryGetRef(c, k), k, ValueIn(c, k), {})
<1> DEFINE s == c.keys_
           n == Len(s)
           x == NodeOf(c, k)
           t == Splice(s, x)
<1>1. s \in Seq(N) /\ n \in Nat /\ DOMAIN s = 1..n /\ x \in 1..n /\ s[x].key = k
  BY NodeOfProps DEF CacheOf
<1>2. TryGetRef(c, k).keys_ = t
  BY DEF TryGetRef, CacheOf
<1>3. s[x] = Node(k, ValueIn(c, k))
  BY <1>1 DEF AreNodes, ValueIn
<1>4. 1 \in DOMAIN t /\ t[1] = s[x]
  BY <1>1 DEF Splice
<1>5. 1..(1 - 1) = {}
  OBVIOUS
<1> HIDE DEF t, s, x
<1> QED BY <1>2, <1>3, <1>4, <1>5 DEF Recent

LEMMA RecentAssign ==
    ASSUME NEW N, AreNodes(N), NEW c, CacheOf(N, c), NEW k, Contains(c, k), NEW w,
           NEW g, NEW v, NEW S, Recent(c, g, v, S)
    PROVE  Recent(Assign(c, k, w), g, IF g = k THEN w ELSE v, S)
<1> DEFINE s == c.keys_
           x == NodeOf(c, k)
           t == [s EXCEPT ![x].value = w]
<1>1. s \in Seq(N) /\ x \in DOMAIN s /\ s[x].key = k
      /\ \A i \in DOMAIN s : s[i].key = k => i = x
  BY NodeOfProps DEF CacheOf
<1>2. Assign(c, k, w).keys_ = t
  BY DEF Assign, CacheOf
<1>3. PICK i \in DOMAIN s : s[i] = Node(g, v) /\ \A j \in 1..(i - 1) : s[j].key \in S
  BY DEF Recent
<1>4. s[i].key = g /\ s[x] = Node(k, s[x].value)
  BY <1>1, <1>3 DEF Node, AreNodes
<1> HIDE DEF s, x
<1>5. [s[x] EXCEPT !.value = w] = Node(k, w)
  BY <1>4 DEF Node
<1>6. DOMAIN t = DOMAIN s /\ \A j \in DOMAIN s : t[j] = IF j = x THEN Node(k, w) ELSE s[j]
  BY <1>1, <1>5
<1> HIDE DEF t
<1>7. \A j \in DOMAIN s : t[j].key = s[j].key
  BY <1>1, <1>6 DEF Node
<1>8. t[i] = Node(g, IF g = k THEN w ELSE v)
  BY <1>1, <1>3, <1>4, <1>6
<1>9. \A j \in 1..(i - 1) : j \in DOMAIN s
  BY <1>1
<1> QED BY <1>2, <1>3, <1>6, <1>7, <1>8, <1>9 DEF Recent

\* Keys that only few others come before are not pruned.
LEMMA RecentPruned ==
    ASSUME NEW N, NEW c, CacheOf(N, c), NEW g, NEW v, NEW S, Recent(c, g, v, S),
           IsFiniteSet(S), Cardinality(S) < MaxSize
    PROVE  Recent(Prune(c), g, v, S)
<1> DEFINE s == c.keys_
           n == Len(s)
           t == SubSeq(s, 1, MaxSize)
<1>1. s \in Seq(N) /\ Distinct(s) /\ n \in Nat /\ DOMAIN s = 1..n /\ c.cache_ = KeysIn(s)
  BY DEF CacheOf, InStep, Distinct, KeysIn
<1>2. PICK i \in 1..n : s[i] = Node(g, v) /\ \A j \in 1..(i - 1) : s[j].key \in S
  BY <1>1 DEF Recent
<1>3. CASE Cardinality(c.cache_) < MaxSize + Elasticity
  BY <1>3 DEF Prune
<1>4. CASE ~(Cardinality(c.cache_) < MaxSize + Elasticity)
  <2>1. Prune(c).keys_ = t
    BY <1>4 DEF Prune
  <2>2. MaxSize \in Nat /\ 0 < MaxSize /\ MaxSize <= n
    <3>1. Cardinality(c.cache_) \in Nat /\ Cardinality(c.cache_) <= n
      BY <1>1, ListLength, FS_CardinalityType
    <3> QED BY <1>1, <1>4, <3>1, SizeAssumption
  <2> HIDE DEF s, n
  <2>3. i <= MaxSize
    <3> DEFINE m == i - 1
               f == [j \in 1..m |-> s[j].key]
    <3>1. m \in Nat /\ \A j \in 1..m : j \in 1..n
      BY <1>1
    <3>2. IsFiniteSet(1..m) /\ Cardinality(1..m) = m
      <4> HIDE DEF m
      <4>1. Cardinality(1..m) = IF 1 > m THEN 0 ELSE m - 1 + 1
        BY <3>1, FS_Interval
      <4> QED BY <3>1, <4>1, FS_Interval
    <3>3. f \in [1..m -> S]
      BY <1>2
    <3> HIDE DEF m
    <3>4. \A j, k \in 1..m : f[j] = f[k] => j = k
      BY <1>1, <3>1 DEF Distinct
    <3>5. f \in Injection(1..m, S)
      BY <3>3, <3>4 DEF Injection, IsInjective
    <3> HIDE DEF f
    <3>6. m <= Cardinality(S)
      BY <3>2, <3>5, FS_Injection
    <3>7. Cardinality(S) \in Nat
      BY FS_CardinalityType
    <3> QED BY <1>1, <2>2, <3>1, <3>6, <3>7 DEF m
  <2>4. DOMAIN t = 1..MaxSize /\ \A j \in 1..MaxSize : t[j] = s[j]
    BY <1>1, <2>2 DEF n
  <2> HIDE DEF t
  <2>5. i \in DOMAIN t /\ t[i] = s[i] /\ \A j \in 1..(i - 1) : t[j] = s[j]
    BY <1>1, <2>2, <2>3, <2>4
  <2> QED BY <1>2, <2>1, <2>5 DEF Recent
<1> QED BY <1>3, <1>4


LEMMA FrontProps ==
    ASSUME NEW N, NEW c, CacheOf(N, c), NEW k, NEW w
    PROVE  /\ Recent(Front(c, k, w), k, w, {})
           /\ \A g, v, S : Recent(c, g, v, S) => Recent(Front(c, k, w), g, v, S \cup {k})
<1> DEFINE s == c.keys_
           n == Len(s)
           t == <<Node(k, w)>> \o s
<1>1. s \in Seq(N) /\ n \in Nat /\ DOMAIN s = 1..n
  BY DEF CacheOf
<1>2. Front(c, k, w).keys_ = t /\ Node(k, w).key = k
  BY DEF Front, Node
<1>3. DOMAIN t = 1..(n + 1) /\ t[1] = Node(k, w) /\ \A i \in 1..n : t[i + 1] = s[i]
  BY <1>1
<1> HIDE DEF t, n
<1>4. Recent(Front(c, k, w), k, w, {})
  <2>1. 1 \in DOMAIN t /\ 1..(1 - 1) = {}
    BY <1>1, <1>3
  <2> QED BY <1>2, <1>3, <2>1 DEF Recent
<1>5. ASSUME NEW g, NEW v, NEW S, Recent(c, g, v, S) PROVE Recent(Front(c, k, w), g, v, S \cup {k})
  <2>1. PICK i \in 1..n : s[i] = Node(g, v) /\ \A j \in 1..(i - 1) : s[j].key \in S
    BY <1>1, <1>5 DEF Recent
  <2> HIDE DEF s
  <2>2. i + 1 \in DOMAIN t /\ t[i + 1] = Node(g, v)
    BY <1>1, <1>3, <2>1
  <2>3. ASSUME NEW j \in 1..((i + 1) - 1) PROVE t[j].key \in S \cup {k}
    <3>1. CASE j = 1
      BY <1>2, <1>3, <3>1
    <3>2. CASE j # 1
      <4>1. j - 1 \in 1..(i - 1) /\ j - 1 \in 1..n /\ (j - 1) + 1 = j
        BY <1>1, <3>2
      <4>2. t[j] = s[j - 1]
        BY <1>3, <4>1
      <4> QED BY <2>1, <4>1, <4>2
    <3> QED BY <3>1, <3>2
  <2> QED BY <1>2, <2>2, <2>3 DEF Recent
<1> QED BY <1>4, <1>5

\* After k was used, an entry that is recent in cache c is as recent in d, but
\* for k.
Carries(c, d, k) ==
    \A g, v, S : g # k /\ IsFiniteSet(S) /\ Cardinality(S \cup {k}) < MaxSize /\ Recent(c, g, v, S)
                 => Recent(d, g, v, S \cup {k})

LEMMA SameCarries ==
    ASSUME NEW c, NEW k
    PROVE  Carries(c, c, k)
BY RecentMore DEF Carries

LEMMA LookupCarries ==
    ASSUME NEW N, NEW c, CacheOf(N, c), NEW k, Contains(c, k)
    PROVE  Carries(c, TryGetRef(c, k), k)
BY RecentLookup DEF Carries

\* A write to the entry that was looked up, or not, as the pointer has it.
LEMMA WriteCarries ==
    ASSUME NEW N, AreNodes(N), NEW c, CacheOf(N, c), NEW k, Contains(c, k), NEW w
    PROVE  /\ Carries(c, Write(TryGetRef(c, k), k, w), k)
           /\ Recent(Write(TryGetRef(c, k), k, w), k, IF in_place THEN w ELSE ValueIn(c, k), {})
<1> DEFINE d == TryGetRef(c, k)
           u == Write(d, k, w)
<1>1. CacheOf(N, d) /\ Contains(d, k)
  BY LookedUp DEF Contains
<1>2. Recent(d, k, ValueIn(c, k), {}) /\ Carries(c, d, k)
  BY RecentLookupOwn, LookupCarries
<1> HIDE DEF d
<1>3. CASE in_place
  <2>1. u = Assign(d, k, w)
    BY <1>3 DEF Write
  <2>2. Recent(Assign(d, k, w), k, w, {})
    BY <1>1, <1>2, RecentAssign
  <2>3. ASSUME NEW g, NEW v, NEW S, g # k, Recent(d, g, v, S \cup {k})
        PROVE  Recent(Assign(d, k, w), g, v, S \cup {k})
    BY <1>1, <2>3, RecentAssign
  <2>4. Carries(c, Assign(d, k, w), k)
    BY <1>2, <2>3 DEF Carries
  <2> HIDE DEF u
  <2> QED BY <1>3, <2>1, <2>2, <2>4 DEF u, d
<1>4. CASE ~in_place
  <2>1. u = d
    BY <1>4 DEF Write
  <2> HIDE DEF u
  <2> QED BY <1>2, <1>4, <2>1 DEF u, d
<1> QED BY <1>3, <1>4

LEMMA InsertCarries ==
    ASSUME NEW N, AreNodes(N), NEW c, CacheOf(N, c), NEW k, NEW w, Node(k, w) \in N
    PROVE  Carries(c, Insert(c, k, w), k) /\ Recent(Insert(c, k, w), k, w, {})
<1>1. CASE Contains(c, k)
  <2> DEFINE d == Assign(c, k, w)
  <2>1. CacheOf(N, d) /\ Contains(d, k) /\ Insert(c, k, w) = TryGetRef(d, k)
    BY <1>1, Assigned DEF Contains, Insert
  <2>2. ASSUME NEW g, NEW v, NEW S, Recent(c, g, v, S)
        PROVE  Recent(d, g, IF g = k THEN w ELSE v, S)
    BY <1>1, <2>2, RecentAssign
  <2>3. ASSUME NEW g, NEW v, NEW S, g # k, Recent(c, g, v, S)
        PROVE  Recent(TryGetRef(d, k), g, v, S \cup {k})
    <3>1. Recent(d, g, v, S)
      BY <2>2, <2>3
    <3> HIDE DEF d
    <3> QED BY <2>1, <2>3, <3>1, RecentLookup
  <2>4. Carries(c, TryGetRef(d, k), k)
    BY <2>3 DEF Carries
  <2>5. ValueIn(d, k) = w
    <3>1. PICK i \in DOMAIN c.keys_ : c.keys_[i].key = k
      BY <1>1, NodeOfProps
    <3>2. c.keys_ \in Seq(N) /\ c.keys_[i] = Node(k, c.keys_[i].value)
      BY <3>1 DEF CacheOf, AreNodes
    <3>3. Recent(c, k, c.keys_[i].value, {c.keys_[j].key : j \in 1..(i - 1)})
      BY <3>1, <3>2 DEF Recent
    <3>4. Recent(d, k, w, {c.keys_[j].key : j \in 1..(i - 1)})
      BY <2>2, <3>3
    <3> HIDE DEF d
    <3> QED BY <2>1, <3>4, RecentFound
  <2> HIDE DEF d
  <2>6. Recent(TryGetRef(d, k), k, w, {})
    BY <2>1, <2>5, RecentLookupOwn
  <2> QED BY <2>1, <2>4, <2>6
<1>2. CASE ~Contains(c, k)
  <2> DEFINE d == Front(c, k, w)
  <2>1. Insert(c, k, w) = Prune(d)
    BY <1>2 DEF Insert, Front
  <2>2. CacheOf(N, d)
    BY <1>2, FrontCache
  <2>3. /\ Recent(d, k, w, {})
        /\ \A g, v, S : Recent(c, g, v, S) => Recent(d, g, v, S \cup {k})
    BY FrontProps
  <2> HIDE DEF d
  <2>4. IsFiniteSet({}) /\ Cardinality({}) < MaxSize
    BY FS_EmptySet, SizeAssumption
  <2>5. Recent(Prune(d), k, w, {})
    BY <2>2, <2>3, <2>4, RecentPruned
  <2>6. ASSUME NEW g, NEW v, NEW S, IsFiniteSet(S), Cardinality(S \cup {k}) < MaxSize,
               Recent(c, g, v, S)
        PROVE  Recent(Prune(d), g, v, S \cup {k})
    <3>1. IsFiniteSet(S \cup {k})
      BY <2>6, FS_AddElement
    <3>2. Recent(d, g, v, S \cup {k})
      BY <2>3, <2>6
    <3> QED BY <2>2, <2>6, <3>1, <3>2, RecentPruned
  <2> QED BY <2>1, <2>5, <2>6 DEF Carries
<1> QED BY <1>1, <1>2


-----------------------------------------------------------------------------
(* The pins of history. *)

\* The pin of flow g counts: for UDP only if a lookup gives the entry itself.
Live(pins, g) == pins[g] # None /\ (g.proto = "udp" => in_place)

Remembers(g) == \A p \in Routed : FlowKey[p] = g => "LRU_BYPASS" \notin Flags[p]

\* A flow that has a pin is in the cache with the real and the time of the pin,
\* and only flows used since are before it in the list.
PinOK(c, pins, g) ==
    Live(pins, g) =>
        /\ pins[g] = [real |-> pins[g].real, at |-> pins[g].at, others |-> pins[g].others]
        /\ IsFiniteSet(pins[g].others) /\ Cardinality(pins[g].others) < MaxSize
        /\ pins[g].real < MAX_REALS
        /\ Remembers(g)
        /\ \E v : /\ Recent(c, g, v, pins[g].others)
                  /\ v.pos = pins[g].real
                  /\ g.proto = "udp" => v.atime = pins[g].at

PinsOK(c, pins, G) == \A g \in G : PinOK(c, pins, g)

IsPins(pins) == pins = [g \in Keys |-> pins[g]]

PinInv == IsPins(pin) /\ PinsOK(lru, pin, Keys)

\* Flow k was used: the pins of the others that are left are still good.
LEMMA UsedOthers ==
    ASSUME NEW c, NEW d, NEW pins, NEW k, PinsOK(c, pins, Keys \ {k}), Carries(c, d, k)
    PROVE  IsPins(Used(pins, k)) /\ PinsOK(d, Used(pins, k), Keys \ {k})
<1> DEFINE u == Used(pins, k)
<1>1. IsPins(u)
  BY DEF Used, IsPins
<1>2. ASSUME NEW g \in Keys \ {k} PROVE PinOK(d, u, g)
  <2> DEFINE S == pins[g].others
  <2>1. u[g] = IF pins[g] = None THEN None
               ELSE IF Cardinality(S \cup {k}) >= MaxSize THEN None
               ELSE [pins[g] EXCEPT !.others = S \cup {k}]
    BY <1>2 DEF Used
  <2> HIDE DEF u
  <2> SUFFICES ASSUME Live(u, g) PROVE PinOK(d, u, g)
    BY DEF PinOK
  <2>2. Live(pins, g) /\ ~(Cardinality(S \cup {k}) >= MaxSize)
        /\ u[g] = [pins[g] EXCEPT !.others = S \cup {k}]
    BY <2>1 DEF Live
  <2>3. /\ pins[g] = [real |-> pins[g].real, at |-> pins[g].at, others |-> S]
        /\ IsFiniteSet(S)
        /\ pins[g].real < MAX_REALS
        /\ Remembers(g)
    BY <1>2, <2>2 DEF PinsOK, PinOK
  <2>4. PICK v : /\ Recent(c, g, v, S)
                 /\ v.pos = pins[g].real
                 /\ g.proto = "udp" => v.atime = pins[g].at
    BY <1>2, <2>2 DEF PinsOK, PinOK
  <2> DEFINE r == pins[g].real
             t == pins[g].at
  <2>5. u[g] = [real |-> r, at |-> t, others |-> S \cup {k}]
    BY <2>2, <2>3
  <2>6. IsFiniteSet(S \cup {k}) /\ Cardinality(S \cup {k}) \in Nat
    BY <2>3, FS_AddElement, FS_CardinalityType
  <2>7. Cardinality(S \cup {k}) < MaxSize
    BY <2>2, <2>6, SizeAssumption
  <2>8. Recent(d, g, v, S \cup {k})
    BY <1>2, <2>3, <2>4, <2>7 DEF Carries
  <2> HIDE DEF S, r, t
  <2>9. u[g].real = r /\ u[g].at = t /\ u[g].others = S \cup {k}
    BY <2>5
  <2> QED BY <2>3, <2>4, <2>5, <2>6, <2>7, <2>8, <2>9 DEF PinOK, r, t
<1> QED BY <1>1, <1>2 DEF PinsOK

\* The flow that was used keeps its pin as it is.
LEMMA UsedOwn ==
    ASSUME NEW d, NEW pins, NEW k \in Keys, PinOK(d, pins, k)
    PROVE  PinOK(d, Used(pins, k), k)
<1>1. Used(pins, k)[k] = pins[k]
  BY DEF Used
<1> QED BY <1>1 DEF PinOK, Live

\* The flow that was used gets a new pin.
LEMMA PinnedOwn ==
    ASSUME NEW d, NEW pins, IsPins(pins), NEW k \in Keys, PinsOK(d, pins, Keys \ {k}),
           NEW r, r < MAX_REALS, NEW t, Remembers(k),
           NEW v, Recent(d, k, v, {}), v.pos = r, in_place /\ k.proto = "udp" => v.atime = t
    PROVE  IsPins(Pinned(pins, k, r, t)) /\ PinsOK(d, Pinned(pins, k, r, t), Keys)
<1> DEFINE u == Pinned(pins, k, r, t)
           a == IF k.proto = "udp" THEN t ELSE 0
<1>1. u = [pins EXCEPT ![k] = [real |-> r, at |-> a, others |-> {}]]
  BY DEF Pinned
<1>2. u[k] = [real |-> r, at |-> a, others |-> {}] /\ \A g \in Keys \ {k} : u[g] = pins[g]
  BY <1>1 DEF IsPins
<1>3. IsPins(u)
  BY <1>1 DEF IsPins
<1> HIDE DEF u
<1>4. ASSUME NEW g \in Keys \ {k} PROVE PinOK(d, u, g)
  <2>1. u[g] = pins[g] /\ PinOK(d, pins, g)
    BY <1>2, <1>4 DEF PinsOK
  <2> QED BY <2>1 DEF PinOK, Live
<1>5. PinOK(d, u, k)
  <2> SUFFICES ASSUME Live(u, k) PROVE PinOK(d, u, k)
    BY DEF PinOK
  <2>1. k.proto = "udp" => v.atime = a
    BY DEF Live
  <2> HIDE DEF a
  <2>2. u[k].real = r /\ u[k].at = a /\ u[k].others = {}
    BY <1>2
  <2>3. IsFiniteSet({}) /\ Cardinality({}) < MaxSize
    BY FS_EmptySet, SizeAssumption
  <2> QED BY <1>2, <2>1, <2>2, <2>3 DEF PinOK
<1> QED BY <1>3, <1>4, <1>5 DEF PinsOK, u


LEMMA KeyProto ==
    ASSUME NEW p \in Routed
    PROVE  FlowKey[p] \in Keys /\ FlowKey[p].proto = p.proto
<1>1. FlowOf(p).proto = p.proto
  BY DEF FlowOf
<1> QED BY <1>1, KeyFields DEF Keys

\* All packets of a flow have the flags of one VIP.
LEMMA FlowRemembers ==
    ASSUME NEW p \in Routed, "LRU_BYPASS" \notin Flags[p]
    PROVE  Remembers(FlowKey[p])
<1> SUFFICES ASSUME NEW q \in Routed, FlowKey[q] = FlowKey[p] PROVE "LRU_BYPASS" \notin Flags[q]
  BY DEF Remembers
<1>1. LeadsTo(FlowKey[p], p) /\ LeadsTo(FlowKey[p], q)
  BY KeyFields
<1>2. Vip[q] = Vip[p]
  BY <1>1, OneVip
<1> QED BY <1>2 DEF Flags

\* Under HASH_DPORT_ONLY it is stored under the key of no flow.
LEMMA PortOnlyKey ==
    ASSUME NEW p \in Routed, "HASH_DPORT_ONLY" \in Flags[p]
    PROVE  HashedKey[p] \notin Keys
<1> DEFINE f == Flow[p]
           h == HashedFlow[p]
<1>1. h = [f EXCEPT !.src = 0, !.sport = f.dport]
  BY DEF HashedFlow
<1>2. f = [src |-> f.src, dst |-> f.dst, sport |-> f.sport, dport |-> f.dport, proto |-> f.proto]
  BY FlowIs
<1> HIDE DEF f, h
<1>3. h = [src |-> 0, dst |-> f.dst, sport |-> f.dport, dport |-> f.dport, proto |-> f.proto]
  BY <1>1, <1>2
<1>4. KeyOf(h).src = Word(0)
  BY <1>3, KeyIs
<1>5. HashedKey[p] = KeyOf(h)
  BY DEF HashedKey, h
<1> QED BY <1>4, <1>5, SourceAssumption DEF Keys

\* A connection is stored under the key of its flow, or of no flow.
LEMMA StoredKey ==
    ASSUME NEW p \in Routed, HashedKey[p] \in Keys
    PROVE  HashedKey[p] = FlowKey[p] /\ "HASH_DPORT_ONLY" \notin Flags[p]
<1>1. "HASH_DPORT_ONLY" \notin Flags[p]
  BY PortOnlyKey
<1> QED BY <1>1 DEF HashedKey, HashedFlow, FlowKey

LEMMA ByIdPins ==
    ASSUME SendInv, PinInv, NEW p \in Routed, ById(p)
    PROVE  IsPins(pin)' /\ PinsOK(lru', pin', Keys)
<1> DEFINE k == FlowKey[p]
           r == IdReal(p)
           pins == [pin EXCEPT ![k] = None]
<1>1. CacheOf(Entries, lru) /\ r \in Nat /\ NamedFor(p, r) /\ k \in Keys
  BY IdRealNamed, KeyProto DEF SendInv, ById
<1>2. CASE UNCHANGED <<lru, pin>>
  BY <1>2 DEF PinInv, IsPins
<1>3. CASE ~UNCHANGED <<lru, pin>>
  <2>1. pin' = Used(pins, k)
    BY <1>3 DEF ById
  <2>2. \/ Contains(lru, k) /\ CheckRealInLru(k, r)
        \/ AddRealToLru(k, r)
    BY <1>3 DEF ById
  <2>3. pins[k] = None /\ \A g \in Keys \ {k} : pins[g] = pin[g]
    BY <1>1 DEF PinInv, IsPins
  <2> HIDE DEF pins
  <2>4. PinsOK(lru, pins, Keys \ {k})
    BY <2>3 DEF PinInv, PinsOK, PinOK, Live
  <2>5. PinOK(lru', pins, k)
    BY <2>3 DEF PinOK, Live
  <2>6. Carries(lru, lru', k)
    <3>1. CASE Contains(lru, k) /\ CheckRealInLru(k, r)
      <4> DEFINE w == [ValueIn(lru, k) EXCEPT !.pos = r]
      <4>1. lru' = TryGetRef(lru, k) \/ lru' = Write(TryGetRef(lru, k), k, w)
        BY <3>1 DEF CheckRealInLru
      <4> HIDE DEF w
      <4>2. Carries(lru, TryGetRef(lru, k), k)
        BY <1>1, <3>1, LookupCarries
      <4>3. Carries(lru, Write(TryGetRef(lru, k), k, w), k)
        BY <1>1, <3>1, EntriesNodes, WriteCarries
      <4> QED BY <4>1, <4>2, <4>3
    <3>2. CASE AddRealToLru(k, r)
      <4> DEFINE w == [pos |-> r, atime |-> 0]
      <4>1. lru' = lru \/ lru' = Insert(lru, k, w)
        BY <3>2 DEF AddRealToLru
      <4>2. Node(k, w) \in Entries
        BY <1>1, EntryFor
      <4> HIDE DEF w
      <4>3. Carries(lru, Insert(lru, k, w), k)
        BY <1>1, <4>2, EntriesNodes, InsertCarries
      <4> QED BY <4>1, <4>3, SameCarries
    <3> QED BY <2>2, <3>1, <3>2
  <2>7. IsPins(Used(pins, k)) /\ PinsOK(lru', Used(pins, k), Keys \ {k})
    BY <2>4, <2>6, UsedOthers
  <2>8. PinOK(lru', Used(pins, k), k)
    BY <1>1, <2>5, UsedOwn
  <2> QED BY <2>1, <2>7, <2>8 DEF PinsOK, IsPins
<1> QED BY <1>2, <1>3

LEMMA ByLruPins ==
    ASSUME SendInv, PinInv, NEW p \in Routed, ByLru(p)
    PROVE  IsPins(pin)' /\ PinsOK(lru', pin', Keys)
<1> DEFINE k == FlowKey[p]
           v == ValueIn(lru, k)
           w == [v EXCEPT !.atime = now]
           x == IF p.proto = "udp" /\ in_place THEN w ELSE v
<1>1. CacheOf(Entries, lru) /\ Contains(lru, k) /\ k \in Keys /\ k.proto = p.proto
  BY KeyProto DEF SendInv, ByLru, Hit, LooksUp
<1>2. v = [pos |-> v.pos, atime |-> v.atime] /\ v.pos < MAX_REALS /\ Remembers(k)
  BY <1>1, EntryOf, FlowRemembers DEF ByLru, Hit, LooksUp
<1>3. lru' = (IF p.proto = "udp" THEN Write(TryGetRef(lru, k), k, w) ELSE TryGetRef(lru, k))
      /\ pin' = Pinned(Used(pin, k), k, v.pos, now)
  BY DEF ByLru
<1>4. w.pos = v.pos /\ w.atime = now
  BY <1>2
<1>5. x.pos = v.pos /\ (in_place /\ k.proto = "udp" => x.atime = now)
  BY <1>1, <1>4
<1> HIDE DEF w
<1>6. Carries(lru, lru', k) /\ Recent(lru', k, x, {})
  <2>1. CASE p.proto = "udp"
    BY <1>1, <1>3, <2>1, EntriesNodes, WriteCarries
  <2>2. CASE p.proto # "udp"
    BY <1>1, <1>3, <2>2, EntriesNodes, LookupCarries, RecentLookupOwn
  <2> QED BY <2>1, <2>2
<1>7. IsPins(Used(pin, k)) /\ PinsOK(lru', Used(pin, k), Keys \ {k})
  BY <1>6, UsedOthers DEF PinInv, PinsOK
<1> HIDE DEF x, v
<1> DEFINE q == Pinned(Used(pin, k), k, v.pos, now)
<1>8. IsPins(q) /\ PinsOK(lru', q, Keys)
  BY <1>1, <1>2, <1>5, <1>6, <1>7, PinnedOwn
<1> QED BY <1>3, <1>8 DEF IsPins

LEMMA ByHashPins ==
    ASSUME SendInv, PinInv, NEW p \in Routed, ByHash(p)
    PROVE  IsPins(pin)' /\ PinsOK(lru', pin', Keys)
<1> DEFINE k == FlowKey[p]
           h == HashedKey[p]
           looked == IF LooksUp(p) THEN TryGetRef(lru, k) ELSE lru
           pinned == IF LooksUp(p) THEN Used(pin, k) ELSE pin
           t == IF p.proto = "udp" THEN now ELSE 0
           r == Real(p)
           w == [pos |-> r, atime |-> t]
<1>1. CacheOf(Entries, lru) /\ k \in Keys /\ k.proto = p.proto /\ t \in Nat
      /\ r \in Nat /\ NamedFor(p, r)
  BY KeyProto, RingReal DEF SendInv, TablesInv
<1>2. CacheOf(Entries, looked)
  BY <1>1, LookedUp DEF LooksUp
<1>3. IsPins(pinned) /\ PinsOK(looked, pinned, Keys)
  <2>1. CASE LooksUp(p)
    <3>1. Contains(lru, k)
      BY <2>1 DEF LooksUp
    <3>2. Carries(lru, TryGetRef(lru, k), k) /\ Recent(TryGetRef(lru, k), k, ValueIn(lru, k), {})
      BY <1>1, <3>1, EntriesNodes, LookupCarries, RecentLookupOwn
    <3>3. IsPins(Used(pin, k)) /\ PinsOK(TryGetRef(lru, k), Used(pin, k), Keys \ {k})
      BY <3>2, UsedOthers DEF PinInv, PinsOK
    <3>4. PinOK(TryGetRef(lru, k), pin, k)
      <4> SUFFICES ASSUME Live(pin, k) PROVE PinOK(TryGetRef(lru, k), pin, k)
        BY DEF PinOK
      <4>1. PinOK(lru, pin, k)
        BY <1>1 DEF PinInv, PinsOK
      <4>2. PICK v : /\ Recent(lru, k, v, pin[k].others)
                     /\ v.pos = pin[k].real
                     /\ k.proto = "udp" => v.atime = pin[k].at
        BY <4>1 DEF PinOK
      <4>3. ValueIn(lru, k) = v
        BY <1>1, <4>2, RecentFound
      <4>4. Recent(TryGetRef(lru, k), k, v, pin[k].others)
        BY <3>2, <4>3, RecentMore
      <4> QED BY <4>1, <4>2, <4>4 DEF PinOK
    <3>5. PinOK(TryGetRef(lru, k), Used(pin, k), k)
      BY <1>1, <3>4, UsedOwn
    <3> QED BY <2>1, <3>3, <3>5 DEF PinsOK
  <2>2. CASE ~LooksUp(p)
    BY <2>2 DEF PinInv
  <2> QED BY <2>1, <2>2
<1>4. \/ lru' = looked /\ pin' = pinned
      \/ /\ r < MAX_REALS /\ "LRU_BYPASS" \notin Flags[p]
         /\ lru' = Insert(looked, h, w)
         /\ pin' = IF h = k THEN Pinned(Used(pinned, h), h, r, now) ELSE Used(pinned, h)
  BY DEF ByHash
<1> HIDE DEF looked, pinned
<1>5. CASE lru' = looked /\ pin' = pinned
  BY <1>3, <1>5 DEF IsPins
<1>6. CASE /\ r < MAX_REALS /\ "LRU_BYPASS" \notin Flags[p]
           /\ lru' = Insert(looked, h, w)
           /\ pin' = IF h = k THEN Pinned(Used(pinned, h), h, r, now) ELSE Used(pinned, h)
  <2>1. Node(h, w) \in Entries
    BY <1>1, EntryFor
  <2>2. w.pos = r /\ (p.proto = "udp" => w.atime = now)
    OBVIOUS
  <2> HIDE DEF w
  <2>3. Carries(looked, lru', h) /\ Recent(lru', h, w, {})
    BY <1>2, <1>6, <2>1, EntriesNodes, InsertCarries
  <2>4. IsPins(Used(pinned, h)) /\ PinsOK(lru', Used(pinned, h), Keys \ {h})
    BY <1>3, <2>3, UsedOthers DEF PinsOK
  <2>5. CASE h = k
    <3>1. Remembers(h) /\ h \in Keys /\ h.proto = p.proto
      BY <1>1, <1>6, <2>5, FlowRemembers
    <3> HIDE DEF r, h
    <3> DEFINE q == Pinned(Used(pinned, h), h, r, now)
    <3>2. IsPins(q) /\ PinsOK(lru', q, Keys)
      BY <1>6, <2>2, <2>3, <2>4, <3>1, PinnedOwn
    <3> QED BY <1>6, <2>5, <3>2 DEF IsPins
  <2>6. CASE h # k
    <3>1. Keys \ {h} = Keys
      BY <2>6, StoredKey
    <3> QED BY <1>6, <2>4, <2>6, <3>1 DEF IsPins
  <2> QED BY <2>5, <2>6
<1> QED BY <1>4, <1>5, <1>6


LEMMA InitPin == Init => PinInv
<1> SUFFICES ASSUME Init PROVE PinInv
  OBVIOUS
<1>1. pin = [k \in Keys |-> None]
  BY DEF Init, NoPin
<1>2. IsPins(pin) /\ \A g \in Keys : ~Live(pin, g)
  BY <1>1 DEF IsPins, Live
<1> QED BY <1>2 DEF PinInv, PinsOK, PinOK

LEMMA NextPin == SendInv /\ PinInv /\ [Next]_vars => PinInv'
<1> SUFFICES ASSUME SendInv, PinInv, [Next]_vars PROVE PinInv'
  OBVIOUS
<1>1. UNCHANGED in_place
  BY DEF Next, Refuse, ById, ByLru, ByHash, SetRing, SetServerId, Tick, vars
<1>2. IsPins(pin)' /\ PinsOK(lru', pin', Keys)
  <2>1. CASE UNCHANGED <<lru, pin>>
    BY <2>1 DEF PinInv, IsPins
  <2>2. CASE \E p \in Routed : ById(p) \/ ByLru(p) \/ ByHash(p)
    BY <2>2, ByIdPins, ByLruPins, ByHashPins
  <2> QED BY <2>1, <2>2 DEF Next, Refuse, SetRing, SetServerId, Tick, vars
<1>3. PinsOK(lru, pin, Keys)'
  BY <1>1, <1>2 DEF PinsOK, PinOK, Live, Recent, Remembers
<1> QED BY <1>2, <1>3 DEF PinInv

\* What the table has for a flow with a pin that counts.
LEMMA PinFound ==
    ASSUME SendInv, PinInv, NEW p \in Routed, NEW f, f = FlowKey[p], Live(pin, f)
    PROVE  /\ Contains(lru, f) /\ "LRU_BYPASS" \notin Flags[p]
           /\ ValueIn(lru, f).pos = pin[f].real /\ pin[f].real < MAX_REALS
           /\ f.proto = "udp" => ValueIn(lru, f).atime = pin[f].at
<1>1. CacheOf(Entries, lru) /\ PinOK(lru, pin, f)
  BY KeyProto DEF SendInv, PinInv, PinsOK
<1>2. PICK v : /\ Recent(lru, f, v, pin[f].others)
               /\ v.pos = pin[f].real
               /\ f.proto = "udp" => v.atime = pin[f].at
  BY <1>1 DEF PinOK
<1>3. Contains(lru, f) /\ ValueIn(lru, f) = v
  BY <1>1, <1>2, RecentFound
<1> QED BY <1>1, <1>2, <1>3 DEF PinOK, Remembers

\* A flow with an entry of its own keeps its real while the ring changes, for
\* tables of any size and any VIPs and packets, as long as fewer other flows than
\* the table holds were used since, and for UDP no longer than the timeout has
\* passed and the program is given the entry itself.  Flows without an entry
\* move with the ring and are not covered: those of HASH_DPORT_ONLY and
\* LRU_BYPASS services, those only seen under flood, and those whose last packet
\* was routed by its server id.
THEOREM RealsKept == Spec => FlowKeepsReal
<1> DEFINE Kept == \A f \in Keys :
                     Sticks(f) /\ (f.proto = "udp" => in_place) => out'.real = pin[f].real
<1>1. SendInv /\ PinInv /\ [Next]_vars => [Kept]_out
  <2> SUFFICES ASSUME SendInv, PinInv, Next, out' # out, NEW f \in Keys, Sticks(f),
                      f.proto = "udp" => in_place
               PROVE  out'.real = pin[f].real
    BY DEF vars
  <2>1. out'.key = f /\ out'.routed \in {"lru", "hash"} /\ ~out'.syn /\ Live(pin, f)
        /\ (f.proto = "udp" => now - pin[f].at <= LRU_UDP_TIMEOUT)
    BY DEF Sticks, Live
  <2>2. out' # Quiet
    BY <2>1, VipAssumption DEF Quiet
  <2>3. PICK p \in Routed : ById(p) \/ ByLru(p) \/ ByHash(p)
    BY <2>2 DEF Next, Refuse, NotSent, SetRing, SetServerId, Tick
  <2>4. ASSUME NEW how, NEW r, Encap(p, how, r)
        PROVE  how = out'.routed /\ r = out'.real /\ FlowKey[p] = f /\ ~p.syn
    BY <2>1, <2>2, <2>4 DEF Encap, NotSent
  <2>5. CASE ById(p)
    <3>1. Encap(p, "id", IdReal(p))
      BY <2>2, <2>5 DEF ById, NotSent
    <3> QED BY <2>1, <2>4, <3>1
  <2>6. CASE ByLru(p)
    <3>1. Encap(p, "lru", ValueIn(lru, FlowKey[p]).pos)
      BY <2>6 DEF ByLru
    <3>2. FlowKey[p] = f /\ ValueIn(lru, FlowKey[p]).pos = out'.real
      BY <2>4, <3>1
    <3> QED BY <2>1, <3>2, PinFound
  <2>7. CASE ByHash(p)
    <3>1. Encap(p, "hash", Real(p)) /\ ~Hit(p)
      BY <2>2, <2>7 DEF ByHash, NotSent
    <3>2. FlowKey[p] = f /\ ~p.syn /\ p.proto = f.proto
      BY <2>4, <3>1, KeyProto
    <3>3. /\ Contains(lru, f) /\ "LRU_BYPASS" \notin Flags[p]
          /\ ValueIn(lru, f).pos < MAX_REALS
          /\ f.proto = "udp" => ValueIn(lru, f).atime = pin[f].at
      BY <2>1, <3>2, PinFound
    <3>4. ~Expired(p)
      <4> SUFFICES ASSUME p.proto = "udp", now - ValueIn(lru, f).atime > LRU_UDP_TIMEOUT
                   PROVE  FALSE
        BY <3>2 DEF Expired
      <4>1. ValueIn(lru, f).atime = pin[f].at /\ ValueIn(lru, f).atime \in Nat /\ now \in Nat
        BY <3>2, <3>3, EntryOf DEF SendInv, TablesInv
      <4> QED BY <2>1, <3>2, <4>1, RateAssumption
    <3> QED BY <3>1, <3>2, <3>3, <3>4 DEF Hit, LooksUp
  <2> QED BY <2>3, <2>5, <2>6, <2>7
<1>2. Spec => [](SendInv /\ PinInv)
  BY InitSend, NextSend, InitPin, NextPin, PTL DEF Spec
<1>3. FlowKeepsReal <=> [][Kept]_out
  BY DEF FlowKeepsReal
<1> QED BY <1>1, <1>2, <1>3, PTL DEF Spec

-----------------------------------------------------------------------------
(* Services that hash the destination port only. *)

Ported == {p \in Routed : "HASH_DPORT_ONLY" \in Flags[p] /\ "QUIC_VIP" \notin Flags[p]}

\* Their packets find no entry.
PortInv == \A p \in Ported : FlowKey[p] \notin lru.cache_

\* No packet stores a connection where one of theirs would look it up.
LEMMA StoredElsewhere ==
    ASSUME NEW p \in Ported, NEW q \in Routed
    PROVE  /\ HashedKey[q] # FlowKey[p]
           /\ "QUIC_VIP" \in Flags[q] => FlowKey[q] # FlowKey[p]
<1>1. p \in Routed /\ FlowKey[p] \in Keys
  BY DEF Ported, Keys
<1>2. FlowKey[q] = FlowKey[p] => Flags[q] = Flags[p]
  <2>1. LeadsTo(FlowKey[p], p) /\ LeadsTo(FlowKey[q], q)
    BY <1>1, KeyFields
  <2>2. FlowKey[q] = FlowKey[p] => Vip[q] = Vip[p]
    BY <1>1, <2>1, OneVip
  <2> QED BY <1>1, <2>2 DEF Flags
<1>3. HashedKey[q] = FlowKey[p] => FlowKey[q] = FlowKey[p] /\ "HASH_DPORT_ONLY" \notin Flags[q]
  BY <1>1, StoredKey
<1> QED BY <1>2, <1>3 DEF Ported

LEMMA InsertKeys ==
    ASSUME NEW N, AreNodes(N), NEW c, CacheOf(N, c), NEW k, NEW v, Node(k, v) \in N
    PROVE  Insert(c, k, v).cache_ \subseteq c.cache_ \cup {k}
<1>1. CASE Contains(c, k)
  <2>1. CacheOf(N, Assign(c, k, v)) /\ Assign(c, k, v).cache_ = c.cache_
    BY <1>1, Assigned
  <2>2. TryGetRef(Assign(c, k, v), k).cache_ = c.cache_
    BY <1>1, <2>1, LookedUp DEF Contains
  <2> QED BY <1>1, <2>2 DEF Insert
<1>2. CASE ~Contains(c, k)
  <2> DEFINE l == <<Node(k, v)>> \o c.keys_
             s == c.cache_ \cup {k}
             d == [keys_ |-> l, cache_ |-> s]
  <2>1. Insert(c, k, v) = Prune(d)
    BY <1>2 DEF Insert
  <2> HIDE DEF l, s
  <2>2. Prune(d).cache_ \subseteq s
    BY DEF Prune
  <2> QED BY <2>1, <2>2 DEF s
<1> QED BY <1>1, <1>2

\* What a packet adds to the index.
LEMMA ByIdKeys ==
    ASSUME SendInv, NEW q \in Routed, ById(q)
    PROVE  lru'.cache_ \subseteq lru.cache_ \cup {FlowKey[q]} /\ "QUIC_VIP" \in Flags[q]
<1> DEFINE k == FlowKey[q]
           r == IdReal(q)
<1>1. CacheOf(Entries, lru) /\ r \in Nat /\ NamedFor(q, r) /\ "QUIC_VIP" \in Flags[q]
  <2>1. IdReal(q) # 0 /\ TablesInv
    BY DEF ById, SendInv
  <2> QED BY <2>1, IdRealNamed DEF SendInv, IdReal
<1> HIDE DEF r
<1>2. CASE lru' = lru
  BY <1>1, <1>2
<1>3. CASE Contains(lru, k) /\ CheckRealInLru(k, r)
  <2> DEFINE v == ValueIn(lru, k)
             c == TryGetRef(lru, k)
  <2>1. v.atime \in Nat /\ v = [pos |-> v.pos, atime |-> v.atime]
    BY <1>1, <1>3, EntryOf
  <2>2. [v EXCEPT !.pos = r] = [pos |-> r, atime |-> v.atime]
    BY <2>1
  <2>3. Node(k, [v EXCEPT !.pos = r]) \in Entries
    BY <1>1, <2>1, <2>2, EntryFor
  <2>4. CacheOf(Entries, c) /\ c.cache_ = lru.cache_ /\ Contains(c, k)
    BY <1>1, <1>3, LookedUp DEF Contains
  <2>5. lru' = c \/ lru' = Assign(c, k, [v EXCEPT !.pos = r])
    BY <1>3 DEF CheckRealInLru, Write
  <2> HIDE DEF c, v
  <2>6. Assign(c, k, [v EXCEPT !.pos = r]).cache_ = c.cache_
    BY <2>3, <2>4, Assigned, EntriesNodes
  <2> QED BY <1>1, <2>4, <2>5, <2>6
<1>4. CASE AddRealToLru(k, r)
  <2>1. Node(k, [pos |-> r, atime |-> 0]) \in Entries
    BY <1>1, EntryFor
  <2>2. Insert(lru, k, [pos |-> r, atime |-> 0]).cache_ \subseteq lru.cache_ \cup {k}
    BY <1>1, <2>1, EntriesNodes, InsertKeys
  <2> QED BY <1>1, <1>4, <2>2 DEF AddRealToLru
<1>5. lru' = lru \/ (Contains(lru, k) /\ CheckRealInLru(k, r)) \/ AddRealToLru(k, r)
  BY DEF ById, r
<1> QED BY <1>2, <1>3, <1>4, <1>5

LEMMA ByLruKeys ==
    ASSUME SendInv, NEW q \in Routed, ByLru(q)
    PROVE  lru'.cache_ = lru.cache_
<1> DEFINE k == FlowKey[q]
           v == ValueIn(lru, k)
           c == TryGetRef(lru, k)
<1>1. CacheOf(Entries, lru) /\ now \in Nat /\ Contains(lru, k)
  BY DEF SendInv, TablesInv, ByLru, Hit, LooksUp
<1>2. v.pos \in Nat /\ v = [pos |-> v.pos, atime |-> v.atime] /\ NamedFor(q, v.pos)
  BY <1>1, EntryOf
<1>3. [v EXCEPT !.atime = now] = [pos |-> v.pos, atime |-> now]
  BY <1>2
<1>4. Node(k, [v EXCEPT !.atime = now]) \in Entries
  BY <1>1, <1>2, <1>3, EntryFor
<1>5. CacheOf(Entries, c) /\ c.cache_ = lru.cache_ /\ Contains(c, k)
  BY <1>1, LookedUp DEF Contains
<1>6. lru' = c \/ lru' = Assign(c, k, [v EXCEPT !.atime = now])
  BY DEF ByLru, Write
<1> HIDE DEF c, v
<1>7. Assign(c, k, [v EXCEPT !.atime = now]).cache_ = c.cache_
  BY <1>4, <1>5, Assigned, EntriesNodes
<1> QED BY <1>5, <1>6, <1>7

LEMMA ByHashKeys ==
    ASSUME SendInv, NEW q \in Routed, ByHash(q)
    PROVE  lru'.cache_ \subseteq lru.cache_ \cup {HashedKey[q]}
<1> DEFINE looked == IF LooksUp(q) THEN TryGetRef(lru, FlowKey[q]) ELSE lru
           t == IF q.proto = "udp" THEN now ELSE 0
           k == HashedKey[q]
           r == Real(q)
<1>1. CacheOf(Entries, lru) /\ t \in Nat /\ r \in Nat /\ NamedFor(q, r)
  BY RingReal DEF SendInv, TablesInv
<1>2. CacheOf(Entries, looked) /\ looked.cache_ = lru.cache_
  BY <1>1, LookedUp DEF LooksUp
<1>3. lru' = looked \/ lru' = Insert(looked, k, [pos |-> r, atime |-> t])
  BY DEF ByHash
<1> HIDE DEF looked, t, r
<1>4. Node(k, [pos |-> r, atime |-> t]) \in Entries
  BY <1>1, EntryFor
<1>5. Insert(looked, k, [pos |-> r, atime |-> t]).cache_ \subseteq looked.cache_ \cup {k}
  BY <1>2, <1>4, EntriesNodes, InsertKeys
<1> QED BY <1>2, <1>3, <1>5

LEMMA InitPort == Init => PortInv
BY DEF Init, EmptyCache, PortInv

LEMMA NextPort == SendInv /\ PortInv /\ [Next]_vars => PortInv'
<1> SUFFICES ASSUME SendInv, PortInv, [Next]_vars, NEW p \in Ported
             PROVE  FlowKey[p] \notin lru'.cache_
  BY DEF PortInv
<1>1. FlowKey[p] \notin lru.cache_
  BY DEF PortInv
<1>2. ASSUME NEW q \in Routed, ById(q) PROVE FlowKey[p] \notin lru'.cache_
  BY <1>1, <1>2, ByIdKeys, StoredElsewhere
<1>3. ASSUME NEW q \in Routed, ByLru(q) PROVE FlowKey[p] \notin lru'.cache_
  BY <1>1, <1>3, ByLruKeys
<1>4. ASSUME NEW q \in Routed, ByHash(q) PROVE FlowKey[p] \notin lru'.cache_
  BY <1>1, <1>4, ByHashKeys, StoredElsewhere
<1>5. CASE UNCHANGED lru
  BY <1>1, <1>5
<1> QED BY <1>2, <1>3, <1>4, <1>5 DEF Next, Refuse, SetRing, SetServerId, Tick, vars

\* Packets of one VIP with the same destination port have the same slot.
LEMMA SameSlot ==
    ASSUME NEW p \in Ported, NEW q \in Ported, Vip[p] = Vip[q], Flow[p].dport = Flow[q].dport
    PROVE  RingSlot[p] = RingSlot[q]
<1>1. ASSUME NEW x \in Ported
      PROVE  /\ x \in Routed
             /\ HashedFlow[x] = [src |-> 0, dst |-> Vip[x].addr, sport |-> Flow[x].dport,
                                 dport |-> Flow[x].dport, proto |-> Vip[x].proto]
  <2> DEFINE f == Flow[x]
             g == FlowOf(x)
  <2>1. x \in Routed /\ "HASH_DPORT_ONLY" \in Flags[x]
    BY <1>1 DEF Ported
  <2>2. HashedFlow[x] = [f EXCEPT !.src = 0, !.sport = f.dport]
    BY <2>1 DEF HashedFlow
  <2>3. f = [src |-> f.src, dst |-> f.dst, sport |-> f.sport, dport |-> f.dport, proto |-> f.proto]
    BY <2>1, FlowIs
  <2>4. g = [src |-> g.src, dst |-> g.dst, sport |-> g.sport, dport |-> g.dport, proto |-> g.proto]
    BY DEF FlowOf
  <2>5. \E d, s : f = [g EXCEPT !.dport = d, !.sport = s]
    BY <2>1 DEF Flow, DropPorts
  <2>6. Vip[x].addr = g.dst /\ Vip[x].proto = g.proto
    <3>1. Vip[x] # None /\ Vip[x] = VipOf(g)
      BY <2>1, RoutedVip, VipAssumption
    <3> HIDE DEF g
    <3>2. Vip[x] = ThisPort(g) \/ Vip[x] = AnyPort(g)
      BY <3>1 DEF VipOf
    <3> QED BY <3>2 DEF ThisPort, AnyPort
  <2> HIDE DEF f, g
  <2>7. f.dst = g.dst /\ f.proto = g.proto
    BY <2>4, <2>5
  <2>8. HashedFlow[x] = [src |-> 0, dst |-> f.dst, sport |-> f.dport, dport |-> f.dport,
                         proto |-> f.proto]
    BY <2>2, <2>3
  <2> QED BY <2>1, <2>6, <2>7, <2>8 DEF f
<1>2. HashedFlow[p] = HashedFlow[q]
  BY <1>1
<1> QED BY <1>1, <1>2 DEF RingSlot

\* Packets for the same port of a HASH_DPORT_ONLY service go to the same real at
\* any time, for any VIPs, clients, rings and table sizes: what they store, no
\* packet of the service looks up, and no other packet stores anything they do,
\* unless the service also routes by server id.
THEOREM SamePortTogether == Spec => []SamePortSameReal
<1>1. SendInv /\ PortInv => SamePortSameReal
  <2> SUFFICES ASSUME PortInv, NEW pq \in SamePort PROVE Goes(pq[1]) = Goes(pq[2])
    BY DEF SamePortSameReal
  <2> DEFINE p == pq[1]
             q == pq[2]
  <2>1. p \in Ported /\ q \in Ported /\ Vip[p] = Vip[q] /\ Flow[p].dport = Flow[q].dport
    BY DEF SamePort, Ported, Flags
  <2> HIDE DEF p, q
  <2>2. ~Hit(p) /\ ~Hit(q)
    BY <2>1 DEF PortInv, Hit, LooksUp, Contains
  <2>3. Real(p) = Real(q)
    BY <2>1, SameSlot DEF Real
  <2>4. Goes(p) = Goes(q)
    BY <2>2, <2>3 DEF Goes
  <2> QED BY <2>4 DEF p, q
<1>2. Spec => [](SendInv /\ PortInv)
  BY InitSend, NextSend, InitPort, NextPort, PTL DEF Spec
<1> QED BY <1>1, <1>2, PTL
===========================================================================
