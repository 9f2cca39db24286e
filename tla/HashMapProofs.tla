------------------------- MODULE HashMapProofs -------------------------
(***************************************************************************)
(* Proofs about HashMap, for any number of buckets, any keys and any hash. *)
(***************************************************************************)
EXTENDS HashMap, FiniteSetTheorems, WellFoundedInduction, TLAPS

Table == [Buckets -> Slot]

-----------------------------------------------------------------------------
(* What the search of HashProbe finds. *)

\* The bucket a loop looks at exists.
LEMMA AtBucket ==
    ASSUME NEW k \in Keys, NEW d \in Buckets
    PROVE  At(k, d) \in Buckets
BY BucketsAssumption, HashAssumption DEF At, Buckets

\* A loop looks at no bucket twice.
LEMMA AtInjective ==
    ASSUME NEW k \in Keys, NEW d \in Buckets, NEW e \in Buckets, At(k, d) = At(k, e)
    PROVE  d = e
BY BucketsAssumption, HashAssumption DEF At, Buckets

\* A loop that is not stopped looks at every bucket.
LEMMA AtOnto ==
    ASSUME NEW k \in Keys, NEW b \in Buckets
    PROVE  \E d \in Buckets : At(k, d) = b
<1>1. Hash[k] \in Nat /\ Hash[k] < NumBuckets /\ b \in Nat /\ b < NumBuckets /\ NumBuckets \in Nat
  BY BucketsAssumption, HashAssumption DEF Buckets
<1>2. CASE Hash[k] <= b
  <2>1. b - Hash[k] \in Buckets /\ At(k, b - Hash[k]) = b
    BY <1>1, <1>2 DEF At, Buckets
  <2> QED BY <2>1
<1>3. CASE b < Hash[k]
  <2>1. b - Hash[k] + NumBuckets \in Buckets /\ At(k, b - Hash[k] + NumBuckets) = b
    BY <1>1, <1>3 DEF At, Buckets
  <2> QED BY <2>1
<1> QED BY <1>1, <1>2, <1>3

\* What stopping says about the bucket and the ones before it.
LEMMA ProbeProps ==
    ASSUME NEW t, NEW k \in Keys, Probe(t, k) # NumBuckets
    PROVE  \E d \in Buckets :
              /\ Probe(t, k) = At(k, d)
              /\ ~t[At(k, d)].filled \/ t[At(k, d)].key = k
              /\ \A e \in Buckets : e < d => t[At(k, e)].filled /\ t[At(k, e)].key # k
<1> DEFINE d == CHOOSE d \in Buckets : StopsFirst(t, k, d)
<1>1. Probe(t, k) = At(k, d) /\ d \in Buckets /\ StopsFirst(t, k, d)
  BY DEF Probe
<1> HIDE DEF d
<1> QED BY <1>1, Zenon DEF StopsFirst, Stops

\* The converse: where a loop stops is determined by these facts.
LEMMA ProbeIs ==
    ASSUME NEW t, NEW k \in Keys, NEW d \in Buckets,
           ~t[At(k, d)].filled \/ t[At(k, d)].key = k,
           \A e \in Buckets : e < d => t[At(k, e)].filled /\ t[At(k, e)].key # k
    PROVE  Probe(t, k) = At(k, d)
<1>1. StopsFirst(t, k, d)
  BY Zenon DEF StopsFirst, Stops
<1>2. ASSUME NEW c \in Buckets, StopsFirst(t, k, c)
      PROVE  c = d
  <2>1. Stops(t, k, c) /\ Stops(t, k, d)
    BY <1>1, <1>2, Zenon DEF StopsFirst
  <2>2. ~(c < d) /\ ~(d < c)
    BY <1>1, <1>2, <2>1, Zenon DEF StopsFirst
  <2>3. c \in Int /\ d \in Int
    BY <1>2, BucketsAssumption DEF Buckets
  <2> QED BY ONLY <2>2, <2>3
<1>3. (CHOOSE c \in Buckets : StopsFirst(t, k, c)) = d
  BY <1>1, <1>2, Zenon
<1> QED BY <1>1, <1>3, Zenon DEF Probe

\* The loop gave up: no bucket is empty or holds the key.  Otherwise there would
\* be a first turn at which it stops.
LEMMA ProbeFull ==
    ASSUME NEW t, NEW k \in Keys, Probe(t, k) = NumBuckets, NEW b \in Buckets
    PROVE  t[b].filled /\ t[b].key # k
<1> DEFINE D == {d \in Buckets : Stops(t, k, d)}
           R == OpToRel(<, Nat)
<1>1. D = {}
  <2> SUFFICES ASSUME D # {} PROVE FALSE
    OBVIOUS
  <2>1. IsWellFoundedOn(R, Nat)
    BY NatLessThanWellFounded
  <2>2. D \subseteq Buckets /\ D \subseteq Nat
    BY BucketsAssumption DEF Buckets
  <2>3. \A y, x \in Nat : y < x => <<y, x>> \in R
    BY DEF OpToRel
  <2>4. \A e \in Buckets : Stops(t, k, e) => e \in D
    OBVIOUS
  <2>5. \A e \in D : Stops(t, k, e)
    OBVIOUS
  <2> HIDE DEF R, D
  <2>6. PICK x \in D : \A y \in D : ~(<<y, x>> \in R)
    BY <2>1, <2>2, WFMin
  <2>7. ASSUME NEW e \in Buckets, e < x
        PROVE  ~Stops(t, k, e)
    BY <2>2, <2>3, <2>4, <2>6, <2>7, BucketsAssumption, Zenon DEF Buckets
  <2>8. StopsFirst(t, k, x)
    BY <2>5, <2>7 DEF StopsFirst
  <2> DEFINE c == CHOOSE d \in Buckets : StopsFirst(t, k, d)
  <2>9. c \in Buckets /\ Probe(t, k) = At(k, c)
    BY <2>2, <2>8 DEF Probe
  <2> HIDE DEF c
  <2>10. Probe(t, k) \in Buckets
    BY <2>9, AtBucket
  <2> QED BY <2>10, BucketsAssumption DEF Buckets
<1>2. PICK d \in Buckets : At(k, d) = b
  BY AtOnto
<1> QED BY <1>1, <1>2 DEF Stops

\* A probe ends in the table.
LEMMA ProbeBucket ==
    ASSUME NEW t, NEW k \in Keys
    PROVE  Probe(t, k) \in Buckets \cup {NumBuckets}
BY ProbeProps, AtBucket

-----------------------------------------------------------------------------
(* What a write does to the probes. *)

\* Writing the bucket where the loop for k stopped leaves k's probe there as
\* long as the bucket is empty or holds k afterwards.
LEMMA ProbeKept ==
    ASSUME NEW t \in Table, NEW u \in Table, NEW k \in Keys, Probe(t, k) # NumBuckets,
           \A c \in Buckets \ {Probe(t, k)} : u[c] = t[c],
           ~u[Probe(t, k)].filled \/ u[Probe(t, k)].key = k
    PROVE  Probe(u, k) = Probe(t, k)
<1>1. PICK d \in Buckets :
         /\ Probe(t, k) = At(k, d)
         /\ \A e \in Buckets : e < d => t[At(k, e)].filled /\ t[At(k, e)].key # k
  BY ProbeProps
<1>2. ASSUME NEW e \in Buckets, e < d
      PROVE  u[At(k, e)].filled /\ u[At(k, e)].key # k
  <2>1. e # d
    BY <1>2, BucketsAssumption DEF Buckets
  <2>2. At(k, e) \in Buckets \ {At(k, d)}
    BY <2>1, AtBucket, AtInjective
  <2>3. u[At(k, e)] = t[At(k, e)]
    BY <1>1, <2>2
  <2> QED BY <1>1, <1>2, <2>3
<1>3. ~u[At(k, d)].filled \/ u[At(k, d)].key = k
  BY <1>1
<1>4. Probe(u, k) = At(k, d)
  BY ONLY <1>2, <1>3, ProbeIs, d \in Buckets, u \in Table, k \in Keys
<1> QED BY <1>1, <1>4

\* Writing another bucket leaves the probe of a key where it was, unless the
\* write empties that bucket or changes the key of a filled one.
LEMMA ProbeOther ==
    ASSUME NEW t \in Table, NEW u \in Table, NEW j \in Keys, NEW b \in Buckets,
           Probe(t, j) # NumBuckets, Probe(t, j) # b,
           \A c \in Buckets \ {b} : u[c] = t[c],
           t[b].filled => u[b].filled /\ u[b].key = t[b].key
    PROVE  Probe(u, j) = Probe(t, j)
<1>1. PICK d \in Buckets :
         /\ Probe(t, j) = At(j, d)
         /\ ~t[At(j, d)].filled \/ t[At(j, d)].key = j
         /\ \A e \in Buckets : e < d => t[At(j, e)].filled /\ t[At(j, e)].key # j
  BY ProbeProps
<1>2. ASSUME NEW e \in Buckets, e < d
      PROVE  u[At(j, e)].filled /\ u[At(j, e)].key # j
  <2>1. t[At(j, e)].filled /\ t[At(j, e)].key # j /\ At(j, e) \in Buckets
    BY <1>1, <1>2, AtBucket
  <2> QED BY <2>1
<1>3. ~u[At(j, d)].filled \/ u[At(j, d)].key = j
  <2>1. At(j, d) \in Buckets \ {b}
    BY <1>1, AtBucket
  <2> QED BY <1>1, <2>1
<1>4. Probe(u, j) = At(j, d)
  BY ONLY <1>2, <1>3, ProbeIs, d \in Buckets, u \in Table, j \in Keys
<1> QED BY <1>1, <1>4

---------------------------------------------------------------------------
\* Without deletions: a filled bucket is where the loop for its key stops.
HomesIn(t) == \A b \in Buckets : t[b].filled => Probe(t, t[b].key) = b

HashInv ==
    /\ TypeOK
    /\ ~deleted => HomesIn(table) /\ FindsStored /\ PointersStay
    /\ SeesLastCall
    /\ FullWhenFull

\* The types of what the operations read.
LEMMA Types ==
    ASSUME TypeOK
    PROVE  /\ table \in Table
           /\ \A b \in Buckets : table[b] \in Slot /\ table[b].filled \in BOOLEAN
                                 /\ table[b].key \in Keys /\ table[b].value \in Values
           /\ ptr.key \in Keys /\ ptr.bucket \in Buckets \cup {NumBuckets}
           /\ NumBuckets \notin Buckets
BY BucketsAssumption DEF TypeOK, Table, Slot, Buckets

\* An empty table satisfies the invariant.
LEMMA InitInv ==
    ASSUME Init
    PROVE  HashInv
<1>1. TypeOK
  BY ZeroAssumption, BucketsAssumption DEF Init, TypeOK, Slot, Buckets, Quiet
<1>2. \A b \in Buckets : ~table[b].filled
  BY DEF Init
<1>3. \A k \in Keys : ElemLookup(table, k) = NumBuckets
  BY <1>1, <1>2, Types, ProbeBucket DEF ElemLookup
<1>4. FindsStored
  BY <1>3 DEF Init, FindsStored, ValueOf
<1>5. HomesIn(table) /\ PointersStay /\ SeesLastCall /\ FullWhenFull
  BY <1>2 DEF Init, HomesIn, PointersStay, SeesLastCall, FullWhenFull, Quiet
<1> QED BY <1>1, <1>4, <1>5 DEF HashInv

\* What elem_lookup returns.
LEMMA LookupProps ==
    ASSUME NEW t \in Table, NEW k \in Keys
    PROVE  /\ ElemLookup(t, k) \in Buckets \cup {NumBuckets}
           /\ ElemLookup(t, k) # NumBuckets =>
                 /\ ElemLookup(t, k) = Probe(t, k) /\ ElemLookup(t, k) \in Buckets
                 /\ t[ElemLookup(t, k)].filled /\ t[ElemLookup(t, k)].key = k
           /\ Probe(t, k) # NumBuckets /\ t[Probe(t, k)].filled => ElemLookup(t, k) = Probe(t, k)
<1>1. Probe(t, k) \in Buckets \cup {NumBuckets}
  BY ProbeBucket
<1>2. Probe(t, k) # NumBuckets => ~t[Probe(t, k)].filled \/ t[Probe(t, k)].key = k
  BY ProbeProps
<1> QED BY <1>1, <1>2 DEF ElemLookup

\* An update of k moves no other key and hides none.
LEMMA UpdateKeeps ==
    ASSUME NEW t \in Table, NEW k \in Keys, NEW v \in Values, Probe(t, k) # NumBuckets
    PROVE  LET u == ElemUpdate(t, k, v) IN
           /\ u \in Table /\ ElemLookup(u, k) = Probe(t, k) /\ ValueOf(u, k) = v
           /\ HomesIn(t) => /\ HomesIn(u)
                            /\ \A j \in Keys \ {k} : /\ ElemLookup(u, j) = ElemLookup(t, j)
                                                     /\ ValueOf(u, j) = ValueOf(t, j)
<1> DEFINE u == ElemUpdate(t, k, v)
           b == Probe(t, k)
<1>1. b \in Buckets
  BY ProbeBucket
<1>2. ~t[b].filled \/ t[b].key = k
  BY ProbeProps
<1>3. /\ u \in Table
      /\ u[b] = [filled |-> TRUE, key |-> k, value |-> v]
      /\ \A c \in Buckets \ {b} : u[c] = t[c]
  BY <1>1 DEF ElemUpdate, Table, Slot
<1>4. NumBuckets \notin Buckets /\ \A c \in Buckets : t[c].key \in Keys
  BY BucketsAssumption DEF Buckets, Table, Slot
<1> HIDE DEF u, b
<1>5. Probe(u, k) = b
  BY <1>1, <1>3, <1>4, ProbeKept DEF b
<1>6. ElemLookup(u, k) = b
  BY <1>1, <1>3, <1>4, <1>5, LookupProps
<1>7. ValueOf(u, k) = v
  BY <1>1, <1>3, <1>4, <1>6 DEF ValueOf
<1>8. t[b].filled => u[b].filled /\ u[b].key = t[b].key
  BY <1>2, <1>3
<1>9. ASSUME HomesIn(t), NEW c \in Buckets, c # b, t[c].filled
      PROVE  Probe(u, t[c].key) = c
  <2>1. Probe(t, t[c].key) = c /\ t[c].key \in Keys
    BY <1>4, <1>9 DEF HomesIn
  <2> QED BY <1>1, <1>3, <1>4, <1>8, <1>9, <2>1, ProbeOther
<1>10. ASSUME HomesIn(t)
       PROVE  HomesIn(u)
  BY <1>3, <1>5, <1>9, <1>10 DEF HomesIn
<1>11. ASSUME HomesIn(t), NEW j \in Keys, j # k
       PROVE  ElemLookup(u, j) = ElemLookup(t, j) /\ ValueOf(u, j) = ValueOf(t, j)
  <2>1. CASE ElemLookup(t, j) # NumBuckets
    <3> DEFINE c == ElemLookup(t, j)
    <3>1. c \in Buckets /\ t[c].filled /\ t[c].key = j
      BY <2>1, LookupProps
    <3> HIDE DEF c
    <3>2. c # b
      BY <1>2, <1>11, <3>1
    <3>3. Probe(u, j) = c /\ u[c] = t[c]
      BY <1>3, <1>9, <1>11, <3>1, <3>2
    <3>4. ElemLookup(u, j) = c
      BY <1>3, <1>4, <3>1, <3>3, LookupProps
    <3> QED BY <1>4, <3>1, <3>3, <3>4 DEF ValueOf, c
  <2>2. CASE ElemLookup(t, j) = NumBuckets
    <3>1. ElemLookup(u, j) = NumBuckets
      <4> SUFFICES ASSUME ElemLookup(u, j) # NumBuckets PROVE FALSE
        OBVIOUS
      <4> DEFINE c == ElemLookup(u, j)
      <4>1. c \in Buckets /\ u[c].filled /\ u[c].key = j
        BY <1>3, LookupProps
      <4> HIDE DEF c
      <4>2. c # b
        BY <1>3, <1>11, <4>1
      <4>3. t[c].filled /\ t[c].key = j
        BY <1>3, <4>1, <4>2
      <4>4. Probe(t, j) = c
        BY <1>11, <4>1, <4>3 DEF HomesIn
      <4>5. ElemLookup(t, j) = c
        BY <1>4, <4>1, <4>3, <4>4, LookupProps
      <4> QED BY <1>4, <2>2, <4>1, <4>5
    <3> QED BY <2>2, <3>1 DEF ValueOf
  <2> QED BY <2>1, <2>2
<1> QED BY <1>3, <1>6, <1>7, <1>10, <1>11 DEF u, b

\* Changing values only moves nothing.
LEMMA StoreKeeps ==
    ASSUME NEW t \in Table, NEW b \in Buckets, NEW v \in Values
    PROVE  LET u == [t EXCEPT ![b].value = v] IN
           /\ u \in Table
           /\ \A k \in Keys : ElemLookup(u, k) = ElemLookup(t, k) /\ Probe(u, k) = Probe(t, k)
<1> DEFINE u == [t EXCEPT ![b].value = v]
<1>1. u \in Table /\ \A c \in Buckets : u[c].filled = t[c].filled /\ u[c].key = t[c].key
  BY DEF Table, Slot
<1> HIDE DEF u
<1>2. ASSUME NEW k \in Keys
      PROVE  Probe(u, k) = Probe(t, k)
  <2>1. \A d \in Buckets : At(k, d) \in Buckets
    BY AtBucket
  <2>2. \A d \in Buckets : Stops(u, k, d) = Stops(t, k, d)
    BY <1>1, <2>1 DEF Stops
  <2>3. \A d \in Buckets : StopsFirst(u, k, d) = StopsFirst(t, k, d)
    BY <2>2 DEF StopsFirst
  <2> QED BY <2>3 DEF Probe
<1>3. ASSUME NEW k \in Keys
      PROVE  ElemLookup(u, k) = ElemLookup(t, k)
  <2>1. Probe(t, k) \in Buckets \cup {NumBuckets}
    BY ProbeBucket
  <2> QED BY <1>1, <1>2, <2>1 DEF ElemLookup
<1> QED BY <1>1, <1>2, <1>3 DEF u

---------------------------------------------------------------------------
\* elem_lookup preserves the invariant: it changes only the pointer held.
LEMMA LookupInv ==
    ASSUME HashInv, NEW k \in Keys, Lookup(k)
    PROVE  HashInv'
<1>1. table' = table /\ ref' = ref /\ deleted' = deleted /\ ret' = Quiet
      /\ ptr' = [key |-> k, bucket |-> ElemLookup(table, k)]
  BY DEF Lookup
<1>2. table \in Table /\ ElemLookup(table, k) \in Buckets \cup {NumBuckets}
  BY Types, LookupProps DEF HashInv
<1>3. TypeOK'
  BY <1>1, <1>2, ZeroAssumption DEF HashInv, TypeOK, Quiet
<1>4. ~deleted' => HomesIn(table') /\ FindsStored'
  BY <1>1 DEF HashInv, FindsStored
<1>5. PointersStay'
  BY <1>1 DEF PointersStay
<1>6. SeesLastCall' /\ FullWhenFull'
  BY <1>1 DEF SeesLastCall, FullWhenFull, Quiet
<1> QED BY <1>3, <1>4, <1>5, <1>6 DEF HashInv

\* A store through a pointer preserves the invariant: it reaches the bucket
\* elem_lookup would find.
LEMMA StoreInv ==
    ASSUME HashInv, NEW v \in Values, Store(v)
    PROVE  HashInv'
<1> DEFINE b == ptr.bucket
           j == ptr.key
<1>1. /\ b # NumBuckets /\ table' = [table EXCEPT ![b].value = v]
      /\ ref' = [ref EXCEPT ![j] = IF @ = None THEN None ELSE v]
      /\ ret' = Quiet /\ ptr' = ptr /\ deleted' = deleted
  BY DEF Store
<1>2. table \in Table /\ b \in Buckets /\ j \in Keys /\ TypeOK
  BY <1>1, Types DEF HashInv
<1>3. /\ table' \in Table
      /\ \A k \in Keys : ElemLookup(table', k) = ElemLookup(table, k) /\ Probe(table', k) = Probe(table, k)
  <2>1. LET u == [table EXCEPT ![b].value = v] IN
        /\ u \in Table
        /\ \A k \in Keys : ElemLookup(u, k) = ElemLookup(table, k) /\ Probe(u, k) = Probe(table, k)
    BY ONLY <1>2, StoreKeeps, v \in Values
  <2> QED BY ONLY <1>1, <2>1
<1>4. /\ table'[b].value = v /\ \A c \in Buckets \ {b} : table'[c] = table[c]
      /\ \A c \in Buckets : table'[c].filled = table[c].filled /\ table'[c].key = table[c].key
                            /\ table[c].key \in Keys /\ table[c].value \in Values
  BY <1>1, <1>2 DEF Table, Slot
<1>5. ref \in [Keys -> Values \cup {None}]
  BY <1>2 DEF TypeOK
<1>6. TypeOK'
  BY <1>1, <1>2, <1>3, <1>5, ZeroAssumption DEF TypeOK, Quiet, Table
<1>7. SeesLastCall' /\ FullWhenFull'
  BY <1>1 DEF SeesLastCall, FullWhenFull, Quiet
<1> HIDE DEF b, j
<1>8. ASSUME ~deleted
      PROVE  HomesIn(table') /\ FindsStored' /\ PointersStay'
  <2>1. HomesIn(table) /\ FindsStored /\ PointersStay
    BY <1>8 DEF HashInv
  <2>2. ElemLookup(table, j) = b /\ NumBuckets \notin Buckets
    BY <1>1, <1>2, <1>8, <2>1, Types DEF PointersStay, b, j
  <2>3. HomesIn(table')
    BY <1>3, <1>4, <2>1 DEF HomesIn
  <2>4. PointersStay'
    BY <1>1, <1>2, <1>3, <2>2 DEF PointersStay, b, j
  <2>5. ASSUME NEW k \in Keys
        PROVE  ValueOf(table', k) = ref'[k]
    <3>1. ValueOf(table, k) = ref[k] /\ ElemLookup(table', k) = ElemLookup(table, k)
      BY <1>3, <1>8, <2>1 DEF FindsStored
    <3>2. CASE k = j
      <4>1. ref[k] = table[b].value /\ table[b].value # None
        BY <1>2, <1>4, <2>2, <3>1, <3>2, NoneAssumption DEF ValueOf
      <4>2. ref'[k] = v
        BY <1>1, <1>5, <3>2, <4>1
      <4> QED BY <1>2, <1>4, <2>2, <3>1, <3>2, <4>2 DEF ValueOf
    <3>3. CASE k # j
      <4>1. ref'[k] = ref[k]
        BY <1>1, <1>5, <3>3
      <4>2. CASE ElemLookup(table, k) = NumBuckets
        BY <3>1, <4>1, <4>2 DEF ValueOf
      <4>3. CASE ElemLookup(table, k) # NumBuckets
        <5>1. /\ ElemLookup(table, k) \in Buckets /\ table[ElemLookup(table, k)].key = k
              /\ table[b].key = j
          BY <1>2, <2>2, <4>3, LookupProps
        <5>2. ElemLookup(table, k) # b
          BY <3>3, <5>1
        <5>3. table'[ElemLookup(table, k)] = table[ElemLookup(table, k)]
          BY <1>4, <5>1, <5>2
        <5> QED BY <3>1, <4>1, <4>3, <5>3 DEF ValueOf
      <4> QED BY <4>2, <4>3
    <3> QED BY <3>2, <3>3
  <2> QED BY <2>3, <2>4, <2>5 DEF FindsStored
<1> QED BY <1>1, <1>6, <1>7, <1>8 DEF HashInv

\* elem_update preserves the invariant.
LEMMA UpdateInv ==
    ASSUME HashInv, NEW k \in Keys, NEW v \in Values, Update(k, v)
    PROVE  HashInv'
<1> DEFINE b == Probe(table, k)
<1>1. ptr' = ptr /\ deleted' = deleted /\ ret' = [op |-> "update", key |-> k, ok |-> b # NumBuckets]
  BY DEF Update
<1>2. table \in Table /\ TypeOK /\ ref \in [Keys -> Values \cup {None}]
      /\ ptr.key \in Keys /\ ptr.bucket \in Buckets \cup {NumBuckets}
  BY Types DEF HashInv, TypeOK
<1>3. CASE b = NumBuckets
  <2>1. table' = table /\ ref' = ref
    BY <1>3 DEF Update
  <2>2. TypeOK'
    BY <1>1, <1>2, <2>1 DEF TypeOK
  <2>3. FullWhenFull'
    BY <1>1, <1>2, <1>3, <2>1, ProbeFull DEF FullWhenFull
  <2>4. SeesLastCall'
    BY <1>1, <1>3 DEF SeesLastCall
  <2>5. ~deleted' => HomesIn(table') /\ FindsStored' /\ PointersStay'
    BY <1>1, <2>1 DEF HashInv, FindsStored, PointersStay
  <2> QED BY <2>2, <2>3, <2>4, <2>5 DEF HashInv
<1>4. CASE b # NumBuckets
  <2>1. table' = ElemUpdate(table, k, v) /\ ref' = [ref EXCEPT ![k] = v]
    BY <1>4 DEF Update
  <2>2. /\ table' \in Table /\ ElemLookup(table', k) = b /\ ValueOf(table', k) = v
        /\ HomesIn(table) => /\ HomesIn(table')
                             /\ \A j \in Keys \ {k} : /\ ElemLookup(table', j) = ElemLookup(table, j)
                                                      /\ ValueOf(table', j) = ValueOf(table, j)
    BY <1>2, <1>4, <2>1, UpdateKeeps
  <2>3. ref'[k] = v /\ \A j \in Keys \ {k} : ref'[j] = ref[j]
    BY <1>2, <2>1
  <2>4. TypeOK'
    BY <1>1, <1>2, <2>1, <2>2 DEF TypeOK, Table
  <2>5. SeesLastCall' /\ FullWhenFull'
    BY <1>1, <1>4, <2>2, <2>3 DEF SeesLastCall, FullWhenFull
  <2> HIDE DEF b
  <2>6. ASSUME ~deleted
        PROVE  HomesIn(table') /\ FindsStored' /\ PointersStay'
    <3>1. HomesIn(table) /\ FindsStored /\ PointersStay
      BY <2>6 DEF HashInv
    <3>2. FindsStored'
      BY <2>2, <2>3, <2>6, <3>1 DEF FindsStored
    <3>3. ASSUME ptr.bucket # NumBuckets
          PROVE  ElemLookup(table', ptr.key) = ptr.bucket
      <4>1. ElemLookup(table, ptr.key) = ptr.bucket
        BY <2>6, <3>1, <3>3 DEF PointersStay
      <4>2. ptr.key = k => ptr.bucket = b
        BY <1>2, <3>3, <4>1, LookupProps DEF b
      <4> QED BY <1>2, <2>2, <3>1, <4>1, <4>2
    <3>4. PointersStay'
      BY <1>1, <3>3 DEF PointersStay
    <3> QED BY <2>2, <3>1, <3>2, <3>4
  <2> QED BY <1>1, <2>4, <2>5, <2>6 DEF HashInv
<1> QED BY <1>3, <1>4

\* elem_delete preserves what is left of the invariant once it has emptied a
\* bucket.
LEMMA DeleteInv ==
    ASSUME HashInv, NEW k \in Keys, Delete(k)
    PROVE  HashInv'
<1> DEFINE b == Probe(table, k)
           found == ElemLookup(table, k) # NumBuckets
<1>1. /\ ptr' = ptr /\ ret' = [op |-> "delete", key |-> k, ok |-> found]
      /\ ref' = [ref EXCEPT ![k] = None]
  BY DEF Delete
<1>2. table \in Table /\ TypeOK /\ ref \in [Keys -> Values \cup {None}]
  BY Types DEF HashInv, TypeOK
<1>3. FullWhenFull'
  BY <1>1 DEF FullWhenFull
<1>4. ref'[k] = None /\ (\A j \in Keys \ {k} : ref'[j] = ref[j]) /\ ref' \in [Keys -> Values \cup {None}]
  BY <1>1, <1>2
<1>5. CASE ~found
  <2>1. table' = table /\ deleted' = deleted
    BY <1>5 DEF Delete
  <2>2. TypeOK'
    BY <1>1, <1>2, <1>4, <2>1 DEF TypeOK
  <2>3. ValueOf(table', k) = None
    BY <1>5, <2>1 DEF ValueOf
  <2>4. SeesLastCall'
    BY <1>1, <2>3 DEF SeesLastCall
  <2>5. ~deleted' => HomesIn(table') /\ FindsStored' /\ PointersStay'
    BY <1>1, <1>4, <2>1, <2>3 DEF HashInv, FindsStored, PointersStay
  <2> QED BY <1>3, <2>2, <2>4, <2>5 DEF HashInv
<1>6. CASE found
  <2>1. table' = ElemDelete(table, k) /\ deleted' = TRUE
    BY <1>6 DEF Delete
  <2>2. b \in Buckets /\ NumBuckets \notin Buckets
    BY <1>2, <1>6, LookupProps, Types
  <2>3. /\ table' \in Table /\ ~table'[b].filled
        /\ \A c \in Buckets \ {b} : table'[c] = table[c]
    BY <1>2, <2>1, <2>2 DEF ElemDelete, Table, Slot
  <2>4. Probe(table', k) = b
    BY <1>2, <2>2, <2>3, ProbeKept
  <2>5. ValueOf(table', k) = None
    BY <2>3, <2>4 DEF ElemLookup, ValueOf
  <2>6. TypeOK'
    BY <1>1, <1>2, <1>4, <2>1, <2>3 DEF TypeOK, Table
  <2>7. SeesLastCall'
    BY <1>1, <2>5 DEF SeesLastCall
  <2> QED BY <1>3, <2>1, <2>6, <2>7 DEF HashInv
<1> QED BY <1>5, <1>6

\* The inductive invariant: every filled bucket is where the loop for its key
\* stops, as long as no elem_delete has punched a hole into a probe sequence.
THEOREM HashInvariant == Spec => []HashInv
<1>1. Init => HashInv
  BY InitInv
<1>2. HashInv /\ [Next]_vars => HashInv'
  <2> SUFFICES ASSUME HashInv, [Next]_vars PROVE HashInv'
    OBVIOUS
  <2>1. ASSUME NEW k \in Keys, Lookup(k) PROVE HashInv'
    BY <2>1, LookupInv
  <2>2. ASSUME NEW k \in Keys, Delete(k) PROVE HashInv'
    BY <2>2, DeleteInv
  <2>3. ASSUME NEW v \in Values, Store(v) PROVE HashInv'
    BY <2>3, StoreInv
  <2>4. ASSUME NEW k \in Keys, NEW v \in Values, Update(k, v) PROVE HashInv'
    BY <2>4, UpdateInv
  <2>5. CASE UNCHANGED vars
    BY <2>5 DEF vars, HashInv, TypeOK, FindsStored, PointersStay, SeesLastCall, FullWhenFull
  <2> QED BY <2>1, <2>2, <2>3, <2>4, <2>5 DEF Next
<1> QED BY <1>1, <1>2, PTL DEF Spec

\* No key is stored twice: the filled buckets and the keys stored are as many.
LEMMA Counting ==
    ASSUME HashInv
    PROVE  CountExact
<1> SUFFICES ASSUME ~deleted
             PROVE  GetElemCount(table) = Cardinality({k \in Keys : ref[k] # None})
  BY DEF CountExact
<1> DEFINE S == {b \in Buckets : table[b].filled}
           T == {k \in Keys : ref[k] # None}
           f == [b \in S |-> table[b].key]
<1>1. /\ table \in Table /\ NumBuckets \notin Buckets /\ HomesIn(table)
      /\ \A k \in Keys : ValueOf(table, k) = ref[k]
      /\ \A b \in Buckets : table[b].key \in Keys /\ table[b].value \in Values
  BY Types DEF HashInv, FindsStored
<1>2. ASSUME NEW b \in S
      PROVE  table[b].key \in T
  <2>1. b \in Buckets /\ Probe(table, table[b].key) = b /\ table[b].filled
    BY <1>1 DEF HomesIn
  <2>2. ElemLookup(table, table[b].key) = b
    BY <1>1, <2>1, LookupProps
  <2>3. ref[table[b].key] = table[b].value
    BY <1>1, <2>1, <2>2 DEF ValueOf
  <2> QED BY <1>1, <2>1, <2>3, NoneAssumption
<1>3. ASSUME NEW b \in S, NEW c \in S, table[b].key = table[c].key
      PROVE  b = c
  BY <1>1, <1>3 DEF HomesIn
<1>4. ASSUME NEW k \in T
      PROVE  \E b \in S : table[b].key = k
  <2>1. ElemLookup(table, k) # NumBuckets
    BY <1>1 DEF ValueOf
  <2> QED BY <1>1, <2>1, LookupProps
<1>5. f \in Bijection(S, T)
  <2>1. f \in [S -> T] /\ \A b \in S : f[b] = table[b].key
    BY <1>2
  <2> HIDE DEF S, T, f
  <2>2. IsInjective(f)
    BY <1>3, <2>1 DEF IsInjective
  <2>3. \A k \in T : \E b \in S : f[b] = k
    BY <1>4, <2>1
  <2> QED BY <2>1, <2>2, <2>3 DEF Bijection, Injection, Surjection
<1>6. IsFiniteSet(S)
  <2>1. IsFiniteSet(Buckets)
    BY BucketsAssumption, FS_Interval DEF Buckets
  <2> QED BY <2>1, FS_Subset
<1>7. Cardinality(T) = Cardinality(S)
  <2> HIDE DEF S, T, f
  <2>1. ExistsBijection(S, T)
    BY <1>5 DEF ExistsBijection
  <2> QED BY <1>6, <2>1, FS_Bijection
<1> QED BY <1>7 DEF GetElemCount

\* elem_lookup finds exactly what was stored, for any hash and any number of
\* buckets, as long as nothing was deleted.
THEOREM StoredFound == Spec => []FindsStored
<1>1. HashInv => FindsStored
  BY DEF HashInv, FindsStored
<1> QED BY <1>1, HashInvariant, PTL

\* Pointers returned by elem_lookup stay good, as long as nothing was deleted.
THEOREM PointersKept == Spec => []PointersStay
<1>1. HashInv => PointersStay
  BY DEF HashInv, PointersStay
<1> QED BY <1>1, HashInvariant, PTL

\* get_elem_count is exact, as long as nothing was deleted.
THEOREM CountCorrect == Spec => []CountExact
<1>1. HashInv => CountExact
  BY Counting
<1> QED BY <1>1, HashInvariant, PTL

\* A caller sees the effect of its own update or delete, whatever was deleted
\* before, and elem_update refuses only when every bucket is taken.
THEOREM OwnCallsSeen == Spec => [](SeesLastCall /\ FullWhenFull)
<1>1. HashInv => SeesLastCall /\ FullWhenFull
  BY DEF HashInv
<1> QED BY <1>1, HashInvariant, PTL
===========================================================================
