----------------------------- MODULE XskProofs ------------------------------
(***************************************************************************)
(* Facts about the rings and about sequences of frames that the proofs of  *)
(* the datapaths share.                                                    *)
(***************************************************************************)
EXTENDS XskKernel, Functions, SequenceTheorems, FiniteSetTheorems, TLAPS

-----------------------------------------------------------------------------
(* Rings. *)

\* Dropping and keeping a prefix.
LEMMA DropNProps ==
    ASSUME NEW S, NEW s \in Seq(S), NEW n \in Nat, n <= Len(s)
    PROVE  /\ DropN(s, n) \in Seq(S)
           /\ Len(DropN(s, n)) = Len(s) - n
           /\ \A i \in 1..(Len(s) - n) : DropN(s, n)[i] = s[n + i]
BY DEF DropN

LEMMA FirstNProps ==
    ASSUME NEW S, NEW s \in Seq(S), NEW n \in Nat, n <= Len(s)
    PROVE  /\ FirstN(s, n) \in Seq(S)
           /\ Len(FirstN(s, n)) = n
           /\ \A i \in 1..n : FirstN(s, n)[i] = s[i]
BY DEF FirstN

LEMMA PeekProps ==
    ASSUME NEW S, NEW r \in ConsRing(S), Ordered(r), NEW nb \in Nat
    PROVE  /\ Peek(r, nb) \in ConsRing(S)
           /\ Ordered(Peek(r, nb))
           /\ Peek(r, nb).q = r.q
           /\ PeekCount(r, nb) \in Nat /\ PeekCount(r, nb) <= nb
           /\ Peek(r, nb).peeked = r.peeked + PeekCount(r, nb)
BY DEF ConsRing, Ordered, Peek, PeekCount, SeenBy

LEMMA ReleaseProps ==
    ASSUME NEW S, NEW r \in ConsRing(S), Ordered(r), NEW n \in Nat, n <= r.peeked
    PROVE  /\ Release(r, n) \in ConsRing(S)
           /\ Ordered(Release(r, n))
           /\ Release(r, n).q = DropN(r.q, n)
           /\ Release(r, n).peeked = r.peeked - n
<1> r.q \in Seq(S) /\ r.seen \in Nat /\ r.peeked \in Nat /\ n <= Len(r.q)
  BY DEF ConsRing, Ordered
<1> DropN(r.q, n) \in Seq(S) /\ Len(DropN(r.q, n)) = Len(r.q) - n
  BY DropNProps
<1> QED BY DEF ConsRing, Ordered, Release

LEMMA WriteSlotProps ==
    ASSUME NEW S, NEW r \in ProdRing(S), NEW e \in S
    PROVE  /\ WriteSlot(r, e) \in ProdRing(S)
           /\ WriteSlot(r, e).q = r.q
           /\ WriteSlot(r, e).resv = Append(r.resv, e)
BY DEF ProdRing, WriteSlot

LEMMA SubmitProps ==
    ASSUME NEW S, NEW r \in ProdRing(S), NEW n \in Nat, n <= Len(r.resv)
    PROVE  /\ Submit(r, n) \in ProdRing(S)
           /\ Submit(r, n).q = r.q \o FirstN(r.resv, n)
           /\ Submit(r, n).resv = DropN(r.resv, n)
BY DropNProps, FirstNProps DEF ProdRing, Submit

\* The entries of a concatenation.
LEMMA ConcatEntries ==
    ASSUME NEW S, NEW a \in Seq(S), NEW b \in Seq(S)
    PROVE  /\ \A i \in DOMAIN (a \o b) :
               \/ i \in DOMAIN a /\ (a \o b)[i] = a[i]
               \/ i - Len(a) \in DOMAIN b /\ (a \o b)[i] = b[i - Len(a)]
           /\ \A i \in DOMAIN a : i \in DOMAIN (a \o b) /\ (a \o b)[i] = a[i]
           /\ \A i \in DOMAIN b : Len(a) + i \in DOMAIN (a \o b) /\ (a \o b)[Len(a) + i] = b[i]
OBVIOUS

\* The type of the fields of a ring, for steps that look inside.
LEMMA RingFields ==
    ASSUME NEW S
    PROVE  /\ \A r \in ConsRing(S) : r.q \in Seq(S) /\ r.seen \in Nat /\ r.peeked \in Nat
           /\ \A r \in ProdRing(S) : r.q \in Seq(S) /\ r.resv \in Seq(S)
BY DEF ConsRing, ProdRing

LEMMA KickType ==
    ASSUME NEW S, kicked \in [Socks -> BOOLEAN], Kick(S)
    PROVE  kicked' \in [Socks -> BOOLEAN]
BY DEF Kick

\* A packet of n frames.
LEMMA PacketProps ==
    ASSUME NEW fs \in Seq(Frames), NEW n \in Nat \ {0}, n <= Len(fs)
    PROVE  /\ Packet(fs, n) \in Seq(Desc) /\ Len(Packet(fs, n)) = n
           /\ \A i \in 1..n : Packet(fs, n)[i].addr = fs[i]
           /\ Packet(fs, n)[n].eop
<1>1. \A i \in 1..n : fs[i] \in Frames
  OBVIOUS
<1>2. \A i \in 1..n :
        [addr |-> fs[i], head |-> fs[1], eop |-> (i = n), act |-> "none"] \in Desc
  BY <1>1 DEF Desc
<1>3. Packet(fs, n) \in Seq(Desc) /\ Len(Packet(fs, n)) = n
  BY <1>2 DEF Packet
<1>4. \A i \in 1..n : Packet(fs, n)[i].addr = fs[i]
  BY DEF Packet
<1>5. Packet(fs, n)[n].eop
  <2>1. Packet(fs, n)[n] = [addr |-> fs[n], head |-> fs[1], eop |-> (n = n), act |-> "none"]
    BY DEF Packet
  <2>2. Packet(fs, n)[n].eop = (n = n)
    BY <2>1
  <2> QED BY <2>2
<1> QED BY <1>3, <1>4, <1>5

-----------------------------------------------------------------------------
(* Sequences of frames: who holds what. *)

\* The frames of descriptors, and how Addrs meets the ring operations.
LEMMA AddrsProps ==
    ASSUME NEW q \in Seq(Desc)
    PROVE  /\ Addrs(q) \in Seq(Frames) /\ Len(Addrs(q)) = Len(q)
           /\ \A i \in 1..Len(q) : Addrs(q)[i] = q[i].addr
<1>1. ASSUME NEW i \in 1..Len(q) PROVE q[i].addr \in Frames
  <2>1. q[i] \in Desc
    OBVIOUS
  <2> QED BY <2>1 DEF Desc
<1> QED BY <1>1 DEF Addrs

LEMMA AddrsDrop ==
    ASSUME NEW q \in Seq(Desc), NEW n \in Nat, n <= Len(q)
    PROVE  Addrs(DropN(q, n)) = DropN(Addrs(q), n)
<1> DEFINE d == DropN(q, n)
           u == Addrs(q)
           v == Addrs(d)
           w == DropN(u, n)
<1>1. d \in Seq(Desc) /\ Len(d) = Len(q) - n /\ \A i \in 1..(Len(q) - n) : d[i] = q[n + i]
  BY DropNProps
<1>2. u \in Seq(Frames) /\ Len(u) = Len(q) /\ \A i \in 1..Len(q) : u[i] = q[i].addr
  BY AddrsProps
<1> HIDE DEF d, u
<1>3. v \in Seq(Frames) /\ Len(v) = Len(d) /\ \A i \in 1..Len(d) : v[i] = d[i].addr
  BY <1>1, AddrsProps
<1>4. w \in Seq(Frames) /\ Len(w) = Len(u) - n /\ \A i \in 1..(Len(u) - n) : w[i] = u[n + i]
  BY <1>2, DropNProps
<1> HIDE DEF v, w
<1>5. ASSUME NEW i \in 1..(Len(q) - n) PROVE v[i] = w[i]
  <2>1. n + i \in 1..Len(q)
    OBVIOUS
  <2> QED BY <1>1, <1>2, <1>3, <1>4, <2>1
<1>6. v = w
  BY <1>1, <1>2, <1>3, <1>4, <1>5, SeqEqual
<1> QED BY <1>6 DEF v, w, u, d

LEMMA AddrsConcat ==
    ASSUME NEW a \in Seq(Desc), NEW b \in Seq(Desc)
    PROVE  Addrs(a \o b) = Addrs(a) \o Addrs(b)
<1> DEFINE c == a \o b
           u == Addrs(a)
           v == Addrs(b)
           w == Addrs(c)
           z == u \o v
<1>1. /\ c \in Seq(Desc) /\ Len(c) = Len(a) + Len(b)
      /\ \A i \in 1..(Len(a) + Len(b)) : c[i] = IF i <= Len(a) THEN a[i] ELSE b[i - Len(a)]
  BY ConcatProperties
<1>2. /\ u \in Seq(Frames) /\ Len(u) = Len(a) /\ \A i \in 1..Len(a) : u[i] = a[i].addr
      /\ v \in Seq(Frames) /\ Len(v) = Len(b) /\ \A i \in 1..Len(b) : v[i] = b[i].addr
  BY AddrsProps
<1> HIDE DEF c, u, v
<1>3. w \in Seq(Frames) /\ Len(w) = Len(c) /\ \A i \in 1..Len(c) : w[i] = c[i].addr
  BY <1>1, AddrsProps
<1>4. /\ z \in Seq(Frames) /\ Len(z) = Len(u) + Len(v)
      /\ \A i \in 1..(Len(u) + Len(v)) : z[i] = IF i <= Len(u) THEN u[i] ELSE v[i - Len(u)]
  <2>1. u \in Seq(Frames) /\ v \in Seq(Frames)
    BY <1>2
  <2> QED BY <2>1, ConcatProperties
<1>5. Len(a) \in Nat /\ Len(b) \in Nat
  OBVIOUS
<1> HIDE DEF w, z
<1>6. ASSUME NEW i \in 1..(Len(a) + Len(b)) PROVE w[i] = z[i]
  <2>1. CASE i <= Len(a)
    <3>1. i \in 1..Len(a) /\ c[i] = a[i] /\ z[i] = u[i]
      BY <1>1, <1>2, <1>4, <1>5, <2>1
    <3> QED BY <1>1, <1>2, <1>3, <3>1
  <2>2. CASE ~(i <= Len(a))
    <3>1. i - Len(a) \in 1..Len(b) /\ c[i] = b[i - Len(a)] /\ z[i] = v[i - Len(a)]
      BY <1>1, <1>2, <1>4, <1>5, <2>2
    <3> QED BY <1>1, <1>2, <1>3, <3>1
  <2> QED BY <2>1, <2>2
<1>7. w = z
  BY <1>1, <1>2, <1>3, <1>4, <1>6, SeqEqual
<1> QED BY <1>7 DEF w, z, u, v, c

\* A prefix of a moves to the end of b: as long as a and b have no duplicate,
\* neither have the results, and together they hold what a and b held.
LEMMA MovePrefix ==
    ASSUME NEW S, NEW a \in Seq(S), NEW b \in Seq(S), NEW n \in Nat, n <= Len(a),
           IsInjective(a), IsInjective(b), Range(a) \cap Range(b) = {}
    PROVE  /\ IsInjective(DropN(a, n)) /\ IsInjective(b \o FirstN(a, n))
           /\ Range(DropN(a, n)) \cap Range(b \o FirstN(a, n)) = {}
           /\ Range(DropN(a, n)) = Range(a) \ Range(FirstN(a, n))
           /\ Range(b \o FirstN(a, n)) = Range(b) \cup Range(FirstN(a, n))
           /\ Range(FirstN(a, n)) \subseteq Range(a)
<1> DEFINE x == FirstN(a, n)
           d == DropN(a, n)
           c == b \o x
<1>1. x \in Seq(S) /\ DOMAIN x = 1..n /\ \A i \in 1..n : x[i] = a[i]
  BY FirstNProps
<1>2. d \in Seq(S) /\ DOMAIN d = 1..(Len(a) - n) /\ \A i \in 1..(Len(a) - n) : d[i] = a[n + i]
  <2>1. d \in Seq(S) /\ Len(d) = Len(a) - n /\ \A i \in 1..(Len(a) - n) : d[i] = a[n + i]
    BY DropNProps
  <2> HIDE DEF d
  <2> QED BY <2>1
<1> HIDE DEF x, d
<1>3. /\ \A i \in DOMAIN c : \/ i \in DOMAIN b /\ c[i] = b[i]
                             \/ i - Len(b) \in DOMAIN x /\ c[i] = x[i - Len(b)]
      /\ \A i \in DOMAIN b : i \in DOMAIN c /\ c[i] = b[i]
      /\ \A i \in DOMAIN x : Len(b) + i \in DOMAIN c /\ c[Len(b) + i] = x[i]
  BY <1>1, ConcatEntries
<1>4. c \in Seq(S) /\ Len(b) \in Nat /\ Len(a) \in Nat /\ DOMAIN a = 1..Len(a)
      /\ DOMAIN b = 1..Len(b) /\ DOMAIN c = 1..Len(c) /\ Len(c) \in Nat
  BY <1>1
<1> HIDE DEF c
<1>5. IsInjective(d)
  <2> SUFFICES ASSUME NEW i \in DOMAIN d, NEW j \in DOMAIN d, d[i] = d[j] PROVE i = j
    BY DEF IsInjective
  <2>1. n + i \in DOMAIN a /\ n + j \in DOMAIN a /\ a[n + i] = a[n + j]
    <3>1. i \in 1..(Len(a) - n) /\ j \in 1..(Len(a) - n)
      BY <1>2
    <3>2. n + i \in 1..Len(a) /\ n + j \in 1..Len(a)
      BY <1>4, <3>1
    <3> QED BY <1>2, <1>4, <3>1, <3>2
  <2>2. n + i = n + j
    BY <2>1 DEF IsInjective
  <2> QED BY <1>2, <1>4, <2>2
<1>6. Range(x) \subseteq Range(a)
  BY <1>1, <1>4 DEF Range
<1>7. IsInjective(c)
  <2> SUFFICES ASSUME NEW i \in DOMAIN c, NEW j \in DOMAIN c, c[i] = c[j] PROVE i = j
    BY DEF IsInjective
  <2>1. \A k \in DOMAIN x, l \in DOMAIN b : x[k] # b[l]
    <3> SUFFICES ASSUME NEW k \in DOMAIN x, NEW l \in DOMAIN b, x[k] = b[l] PROVE FALSE
      OBVIOUS
    <3>1. x[k] \in Range(x) /\ b[l] \in Range(b)
      BY DEF Range
    <3> QED BY <1>6, <3>1
  <2>2. \A k, l \in DOMAIN x : x[k] = x[l] => k = l
    BY <1>1, <1>4 DEF IsInjective
  <2>3. \A k, l \in DOMAIN b : b[k] = b[l] => k = l
    BY DEF IsInjective
  <2>4. CASE i \in DOMAIN b /\ c[i] = b[i]
    <3>1. ~(j - Len(b) \in DOMAIN x /\ c[j] = x[j - Len(b)])
      BY <2>1, <2>4
    <3>2. j \in DOMAIN b /\ c[j] = b[j]
      BY <1>3, <3>1
    <3> QED BY <2>3, <2>4, <3>2
  <2>5. CASE i - Len(b) \in DOMAIN x /\ c[i] = x[i - Len(b)]
    <3>1. ~(j \in DOMAIN b /\ c[j] = b[j])
      BY <2>1, <2>5
    <3>2. j - Len(b) \in DOMAIN x /\ c[j] = x[j - Len(b)]
      BY <1>3, <3>1
    <3>3. i - Len(b) = j - Len(b)
      BY <2>2, <2>5, <3>2
    <3> QED BY <1>4, <3>3
  <2> QED BY <1>3, <2>4, <2>5
<1>8. Range(c) = Range(b) \cup Range(x)
  BY <1>3 DEF Range
<1>9. Range(d) = Range(a) \ Range(x)
  <2>1. \A i \in DOMAIN d : n + i \in DOMAIN a /\ d[i] = a[n + i] /\ \A k \in DOMAIN x : a[n + i] # x[k]
    BY <1>1, <1>2, <1>4 DEF IsInjective
  <2>2. \A i \in DOMAIN a : i > n => i - n \in DOMAIN d /\ d[i - n] = a[i]
    BY <1>2, <1>4
  <2>3. \A i \in DOMAIN a : ~(i > n) => i \in DOMAIN x /\ x[i] = a[i]
    BY <1>1, <1>4
  <2> QED BY <2>1, <2>2, <2>3 DEF Range
<1> QED BY <1>5, <1>6, <1>7, <1>8, <1>9 DEF c, d, x

\* A sequence of frames without duplicates is no longer than the umem.
LEMMA InjectiveLen ==
    ASSUME NEW s \in Seq(Frames), IsInjective(s)
    PROVE  Len(s) <= NumFrames
<1>1. s \in Injection(1..Len(s), Frames)
  BY DEF Injection, IsInjective
<1>2. IsFiniteSet(Frames) /\ Cardinality(Frames) = NumFrames
  BY FS_Interval, SizesAssumption DEF Frames
<1>3. Cardinality(1..Len(s)) = Len(s)
  <2> DEFINE k == Len(s)
  <2>1. k \in Nat
    OBVIOUS
  <2> HIDE DEF k
  <2>2. Cardinality(1..k) = IF 1 > k THEN 0 ELSE k - 1 + 1
    BY <2>1, FS_Interval
  <2>3. Cardinality(1..k) = k
    BY <2>1, <2>2
  <2> QED BY <2>3 DEF k
<1>4. Cardinality(1..Len(s)) <= Cardinality(Frames)
  BY <1>1, <1>2, FS_Injection
<1> QED BY <1>2, <1>3, <1>4

\* A sequence without duplicates holds as many frames as it is long.
LEMMA InjectiveCard ==
    ASSUME NEW s \in Seq(Frames), IsInjective(s)
    PROVE  IsFiniteSet(Range(s)) /\ Cardinality(Range(s)) = Len(s)
<1> DEFINE k == Len(s)
<1>1. k \in Nat /\ DOMAIN s = 1..k
  OBVIOUS
<1>2. s \in Bijection(1..k, Range(s))
  BY <1>1 DEF Bijection, Injection, Surjection, IsInjective, Range
<1> HIDE DEF k
<1>3. IsFiniteSet(1..k) /\ Cardinality(1..k) = k
  <2>1. IsFiniteSet(1..k) /\ Cardinality(1..k) = IF 1 > k THEN 0 ELSE k - 1 + 1
    BY <1>1, FS_Interval
  <2> QED BY <1>1, <2>1
<1>4. ExistsBijection(1..k, Range(s))
  BY <1>2 DEF ExistsBijection
<1> QED BY <1>3, <1>4, FS_Bijection DEF k

LEMMA DisjointCard ==
    ASSUME NEW A, NEW B, IsFiniteSet(A), IsFiniteSet(B), A \cap B = {}
    PROVE  /\ IsFiniteSet(A \cup B) /\ Cardinality(A \cup B) = Cardinality(A) + Cardinality(B)
           /\ Cardinality(A) \in Nat /\ Cardinality(B) \in Nat
<1>1. /\ IsFiniteSet(A \cup B)
      /\ Cardinality(A \cup B) = Cardinality(A) + Cardinality(B) - Cardinality(A \cap B)
  BY FS_Union
<1>2. Cardinality(A) \in Nat /\ Cardinality(B) \in Nat /\ Cardinality(A \cap B) = 0
  BY FS_CardinalityType, FS_EmptySet
<1> QED BY <1>1, <1>2

\* Sets of frames are finite, and no larger than the umem.
LEMMA FramesCard ==
    ASSUME NEW A \in SUBSET Frames
    PROVE  IsFiniteSet(A) /\ Cardinality(A) \in Nat /\ Cardinality(A) <= NumFrames
<1>1. IsFiniteSet(Frames) /\ Cardinality(Frames) = NumFrames
  BY FS_Interval, SizesAssumption DEF Frames
<1>2. IsFiniteSet(A) /\ Cardinality(A) <= Cardinality(Frames)
  BY <1>1, FS_Subset
<1> QED BY <1>1, <1>2, FS_CardinalityType

-----------------------------------------------------------------------------
(* Sequences.                                                               *)

\* Entries appended behind the dropped ones stay behind.
LEMMA DropConcat ==
    ASSUME NEW S, NEW a \in Seq(S), NEW b \in Seq(S), NEW n \in Nat, n <= Len(a)
    PROVE  DropN(a \o b, n) = DropN(a, n) \o b
<1> DEFINE c == a \o b
           d == DropN(a, n)
           u == DropN(c, n)
           v == d \o b
<1>1. c \in Seq(S) /\ Len(c) = Len(a) + Len(b) /\ Len(a) \in Nat /\ Len(b) \in Nat
      /\ \A i \in 1..(Len(a) + Len(b)) : c[i] = IF i <= Len(a) THEN a[i] ELSE b[i - Len(a)]
  BY ConcatProperties
<1>2. d \in Seq(S) /\ Len(d) = Len(a) - n /\ \A i \in 1..(Len(a) - n) : d[i] = a[n + i]
  BY DropNProps
<1> HIDE DEF c, d
<1>3. c \in Seq(S) /\ n \in Nat /\ n <= Len(c)
  BY <1>1
<1>4. u \in Seq(S) /\ Len(u) = Len(c) - n /\ \A i \in 1..(Len(c) - n) : u[i] = c[n + i]
  BY ONLY <1>3, DropNProps
<1>5. /\ v \in Seq(S) /\ Len(v) = Len(d) + Len(b)
      /\ \A i \in 1..(Len(d) + Len(b)) : v[i] = IF i <= Len(d) THEN d[i] ELSE b[i - Len(d)]
  BY <1>2, ConcatProperties
<1> HIDE DEF u, v
<1>6. ASSUME NEW i \in 1..(Len(a) - n + Len(b)) PROVE u[i] = v[i]
  <2>1. n + i \in 1..(Len(a) + Len(b)) /\ u[i] = c[n + i] /\ i \in Nat
    BY <1>1, <1>4
  <2>2. CASE i <= Len(a) - n
    <3>1. i \in 1..(Len(a) - n) /\ c[n + i] = a[n + i]
      BY <1>1, <2>1, <2>2
    <3>2. v[i] = d[i]
      BY <1>1, <1>2, <1>5, <2>2
    <3> QED BY <1>2, <2>1, <3>1, <3>2
  <2>3. CASE ~(i <= Len(a) - n)
    <3>1. c[n + i] = b[n + i - Len(a)]
      BY <1>1, <2>1, <2>3
    <3>2. v[i] = b[i - (Len(a) - n)]
      BY <1>1, <1>2, <1>5, <2>3
    <3>3. i - (Len(a) - n) = n + i - Len(a)
      BY <1>1, <2>1
    <3> QED BY <2>1, <3>1, <3>2, <3>3
  <2> QED BY <2>2, <2>3
<1>7. u = v
  <2>1. Len(u) = Len(a) - n + Len(b) /\ Len(v) = Len(a) - n + Len(b)
    BY <1>1, <1>2, <1>4, <1>5
  <2> QED BY <1>4, <1>5, <1>6, <2>1, SeqEqual
<1> QED BY <1>7 DEF u, v, c, d

\* The frames of a received packet are the first of the fill ring.
LEMMA AddrsPacket ==
    ASSUME NEW f \in Seq(Frames), NEW n \in Nat \ {0}, n <= Len(f)
    PROVE  Addrs(Packet(f, n)) = FirstN(f, n)
<1> DEFINE q == Packet(f, n)
           u == Addrs(q)
           v == FirstN(f, n)
<1>1. q \in Seq(Desc) /\ Len(q) = n /\ \A i \in 1..n : q[i].addr = f[i]
  BY PacketProps
<1>2. v \in Seq(Frames) /\ Len(v) = n /\ \A i \in 1..n : v[i] = f[i]
  BY FirstNProps
<1> HIDE DEF q
<1>3. u \in Seq(Frames) /\ Len(u) = Len(q) /\ \A i \in 1..Len(q) : u[i] = q[i].addr
  BY <1>1, AddrsProps
<1> HIDE DEF u, v
<1>4. u = v
  BY <1>1, <1>2, <1>3, SeqEqual
<1> QED BY <1>4 DEF u, v, q

\* Dropping nothing.
LEMMA DropNone ==
    ASSUME NEW S, NEW s \in Seq(S)
    PROVE  DropN(s, 0) = s
BY DEF DropN

\* One entry at the front or at the end of a sequence.
LEMMA TailDrop ==
    ASSUME NEW S, NEW s \in Seq(S), s # <<>>
    PROVE  /\ Tail(s) = DropN(s, 1) /\ 1 \in Nat /\ 1 <= Len(s)
           /\ Head(s) = s[1] /\ FirstN(s, 1) = <<s[1]>>
<1>1. Len(s) \in Nat /\ Len(s) # 0
  OBVIOUS
<1>2. Tail(s) = DropN(s, 1)
  BY <1>1 DEF DropN
<1>3. FirstN(s, 1) \in Seq(S) /\ Len(FirstN(s, 1)) = 1 /\ FirstN(s, 1)[1] = s[1]
  <2>1. 1 \in Nat /\ 1 <= Len(s) /\ 1 \in 1..1
    BY <1>1
  <2>2. /\ FirstN(s, 1) \in Seq(S) /\ Len(FirstN(s, 1)) = 1
        /\ \A i \in 1..1 : FirstN(s, 1)[i] = s[i]
    BY <2>1, FirstNProps
  <2> QED BY <2>1, <2>2
<1>4. FirstN(s, 1) = <<s[1]>>
  <2> DEFINE f == FirstN(s, 1)
  <2>1. f \in Seq(S) /\ Len(f) = 1 /\ f[1] = s[1]
    BY <1>3
  <2> HIDE DEF f
  <2>2. f = <<f[1]>>
    BY <2>1
  <2> QED BY <2>1, <2>2 DEF f
<1> QED BY <1>1, <1>2, <1>4

LEMMA DropAppend ==
    ASSUME NEW S, NEW s \in Seq(S), NEW e \in S, NEW n \in Nat, n <= Len(s)
    PROVE  DropN(Append(s, e), n) = DropN(s, n) \o <<e>>
<1>1. Append(s, e) = s \o <<e>> /\ <<e>> \in Seq(S)
  BY AppendIsConcat
<1> QED BY <1>1, DropConcat

\* The first frames of copied descriptors are the ones of the originals.
LEMMA AddrsCopy ==
    ASSUME NEW a \in Seq(Desc), NEW b \in Seq(Desc), NEW n \in Nat, n <= Len(a), n <= Len(b),
           \A i \in 1..n : a[i].addr = b[i].addr
    PROVE  Addrs(FirstN(a, n)) = FirstN(Addrs(b), n)
<1> DEFINE x == FirstN(a, n)
           u == Addrs(x)
           y == Addrs(b)
           v == FirstN(y, n)
<1>1. x \in Seq(Desc) /\ Len(x) = n /\ \A i \in 1..n : x[i] = a[i]
  BY FirstNProps
<1>2. y \in Seq(Frames) /\ Len(y) = Len(b) /\ \A i \in 1..Len(b) : y[i] = b[i].addr
  BY AddrsProps
<1> HIDE DEF x, y
<1>3. u \in Seq(Frames) /\ Len(u) = Len(x) /\ \A i \in 1..Len(x) : u[i] = x[i].addr
  BY <1>1, AddrsProps
<1>4. v \in Seq(Frames) /\ Len(v) = n /\ \A i \in 1..n : v[i] = y[i]
  BY <1>2, FirstNProps
<1> HIDE DEF u, v
<1>5. ASSUME NEW i \in 1..n PROVE u[i] = v[i]
  <2>1. i \in 1..Len(b)
    OBVIOUS
  <2> QED BY <1>1, <1>2, <1>3, <1>4, <2>1
<1>6. u = v
  BY <1>1, <1>3, <1>4, <1>5, SeqEqual
<1> QED BY <1>6 DEF u, v, x, y

\* The empty sequence and one frame, as they are moved.
LEMMA SmallSeqs ==
    /\ \A S : <<>> \in Seq(S) /\ IsInjective(<<>>) /\ Range(<<>>) = {}
    /\ \A x : IsInjective(<<x>>) /\ Range(<<x>>) = {x} /\ Len(<<x>>) = 1
BY DEF IsInjective, Range

-----------------------------------------------------------------------------
(* Places.                                                                  *)

\* H says which frames of F are at which place of P: each is at exactly one.
Partition(P, F, H) ==
    /\ \A p \in P : H[p] \subseteq F
    /\ \A p, q \in P : p # q => H[p] \cap H[q] = {}
    /\ \A f \in F : \E p \in P : f \in H[p]

\* G is H with the frames X moved from a to b.
Moved(P, H, G, X, a, b) ==
    /\ a \in P /\ b \in P /\ a # b /\ X \subseteq H[a]
    /\ G[a] = H[a] \ X
    /\ G[b] = H[b] \cup X
    /\ \A p \in P : p # a /\ p # b => G[p] = H[p]

LEMMA MovedPartition ==
    ASSUME NEW P, NEW F, NEW H, NEW G, NEW X, NEW a, NEW b,
           Partition(P, F, H), Moved(P, H, G, X, a, b)
    PROVE  Partition(P, F, G)
<1>1. ASSUME NEW p \in P PROVE G[p] \subseteq F
  BY DEF Partition, Moved
<1>2. ASSUME NEW p \in P, NEW q \in P, p # q PROVE G[p] \cap G[q] = {}
  BY <1>2 DEF Partition, Moved
<1>3. ASSUME NEW f \in F PROVE \E p \in P : f \in G[p]
  BY DEF Partition, Moved
<1> QED BY <1>1, <1>2, <1>3 DEF Partition


-----------------------------------------------------------------------------
(* Packets in a sequence of descriptors. *)

\* d starts a packet; e follows d.
Starts(d) == d.addr = d.head
Follows(d, e) == (d.eop <=> Starts(e)) /\ (~Starts(e) => e.head = d.head)

Chained(q) == \A i \in 1..(Len(q) - 1) : Follows(q[i], q[i + 1])
StartsWhole(q) == q # <<>> => Starts(q[1])
EndsWhole(q) == q # <<>> => q[Len(q)].eop
WholePackets(q) == Chained(q) /\ StartsWhole(q) /\ EndsWhole(q)

\* What was received into different frames is one packet.
LEMMA PacketWhole ==
    ASSUME NEW fs \in Seq(Frames), NEW n \in Nat \ {0}, n <= Len(fs), IsInjective(fs)
    PROVE  WholePackets(Packet(fs, n))
<1> DEFINE p == Packet(fs, n)
<1>1. p \in Seq(Desc) /\ Len(p) = n
  BY PacketProps
<1>2. \A i \in 1..n : p[i].addr = fs[i] /\ p[i].head = fs[1] /\ p[i].eop = (i = n)
  BY DEF Packet
<1>3. \A i \in 1..n : fs[i] = fs[1] <=> i = 1
  <2>1. 1..n \subseteq DOMAIN fs /\ 1 \in 1..n
    OBVIOUS
  <2> QED BY <2>1 DEF IsInjective
<1> HIDE DEF p
<1>4. \A i \in 1..n : Starts(p[i]) <=> i = 1
  BY <1>2, <1>3 DEF Starts
<1>5. ASSUME NEW i \in 1..(n - 1) PROVE Follows(p[i], p[i + 1])
  <2>1. i \in 1..n /\ i + 1 \in 1..n /\ i + 1 # 1 /\ i # n
    BY <1>5
  <2> QED BY <1>2, <1>4, <2>1 DEF Follows
<1>6. Chained(p)
  BY <1>1, <1>5 DEF Chained
<1>7. StartsWhole(p) /\ EndsWhole(p)
  <2>1. 1 \in 1..n /\ n \in 1..n
    OBVIOUS
  <2>2. Starts(p[1]) /\ p[n].eop = TRUE
    BY <1>2, <1>4, <2>1
  <2> QED BY <1>1, <2>2 DEF StartsWhole, EndsWhole
<1> QED BY <1>6, <1>7 DEF WholePackets, p

\* Whole packets after whole packets.
LEMMA ChainConcat ==
    ASSUME NEW q \in Seq(Desc), NEW r \in Seq(Desc), Chained(q), EndsWhole(q), WholePackets(r)
    PROVE  /\ Chained(q \o r) /\ EndsWhole(q \o r)
           /\ q # <<>> => (q \o r)[1] = q[1]
           /\ q = <<>> => q \o r = r
           /\ StartsWhole(q) => StartsWhole(q \o r)
<1> DEFINE c == q \o r
<1>1. c \in Seq(Desc) /\ Len(c) = Len(q) + Len(r) /\ Len(q) \in Nat /\ Len(r) \in Nat
  OBVIOUS
<1>2. \A i \in 1..Len(q) : c[i] = q[i]
  OBVIOUS
<1>3. \A i \in 1..Len(r) : c[Len(q) + i] = r[i]
  OBVIOUS
<1>4. q # <<>> <=> Len(q) > 0
  OBVIOUS
<1>5. r # <<>> <=> Len(r) > 0
  OBVIOUS
<1>6. q = <<>> => q \o r = r
  OBVIOUS
<1> HIDE DEF c
<1>7. ASSUME NEW i \in 1..(Len(c) - 1) PROVE Follows(c[i], c[i + 1])
  <2>1. CASE i < Len(q)
    <3>1. i \in 1..Len(q) /\ i + 1 \in 1..Len(q) /\ i \in 1..(Len(q) - 1)
      BY <1>1, <1>7, <2>1
    <3> QED BY <1>2, <3>1 DEF Chained
  <2>2. CASE i = Len(q)
    <3>1. Len(q) > 0 /\ Len(r) > 0 /\ i \in 1..Len(q) /\ 1 \in 1..Len(r)
      BY <1>1, <1>7, <2>2
    <3>2. q[i].eop /\ Starts(r[1]) /\ c[i] = q[i] /\ c[i + 1] = r[1]
      BY <1>2, <1>3, <1>4, <1>5, <2>2, <3>1 DEF WholePackets, StartsWhole, EndsWhole
    <3> QED BY <3>2 DEF Follows
  <2>3. CASE i > Len(q)
    <3> DEFINE j == i - Len(q)
    <3>1. j \in 1..Len(r) /\ j + 1 \in 1..Len(r) /\ j \in 1..(Len(r) - 1)
          /\ i = Len(q) + j /\ i + 1 = Len(q) + (j + 1)
      BY <1>1, <1>7, <2>3
    <3> HIDE DEF j
    <3>2. c[i] = r[j] /\ c[i + 1] = r[j + 1]
      BY <1>3, <3>1
    <3> QED BY <3>1, <3>2 DEF WholePackets, Chained
  <2> QED BY <1>1, <1>7, <2>1, <2>2, <2>3
<1>8. EndsWhole(c)
  <2>1. CASE Len(r) > 0
    <3>1. c[Len(c)] = r[Len(r)]
      BY <1>1, <1>3, <2>1
    <3> QED BY <1>5, <2>1, <3>1 DEF WholePackets, EndsWhole
  <2>2. CASE Len(r) = 0
    <3>1. Len(q) > 0 => c[Len(c)] = q[Len(q)]
      BY <1>1, <1>2, <2>2
    <3>2. c # <<>> => Len(q) > 0
      BY <1>1, <2>2
    <3> QED BY <1>4, <3>1, <3>2 DEF EndsWhole
  <2> QED BY <1>1, <2>1, <2>2
<1>9. q # <<>> => c[1] = q[1]
  BY <1>1, <1>2, <1>4
<1>10. StartsWhole(q) => StartsWhole(c)
  BY <1>6, <1>9 DEF StartsWhole, WholePackets, c
<1> QED BY <1>6, <1>7, <1>8, <1>9, <1>10 DEF Chained, c

\* A sequence of packets cut where a packet ends.
LEMMA ChainDrop ==
    ASSUME NEW q \in Seq(Desc), WholePackets(q), NEW n \in Nat, n <= Len(q), n > 0 => q[n].eop
    PROVE  WholePackets(DropN(q, n))
<1> DEFINE d == DropN(q, n)
<1>1. d \in Seq(Desc) /\ Len(d) = Len(q) - n /\ Len(q) \in Nat
  BY DropNProps
<1>2. \A i \in 1..(Len(q) - n) : d[i] = q[n + i]
  BY DropNProps
<1>3. d # <<>> <=> Len(q) - n > 0
  BY <1>1
<1> HIDE DEF d
<1>4. ASSUME NEW i \in 1..(Len(d) - 1) PROVE Follows(d[i], d[i + 1])
  <2>1. i \in 1..(Len(q) - n) /\ i + 1 \in 1..(Len(q) - n) /\ n + i \in 1..(Len(q) - 1)
        /\ n + (i + 1) = (n + i) + 1
    BY <1>1, <1>4
  <2> QED BY <1>2, <2>1 DEF WholePackets, Chained
<1>5. StartsWhole(d)
  <2> SUFFICES ASSUME Len(q) - n > 0 PROVE Starts(d[1])
    BY <1>3 DEF StartsWhole
  <2>1. d[1] = q[n + 1]
    BY <1>1, <1>2
  <2>2. CASE n = 0
    <3>1. q # <<>> /\ n + 1 = 1
      BY <2>2
    <3> QED BY <2>1, <3>1 DEF WholePackets, StartsWhole
  <2>3. CASE n > 0
    <3>1. n \in 1..(Len(q) - 1)
      BY <1>1, <2>3
    <3> QED BY <2>1, <2>3, <3>1 DEF WholePackets, Chained, Follows
  <2> QED BY <2>2, <2>3
<1>6. EndsWhole(d)
  <2> SUFFICES ASSUME Len(q) - n > 0 PROVE d[Len(d)].eop
    BY <1>3 DEF EndsWhole
  <2>1. Len(q) - n \in 1..(Len(q) - n) /\ n + (Len(q) - n) = Len(q) /\ q # <<>>
    BY <1>1
  <2> QED BY <1>1, <1>2, <2>1 DEF WholePackets, EndsWhole
<1> QED BY <1>4, <1>5, <1>6 DEF WholePackets, Chained, d

LEMMA ChainFirst ==
    ASSUME NEW q \in Seq(Desc), Chained(q), StartsWhole(q), NEW n \in Nat, n <= Len(q), n > 0 => q[n].eop
    PROVE  WholePackets(FirstN(q, n))
<1> DEFINE f == FirstN(q, n)
<1>1. f \in Seq(Desc) /\ Len(f) = n /\ Len(q) \in Nat /\ \A i \in 1..n : f[i] = q[i]
  BY FirstNProps
<1>2. f # <<>> <=> n > 0
  BY <1>1
<1> HIDE DEF f
<1>3. ASSUME NEW i \in 1..(Len(f) - 1) PROVE Follows(f[i], f[i + 1])
  <2>1. i \in 1..n /\ i + 1 \in 1..n /\ i \in 1..(Len(q) - 1)
    BY <1>1, <1>3
  <2> QED BY <1>1, <2>1 DEF Chained
<1>4. n > 0 => q # <<>> /\ f[1] = q[1] /\ f[n] = q[n]
  BY <1>1
<1> QED BY <1>1, <1>2, <1>3, <1>4 DEF WholePackets, Chained, StartsWhole, EndsWhole, f

\* The first descriptor is taken from whole packets that may have lost some.
LEMMA ChainTail ==
    ASSUME NEW q \in Seq(Desc), Chained(q), EndsWhole(q), q # <<>>
    PROVE  /\ Chained(Tail(q)) /\ EndsWhole(Tail(q))
           /\ Tail(q) # <<>> => (Starts(Tail(q)[1]) <=> q[1].eop)
           /\ Tail(q) = <<>> => q[1].eop
<1> DEFINE t == Tail(q)
<1>1. t \in Seq(Desc) /\ Len(t) = Len(q) - 1 /\ Len(q) \in Nat /\ Len(q) > 0
  OBVIOUS
<1>2. \A i \in 1..(Len(q) - 1) : t[i] = q[i + 1]
  OBVIOUS
<1> HIDE DEF t
<1>3. t # <<>> <=> Len(q) > 1
  <2>1. t # <<>> <=> Len(t) > 0
    BY <1>1
  <2> QED BY <1>1, <2>1
<1>4. ASSUME NEW i \in 1..(Len(t) - 1) PROVE Follows(t[i], t[i + 1])
  <2>1. i \in 1..(Len(q) - 1) /\ i + 1 \in 1..(Len(q) - 1)
    BY <1>1, <1>4
  <2> QED BY <1>2, <2>1 DEF Chained
<1>5. t # <<>> => t[1] = q[2] /\ 1 \in 1..(Len(q) - 1) /\ t[Len(t)] = q[Len(q)]
  BY <1>1, <1>2, <1>3
<1>6. t # <<>> => Follows(q[1], q[2])
  BY <1>5 DEF Chained
<1>7. t = <<>> => Len(q) = 1
  BY <1>1, <1>3
<1> QED BY <1>4, <1>5, <1>6, <1>7 DEF Chained, EndsWhole, Follows, t
===========================================================================
