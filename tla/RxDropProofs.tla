---------------------------- MODULE RxDropProofs ----------------------------
(***************************************************************************)
(* Proofs about RxDrop: the cursors, the ownership of frames and the wait  *)
(* loop of rx_drop, for every number of frames and sockets and every ring  *)
(* and batch size.                                                         *)
(***************************************************************************)
EXTENDS RxDrop, XskProofs

-----------------------------------------------------------------------------
(* Ownership as a fact about sequences: f is the fill ring, R[s] the frames *)
(* socket s has received.                                                   *)

Holding(f, R) ==
    /\ IsInjective(f)
    /\ \A s \in Socks :
        /\ IsInjective(R[s])
        /\ Range(R[s]) \cap Range(f) = {}
        /\ \A t \in Socks \ {s} : Range(R[s]) \cap Range(R[t]) = {}
    /\ \A x \in Frames : x \in Range(f) \/ \E s \in Socks : x \in Range(R[s])

\* A prefix of the fill ring moves to the end of what socket c received.
LEMMA HoldingToRx ==
    ASSUME NEW f \in Seq(Frames), NEW R \in [Socks -> Seq(Frames)], Holding(f, R),
           NEW c \in Socks, NEW n \in Nat, n <= Len(f),
           NEW Q, \A s \in Socks : Q[s] = IF s = c THEN R[c] \o FirstN(f, n) ELSE R[s]
    PROVE  Holding(DropN(f, n), Q)
<1> DEFINE d == DropN(f, n)
           p == FirstN(f, n)
           a == R[c]
           b == a \o p
<1>1. a \in Seq(Frames) /\ IsInjective(a) /\ Range(f) \cap Range(a) = {} /\ IsInjective(f)
  BY DEF Holding
<1>2. /\ IsInjective(d) /\ IsInjective(b) /\ Range(d) \cap Range(b) = {}
      /\ Range(d) = Range(f) \ Range(p) /\ Range(b) = Range(a) \cup Range(p)
      /\ Range(p) \subseteq Range(f)
  <2> HIDE DEF a
  <2> QED BY <1>1, MovePrefix
<1>3. Q[c] = b /\ \A s \in Socks \ {c} : Q[s] = R[s]
  OBVIOUS
<1> HIDE DEF d, p, b
<1>4. \A s \in Socks : IsInjective(Q[s])
  BY <1>2, <1>3 DEF Holding
<1>5. \A s \in Socks : Range(Q[s]) \cap Range(d) = {}
  BY <1>2, <1>3 DEF Holding
<1>6. ASSUME NEW s \in Socks, NEW t \in Socks \ {s} PROVE Range(Q[s]) \cap Range(Q[t]) = {}
  <2>1. CASE s = c
    BY <1>2, <1>3, <2>1 DEF Holding
  <2>2. CASE t = c
    BY <1>2, <1>3, <2>2 DEF Holding
  <2>3. CASE s # c /\ t # c
    BY <1>3, <2>3 DEF Holding
  <2> QED BY <2>1, <2>2, <2>3
<1>7. ASSUME NEW x \in Frames PROVE x \in Range(d) \/ \E s \in Socks : x \in Range(Q[s])
  <2>1. CASE x \in Range(f)
    BY <1>2, <1>3, <2>1
  <2>2. CASE \E s \in Socks : x \in Range(R[s])
    BY <1>2, <1>3, <2>2
  <2> QED BY <2>1, <2>2 DEF Holding
<1> QED BY <1>2, <1>4, <1>5, <1>6, <1>7 DEF Holding, d

\* The first n frames socket c received move to the end of the fill ring.
LEMMA HoldingToFill ==
    ASSUME NEW f \in Seq(Frames), NEW R \in [Socks -> Seq(Frames)], Holding(f, R),
           NEW c \in Socks, NEW n \in Nat, n <= Len(R[c]),
           NEW Q, \A s \in Socks : Q[s] = IF s = c THEN DropN(R[c], n) ELSE R[s]
    PROVE  Holding(f \o FirstN(R[c], n), Q)
<1> DEFINE a == R[c]
           d == DropN(a, n)
           p == FirstN(a, n)
           b == f \o p
<1>1. a \in Seq(Frames) /\ IsInjective(a) /\ Range(a) \cap Range(f) = {} /\ IsInjective(f)
      /\ n <= Len(a)
  BY DEF Holding
<1>2. /\ IsInjective(d) /\ IsInjective(b) /\ Range(d) \cap Range(b) = {}
      /\ Range(d) = Range(a) \ Range(p) /\ Range(b) = Range(f) \cup Range(p)
      /\ Range(p) \subseteq Range(a)
  <2> HIDE DEF a
  <2> QED BY <1>1, MovePrefix
<1>3. Q[c] = d /\ \A s \in Socks \ {c} : Q[s] = R[s]
  OBVIOUS
<1> HIDE DEF d, p, b
<1>4. \A s \in Socks : IsInjective(Q[s])
  BY <1>2, <1>3 DEF Holding
<1>5. \A s \in Socks : Range(Q[s]) \cap Range(b) = {}
  BY <1>2, <1>3 DEF Holding
<1>6. ASSUME NEW s \in Socks, NEW t \in Socks \ {s} PROVE Range(Q[s]) \cap Range(Q[t]) = {}
  <2>1. CASE s = c
    BY <1>2, <1>3, <2>1 DEF Holding
  <2>2. CASE t = c
    BY <1>2, <1>3, <2>2 DEF Holding
  <2>3. CASE s # c /\ t # c
    BY <1>3, <2>3 DEF Holding
  <2> QED BY <2>1, <2>2, <2>3
<1>7. ASSUME NEW x \in Frames PROVE x \in Range(b) \/ \E s \in Socks : x \in Range(Q[s])
  <2>1. CASE x \in Range(f)
    BY <1>2, <2>1
  <2>2. CASE \E s \in Socks : x \in Range(R[s])
    BY <1>2, <1>3, <2>2
  <2> QED BY <2>1, <2>2 DEF Holding
<1> QED BY <1>2, <1>4, <1>5, <1>6, <1>7 DEF Holding, b, p, a

-----------------------------------------------------------------------------
(* Types and cursors.  TypeOK alone is not inductive: that rcvd stays inside *)
(* the ring it was peeked from follows from how the two cursors are tied.    *)

CursorInv == TypeOK /\ CursorsInStep

LEMMA InitCursors == Init => CursorInv
<1> SUFFICES ASSUME Init PROVE CursorInv
  OBVIOUS
<1>1. 1 \in Socks
  BY SizesAssumption DEF Socks
<1>2. PopulatedFillRing \in Seq(Frames)
  BY SizesAssumption DEF PopulatedFillRing, Frames
<1>3. EmptyCons \in ConsRing(Desc)
  BY DEF EmptyCons, ConsRing
<1>4. TypeOK
  BY <1>1, <1>2, <1>3 DEF Init, InitKernel, TypeOK
<1>5. CursorsInStep
  BY <1>1 DEF Init, InitKernel, CursorsInStep, EmptyCons, Ordered
<1> QED BY <1>4, <1>5 DEF CursorInv

LEMMA CursorFacts ==
    ASSUME CursorInv
    PROVE  /\ cur \in Socks /\ 1 \in Socks /\ rcvd \in Nat
           /\ fq \in Seq(Frames) /\ Len(fq) \in Nat
           /\ rx \in [Socks -> ConsRing(Desc)]
           /\ \A s \in Socks :
               /\ rx[s] \in ConsRing(Desc) /\ Ordered(rx[s])
               /\ rx[s].q \in Seq(Desc) /\ rx[s].seen \in Nat /\ rx[s].peeked \in Nat
               /\ Len(rx[s].q) \in Nat /\ rx[s].peeked <= Len(rx[s].q)
           /\ rx[cur].peeked = rcvd /\ rcvd <= Len(rx[cur].q)
           /\ \A s \in Socks : s # cur => rx[s].peeked = 0
           /\ pc \in {"loop", "peek", "exit"} => rcvd = 0
<1> USE DEF CursorInv, TypeOK, CursorsInStep
<1>1. cur \in Socks /\ 1 \in Socks /\ rcvd \in Nat /\ fq \in Seq(Frames)
  BY SizesAssumption DEF Socks
<1>2. \A s \in Socks :
        /\ rx[s] \in ConsRing(Desc) /\ Ordered(rx[s])
        /\ rx[s].q \in Seq(Desc) /\ rx[s].seen \in Nat /\ rx[s].peeked \in Nat
  BY RingFields
<1>3. \A s \in Socks : Len(rx[s].q) \in Nat /\ rx[s].peeked <= Len(rx[s].q)
  BY <1>2 DEF Ordered
<1>4. rx[cur].peeked = rcvd /\ \A s \in Socks : s # cur => rx[s].peeked = 0
  BY <1>1
<1>5. pc \in {"loop", "peek", "exit"} => rcvd = 0
  BY <1>1
<1>6. rx \in [Socks -> ConsRing(Desc)] /\ Len(fq) \in Nat
  OBVIOUS
<1> QED BY <1>1, <1>2, <1>3, <1>4, <1>5, <1>6

\* The call returns with nothing in hand: to the next socket or the next round.
LEMMA NextSockProps ==
    ASSUME CursorInv, NextSock
    PROVE  pc' \in {"loop", "peek", "exit"} /\ cur' \in Socks
BY SizesAssumption DEF CursorInv, TypeOK, NextSock, Socks

LEMMA StartRoundCursors ==
    ASSUME CursorInv, StartRound PROVE CursorInv'
<1>1. fq' = fq /\ rx' = rx /\ rcvd' = rcvd /\ rcvd = 0 /\ benchmarkDone' = benchmarkDone
  BY CursorFacts DEF StartRound, noTx
<1>2. rxAsleep' \in BOOLEAN /\ pc' \in {"loop", "peek"} /\ cur' \in Socks
  BY CursorFacts DEF StartRound, Recvfrom, CursorInv, TypeOK
<1>3. \A s \in Socks : rx[s].peeked = 0 /\ Ordered(rx[s])
  BY <1>1, CursorFacts
<1> QED BY <1>1, <1>2, <1>3 DEF CursorInv, TypeOK, CursorsInStep

LEMMA PeekRxCursors ==
    ASSUME CursorInv, PeekRx
    PROVE  /\ CursorInv'
           /\ fq' = fq /\ pc' \in {"loop", "peek", "exit", "fill"}
           /\ \A s \in Socks : rx'[s].q = rx[s].q
<1>1. fq' = fq /\ benchmarkDone' = benchmarkDone /\ rcvd = 0 /\ BatchSize \in Nat
  BY CursorFacts, BatchAssumption DEF PeekRx
<1> DEFINE r == rx[cur]
           k == Peek(r, BatchSize)
<1>2. /\ k \in ConsRing(Desc) /\ Ordered(k) /\ k.q = r.q
      /\ PeekCount(r, BatchSize) \in Nat /\ k.peeked = r.peeked + PeekCount(r, BatchSize)
  <2>1. r \in ConsRing(Desc) /\ Ordered(r) /\ r.peeked \in Nat
    BY CursorFacts
  <2> HIDE DEF r
  <2> QED BY ONLY <1>1, <2>1, PeekProps
<1>3. rx' = [rx EXCEPT ![cur] = k] /\ rcvd' = PeekCount(r, BatchSize)
  BY DEF PeekRx
<1>4. k.peeked = rcvd' /\ rcvd' \in Nat
  BY <1>1, <1>2, <1>3, CursorFacts
<1> HIDE DEF k, r
<1>5. rx'[cur] = k /\ \A s \in Socks : s # cur => rx'[s] = rx[s]
  BY <1>3, CursorFacts
<1>6. rx' \in [Socks -> ConsRing(Desc)]
  BY <1>2, <1>3, CursorFacts
<1>7. /\ cur' \in Socks /\ pc' \in {"loop", "peek", "exit", "fill"}
      /\ rcvd' = 0 => pc' # "fill"
      /\ rcvd' # 0 => pc' = "fill" /\ cur' = cur
      /\ rxAsleep' \in BOOLEAN
  BY NextSockProps, CursorFacts DEF PeekRx, Recvfrom, CursorInv, TypeOK
<1>8. TypeOK'
  BY <1>1, <1>4, <1>6, <1>7 DEF TypeOK, CursorInv
<1>9. CursorsInStep'
  <2>1. rcvd' > 0 <=> pc' \in {"fill", "release"}
    BY <1>4, <1>7
  <2>2. \A s \in Socks : Ordered(rx'[s])
    BY <1>2, <1>5, CursorFacts
  <2>3. ASSUME NEW s \in Socks PROVE rx'[s].peeked = IF s = cur' THEN rcvd' ELSE 0
    BY <1>4, <1>5, <1>7, CursorFacts
  <2> QED BY <2>1, <2>2, <2>3 DEF CursorsInStep
<1>10. \A s \in Socks : rx'[s].q = rx[s].q
  BY <1>2, <1>5 DEF r
<1> QED BY <1>1, <1>7, <1>8, <1>9, <1>10 DEF CursorInv

LEMMA RefillSubmitCursors ==
    ASSUME CursorInv, RefillSubmit
    PROVE  /\ CursorInv'
           /\ Peeked \in Seq(Frames) /\ Len(Peeked) = rcvd
<1> DEFINE a == Addrs(rx[cur].q)
<1>1. a \in Seq(Frames) /\ Len(a) = Len(rx[cur].q)
  BY CursorFacts, AddrsProps
<1>2. Peeked \in Seq(Frames) /\ Len(Peeked) = rcvd
  <2>1. Peeked = FirstN(a, rcvd)
    BY DEF Peeked
  <2>2. rcvd \in Nat /\ rcvd <= Len(a)
    BY <1>1, CursorFacts
  <2> HIDE DEF a
  <2> QED BY <1>1, <2>1, <2>2, FirstNProps
<1>3. fq' \in Seq(Frames)
  <2>1. fq' = fq \o Peeked
    BY DEF RefillSubmit
  <2> QED BY <1>2, <2>1, CursorFacts, ConcatProperties
<1>4. TypeOK'
  BY <1>3 DEF RefillSubmit, CursorInv, TypeOK
<1>5. CursorsInStep'
  BY DEF RefillSubmit, CursorInv, CursorsInStep
<1> QED BY <1>2, <1>4, <1>5 DEF CursorInv

LEMMA ReleaseRxCursors ==
    ASSUME CursorInv, ReleaseRx
    PROVE  /\ CursorInv'
           /\ fq' = fq /\ pc' \in {"loop", "peek", "exit"}
           /\ \A s \in Socks : rx'[s].q = IF s = cur THEN DropN(rx[s].q, rcvd) ELSE rx[s].q
<1>1. fq' = fq /\ benchmarkDone' = benchmarkDone /\ rxAsleep' = rxAsleep /\ rcvd' = 0
  BY DEF ReleaseRx
<1> DEFINE r == rx[cur]
           k == Release(r, rcvd)
<1>2. k \in ConsRing(Desc) /\ Ordered(k) /\ k.q = DropN(r.q, rcvd) /\ k.peeked = r.peeked - rcvd
  <2>1. rcvd \in Nat /\ rcvd <= r.peeked /\ r \in ConsRing(Desc) /\ Ordered(r)
    BY CursorFacts
  <2> QED BY <2>1, ReleaseProps
<1>3. rx' = [rx EXCEPT ![cur] = k]
  BY DEF ReleaseRx
<1>4. k.peeked = 0
  BY <1>2, CursorFacts
<1> HIDE DEF k
<1>5. rx'[cur] = k /\ \A s \in Socks : s # cur => rx'[s] = rx[s]
  BY <1>3, CursorFacts
<1>6. rx' \in [Socks -> ConsRing(Desc)]
  BY <1>2, <1>3, CursorFacts
<1>7. cur' \in Socks /\ pc' \in {"loop", "peek", "exit"}
  BY NextSockProps DEF ReleaseRx
<1>8. TypeOK'
  BY <1>1, <1>6, <1>7 DEF TypeOK, CursorInv
<1>9. CursorsInStep'
  <2>1. \A s \in Socks : Ordered(rx'[s]) /\ rx'[s].peeked = 0
    BY <1>2, <1>4, <1>5, CursorFacts
  <2> QED BY <1>1, <1>7, <2>1 DEF CursorsInStep
<1>10. \A s \in Socks : rx'[s].q = IF s = cur THEN DropN(rx[s].q, rcvd) ELSE rx[s].q
  BY <1>2, <1>5
<1> QED BY <1>1, <1>7, <1>8, <1>9, <1>10 DEF CursorInv

\* The kernel appends to one rx ring and leaves the thread's cursors alone.
LEMMA KernelRxCursors ==
    ASSUME CursorInv, NEW s \in Socks, KernelRx(s), UNCHANGED <<userVars, benchmarkDone>>
    PROVE  /\ CursorInv'
           /\ \E n \in Nat \ {0} :
               /\ n <= Len(fq) /\ fq' = DropN(fq, n)
               /\ \A t \in Socks : rx'[t].q = IF t = s THEN rx[t].q \o Packet(fq, n) ELSE rx[t].q
<1>0. PICK n \in 1..MaxFrags :
        n <= Len(fq) /\ fq' = DropN(fq, n) /\ rx' = [rx EXCEPT ![s].q = @ \o Packet(fq, n)]
  BY DEF KernelRx
<1> n \in Nat \ {0}
  BY SizesAssumption
<1> DEFINE p == Packet(fq, n)
           k == [rx[s] EXCEPT !.q = @ \o p]
<1>1. p \in Seq(Desc) /\ Len(p) = n
  BY <1>0, CursorFacts, PacketProps
<1>2. rx' = [rx EXCEPT ![s] = k]
  BY <1>0, CursorFacts
<1> HIDE DEF p
<1>3. rx[s].q \o p \in Seq(Desc) /\ Len(rx[s].q \o p) = Len(rx[s].q) + Len(p)
  <2>1. rx[s].q \in Seq(Desc)
    BY CursorFacts
  <2> QED BY <1>1, <2>1, ConcatProperties
<1>4. k \in ConsRing(Desc) /\ k.q = rx[s].q \o p /\ k.seen = rx[s].seen /\ k.peeked = rx[s].peeked
  BY <1>3, CursorFacts DEF ConsRing
<1>5. Ordered(k)
  <2>1. k.peeked <= k.seen /\ k.seen <= Len(rx[s].q) /\ k.seen \in Nat
    BY <1>4, CursorFacts DEF Ordered
  <2> QED BY <1>1, <1>3, <1>4, <2>1, CursorFacts DEF Ordered
<1> HIDE DEF k
<1>6. rx'[s] = k /\ \A t \in Socks : t # s => rx'[t] = rx[t]
  BY <1>2, CursorFacts
<1>7. rx' \in [Socks -> ConsRing(Desc)]
  BY <1>2, <1>4, CursorFacts
<1>8. fq' \in Seq(Frames)
  BY <1>0, CursorFacts, DropNProps
<1>9. TypeOK'
  BY <1>7, <1>8 DEF TypeOK, CursorInv, userVars, KernelRx
<1>10. CursorsInStep'
  <2>1. \A t \in Socks : Ordered(rx'[t]) /\ rx'[t].peeked = rx[t].peeked
    BY <1>4, <1>5, <1>6, CursorFacts
  <2>2. pc' = pc /\ cur' = cur /\ rcvd' = rcvd
    BY DEF userVars
  <2>3. \A t \in Socks : rx'[t].peeked = IF t = cur' THEN rcvd' ELSE 0
    BY <2>1, <2>2, CursorFacts
  <2>4. rcvd' > 0 <=> pc' \in {"fill", "release"}
    BY <2>2 DEF CursorsInStep, CursorInv
  <2>5. \A t \in Socks : Ordered(rx'[t])
    BY <2>1
  <2> QED BY <2>3, <2>4, <2>5 DEF CursorsInStep
<1>11. \A t \in Socks : rx'[t].q = IF t = s THEN rx[t].q \o p ELSE rx[t].q
  BY <1>4, <1>6
<1> QED BY <1>0, <1>9, <1>10, <1>11 DEF CursorInv, p

-----------------------------------------------------------------------------
(* Ownership.  The rings are related to Holding through Received. *)

OwnInv == NoFrameShared /\ NoFrameLost
Inv == CursorInv /\ OwnInv

Rcv == [s \in Socks |-> Received(s)]

LEMMA HandedOnValue ==
    /\ pc # "release" => \A s : HandedOn(s) = 0
    /\ pc = "release" => HandedOn(cur) = rcvd /\ \A s : s # cur => HandedOn(s) = 0
BY DEF HandedOn

LEMMA ReceivedType ==
    ASSUME CursorInv
    PROVE  /\ Rcv \in [Socks -> Seq(Frames)]
           /\ \A s \in Socks : HandedOn(s) \in Nat /\ HandedOn(s) <= Len(rx[s].q)
           /\ \A s \in Socks : Received(s) = DropN(Addrs(rx[s].q), HandedOn(s))
<1>1. ASSUME NEW s \in Socks PROVE HandedOn(s) \in Nat /\ HandedOn(s) <= Len(rx[s].q)
  <2>1. rcvd \in Nat /\ rcvd <= Len(rx[cur].q) /\ Len(rx[s].q) \in Nat
    BY CursorFacts
  <2>2. CASE HandedOn(s) = 0
    BY <2>1, <2>2
  <2>3. CASE s = cur /\ HandedOn(s) = rcvd
    BY <2>1, <2>3
  <2> QED BY <2>2, <2>3, HandedOnValue
<1>2. ASSUME NEW s \in Socks PROVE Received(s) \in Seq(Frames)
  <2> DEFINE h == HandedOn(s)
             q == rx[s].q
  <2>1. h \in Nat /\ h <= Len(q) /\ q \in Seq(Desc)
    BY <1>1, CursorFacts
  <2> HIDE DEF h, q
  <2>2. DropN(q, h) \in Seq(Desc)
    BY <2>1, DropNProps
  <2>3. Addrs(DropN(q, h)) \in Seq(Frames)
    BY <2>2, AddrsProps
  <2> QED BY <2>3 DEF Received, h, q
<1>3. ASSUME NEW s \in Socks PROVE Received(s) = DropN(Addrs(rx[s].q), HandedOn(s))
  <2>1. rx[s].q \in Seq(Desc)
    BY CursorFacts
  <2> QED BY <1>1, <2>1, AddrsDrop DEF Received
<1> QED BY <1>1, <1>2, <1>3 DEF Rcv

LEMMA OwnHolding ==
    ASSUME CursorInv
    PROVE  OwnInv <=> Holding(fq, Rcv)
<1>1. \A s \in Socks : Rcv[s] = Received(s) /\ RxHeld(s) = Range(Rcv[s])
  BY DEF Rcv, RxHeld
<1>2. NoFrameShared <=>
        /\ IsInjective(fq)
        /\ \A s \in Socks :
            /\ IsInjective(Rcv[s])
            /\ Range(Rcv[s]) \cap Range(fq) = {}
            /\ \A t \in Socks \ {s} : Range(Rcv[s]) \cap Range(Rcv[t]) = {}
  BY <1>1 DEF NoFrameShared, FillHeld
<1>3. NoFrameLost <=>
        \A x \in Frames : x \in Range(fq) \/ \E s \in Socks : x \in Range(Rcv[s])
  <2>1. Range(fq) \subseteq Frames
    BY CursorFacts DEF Range
  <2>2. ASSUME NEW s \in Socks PROVE Range(Rcv[s]) \subseteq Frames
    <3>1. Rcv[s] \in Seq(Frames)
      BY ReceivedType
    <3> QED BY <3>1 DEF Range
  <2> QED BY <1>1, <2>1, <2>2 DEF NoFrameLost, FillHeld
<1> QED BY <1>2, <1>3 DEF OwnInv, Holding

\* A step after which the fill ring and what every socket received are the same.
LEMMA SameHolding ==
    ASSUME Inv, CursorInv', fq' = fq, \A s \in Socks : Received(s)' = Received(s)
    PROVE  OwnInv'
<1>1. Holding(fq, Rcv)
  BY OwnHolding DEF Inv
<1>2. Rcv' = Rcv
  BY DEF Rcv
<1>3. Holding(fq', Rcv')
  BY <1>1, <1>2
<1>4. OwnInv' <=> Holding(fq', Rcv')
  <2>1. CursorInv' => (OwnInv' <=> Holding(fq, Rcv)')
    BY OwnHolding, PTL
  <2> QED BY <2>1 DEF Holding
<1> QED BY <1>3, <1>4

\* RefillSubmit hands the peeked prefix of one rx ring to the fill ring.
LEMMA RefillSubmitOwn ==
    ASSUME Inv, RefillSubmit
    PROVE  OwnInv'
<1> DEFINE a == Addrs(rx[cur].q)
<1>1. CursorInv /\ CursorInv' /\ Holding(fq, Rcv)
  BY RefillSubmitCursors, OwnHolding DEF Inv
<1>2. a \in Seq(Frames) /\ Len(a) = Len(rx[cur].q)
  BY <1>1, CursorFacts, AddrsProps
<1>3. /\ pc = "fill" /\ pc' = "release" /\ rx' = rx /\ cur' = cur /\ rcvd' = rcvd
      /\ fq' = fq \o Peeked
  BY DEF RefillSubmit
<1>4. /\ \A s \in Socks : HandedOn(s) = 0
      /\ HandedOn(cur)' = rcvd /\ \A s \in Socks : s # cur => HandedOn(s)' = 0
  BY <1>3 DEF HandedOn
<1>5. Rcv[cur] = a /\ Peeked = FirstN(Rcv[cur], rcvd) /\ rcvd \in Nat /\ rcvd <= Len(Rcv[cur])
      /\ cur \in Socks
  <2>1. Received(cur) = DropN(a, 0) /\ cur \in Socks
    BY <1>1, <1>4, ReceivedType, CursorFacts
  <2>2. Rcv[cur] = a
    BY <1>2, <2>1, DropNone DEF Rcv
  <2> QED BY <1>1, <1>2, <2>1, <2>2, CursorFacts DEF Peeked
<1>6. ASSUME NEW s \in Socks PROVE Rcv'[s] = IF s = cur THEN DropN(Rcv[cur], rcvd) ELSE Rcv[s]
  <2>1. Rcv'[s] = Received(s)' /\ Rcv[s] = Received(s)
    BY DEF Rcv
  <2>2. CASE s = cur
    <3>1. Received(s)' = Addrs(DropN(rx[cur].q, rcvd))
      BY <1>3, <1>4, <2>2 DEF Received
    <3>2. Addrs(DropN(rx[cur].q, rcvd)) = DropN(a, rcvd)
      BY <1>1, CursorFacts, AddrsDrop
    <3> QED BY <1>5, <2>1, <2>2, <3>1, <3>2
  <2>3. CASE s # cur
    BY <1>3, <1>4, <2>1, <2>3 DEF Received
  <2> QED BY <2>2, <2>3
<1>7. Rcv \in [Socks -> Seq(Frames)] /\ fq \in Seq(Frames)
  BY <1>1, ReceivedType, CursorFacts
<1>8. Holding(fq \o FirstN(Rcv[cur], rcvd), Rcv')
  <2> DEFINE R == Rcv
             Q == Rcv'
  <2>1. /\ fq \in Seq(Frames) /\ R \in [Socks -> Seq(Frames)] /\ Holding(fq, R)
        /\ cur \in Socks /\ rcvd \in Nat /\ rcvd <= Len(R[cur])
        /\ \A s \in Socks : Q[s] = IF s = cur THEN DropN(R[cur], rcvd) ELSE R[s]
    BY <1>1, <1>5, <1>6, <1>7
  <2> HIDE DEF R, Q
  <2>2. Holding(fq \o FirstN(R[cur], rcvd), Q)
    BY ONLY <2>1, HoldingToFill
  <2> QED BY <2>2 DEF R, Q
<1>9. Holding(fq, Rcv)'
  BY <1>3, <1>5, <1>8 DEF Holding
<1> QED BY <1>1, <1>9, OwnHolding, PTL

\* The kernel moves a prefix of the fill ring to one rx ring.
LEMMA KernelRxOwn ==
    ASSUME Inv, NEW c \in Socks, KernelRx(c), UNCHANGED <<userVars, benchmarkDone>>
    PROVE  OwnInv'
<1>1. CursorInv /\ CursorInv' /\ Holding(fq, Rcv)
  BY KernelRxCursors, OwnHolding DEF Inv
<1>2. PICK n \in Nat \ {0} :
        /\ n <= Len(fq) /\ fq' = DropN(fq, n)
        /\ \A t \in Socks : rx'[t].q = IF t = c THEN rx[t].q \o Packet(fq, n) ELSE rx[t].q
  BY <1>1, KernelRxCursors
<1> DEFINE p == Packet(fq, n)
<1>3. p \in Seq(Desc) /\ Addrs(p) = FirstN(fq, n)
  BY <1>1, <1>2, CursorFacts, PacketProps, AddrsPacket
<1> HIDE DEF p
<1>4. \A s \in Socks : HandedOn(s)' = HandedOn(s)
  BY DEF HandedOn, userVars
<1>5. ASSUME NEW s \in Socks PROVE Rcv'[s] = IF s = c THEN Rcv[c] \o FirstN(fq, n) ELSE Rcv[s]
  <2> DEFINE h == HandedOn(s)
             q == rx[s].q
  <2>1. Rcv'[s] = Addrs(DropN(rx'[s].q, h)) /\ Rcv[s] = Addrs(DropN(q, h))
    BY <1>4 DEF Rcv, Received
  <2>2. h \in Nat /\ h <= Len(q) /\ q \in Seq(Desc)
    BY <1>1, ReceivedType, CursorFacts
  <2>3. CASE s = c
    <3>1. rx'[s].q = q \o p
      BY <1>2, <2>3 DEF p
    <3> HIDE DEF h, q
    <3>2. DropN(q \o p, h) = DropN(q, h) \o p /\ DropN(q, h) \in Seq(Desc)
      BY <1>3, <2>2, DropConcat, DropNProps
    <3>3. Addrs(DropN(q, h) \o p) = Addrs(DropN(q, h)) \o Addrs(p)
      BY <1>3, <3>2, AddrsConcat
    <3> QED BY <1>3, <2>1, <2>3, <3>1, <3>2, <3>3
  <2>4. CASE s # c
    <3>1. rx'[s].q = q
      BY <1>2, <2>4
    <3> QED BY <2>1, <2>4, <3>1
  <2> QED BY <2>3, <2>4
<1>6. Rcv \in [Socks -> Seq(Frames)] /\ fq \in Seq(Frames)
  BY <1>1, ReceivedType, CursorFacts
<1>7. Holding(DropN(fq, n), Rcv')
  <2> DEFINE R == Rcv
             Q == Rcv'
  <2>1. /\ fq \in Seq(Frames) /\ R \in [Socks -> Seq(Frames)] /\ Holding(fq, R)
        /\ c \in Socks /\ n \in Nat /\ n <= Len(fq)
        /\ \A s \in Socks : Q[s] = IF s = c THEN R[c] \o FirstN(fq, n) ELSE R[s]
    BY <1>1, <1>2, <1>5, <1>6
  <2> HIDE DEF R, Q
  <2>2. Holding(DropN(fq, n), Q)
    BY ONLY <2>1, HoldingToRx
  <2> QED BY <2>2 DEF R, Q
<1>8. Holding(fq, Rcv)'
  BY <1>2, <1>7 DEF Holding
<1> QED BY <1>1, <1>8, OwnHolding, PTL

\* ReleaseRx gives back slots whose frames were handed on already.
LEMMA ReleaseRxOwn ==
    ASSUME Inv, ReleaseRx
    PROVE  OwnInv'
<1>1. CursorInv /\ CursorInv' /\ fq' = fq /\ pc = "release" /\ pc' # "release"
      /\ \A s \in Socks : rx'[s].q = IF s = cur THEN DropN(rx[s].q, rcvd) ELSE rx[s].q
  BY ReleaseRxCursors DEF Inv, ReleaseRx
<1>2. /\ HandedOn(cur) = rcvd /\ \A s \in Socks : s # cur => HandedOn(s) = 0
      /\ \A s \in Socks : HandedOn(s)' = 0
  BY <1>1 DEF HandedOn
<1>3. ASSUME NEW s \in Socks PROVE Received(s)' = Received(s)
  <2> DEFINE q == rx'[s].q
  <2>1. q = DropN(rx[s].q, HandedOn(s))
    <3>1. CASE s = cur
      BY <1>1, <1>2, <3>1
    <3>2. CASE s # cur
      <4>1. q = rx[s].q /\ HandedOn(s) = 0 /\ rx[s].q \in Seq(Desc)
        BY <1>1, <1>2, <3>2, CursorFacts
      <4> QED BY <4>1, DropNone
    <3> QED BY <3>1, <3>2
  <2>2. Received(s)' = Addrs(DropN(q, 0))
    BY <1>2 DEF Received
  <2>3. q \in Seq(Desc)
    <3>1. HandedOn(s) \in Nat /\ HandedOn(s) <= Len(rx[s].q) /\ rx[s].q \in Seq(Desc)
      BY <1>1, ReceivedType, CursorFacts
    <3> QED BY <2>1, <3>1, DropNProps
  <2> HIDE DEF q
  <2>4. DropN(q, 0) = q
    BY <2>3, DropNone
  <2> QED BY <2>1, <2>2, <2>4 DEF Received
<1> QED BY <1>1, <1>3, SameHolding

\* Steps that touch neither the fill ring nor the entries of an rx ring.
LEMMA QuietOwn ==
    ASSUME Inv, CursorInv', fq' = fq, \A s \in Socks : rx'[s].q = rx[s].q,
           \A s \in Socks : HandedOn(s)' = HandedOn(s)
    PROVE  OwnInv'
<1>1. \A s \in Socks : Received(s)' = Received(s)
  BY DEF Received
<1> QED BY <1>1, SameHolding

LEMMA InitOwn == Init => OwnInv
<1> SUFFICES ASSUME Init PROVE OwnInv
  OBVIOUS
<1>1. fq = [i \in Frames |-> i]
  BY DEF Init, PopulatedFillRing
<1>2. IsInjective(fq) /\ Range(fq) = Frames
  BY <1>1 DEF IsInjective, Range
<1>3. ASSUME NEW s \in Socks PROVE Received(s) = <<>>
  <2>1. rx[s].q = <<>> /\ HandedOn(s) = 0
    BY DEF Init, InitKernel, EmptyCons, HandedOn
  <2> QED BY <2>1 DEF Received, DropN, Addrs
<1>4. \A s \in Socks : IsInjective(Received(s)) /\ RxHeld(s) = {}
  BY <1>3 DEF IsInjective, Range, RxHeld
<1> QED BY <1>2, <1>4 DEF OwnInv, NoFrameShared, NoFrameLost, FillHeld

LEMMA NextInv == Inv /\ [Next]_vars => Inv'
<1> SUFFICES ASSUME Inv, [Next]_vars PROVE Inv'
  OBVIOUS
<1> CursorInv
  BY DEF Inv
<1>1. CASE StartRound
  <2>1. CursorInv'
    BY <1>1, StartRoundCursors
  <2>2. fq' = fq /\ rx' = rx /\ pc # "release" /\ pc' # "release"
    BY <1>1 DEF StartRound
  <2>3. \A s \in Socks : HandedOn(s)' = HandedOn(s)
    BY <2>2 DEF HandedOn
  <2> QED BY <2>1, <2>2, <2>3, QuietOwn DEF Inv
<1>2. CASE PeekRx
  <2>1. /\ CursorInv' /\ fq' = fq /\ pc # "release" /\ pc' # "release"
        /\ \A s \in Socks : rx'[s].q = rx[s].q
    BY <1>2, PeekRxCursors DEF PeekRx
  <2>2. \A s \in Socks : HandedOn(s)' = HandedOn(s)
    BY <2>1 DEF HandedOn
  <2> QED BY <2>1, <2>2, QuietOwn DEF Inv
<1>3. CASE RefillSubmit
  BY <1>3, RefillSubmitCursors, RefillSubmitOwn DEF Inv
<1>4. CASE ReleaseRx
  BY <1>4, ReleaseRxCursors, ReleaseRxOwn DEF Inv
<1>5. CASE Kernel
  <2>1. UNCHANGED <<userVars, benchmarkDone>>
    BY <1>5 DEF Kernel
  <2>2. ASSUME NEW s \in Socks, KernelRx(s) PROVE Inv'
    BY <2>1, <2>2, KernelRxCursors, KernelRxOwn DEF Inv
  <2>3. CASE KernelRxSleep
    <3>1. fq' = fq /\ rx' = rx /\ rxAsleep' = TRUE /\ pc' = pc /\ cur' = cur /\ rcvd' = rcvd
          /\ benchmarkDone' = benchmarkDone
      BY <2>1, <2>3 DEF KernelRxSleep, userVars
    <3>2. CursorInv'
      BY <3>1 DEF CursorInv, TypeOK, CursorsInStep
    <3>3. \A s \in Socks : HandedOn(s)' = HandedOn(s)
      BY <3>1 DEF HandedOn
    <3> QED BY <3>1, <3>2, <3>3, QuietOwn DEF Inv
  <2> QED BY <1>5, <2>2, <2>3 DEF Kernel
<1>6. CASE BenchmarkDone \/ UNCHANGED vars
  <2>1. fq' = fq /\ rx' = rx /\ rxAsleep' = rxAsleep /\ pc' = pc /\ cur' = cur /\ rcvd' = rcvd
        /\ (benchmarkDone' = benchmarkDone \/ benchmarkDone' = TRUE)
    BY <1>6 DEF BenchmarkDone, vars, kernelVars, userVars
  <2>2. CursorInv'
    BY <2>1 DEF CursorInv, TypeOK, CursorsInStep
  <2>3. \A s \in Socks : HandedOn(s)' = HandedOn(s)
    BY <2>1 DEF HandedOn
  <2> QED BY <2>1, <2>2, <2>3, QuietOwn DEF Inv
<1> QED BY <1>1, <1>2, <1>3, <1>4, <1>5, <1>6 DEF Next, User

LEMMA SpecInv == Spec => []Inv
<1>1. Init => Inv
  BY InitCursors, InitOwn DEF Inv
<1> QED BY <1>1, NextInv, PTL DEF Spec

-----------------------------------------------------------------------------
(* The theorems. *)

\* rcvd of rx_drop agrees with the rx ring it was peeked from, at every step
\* of the thread and of the kernel.
THEOREM CursorsCorrect == Spec => [](TypeOK /\ CursorsInStep)
<1>1. Inv => TypeOK /\ CursorsInStep
  BY DEF Inv, CursorInv
<1> QED BY <1>1, SpecInv, PTL

\* rx_drop never hands a frame to the kernel that is still in hand or on a
\* ring, however the kernel's receptions interleave with its peek, refill and
\* release.
THEOREM NeverShared == Spec => []NoFrameShared
<1>1. Inv => NoFrameShared
  BY DEF Inv, OwnInv
<1> QED BY <1>1, SpecInv, PTL

\* rx_drop leaks no frame: each is on the fill ring or on its way through an
\* rx ring back to it, also when the thread stops.
THEOREM NeverLost == Spec => []NoFrameLost
<1>1. Inv => NoFrameLost
  BY DEF Inv, OwnInv
<1> QED BY <1>1, SpecInv, PTL

\* The loop of rx_drop that waits for fill slots never turns: the frames on
\* the fill ring and the ones in hand are different frames, and there are no
\* more than the ring has slots.
THEOREM NeverWaits == Spec => []RefillNeverWaits
<1>1. ASSUME Inv PROVE RefillNeverWaits
  <2> SUFFICES ASSUME pc = "fill" PROVE FillRoom
    BY DEF RefillNeverWaits
  <2> DEFINE a == Addrs(rx[cur].q)
             p == FirstN(a, rcvd)
  <2>1. CursorInv /\ Holding(fq, Rcv) /\ cur \in Socks
    <3>1. CursorInv /\ OwnInv
      BY <1>1 DEF Inv
    <3> QED BY <3>1, OwnHolding, CursorFacts
  <2>2. a \in Seq(Frames) /\ Len(a) = Len(rx[cur].q) /\ rcvd \in Nat /\ rcvd <= Len(rx[cur].q)
        /\ fq \in Seq(Frames)
    BY <2>1, CursorFacts, AddrsProps
  <2>3. Rcv[cur] = a
    <3>1. Rcv[cur] = DropN(a, 0)
      BY <2>1, ReceivedType DEF HandedOn, Rcv
    <3> QED BY <2>2, <3>1, DropNone
  <2> HIDE DEF a
  <2>4. IsInjective(a) /\ IsInjective(fq) /\ Range(a) \cap Range(fq) = {}
    BY <2>1, <2>3 DEF Holding
  <2>5. IsInjective(fq \o p)
    BY <2>2, <2>4, MovePrefix
  <2>6. p \in Seq(Frames) /\ Len(p) = rcvd
    BY <2>2, FirstNProps
  <2> HIDE DEF p
  <2>7. fq \o p \in Seq(Frames) /\ Len(fq \o p) = Len(fq) + Len(p)
    BY <2>2, <2>6, ConcatProperties
  <2>8. Len(fq \o p) <= NumFrames
    BY <2>5, <2>7, InjectiveLen
  <2> QED BY <2>2, <2>6, <2>7, <2>8, FillAssumption, SizesAssumption DEF FillRoom
<1> QED BY <1>1, SpecInv, PTL
=============================================================================
