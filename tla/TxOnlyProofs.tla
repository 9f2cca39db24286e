--------------------------- MODULE TxOnlyProofs ---------------------------
(***************************************************************************)
(* Proofs about TxOnly, for every size of the umem, the rings, batches and *)
(* packets.                                                                *)
(*                                                                         *)
(* TypeInv holds with any number of sockets; the others are about one.     *)
(* RoomInv: outstanding_tx is what is on tx, with the NIC or completed,    *)
(* and each ring has room for its share. RobinInv: the descriptors still   *)
(* to be sent name, in order, the frames just behind frame_nb, so the      *)
(* round robin meets one of them only after going all the way round.       *)
(* CountInv: what the loop of tx_only_all has counted is what was          *)
(* submitted.                                                              *)
(***************************************************************************)
EXTENDS TxOnly, FiniteSetTheorems, TLAPS

-----------------------------------------------------------------------------
(* Arithmetic. *)

LEMMA DivExact ==
    ASSUME NEW F \in Nat \ {0}, NEW m \in Nat, NEW r \in Nat, r < F
    PROVE  (m * F + r) \div F = m /\ (m * F + r) % F = r
OBVIOUS

LEMMA ModOnce ==
    ASSUME NEW F \in Nat \ {0}, NEW x \in Nat, x < F + F
    PROVE  x % F = IF x < F THEN x ELSE x - F
OBVIOUS

LEMMA MulMono ==
    ASSUME NEW F \in Nat, NEW m \in Nat, NEW b \in Nat, m <= b
    PROVE  m * F \in Nat /\ m * F <= b * F
OBVIOUS

-----------------------------------------------------------------------------
(* Types, and the cursors of the completion ring. *)

\* The packets of a batch.
Pkts == batch \div FramesPerPkt

\* A batch is a number of packets.
BatchWhole == Pkts \in 0..BatchSize /\ batch = Pkts * FramesPerPkt

\* Every reap releases what it peeked.
CqInStep == cq.peeked = 0 /\ cq.seen <= Len(cq.q)

TypeInv == TypeOK /\ BatchWhole /\ CqInStep

\* Where the thread is and what it counts.
ControlType ==
    /\ pc \in {"loop", "reserve", "write", "complete", "reap", "drain", "exit"}
    /\ cur \in Socks
    /\ txCnt \in Nat /\ pktCnt \in Nat
    /\ pending \in BOOLEAN
    /\ retries \in 0..Retries

LEMMA FirstSocket == 1 \in Socks
BY SizesAssumption DEF Socks

LEMMA ReturnType ==
    ASSUME ControlType, NEW n \in Nat, Return(n), UNCHANGED retries
    PROVE  ControlType'
<1>1. CASE cur < NumSocks
  <2>1. pc' = "reserve" /\ cur' = cur + 1 /\ txCnt' = n /\ pktCnt' = pktCnt /\ pending' = pending
    BY <1>1 DEF Return
  <2>2. cur + 1 \in Socks
    BY <1>1, SizesAssumption DEF ControlType, Socks
  <2> QED BY <2>1, <2>2 DEF ControlType
<1>2. CASE ~(cur < NumSocks)
  <2>1. /\ pktCnt' = (IF PktCount = 0 THEN 0 ELSE pktCnt + n) /\ txCnt' = 0
        /\ \/ pc' \in {"drain", "exit"} /\ cur' = 1 /\ pending' = FALSE
           \/ pc' = "loop" /\ cur' = cur /\ pending' = pending
    BY <1>2 DEF Return, Leave
  <2>2. pktCnt' \in Nat
    BY <2>1 DEF ControlType
  <2> QED BY <2>1, <2>2, FirstSocket DEF ControlType
<1> QED BY <1>1, <1>2

LEMMA DrainNextType ==
    ASSUME ControlType, NEW p \in BOOLEAN, DrainNext(p), UNCHANGED <<txCnt, pktCnt>>
    PROVE  ControlType'
<1>1. CASE cur < NumSocks
  <2>1. pc' = "drain" /\ cur' = cur + 1 /\ pending' = p /\ retries' = retries
    BY <1>1 DEF DrainNext
  <2>2. cur + 1 \in Socks
    BY <1>1, SizesAssumption DEF ControlType, Socks
  <2> QED BY <2>1, <2>2 DEF ControlType
<1>2. CASE ~(cur < NumSocks)
  <2>1. /\ cur' = 1
        /\ \/ pc' = "drain" /\ pending' = FALSE /\ retries > 0 /\ retries' = retries - 1
           \/ pc' = "exit" /\ pending' = p /\ retries' = retries
    BY <1>2 DEF DrainNext
  <2>2. retries' \in 0..Retries
    BY <2>1, SizesAssumption DEF ControlType
  <2> QED BY <2>1, <2>2, FirstSocket DEF ControlType
<1> QED BY <1>1, <1>2

LEMMA ResumeType ==
    ASSUME ControlType, BatchWhole, Resume
    PROVE  ControlType'
<1>1. txCnt + batch \div FramesPerPkt \in Nat /\ txCnt \in Nat
  BY DEF ControlType, BatchWhole, Pkts
<1>2. CASE back = "return" /\ Return(txCnt + batch \div FramesPerPkt) /\ UNCHANGED retries
  BY <1>1, <1>2, ReturnType
<1>3. CASE /\ IF benchmarkDone THEN Return(txCnt)
              ELSE pc' = "reserve" /\ UNCHANGED <<cur, txCnt, pktCnt, pending>>
           /\ UNCHANGED retries
  <2>1. CASE Return(txCnt)
    BY <1>1, <1>3, <2>1, ReturnType
  <2>2. CASE pc' = "reserve" /\ UNCHANGED <<cur, txCnt, pktCnt, pending>>
    BY <1>3, <2>2 DEF ControlType
  <2> QED BY <1>3, <2>1, <2>2
<1>4. CASE DrainNext(outstanding'[cur] # 0) /\ UNCHANGED <<txCnt, pktCnt>>
  <2>1. (outstanding'[cur] # 0) \in BOOLEAN
    OBVIOUS
  <2> QED BY <1>4, <2>1, DrainNextType
<1> QED BY <1>2, <1>3, <1>4 DEF Resume

\* The descriptors of a batch.
LEMMA NewDescsType ==
    ASSUME TypeInv
    PROVE  /\ batch \in Nat /\ Written \in Nat
           /\ NewDescs \in Seq(Descs) /\ Len(NewDescs) = Written
           /\ \A i \in 1..Written :
                NewDescs[i].addr = (frameNb[cur] + i - 1) % NumFrames
                /\ NewDescs[i].eop = (i % DescsPerPkt = 0)
<1>1. batch \in Nat /\ frameNb[cur] \in Nat /\ NumFrames \in Nat \ {0} /\ DescsPerPkt \in Nat \ {0}
  <2>1. BatchSize * FramesPerPkt \in Nat
    BY SizesAssumption
  <2>2. batch \in Nat
    BY <2>1 DEF TypeInv, TypeOK
  <2>3. frameNb[cur] \in Frames
    BY DEF TypeInv, TypeOK
  <2> QED BY <2>2, <2>3, SizesAssumption DEF Frames
<1>2. Written \in Nat
  <2> DEFINE w == (batch + DescsPerPkt - 1) \div DescsPerPkt
  <2>1. batch + DescsPerPkt - 1 \in Nat
    BY <1>1
  <2>2. w \in Nat
    BY <1>1, <2>1
  <2> HIDE DEF w
  <2>3. w * DescsPerPkt \in Nat
    BY <1>1, <2>2
  <2> QED BY <2>3 DEF Written, w
<1>3. \A i \in 1..Written : (frameNb[cur] + i - 1) % NumFrames \in Frames
  <2> TAKE i \in 1..Written
  <2>1. frameNb[cur] + i - 1 \in Nat
    BY <1>1, <1>2
  <2> QED BY <1>1, <2>1 DEF Frames
<1>4. NewDescs \in [1..Written -> Descs]
  BY <1>3 DEF NewDescs, Descs
<1>5. NewDescs \in Seq(Descs) /\ Len(NewDescs) = Written
  BY <1>2, <1>4
<1>6. \A i \in 1..Written :
        NewDescs[i].addr = (frameNb[cur] + i - 1) % NumFrames
        /\ NewDescs[i].eop = (i % DescsPerPkt = 0)
  BY DEF NewDescs
<1> QED BY <1>1, <1>2, <1>5, <1>6


-----------------------------------------------------------------------------
(* Sequences and the completion ring. *)

LEMMA DropNProps ==
    ASSUME NEW S, NEW s \in Seq(S), NEW n \in Nat, n <= Len(s)
    PROVE  /\ DropN(s, n) \in Seq(S)
           /\ Len(DropN(s, n)) = Len(s) - n
           /\ \A i \in 1..(Len(s) - n) : DropN(s, n)[i] = s[n + i]
BY DEF DropN

LEMMA FirstNProps ==
    ASSUME NEW S, NEW s \in Seq(S), NEW n \in Nat, n <= Len(s)
    PROVE  /\ FirstN(s, n) \in Seq(S)
           /\ Len(FirstN(s, n)) = n
           /\ \A i \in 1..n : FirstN(s, n)[i] = s[i]
BY DEF FirstN

\* A reap takes its completions from the front of the ring.
LEMMA ReapProps ==
    ASSUME NEW r \in ConsRing(Frames), r.peeked = 0, r.seen <= Len(r.q), NEW n \in Nat
    PROVE  LET k == PeekCount(r, n)
               u == Release(Peek(r, n), k)
           IN /\ k \in Nat /\ k <= Len(r.q) /\ k <= n
              /\ u \in ConsRing(Frames) /\ u.q = DropN(r.q, k)
              /\ Len(u.q) = Len(r.q) - k
              /\ u.peeked = 0 /\ u.seen <= Len(u.q)
<1> DEFINE k == PeekCount(r, n)
           u == Release(Peek(r, n), k)
           s == SeenBy(r)
<1>1. r.q \in Seq(Frames) /\ r.seen \in Nat /\ Len(r.q) \in Nat
  BY DEF ConsRing
<1>2. s \in Nat /\ s <= Len(r.q)
  BY <1>1 DEF SeenBy
<1>3. k \in Nat /\ k <= s /\ k <= n
  BY <1>2 DEF PeekCount
<1>4. Peek(r, n) = [q |-> r.q, seen |-> s, peeked |-> k]
  BY <1>3 DEF Peek
<1>5. u = [q |-> DropN(r.q, k), seen |-> s - k, peeked |-> 0]
  BY <1>3, <1>4 DEF Release
<1> HIDE DEF k, u, s
<1>7. s - k \in Nat /\ s - k <= Len(r.q) - k /\ k <= Len(r.q)
  BY <1>1, <1>2, <1>3
<1>6. DropN(r.q, k) \in Seq(Frames) /\ Len(DropN(r.q, k)) = Len(r.q) - k
  BY <1>1, <1>3, <1>7, DropNProps
<1>8. u \in ConsRing(Frames)
  BY <1>5, <1>6, <1>7 DEF ConsRing
<1> QED BY <1>3, <1>5, <1>6, <1>7, <1>8 DEF k, u

-----------------------------------------------------------------------------
(* Every step keeps the types. *)

LEMMA TypeInit == Init => TypeInv
<1> SUFFICES ASSUME Init PROVE TypeInv
  OBVIOUS
<1>1. 0 \in Frames /\ 0 \in 0..(U32 - 1) /\ Retries \in 0..Retries
  BY SizesAssumption DEF Frames
<1>2. BatchSize * FramesPerPkt \in Nat /\ 0 \div FramesPerPkt = 0 /\ 0 = 0 * FramesPerPkt
  BY SizesAssumption
<1>3. EmptyCons \in ConsRing(Frames) /\ EmptyCons.peeked = 0 /\ EmptyCons.seen <= Len(EmptyCons.q)
  BY DEF EmptyCons, ConsRing
<1>4. TypeOK
  <2>1. /\ tx \in [Socks -> Seq(Descs)] /\ wire \in Seq(Descs) /\ cq \in ConsRing(Frames)
        /\ kicked \in [Socks -> BOOLEAN]
    BY <1>3 DEF Init
  <2>2. /\ frameNb \in [Socks -> Frames] /\ outstanding \in [Socks -> 0..(U32 - 1)]
        /\ batch \in 0..(BatchSize * FramesPerPkt) /\ cur \in Socks /\ retries \in 0..Retries
    BY <1>1, <1>2, FirstSocket DEF Init
  <2> QED BY <2>1, <2>2 DEF Init, TypeOK
<1>5. BatchWhole
  BY <1>2, SizesAssumption DEF Init, BatchWhole, Pkts
<1> QED BY <1>3, <1>4, <1>5 DEF Init, TypeInv, CqInStep

\* A batch is a number of packets, as long as there are packets left.
LEMMA BatchProps ==
    ASSUME NEW n \in Nat, PktCount > 0 => n < PktCount
    PROVE  /\ GetBatchSize(n) \in 0..(BatchSize * FramesPerPkt)
           /\ GetBatchSize(n) \div FramesPerPkt \in 1..BatchSize
           /\ GetBatchSize(n) = (GetBatchSize(n) \div FramesPerPkt) * FramesPerPkt
           /\ PktCount > 0 => n + GetBatchSize(n) \div FramesPerPkt <= PktCount
<1>1. PICK m \in 1..BatchSize : GetBatchSize(n) = m * FramesPerPkt /\ (PktCount > 0 => n + m <= PktCount)
  <2>1. CASE PktCount = 0 \/ n + BatchSize <= PktCount
    BY <2>1, SizesAssumption DEF GetBatchSize
  <2>2. CASE ~(PktCount = 0 \/ n + BatchSize <= PktCount)
    <3>1. PktCount - n \in 1..BatchSize /\ n + (PktCount - n) <= PktCount
      BY <2>2, SizesAssumption
    <3> QED BY <2>2, <3>1 DEF GetBatchSize
  <2> QED BY <2>1, <2>2
<1>2. FramesPerPkt \in Nat \ {0} /\ BatchSize \in Nat /\ m \in Nat
  BY SizesAssumption
<1>3. (m * FramesPerPkt) \div FramesPerPkt = m
  BY <1>2, DivExact, 0 \in Nat
<1>4. m * FramesPerPkt \in Nat /\ m * FramesPerPkt <= BatchSize * FramesPerPkt
  BY <1>2, MulMono
<1>5. BatchSize * FramesPerPkt \in Nat
  BY <1>2
<1>6. m * FramesPerPkt \in 0..(BatchSize * FramesPerPkt)
  BY ONLY <1>4, <1>5
<1> QED BY <1>1, <1>3, <1>6


\* The loop writes whole packets until the batch is full.
LEMMA WrittenEnough ==
    ASSUME NEW b \in Nat, NEW D \in Nat \ {0}
    PROVE  b <= ((b + D - 1) \div D) * D
<1> DEFINE x == b + D - 1
           w == x \div D
<1>1. x \in Nat
  OBVIOUS
<1>2. \A y \in Nat : y \div D \in Nat /\ y < (y \div D) * D + D
  OBVIOUS
<1>3. w \in Nat /\ x < w * D + D
  BY <1>1, <1>2
<1> HIDE DEF w
<1>4. w * D \in Nat
  BY <1>3
<1>5. b <= w * D
  BY <1>3, <1>4
<1> QED BY <1>5 DEF w

\* Where the thread is is part of the types.
LEMMA TypeControl == TypeInv => ControlType
BY DEF TypeInv, TypeOK, ControlType

\* What a step of the thread leaves alone keeps its type; what it may change is
\* given.
DataType ==
    /\ tx \in [Socks -> Seq(Descs)] /\ wire \in Seq(Descs)
    /\ cq \in ConsRing(Frames) /\ kicked \in [Socks -> BOOLEAN]
    /\ back \in {"reserve", "return", "drain"}
    /\ batch \in 0..(BatchSize * FramesPerPkt)
    /\ frameNb \in [Socks -> Frames]
    /\ outstanding \in [Socks -> 0..(U32 - 1)]
    /\ sent \in Nat /\ benchmarkDone \in BOOLEAN

LEMMA TypeParts ==
    TypeInv <=> ControlType /\ DataType /\ BatchWhole /\ CqInStep
BY DEF TypeInv, TypeOK, ControlType, DataType

LEMMA KickType ==
    ASSUME NEW S, kicked \in [Socks -> BOOLEAN], Kick(S)
    PROVE  kicked' \in [Socks -> BOOLEAN]
BY DEF Kick

LEMMA StartRoundType ==
    ASSUME TypeInv, StartRound
    PROVE  TypeInv'
<1>1. ControlType /\ DataType /\ BatchWhole /\ CqInStep
  BY TypeParts
<1>2. UNCHANGED <<tx, wire, cq, back, frameNb, outstanding, pktCnt, retries, benchmarkDone, sent>>
  BY DEF StartRound
<1>3. kicked' \in [Socks -> BOOLEAN]
  <2>1. kicked' = kicked \/ Kick({NumSocks})
    BY DEF StartRound
  <2> QED BY <1>1, <2>1, KickType DEF DataType
<1>4. batch' \in 0..(BatchSize * FramesPerPkt) /\ BatchWhole'
  <2>1. CASE batch' = batch
    BY <1>1, <2>1 DEF DataType, BatchWhole, Pkts
  <2>2. CASE batch' = GetBatchSize(pktCnt) /\ (PktCount > 0 => pktCnt < PktCount)
    <3>1. batch' \in 0..(BatchSize * FramesPerPkt) /\ batch' \div FramesPerPkt \in 1..BatchSize
          /\ batch' = (batch' \div FramesPerPkt) * FramesPerPkt
      BY <1>1, <2>2, BatchProps DEF ControlType
    <3> QED BY <3>1 DEF BatchWhole, Pkts
  <2> QED BY <2>1, <2>2 DEF StartRound
<1>5. txCnt' \in Nat
  <2>1. txCnt' = txCnt \/ txCnt' = 0
    BY DEF StartRound
  <2> QED BY <1>1, <2>1 DEF ControlType
<1>6. /\ pc' \in {"loop", "reserve", "write", "complete", "reap", "drain", "exit"}
      /\ cur' \in Socks /\ pending' \in BOOLEAN
  <2>1. \/ pc' \in {"drain", "exit"} /\ cur' = 1 /\ pending' = FALSE
        \/ pc' = "reserve" /\ cur' = 1 /\ pending' = pending
        \/ UNCHANGED <<pc, cur, pending>>
    BY DEF StartRound, Leave
  <2> QED BY <1>1, <2>1, FirstSocket DEF ControlType
<1>7. ControlType'
  BY <1>1, <1>2, <1>5, <1>6 DEF ControlType
<1>8. DataType'
  BY <1>1, <1>2, <1>3, <1>4 DEF DataType
<1>9. CqInStep'
  BY <1>1, <1>2 DEF CqInStep
<1> QED BY <1>4, <1>7, <1>8, <1>9, TypeParts, PTL

LEMMA ReserveTxType ==
    ASSUME TypeInv, ReserveTx
    PROVE  TypeInv'
BY DEF ReserveTx, kernelVars, TypeInv, TypeOK, BatchWhole, Pkts, CqInStep

LEMMA SubmitTxType ==
    ASSUME TypeInv, SubmitTx
    PROVE  TypeInv'
<1> DEFINE new == FirstN(NewDescs, batch)
<1>1. /\ tx' = [tx EXCEPT ![cur] = @ \o new]
      /\ sent' = IF PktCount = 0 THEN 0 ELSE sent + Cardinality({i \in DOMAIN new : new[i].eop})
      /\ frameNb' = [frameNb EXCEPT ![cur] = NewFrameNb]
      /\ outstanding' = [outstanding EXCEPT ![cur] = (@ + batch) % U32]
      /\ pc' = "complete" /\ back' = "return"
      /\ UNCHANGED <<wire, cq, kicked, cur, batch, txCnt, pktCnt, pending, retries, benchmarkDone>>
  BY DEF SubmitTx
<1>2. TypeOK /\ BatchWhole /\ CqInStep
  BY DEF TypeInv
<1>3. batch \in Nat /\ Written \in Nat /\ NewDescs \in Seq(Descs) /\ Len(NewDescs) = Written
      /\ batch <= Written
  <2>1. batch \in Nat /\ Written \in Nat /\ NewDescs \in Seq(Descs) /\ Len(NewDescs) = Written
    BY NewDescsType
  <2>2. batch <= Written
    BY <2>1, SizesAssumption, WrittenEnough DEF Written
  <2> QED BY <2>1, <2>2
<1>4. new \in Seq(Descs) /\ Len(new) = batch
  BY <1>3, FirstNProps
<1> HIDE DEF new
<1>5. tx' \in [Socks -> Seq(Descs)]
  BY <1>1, <1>2, <1>4 DEF TypeOK
<1>6. sent' \in Nat
  <2>1. DOMAIN new = 1..batch
    BY <1>4
  <2>2. IsFiniteSet(1..batch)
    BY <1>3, FS_Interval
  <2>3. IsFiniteSet({i \in DOMAIN new : new[i].eop})
    BY <2>1, <2>2, FS_Subset
  <2>4. Cardinality({i \in DOMAIN new : new[i].eop}) \in Nat
    BY <2>3, FS_CardinalityType
  <2> QED BY <1>1, <1>2, <2>4 DEF TypeOK
<1>7. frameNb' \in [Socks -> Frames]
  <2>1. frameNb[cur] \in Frames /\ NumFrames \in Nat \ {0}
    BY <1>2, SizesAssumption DEF TypeOK
  <2>2. frameNb[cur] + Written \in Nat
    BY <1>3, <2>1 DEF Frames
  <2>3. NewFrameNb \in Frames
    BY <2>1, <2>2 DEF NewFrameNb, Frames
  <2> QED BY <1>1, <1>2, <2>3 DEF TypeOK
<1>8. outstanding' \in [Socks -> 0..(U32 - 1)]
  <2>1. outstanding[cur] \in Nat /\ U32 \in Nat \ {0}
    BY <1>2, SizesAssumption DEF TypeOK
  <2>2. (outstanding[cur] + batch) % U32 \in 0..(U32 - 1)
    BY <1>3, <2>1
  <2> QED BY <1>1, <1>2, <2>2 DEF TypeOK
<1>9. TypeOK'
  BY <1>1, <1>2, <1>5, <1>6, <1>7, <1>8 DEF TypeOK
<1> QED BY <1>1, <1>2, <1>9 DEF TypeInv, BatchWhole, Pkts, CqInStep

LEMMA CompleteTxType ==
    ASSUME TypeInv, CompleteTx
    PROVE  TypeInv'
<1>1. ControlType /\ DataType /\ BatchWhole /\ CqInStep
  BY TypeParts
<1>2. UNCHANGED <<tx, wire, cq, back, batch, frameNb, outstanding, benchmarkDone, sent>>
  BY DEF CompleteTx
<1>3. ControlType' /\ kicked' \in [Socks -> BOOLEAN]
  <2>1. CASE outstanding[cur] = 0
    <3>1. Resume /\ kicked' = kicked
      BY <2>1 DEF CompleteTx
    <3> QED BY <1>1, <3>1, ResumeType DEF DataType
  <2>2. CASE outstanding[cur] # 0
    <3>1. /\ pc' = "reap" /\ UNCHANGED <<cur, txCnt, pktCnt, pending, retries>>
          /\ kicked' = kicked \/ Kick({cur})
      BY <2>2 DEF CompleteTx
    <3>2. kicked' \in [Socks -> BOOLEAN]
      BY <1>1, <3>1, KickType DEF DataType
    <3> QED BY <1>1, <3>1, <3>2 DEF ControlType
  <2> QED BY <2>1, <2>2
<1>4. DataType'
  BY <1>1, <1>2, <1>3 DEF DataType
<1>5. BatchWhole' /\ CqInStep'
  BY <1>1, <1>2 DEF BatchWhole, Pkts, CqInStep
<1> QED BY <1>3, <1>4, <1>5, TypeParts, PTL

LEMMA ReapTxType ==
    ASSUME TypeInv, ReapTx
    PROVE  TypeInv'
<1> DEFINE n == IF back = "drain" THEN BatchSize ELSE batch
           k == PeekCount(cq, n)
<1>1. ControlType /\ DataType /\ BatchWhole /\ CqInStep
  BY TypeParts
<1>2. /\ cq' = Release(Peek(cq, n), k)
      /\ outstanding' = [outstanding EXCEPT ![cur] = Debit(k)]
      /\ Resume /\ UNCHANGED <<tx, wire, kicked, back, batch, frameNb, benchmarkDone, sent>>
  BY DEF ReapTx
<1>3. n \in Nat
  <2>1. BatchSize \in Nat /\ BatchSize * FramesPerPkt \in Nat
    BY SizesAssumption
  <2> QED BY <1>1, <2>1 DEF DataType
<1> HIDE DEF n
<1>4. cq' \in ConsRing(Frames) /\ cq'.peeked = 0 /\ cq'.seen <= Len(cq'.q) /\ k \in Nat
  BY <1>1, <1>2, <1>3, ReapProps DEF DataType, CqInStep
<1> HIDE DEF k
<1>5. outstanding' \in [Socks -> 0..(U32 - 1)]
  <2>1. outstanding[cur] \in Nat /\ U32 \in Nat \ {0}
    BY <1>1, SizesAssumption DEF DataType, ControlType
  <2>2. (outstanding[cur] - k) % U32 \in 0..(U32 - 1)
    BY <1>4, <2>1
  <2> QED BY <1>1, <1>2, <2>2 DEF DataType, Debit
<1>6. ControlType'
  BY <1>1, <1>2, ResumeType
<1>7. DataType'
  BY <1>1, <1>2, <1>4, <1>5 DEF DataType
<1>8. BatchWhole' /\ CqInStep'
  BY <1>1, <1>2, <1>4 DEF BatchWhole, Pkts, CqInStep
<1> QED BY <1>6, <1>7, <1>8, TypeParts, PTL

LEMMA DrainType ==
    ASSUME TypeInv, Drain
    PROVE  TypeInv'
<1>1. ControlType /\ DataType /\ BatchWhole /\ CqInStep
  BY TypeParts
<1>2. UNCHANGED <<tx, wire, cq, kicked, batch, frameNb, outstanding, txCnt, pktCnt, benchmarkDone, sent>>
  BY DEF Drain, kernelVars
<1>3. ControlType' /\ back' \in {"reserve", "return", "drain"}
  <2>1. CASE outstanding[cur] # 0
    BY <1>1, <1>2, <2>1 DEF Drain, ControlType
  <2>2. CASE outstanding[cur] = 0
    <3>1. DrainNext(pending) /\ back' = back
      BY <2>2 DEF Drain
    <3> QED BY <1>1, <1>2, <3>1, DrainNextType DEF DataType, ControlType
  <2> QED BY <2>1, <2>2
<1>4. DataType'
  BY <1>1, <1>2, <1>3 DEF DataType
<1>5. BatchWhole' /\ CqInStep'
  BY <1>1, <1>2 DEF BatchWhole, Pkts, CqInStep
<1> QED BY <1>3, <1>4, <1>5, TypeParts, PTL


LEMMA KernelTxType ==
    ASSUME TypeInv, NEW s \in Socks, KernelTx(s)
    PROVE  TypeInv'
<1>1. /\ tx[s] # <<>> /\ wire' = Append(wire, Head(tx[s]))
      /\ tx' = [tx EXCEPT ![s] = Tail(@)]
      /\ UNCHANGED <<cq, kicked, userVars, benchmarkDone>>
  BY DEF KernelTx
<1>2. tx \in [Socks -> Seq(Descs)] /\ wire \in Seq(Descs)
  BY DEF TypeInv, TypeOK
<1>3. tx[s] \in Seq(Descs)
  BY <1>2
<1>4. Head(tx[s]) \in Descs /\ Tail(tx[s]) \in Seq(Descs)
  BY <1>1, <1>3
<1>5. wire' \in Seq(Descs)
  BY <1>1, <1>2, <1>4
<1>6. tx' \in [Socks -> Seq(Descs)]
  BY <1>1, <1>2, <1>4
<1> QED BY <1>1, <1>5, <1>6 DEF TypeInv, TypeOK, userVars, BatchWhole, Pkts, CqInStep

\* One of the descriptors on the wire is completed.
LEMMA CompleteProps ==
    ASSUME TypeInv, NEW i \in DOMAIN wire
    PROVE  /\ FirstN(wire, i - 1) \in Seq(Descs) /\ Len(FirstN(wire, i - 1)) = i - 1
           /\ DropN(wire, i) \in Seq(Descs) /\ Len(DropN(wire, i)) = Len(wire) - i
           /\ wire[i].addr \in Frames
<1>1. wire \in Seq(Descs) /\ i \in 1..Len(wire) /\ Len(wire) \in Nat
  BY DEF TypeInv, TypeOK
<1>2. i - 1 \in Nat /\ i \in Nat /\ i - 1 <= Len(wire) /\ i <= Len(wire) /\ wire[i] \in Descs
  BY <1>1
<1> QED BY <1>1, <1>2, DropNProps, FirstNProps DEF Descs

LEMMA KernelCompleteType ==
    ASSUME TypeInv, KernelComplete
    PROVE  TypeInv'
<1>1. PICK i \in DOMAIN wire :
        /\ cq' = [cq EXCEPT !.q = Append(@, wire[i].addr)]
        /\ wire' = FirstN(wire, i - 1) \o DropN(wire, i)
  BY DEF KernelComplete
<1>2. UNCHANGED <<tx, kicked, userVars, benchmarkDone>>
  BY DEF KernelComplete
<1>3. FirstN(wire, i - 1) \in Seq(Descs) /\ DropN(wire, i) \in Seq(Descs) /\ wire[i].addr \in Frames
  BY CompleteProps
<1>4. wire' \in Seq(Descs)
  BY <1>1, <1>3
<1>5. cq.q \in Seq(Frames) /\ cq.seen \in Nat /\ cq.peeked = 0 /\ cq.seen <= Len(cq.q)
  BY DEF TypeInv, TypeOK, ConsRing, CqInStep
<1>6. cq' = [q |-> Append(cq.q, wire[i].addr), seen |-> cq.seen, peeked |-> cq.peeked]
  BY <1>1 DEF TypeInv, TypeOK, ConsRing
<1>7. Append(cq.q, wire[i].addr) \in Seq(Frames) /\ Len(Append(cq.q, wire[i].addr)) = Len(cq.q) + 1
  BY <1>3, <1>5
<1>8. cq' \in ConsRing(Frames) /\ CqInStep'
  BY <1>5, <1>6, <1>7 DEF ConsRing, CqInStep
<1> QED BY <1>2, <1>4, <1>8 DEF TypeInv, TypeOK, userVars, BatchWhole, Pkts

LEMMA OthersType ==
    ASSUME TypeInv, \/ \E s \in Socks : KernelKickEnd(s)
                    \/ BenchmarkDone
                    \/ UNCHANGED vars
    PROVE  TypeInv'
<1>1. CASE \E s \in Socks : KernelKickEnd(s)
  <2>1. PICK s \in Socks : KernelKickEnd(s)
    BY <1>1
  <2>2. kicked' \in [Socks -> BOOLEAN] /\ UNCHANGED <<tx, wire, cq, userVars, benchmarkDone>>
    BY <2>1 DEF KernelKickEnd, TypeInv, TypeOK
  <2> QED BY <2>2 DEF TypeInv, TypeOK, userVars, BatchWhole, Pkts, CqInStep
<1>2. CASE BenchmarkDone
  BY <1>2 DEF BenchmarkDone, kernelVars, userVars, TypeInv, TypeOK, BatchWhole, Pkts, CqInStep
<1>3. CASE UNCHANGED vars
  BY <1>3 DEF vars, kernelVars, userVars, TypeInv, TypeOK, BatchWhole, Pkts, CqInStep
<1> QED BY <1>1, <1>2, <1>3

LEMMA TypeStep == TypeInv /\ [Next]_vars => TypeInv'
<1> SUFFICES ASSUME TypeInv, [Next]_vars PROVE TypeInv'
  OBVIOUS
<1> QED BY StartRoundType, ReserveTxType, SubmitTxType, CompleteTxType, ReapTxType, DrainType,
           KernelTxType, KernelCompleteType, OthersType DEF Next, User

-----------------------------------------------------------------------------
(* Packets are whole. *)

\* A batch of whole packets is what the loop writes, when it counts the same
\* descriptors to a packet.
LEMMA BatchWritten ==
    ASSUME TypeInv, DescsPerPkt = FramesPerPkt
    PROVE  Written = batch
<1>1. Pkts \in Nat /\ batch = Pkts * FramesPerPkt /\ FramesPerPkt \in Nat \ {0}
  BY SizesAssumption DEF TypeInv, BatchWhole
<1>2. FramesPerPkt - 1 \in Nat /\ FramesPerPkt - 1 < FramesPerPkt
  BY <1>1
<1>3. (Pkts * FramesPerPkt + (FramesPerPkt - 1)) \div FramesPerPkt = Pkts
  BY <1>1, <1>2, DivExact
<1>4. Pkts * FramesPerPkt \in Nat
  BY <1>1
<1>5. batch + FramesPerPkt - 1 = Pkts * FramesPerPkt + (FramesPerPkt - 1)
  BY <1>1, <1>4
<1> QED BY <1>1, <1>3, <1>5 DEF Written

\* The descriptors a batch adds.
LEMMA NewProps ==
    ASSUME TypeInv, DescsPerPkt = FramesPerPkt
    PROVE  LET new == FirstN(NewDescs, batch) IN
           /\ new \in Seq(Descs) /\ Len(new) = batch /\ batch \in Nat
           /\ \A i \in 1..batch : /\ new[i].addr = (frameNb[cur] + i - 1) % NumFrames
                                  /\ new[i].eop = (i % FramesPerPkt = 0)
<1>1. batch \in Nat /\ NewDescs \in Seq(Descs) /\ Len(NewDescs) = batch
  BY NewDescsType, BatchWritten
<1>2. \A i \in 1..batch : /\ NewDescs[i].addr = (frameNb[cur] + i - 1) % NumFrames
                          /\ NewDescs[i].eop = (i % FramesPerPkt = 0)
  BY NewDescsType, BatchWritten
<1> DEFINE new == FirstN(NewDescs, batch)
<1>3. new \in Seq(Descs) /\ Len(new) = batch /\ \A i \in 1..batch : new[i] = NewDescs[i]
  <2>1. batch <= Len(NewDescs)
    BY <1>1
  <2> QED BY <1>1, <2>1, FirstNProps
<1> HIDE DEF new
<1>4. \A i \in 1..batch : /\ new[i].addr = (frameNb[cur] + i - 1) % NumFrames
                          /\ new[i].eop = (i % FramesPerPkt = 0)
  BY <1>2, <1>3, Zenon
<1> QED BY <1>1, <1>3, <1>4 DEF new

LEMMA ConcatProps ==
    ASSUME NEW S, NEW a \in Seq(S), NEW b \in Seq(S)
    PROVE  /\ Len(a \o b) = Len(a) + Len(b)
           /\ \A i \in 1..Len(a) : (a \o b)[i] = a[i]
           /\ \A i \in 1..Len(b) : (a \o b)[Len(a) + i] = b[i]
OBVIOUS

LEMMA WholeStep ==
    ASSUME DescsPerPkt = FramesPerPkt
    PROVE  TypeInv /\ PacketsWhole /\ [Next]_vars => PacketsWhole'
<1> SUFFICES ASSUME TypeInv, PacketsWhole, [Next]_vars PROVE PacketsWhole'
  OBVIOUS
<1>0. tx \in [Socks -> Seq(Descs)] /\ cur \in Socks
  BY DEF TypeInv, TypeOK
<1>1. CASE SubmitTx
  <2> DEFINE new == FirstN(NewDescs, batch)
  <2>1. tx' = [tx EXCEPT ![cur] = @ \o new]
    BY <1>1 DEF SubmitTx
  <2>2. new \in Seq(Descs) /\ Len(new) = batch /\ batch \in Nat
        /\ \A i \in 1..batch : new[i].eop = (i % FramesPerPkt = 0)
    BY NewProps
  <2>3. batch > 0 => new[batch].eop
    <3>1. Pkts \in Nat /\ batch = Pkts * FramesPerPkt /\ FramesPerPkt \in Nat \ {0}
      BY SizesAssumption DEF TypeInv, BatchWhole
    <3>2. batch % FramesPerPkt = 0
      BY <3>1, DivExact, 0 \in Nat
    <3>3. batch > 0 => batch \in 1..batch
      BY <2>2
    <3> HIDE DEF new
    <3> QED BY <2>2, <3>2, <3>3, Zenon
  <2> HIDE DEF new
  <2>4. ASSUME NEW s \in Socks, tx'[s] # <<>>
        PROVE  tx'[s][Len(tx'[s])].eop
    <3>1. CASE s # cur
      BY <1>0, <2>1, <2>4, <3>1 DEF PacketsWhole
    <3>2. CASE s = cur
      <4>1. tx'[s] = tx[s] \o new /\ tx[s] \in Seq(Descs)
        BY <1>0, <2>1, <2>4, <3>2
      <4>2. CASE batch = 0
        <5>1. tx'[s] = tx[s]
          BY <2>2, <4>1, <4>2
        <5> QED BY <2>4, <5>1 DEF PacketsWhole
      <4>3. CASE batch > 0
        <5>1. Len(tx'[s]) = Len(tx[s]) + batch /\ tx'[s][Len(tx[s]) + batch] = new[batch]
          <6>1. new \in Seq(Descs) /\ Len(new) = batch /\ batch \in 1..Len(new)
            BY <2>2, <4>3
          <6>2. /\ Len(tx[s] \o new) = Len(tx[s]) + Len(new)
                /\ \A i \in 1..Len(new) : (tx[s] \o new)[Len(tx[s]) + i] = new[i]
            <7>1. tx[s] \in Seq(Descs) /\ new \in Seq(Descs)
              BY <4>1, <6>1
            <7> QED BY ONLY <7>1, ConcatProps
          <6> QED BY ONLY <4>1, <6>1, <6>2
        <5> QED BY <2>3, <4>3, <5>1
      <4> QED BY <2>2, <4>2, <4>3
    <3> QED BY <3>1, <3>2
  <2> QED BY <2>4 DEF PacketsWhole
<1>2. CASE \E s \in Socks : KernelTx(s)
  <2>1. PICK s \in Socks : tx[s] # <<>> /\ tx' = [tx EXCEPT ![s] = Tail(@)]
    BY <1>2 DEF KernelTx
  <2>2. ASSUME NEW r \in Socks, tx'[r] # <<>>
        PROVE  tx'[r][Len(tx'[r])].eop
    <3>1. CASE r # s
      BY <1>0, <2>1, <2>2, <3>1 DEF PacketsWhole
    <3>2. CASE r = s
      <4>1. tx'[r] = Tail(tx[r]) /\ tx[r] \in Seq(Descs) /\ tx[r] # <<>>
        BY <1>0, <2>1, <3>2
      <4>2. Len(tx'[r]) = Len(tx[r]) - 1 /\ tx'[r][Len(tx'[r])] = tx[r][Len(tx[r])]
        BY <2>2, <4>1
      <4> QED BY <4>1, <4>2 DEF PacketsWhole
    <3> QED BY <3>1, <3>2
  <2> QED BY <2>2 DEF PacketsWhole
<1>3. CASE UNCHANGED tx
  BY <1>3 DEF PacketsWhole
<1>4. SubmitTx \/ (\E s \in Socks : KernelTx(s)) \/ UNCHANGED tx
  BY DEF Next, User, StartRound, ReserveTx, CompleteTx, ReapTx, Drain, KernelKickEnd,
         KernelComplete, BenchmarkDone, vars, kernelVars
<1> QED BY <1>1, <1>2, <1>3, <1>4

\* Whole packets only: as long as the set-up and the loop of tx_only agree on
\* the frames of a packet, tx_only never leaves a tx ring that ends within a
\* packet, with any number of sockets.
THEOREM OnlyWholePackets ==
    ASSUME DescsPerPkt = FramesPerPkt
    PROVE  Spec => []PacketsWhole
<1>1. Init => PacketsWhole
  BY DEF Init, PacketsWhole
<1> QED BY <1>1, TypeInit, TypeStep, WholeStep, PTL DEF Spec


-----------------------------------------------------------------------------
(* What is outstanding, with one socket. *)

\* How many descriptors are in the tx ring, with the NIC and completed.
Queued == Len(tx[1])
OnWire == Len(wire)
Completed == Len(cq.q)

\* The rings hold no more than they can, and room for a batch that is being
\* written has been found.
RoomInv ==
    /\ outstanding[1] = Queued + OnWire + Completed
    /\ Queued <= TxSize /\ OnWire + Completed <= CompSize
    /\ pc = "write" => Queued + batch <= TxSize

LEMMA TailProps ==
    ASSUME NEW S, NEW q \in Seq(S), q # <<>>
    PROVE  /\ Len(Tail(q)) = Len(q) - 1 /\ Len(q) \in Nat \ {0} /\ Head(q) = q[1]
           /\ \A i \in 1..(Len(q) - 1) : Tail(q)[i] = q[i + 1]
OBVIOUS

LEMMA AppendProps ==
    ASSUME NEW S, NEW q \in Seq(S), NEW e \in S
    PROVE  /\ Len(Append(q, e)) = Len(q) + 1
           /\ \A i \in 1..Len(q) : Append(q, e)[i] = q[i]
           /\ Append(q, e)[Len(q) + 1] = e
OBVIOUS

LEMMA ModSmall ==
    ASSUME NEW u \in Nat \ {0}, NEW x \in Nat, x < u
    PROVE  x % u = x
OBVIOUS

LEMMA OneSocket ==
    ASSUME NumSocks = 1, TypeInv
    PROVE  /\ Socks = {1} /\ cur = 1
           /\ tx[1] \in Seq(Descs) /\ wire \in Seq(Descs) /\ cq.q \in Seq(Frames)
           /\ Queued \in Nat /\ OnWire \in Nat /\ Completed \in Nat
           /\ batch \in Nat /\ outstanding[1] \in 0..(U32 - 1)
<1>1. Socks = {1}
  BY DEF Socks
<1>2. cur = 1 /\ tx[1] \in Seq(Descs) /\ wire \in Seq(Descs) /\ outstanding[1] \in 0..(U32 - 1)
  BY <1>1 DEF TypeInv, TypeOK
<1>3. cq.q \in Seq(Frames)
  BY DEF TypeInv, TypeOK, ConsRing
<1>4. batch \in Nat
  BY NewDescsType
<1>5. Queued \in Nat /\ OnWire \in Nat /\ Completed \in Nat
  BY <1>2, <1>3 DEF Queued, OnWire, Completed
<1> QED BY <1>1, <1>2, <1>3, <1>4, <1>5

LEMMA RoomInit ==
    ASSUME NumSocks = 1
    PROVE  Init => RoomInv
<1> SUFFICES ASSUME Init PROVE RoomInv
  OBVIOUS
<1>1. tx[1] = <<>> /\ outstanding[1] = 0 /\ wire = <<>> /\ cq.q = <<>> /\ pc = "loop"
  BY FirstSocket DEF Init, EmptyCons
<1>2. Queued = 0 /\ OnWire = 0 /\ Completed = 0
  BY <1>1 DEF Queued, OnWire, Completed
<1> QED BY <1>1, <1>2, SizesAssumption DEF RoomInv

LEMMA RoomSubmit ==
    ASSUME NumSocks = 1, TypeInv, RoomInv, SubmitTx
    PROVE  RoomInv'
<1> DEFINE new == FirstN(NewDescs, batch)
<1>1. /\ tx' = [tx EXCEPT ![cur] = @ \o new]
      /\ outstanding' = [outstanding EXCEPT ![cur] = (@ + batch) % U32]
      /\ pc = "write" /\ pc' = "complete" /\ wire' = wire /\ cq' = cq
  BY DEF SubmitTx
<1>2. new \in Seq(Descs) /\ Len(new) = batch
  <2>1. NewDescs \in Seq(Descs) /\ batch \in Nat /\ batch <= Len(NewDescs)
    BY NewDescsType, SizesAssumption, WrittenEnough DEF Written
  <2> QED BY <2>1, FirstNProps
<1> HIDE DEF new
<1>3. /\ cur = 1 /\ Queued \in Nat /\ OnWire \in Nat /\ Completed \in Nat /\ batch \in Nat
      /\ tx \in [Socks -> Seq(Descs)] /\ 1 \in Socks /\ outstanding \in [Socks -> 0..(U32 - 1)]
  BY OneSocket, FirstSocket DEF TypeInv, TypeOK
<1>4. tx'[1] = tx[1] \o new /\ tx[1] \in Seq(Descs)
  BY <1>1, <1>3
<1>5. Queued' = Queued + batch
  <2>1. tx[1] \in Seq(Descs) /\ new \in Seq(Descs)
    BY <1>2, <1>4
  <2>2. Len(tx[1] \o new) = Len(tx[1]) + Len(new)
    BY ONLY <2>1, ConcatProps
  <2> QED BY <1>2, <1>4, <2>2, Zenon DEF Queued
<1>6. OnWire' = OnWire /\ Completed' = Completed
  BY <1>1 DEF OnWire, Completed
<1> DEFINE x == Queued + OnWire + Completed + batch
<1>7. outstanding'[1] = x % U32
  <2>1. outstanding'[1] = (outstanding[1] + batch) % U32
    BY <1>1, <1>3
  <2>2. outstanding[1] + batch = x
    BY <1>3 DEF RoomInv
  <2> QED BY <2>1, <2>2, Zenon
<1>8. x \in Nat /\ x < U32
  BY <1>1, <1>3, SizesAssumption, RingSizesAssumption DEF RoomInv
<1>9. outstanding'[1] = x
  <2> HIDE DEF x
  <2> QED BY <1>7, <1>8, ModSmall, SizesAssumption
<1>10. Queued' <= TxSize /\ OnWire' + Completed' <= CompSize
       /\ x = Queued' + OnWire' + Completed'
  BY <1>1, <1>3, <1>5, <1>6 DEF RoomInv
<1> QED BY <1>1, <1>9, <1>10 DEF RoomInv

LEMMA RoomReap ==
    ASSUME NumSocks = 1, TypeInv, RoomInv, ReapTx
    PROVE  RoomInv'
<1> DEFINE n == IF back = "drain" THEN BatchSize ELSE batch
           k == PeekCount(cq, n)
<1>1. /\ cq' = Release(Peek(cq, n), k)
      /\ outstanding' = [outstanding EXCEPT ![cur] = Debit(k)]
      /\ Resume /\ UNCHANGED <<tx, wire, kicked, back, batch, frameNb, benchmarkDone, sent>>
  BY DEF ReapTx
<1>2. /\ cur = 1 /\ Queued \in Nat /\ OnWire \in Nat /\ Completed \in Nat /\ batch \in Nat
      /\ 1 \in Socks /\ outstanding \in [Socks -> 0..(U32 - 1)]
  BY OneSocket, FirstSocket DEF TypeInv, TypeOK
<1>3. n \in Nat
  BY <1>2, SizesAssumption
<1> HIDE DEF n
<1>4. k \in Nat /\ k <= Completed /\ Completed' = Completed - k
  <2>1. cq \in ConsRing(Frames) /\ cq.peeked = 0 /\ cq.seen <= Len(cq.q)
    BY DEF TypeInv, TypeOK, CqInStep
  <2> QED BY <1>1, <1>3, <2>1, ReapProps DEF Completed
<1> HIDE DEF k
<1>5. Queued' = Queued /\ OnWire' = OnWire
  BY <1>1 DEF Queued, OnWire
<1> DEFINE x == outstanding[1] - k
<1>6. outstanding'[1] = x % U32
  BY <1>1, <1>2 DEF Debit
<1>7. x \in Nat /\ x < U32 /\ x = Queued' + OnWire' + Completed'
  <2>1. outstanding[1] = Queued + OnWire + Completed /\ outstanding[1] \in 0..(U32 - 1)
    BY <1>2 DEF RoomInv
  <2> QED BY <1>2, <1>4, <1>5, <2>1, SizesAssumption
<1>8. outstanding'[1] = x
  <2> HIDE DEF x
  <2> QED BY <1>6, <1>7, ModSmall, SizesAssumption
<1>9. pc' # "write"
  BY <1>1 DEF Resume, Return, DrainNext, Leave
<1>10. OnWire' + Completed' <= CompSize /\ Queued' <= TxSize
  BY <1>2, <1>4, <1>5, SizesAssumption DEF RoomInv
<1> QED BY <1>7, <1>8, <1>9, <1>10 DEF RoomInv

LEMMA RoomKernelTx ==
    ASSUME NumSocks = 1, TypeInv, RoomInv, NEW s \in Socks, KernelTx(s)
    PROVE  RoomInv'
<1>1. s = 1 /\ 1 \in Socks
  BY OneSocket, FirstSocket
<1>2. /\ tx[1] # <<>> /\ CompUsed < CompSize /\ wire' = Append(wire, Head(tx[1]))
      /\ tx' = [tx EXCEPT ![1] = Tail(@)]
      /\ cq' = cq /\ outstanding' = outstanding /\ pc' = pc /\ batch' = batch
  BY <1>1 DEF KernelTx, userVars
<1>3. tx[1] \in Seq(Descs) /\ wire \in Seq(Descs) /\ tx \in [Socks -> Seq(Descs)]
  BY OneSocket DEF TypeInv, TypeOK
<1>4. Queued \in Nat /\ OnWire \in Nat /\ Completed \in Nat /\ batch \in Nat
  BY OneSocket
<1>5. Queued' = Queued - 1
  <2>1. tx'[1] = Tail(tx[1])
    BY <1>1, <1>2, <1>3
  <2>2. Len(Tail(tx[1])) = Len(tx[1]) - 1
    BY <1>2, <1>3, TailProps
  <2> QED BY <2>1, <2>2, Zenon DEF Queued
<1>6. OnWire' = OnWire + 1
  <2>1. Head(tx[1]) \in Descs
    BY <1>2, <1>3
  <2>2. Len(Append(wire, Head(tx[1]))) = Len(wire) + 1
    BY <1>3, <2>1, AppendProps
  <2> QED BY <1>2, <2>2, Zenon DEF OnWire
<1>7. OnWire + Completed < CompSize /\ Completed' = Completed
  BY <1>2 DEF CompUsed, OnWire, Completed
<1>8. outstanding'[1] = Queued' + OnWire' + Completed'
  BY <1>2, <1>4, <1>5, <1>6, <1>7 DEF RoomInv
<1>9. /\ Queued' <= TxSize /\ OnWire' + Completed' <= CompSize
      /\ pc' = "write" => Queued' + batch' <= TxSize
  BY <1>2, <1>4, <1>5, <1>6, <1>7, SizesAssumption DEF RoomInv
<1> QED BY <1>8, <1>9 DEF RoomInv

LEMMA RoomKernelComplete ==
    ASSUME NumSocks = 1, TypeInv, RoomInv, KernelComplete
    PROVE  RoomInv'
<1>1. PICK i \in DOMAIN wire :
        /\ cq' = [cq EXCEPT !.q = Append(@, wire[i].addr)]
        /\ wire' = FirstN(wire, i - 1) \o DropN(wire, i)
  BY DEF KernelComplete
<1>2. tx' = tx /\ outstanding' = outstanding /\ pc' = pc /\ batch' = batch
  BY DEF KernelComplete, userVars
<1> DEFINE a == FirstN(wire, i - 1)
           b == DropN(wire, i)
<1>3. /\ a \in Seq(Descs) /\ Len(a) = i - 1
      /\ b \in Seq(Descs) /\ Len(b) = OnWire - i
      /\ wire[i].addr \in Frames
  BY CompleteProps DEF OnWire
<1> HIDE DEF a, b
<1>4. cq.q \in Seq(Frames) /\ cq \in ConsRing(Frames) /\ wire \in Seq(Descs)
      /\ Queued \in Nat /\ OnWire \in Nat /\ Completed \in Nat /\ batch \in Nat
  BY OneSocket DEF TypeInv, TypeOK
<1>5. OnWire' = OnWire - 1
  <2>1. Len(a \o b) = Len(a) + Len(b)
    BY <1>3, ConcatProps
  <2>2. i \in 1..Len(wire)
    BY <1>4
  <2>3. OnWire' = Len(a \o b)
    BY <1>1 DEF OnWire, a, b
  <2>4. OnWire' = (i - 1) + (OnWire - i)
    BY <1>3, <2>1, <2>3, Zenon
  <2> QED BY <1>4, <2>2, <2>4
<1>6. Completed' = Completed + 1
  <2>1. cq'.q = Append(cq.q, wire[i].addr)
    BY <1>1, <1>4 DEF ConsRing
  <2>2. Len(Append(cq.q, wire[i].addr)) = Len(cq.q) + 1
    BY <1>3, <1>4, AppendProps
  <2> QED BY <2>1, <2>2, Zenon DEF Completed
<1>7. Queued' = Queued /\ OnWire' + Completed' = OnWire + Completed
  BY <1>2, <1>4, <1>5, <1>6 DEF Queued
<1>9. outstanding'[1] = Queued' + OnWire' + Completed'
  <2>1. Queued' + OnWire' + Completed' = Queued + OnWire + Completed
    BY <1>4, <1>5, <1>6, <1>7
  <2> QED BY <1>2, <2>1 DEF RoomInv
<1> QED BY <1>2, <1>7, <1>9 DEF RoomInv

LEMMA RoomStep ==
    ASSUME NumSocks = 1
    PROVE  TypeInv /\ RoomInv /\ [Next]_vars => RoomInv'
<1> SUFFICES ASSUME TypeInv, RoomInv, [Next]_vars PROVE RoomInv'
  OBVIOUS
<1>1. CASE ReserveTx
  <2>1. /\ UNCHANGED <<tx, wire, cq, outstanding, batch>>
        /\ pc' = "write" => Queued + batch <= TxSize
    BY <1>1, OneSocket DEF ReserveTx, kernelVars, Queued
  <2> QED BY <2>1 DEF RoomInv, Queued, OnWire, Completed
<1>2. CASE UNCHANGED <<tx, wire, cq, outstanding>>
           /\ (pc' # "write" \/ UNCHANGED <<pc, batch>>)
  BY <1>2 DEF RoomInv, Queued, OnWire, Completed
<1>3. StartRound \/ CompleteTx \/ Drain =>
        UNCHANGED <<tx, wire, cq, outstanding>> /\ pc' # "write"
  BY DEF StartRound, CompleteTx, Drain, kernelVars, Leave, Resume, Return, DrainNext
<1>4. (\E s \in Socks : KernelKickEnd(s)) \/ BenchmarkDone \/ UNCHANGED vars =>
        UNCHANGED <<tx, wire, cq, outstanding, pc, batch>>
  BY DEF KernelKickEnd, BenchmarkDone, vars, kernelVars, userVars
<1> QED BY <1>1, <1>2, <1>3, <1>4, RoomSubmit, RoomReap, RoomKernelTx, RoomKernelComplete
        DEF Next, User

\* outstanding_tx counts: with one socket, tx_only and complete_tx_only keep it
\* equal to the descriptors that are in the tx ring, with the NIC or completed
\* and not reaped, so a reap never takes the unsigned counter below zero.
THEOREM OutstandingCounts ==
    ASSUME NumSocks = 1
    PROVE  Spec => []OutstandingExact
<1>1. TypeInv /\ RoomInv => OutstandingExact
  <2> SUFFICES ASSUME TypeInv, RoomInv PROVE OutstandingExact
    OBVIOUS
  <2>1. Queued \in Nat /\ OnWire \in Nat /\ Completed \in Nat
    BY OneSocket
  <2>2. outstanding[1] = Queued + (OnWire + Completed)
    BY <2>1 DEF RoomInv
  <2> QED BY <2>2 DEF OutstandingExact, CompUsed, Queued, OnWire, Completed
<1> QED BY <1>1, RoomInit, RoomStep, TypeInit, TypeStep, PTL DEF Spec


-----------------------------------------------------------------------------
(* The frames in use are the last ones written, round robin. *)

\* The frame j places before x.
Back(x, j) == IF j <= x THEN x - j ELSE x - j + NumFrames

LEMMA RobinArith ==
    ASSUME NEW x \in Frames, NEW b \in Nat, b <= NumFrames
    PROVE  /\ \A j \in 1..NumFrames : j + b <= NumFrames =>
                Back((x + b) % NumFrames, j + b) = Back(x, j)
           /\ \A i \in 1..b : (x + i - 1) % NumFrames = Back((x + b) % NumFrames, b - i + 1)
           /\ \A i \in 1..b : \A j \in 1..NumFrames : j + b <= NumFrames =>
                (x + i - 1) % NumFrames # Back(x, j)
<1>1. NumFrames \in Nat \ {0} /\ x \in Nat /\ x < NumFrames
  BY SizesAssumption DEF Frames
<1>0. \A y \in Nat : y < NumFrames + NumFrames =>
        /\ y < NumFrames => y % NumFrames = y
        /\ ~(y < NumFrames) => y % NumFrames = y - NumFrames
  BY <1>1, ModOnce
<1>2. /\ x + b < NumFrames => (x + b) % NumFrames = x + b
      /\ ~(x + b < NumFrames) => (x + b) % NumFrames = x + b - NumFrames
  <2>1. x + b \in Nat /\ x + b < NumFrames + NumFrames
    BY <1>1
  <2> QED BY <1>0, <1>1, <2>1, SMT
<1>3. ASSUME NEW i \in 1..b
      PROVE  /\ x + i - 1 < NumFrames => (x + i - 1) % NumFrames = x + i - 1
             /\ ~(x + i - 1 < NumFrames) => (x + i - 1) % NumFrames = x + i - 1 - NumFrames
  <2>1. x + i - 1 \in Nat /\ x + i - 1 < NumFrames + NumFrames
    BY <1>1
  <2> QED BY <1>0, <1>1, <2>1, SMT
<1> DEFINE z == (x + b) % NumFrames
           f(i) == (x + i - 1) % NumFrames
<1>4. /\ x + b < NumFrames => z = x + b
      /\ ~(x + b < NumFrames) => z = x + b - NumFrames
  BY <1>2, Zenon
<1>5. \A i \in 1..b :
        /\ x + i - 1 < NumFrames => f(i) = x + i - 1
        /\ ~(x + i - 1 < NumFrames) => f(i) = x + i - 1 - NumFrames
  BY <1>3, Zenon
<1> HIDE DEF z, f
<1>6. \A j \in 1..NumFrames : j + b <= NumFrames => Back(z, j + b) = Back(x, j)
  BY <1>1, <1>4 DEF Back
<1>7. \A i \in 1..b : f(i) = Back(z, b - i + 1)
  BY <1>1, <1>4, <1>5 DEF Back
<1>8. \A i \in 1..b : \A j \in 1..NumFrames : j + b <= NumFrames => f(i) # Back(x, j)
  BY <1>1, <1>5 DEF Back
<1> QED BY <1>6, <1>7, <1>8 DEF z, f

\* The newest descriptor names the frame before frame_nb, and so on back to the
\* oldest one the NIC has.
RobinInv ==
    /\ \A i \in 1..Queued : tx[1][i].addr = Back(frameNb[1], Queued - i + 1)
    /\ \A i \in 1..OnWire : wire[i].addr = Back(frameNb[1], Queued + OnWire - i + 1)

LEMMA RobinSubmit ==
    ASSUME NumSocks = 1, DescsPerPkt = FramesPerPkt, TypeInv, RoomInv, RobinInv, SubmitTx
    PROVE  RobinInv'
<1> DEFINE new == FirstN(NewDescs, batch)
           x == frameNb[1]
           y == (x + batch) % NumFrames
<1>1. /\ tx' = [tx EXCEPT ![cur] = @ \o new]
      /\ frameNb' = [frameNb EXCEPT ![cur] = NewFrameNb]
      /\ pc = "write" /\ wire' = wire
  BY DEF SubmitTx
<1>2. /\ cur = 1 /\ Queued \in Nat /\ OnWire \in Nat /\ Completed \in Nat /\ batch \in Nat
      /\ tx \in [Socks -> Seq(Descs)] /\ 1 \in Socks /\ frameNb \in [Socks -> Frames]
  BY OneSocket, FirstSocket DEF TypeInv, TypeOK
<1>3. new \in Seq(Descs) /\ Len(new) = batch
  BY NewProps
<1>4. \A i \in 1..batch : new[i].addr = (x + i - 1) % NumFrames
  BY <1>2, NewProps
<1> HIDE DEF new
<1>5. tx'[1] = tx[1] \o new /\ tx[1] \in Seq(Descs)
  BY <1>1, <1>2
<1>6. /\ Queued' = Queued + batch
      /\ \A i \in 1..Queued : tx'[1][i] = tx[1][i]
      /\ \A i \in 1..batch : tx'[1][Queued + i] = new[i]
  <2>1. tx[1] \in Seq(Descs) /\ new \in Seq(Descs)
    BY <1>3, <1>5
  <2>2. /\ Len(tx[1] \o new) = Len(tx[1]) + Len(new)
        /\ \A i \in 1..Len(tx[1]) : (tx[1] \o new)[i] = tx[1][i]
        /\ \A i \in 1..Len(new) : (tx[1] \o new)[Len(tx[1]) + i] = new[i]
    BY ONLY <2>1, ConcatProps
  <2> QED BY <1>3, <1>5, <2>2, Zenon DEF Queued
<1>7. frameNb'[1] = y
  BY <1>1, <1>2, BatchWritten DEF NewFrameNb
<1>8. OnWire' = OnWire /\ wire' = wire
  BY <1>1 DEF OnWire
<1>9. NumFrames \in Nat /\ Queued + OnWire + batch <= NumFrames /\ batch <= NumFrames
  BY <1>1, <1>2, SizesAssumption, RingSizesAssumption DEF RoomInv
<1>10. x \in Frames
  BY <1>2
<1>11. /\ \A j \in 1..NumFrames : j + batch <= NumFrames => Back(y, j + batch) = Back(x, j)
       /\ \A i \in 1..batch : (x + i - 1) % NumFrames = Back(y, batch - i + 1)
  BY <1>2, <1>9, <1>10, RobinArith
<1>12. /\ \A i \in 1..Queued : tx[1][i].addr = Back(x, Queued - i + 1)
       /\ \A i \in 1..OnWire : wire[i].addr = Back(x, Queued + OnWire - i + 1)
  BY DEF RobinInv
<1> HIDE DEF x, y
<1>13. ASSUME NEW i \in 1..Queued'
       PROVE  tx'[1][i].addr = Back(y, Queued' - i + 1)
  <2>1. CASE i <= Queued
    <3>1. i \in 1..Queued
      BY <1>2, <1>6, <1>13, <2>1
    <3> DEFINE j == Queued - i + 1
    <3>2. j \in 1..NumFrames /\ j + batch <= NumFrames /\ j + batch = Queued' - i + 1
      BY <1>2, <1>6, <1>9, <3>1
    <3>3. tx'[1][i].addr = Back(x, j)
      BY <1>6, <1>12, <3>1
    <3> HIDE DEF j
    <3> QED BY <1>11, <3>2, <3>3
  <2>2. CASE i > Queued
    <3> DEFINE h == i - Queued
    <3>1. h \in 1..batch /\ i = Queued + h /\ batch - h + 1 = Queued' - i + 1
      BY <1>2, <1>6, <1>13, <2>2
    <3> HIDE DEF h
    <3>2. tx'[1][i].addr = (x + h - 1) % NumFrames
      BY <1>4, <1>6, <3>1
    <3>3. (x + h - 1) % NumFrames = Back(y, batch - h + 1)
      BY <1>11, <3>1
    <3> QED BY <3>1, <3>2, <3>3, Zenon
  <2> QED BY <1>2, <1>6, <1>13, <2>1, <2>2
<1>14. ASSUME NEW i \in 1..OnWire
       PROVE  wire[i].addr = Back(y, Queued' + OnWire - i + 1)
  <2> DEFINE j == Queued + OnWire - i + 1
  <2>1. j \in 1..NumFrames /\ j + batch <= NumFrames /\ j + batch = Queued' + OnWire - i + 1
    BY <1>2, <1>6, <1>9, <1>14
  <2>2. wire[i].addr = Back(x, j)
    BY <1>12, <1>14
  <2> HIDE DEF j
  <2> QED BY <1>11, <2>1, <2>2
<1> QED BY <1>7, <1>8, <1>13, <1>14 DEF RobinInv

LEMMA RobinKernelTx ==
    ASSUME NumSocks = 1, TypeInv, RobinInv, NEW s \in Socks, KernelTx(s)
    PROVE  RobinInv'
<1>1. s = 1 /\ 1 \in Socks
  BY OneSocket, FirstSocket
<1>2. /\ tx[1] # <<>> /\ wire' = Append(wire, Head(tx[1]))
      /\ tx' = [tx EXCEPT ![1] = Tail(@)] /\ frameNb' = frameNb
  BY <1>1 DEF KernelTx, userVars
<1>3. tx[1] \in Seq(Descs) /\ wire \in Seq(Descs) /\ tx \in [Socks -> Seq(Descs)]
  BY OneSocket DEF TypeInv, TypeOK
<1>4. Queued \in Nat /\ OnWire \in Nat
  BY OneSocket
<1> DEFINE x == frameNb[1]
<1>5. /\ Queued' = Queued - 1 /\ Queued > 0 /\ Head(tx[1]) = tx[1][1]
      /\ \A i \in 1..(Queued - 1) : tx'[1][i] = tx[1][i + 1]
  <2>1. tx'[1] = Tail(tx[1])
    BY <1>1, <1>2, <1>3
  <2>2. /\ Len(Tail(tx[1])) = Len(tx[1]) - 1 /\ Len(tx[1]) \in Nat \ {0} /\ Head(tx[1]) = tx[1][1]
        /\ \A i \in 1..(Len(tx[1]) - 1) : Tail(tx[1])[i] = tx[1][i + 1]
    BY ONLY <1>2, <1>3, TailProps
  <2>3. Queued > 0
    BY <2>2 DEF Queued
  <2> QED BY <2>1, <2>2, <2>3, Zenon DEF Queued
<1>6. /\ OnWire' = OnWire + 1
      /\ \A i \in 1..OnWire : wire'[i] = wire[i]
      /\ wire'[OnWire + 1] = tx[1][1]
  <2>1. Head(tx[1]) \in Descs
    BY <1>2, <1>3
  <2> DEFINE e == Head(tx[1])
  <2>2. /\ Len(Append(wire, e)) = Len(wire) + 1
        /\ \A i \in 1..Len(wire) : Append(wire, e)[i] = wire[i]
        /\ Append(wire, e)[Len(wire) + 1] = e
    BY <1>3, <2>1, AppendProps
  <2> QED BY <1>2, <1>5, <2>2, Zenon DEF OnWire
<1>7. /\ \A i \in 1..Queued : tx[1][i].addr = Back(x, Queued - i + 1)
      /\ \A i \in 1..OnWire : wire[i].addr = Back(x, Queued + OnWire - i + 1)
      /\ frameNb'[1] = x
  BY <1>2 DEF RobinInv
<1> HIDE DEF x
<1>8. ASSUME NEW i \in 1..(Queued - 1)
      PROVE  tx'[1][i].addr = Back(x, Queued' - i + 1)
  <2>1. i + 1 \in 1..Queued /\ Queued - (i + 1) + 1 = Queued' - i + 1
    BY <1>4, <1>5, <1>8
  <2>2. tx'[1][i] = tx[1][i + 1]
    BY <1>5, <1>8
  <2> QED BY <1>7, <2>1, <2>2
<1>9. ASSUME NEW i \in 1..(OnWire + 1)
      PROVE  wire'[i].addr = Back(x, Queued' + OnWire' - i + 1)
  <2>1. CASE i = OnWire + 1
    <3>1. 1 \in 1..Queued /\ Queued - 1 + 1 = Queued' + OnWire' - i + 1
      BY <1>4, <1>5, <1>6, <2>1
    <3> QED BY <1>6, <1>7, <2>1, <3>1
  <2>2. CASE i # OnWire + 1
    <3>1. i \in 1..OnWire /\ Queued + OnWire - i + 1 = Queued' + OnWire' - i + 1
      BY <1>4, <1>5, <1>6, <1>9, <2>2
    <3> QED BY <1>6, <1>7, <3>1
  <2> QED BY <2>1, <2>2
<1> QED BY <1>5, <1>6, <1>7, <1>8, <1>9 DEF RobinInv

LEMMA RobinKernelComplete ==
    ASSUME NumSocks = 1, InOrder, TypeInv, RobinInv, KernelComplete
    PROVE  RobinInv'
<1>1. 1 \in DOMAIN wire /\ wire' = FirstN(wire, 1 - 1) \o DropN(wire, 1)
  BY DEF KernelComplete
<1>2. tx' = tx /\ frameNb' = frameNb
  BY DEF KernelComplete, userVars
<1>3. wire \in Seq(Descs) /\ Queued \in Nat /\ OnWire \in Nat
  BY OneSocket
<1>4. OnWire > 0
  BY <1>1, <1>3 DEF OnWire
<1>5. wire' = DropN(wire, 1)
  <2>1. FirstN(wire, 1 - 1) = <<>>
    BY <1>3 DEF FirstN
  <2>2. DropN(wire, 1) \in Seq(Descs)
    BY <1>1, CompleteProps
  <2>3. \A q \in Seq(Descs) : <<>> \o q = q
    OBVIOUS
  <2> QED BY <1>1, <2>1, <2>2, <2>3, Zenon
<1>6. OnWire' = OnWire - 1 /\ \A i \in 1..(OnWire - 1) : wire'[i] = wire[1 + i]
  <2>1. 1 <= Len(wire) /\ 1 \in Nat
    BY <1>3, <1>4 DEF OnWire
  <2>2. /\ Len(DropN(wire, 1)) = Len(wire) - 1
        /\ \A i \in 1..(Len(wire) - 1) : DropN(wire, 1)[i] = wire[1 + i]
    BY <1>3, <2>1, DropNProps
  <2> QED BY <1>5, <2>2, Zenon DEF OnWire
<1> DEFINE x == frameNb[1]
<1>7. /\ \A i \in 1..Queued : tx[1][i].addr = Back(x, Queued - i + 1)
      /\ \A i \in 1..OnWire : wire[i].addr = Back(x, Queued + OnWire - i + 1)
      /\ frameNb'[1] = x /\ Queued' = Queued
  BY <1>2 DEF RobinInv, Queued
<1> HIDE DEF x
<1>8. ASSUME NEW i \in 1..(OnWire - 1)
      PROVE  wire'[i].addr = Back(x, Queued' + OnWire' - i + 1)
  <2>1. 1 + i \in 1..OnWire /\ Queued + OnWire - (1 + i) + 1 = Queued' + OnWire' - i + 1
    BY <1>3, <1>6, <1>7, <1>8
  <2> QED BY <1>6, <1>7, <1>8, <2>1
<1> QED BY <1>2, <1>6, <1>7, <1>8 DEF RobinInv

LEMMA RobinStep ==
    ASSUME NumSocks = 1, DescsPerPkt = FramesPerPkt, InOrder
    PROVE  TypeInv /\ RoomInv /\ RobinInv /\ [Next]_vars => RobinInv'
<1> SUFFICES ASSUME TypeInv, RoomInv, RobinInv, [Next]_vars PROVE RobinInv'
  OBVIOUS
<1>1. CASE UNCHANGED <<tx, wire, frameNb>>
  BY <1>1 DEF RobinInv, Queued, OnWire
<1>2. \/ SubmitTx \/ KernelComplete \/ (\E s \in Socks : KernelTx(s))
      \/ UNCHANGED <<tx, wire, frameNb>>
  BY DEF Next, User, StartRound, ReserveTx, CompleteTx, ReapTx, Drain, KernelKickEnd,
         BenchmarkDone, vars, kernelVars, userVars
<1> QED BY <1>1, <1>2, RobinSubmit, RobinKernelTx, RobinKernelComplete

\* A frame is never rewritten too early: with one socket and a NIC that completes
\* in order, no frame that tx_only writes is named by a descriptor the NIC has
\* still to send, because tx and completion ring together hold no more
\* descriptors than there are frames.
THEOREM NeverRewritten ==
    ASSUME NumSocks = 1, DescsPerPkt = FramesPerPkt, InOrder
    PROVE  Spec => []NoFrameRewritten
<1>1. Init => RobinInv
  <2> SUFFICES ASSUME Init PROVE RobinInv
    OBVIOUS
  <2>1. Queued = 0 /\ OnWire = 0
    BY FirstSocket DEF Init, Queued, OnWire
  <2> QED BY <2>1 DEF RobinInv
<1>2. TypeInv /\ RoomInv /\ RobinInv => NoFrameRewritten
  <2> SUFFICES ASSUME TypeInv, RoomInv, RobinInv, pc = "write",
                      NEW i \in DOMAIN NewDescs,
                      NEW d \in Range(tx[cur]) \cup Range(wire), NewDescs[i].addr = d.addr
               PROVE  FALSE
    BY Zenon DEF NoFrameRewritten
  <2> DEFINE x == frameNb[1]
  <2>1. cur = 1 /\ tx[1] \in Seq(Descs) /\ wire \in Seq(Descs)
        /\ Queued \in Nat /\ OnWire \in Nat /\ Completed \in Nat /\ batch \in Nat
    BY OneSocket
  <2>2. x \in Frames /\ NumFrames \in Nat
    BY <2>1, FirstSocket, SizesAssumption DEF TypeInv, TypeOK
  <2>3. i \in 1..batch /\ NewDescs[i].addr = (x + i - 1) % NumFrames
    BY <2>1, NewDescsType, BatchWritten
  <2>4. Queued + OnWire + batch <= NumFrames /\ batch <= NumFrames
    BY <2>1, SizesAssumption, RingSizesAssumption DEF RoomInv
  <2>5. \E j \in 1..NumFrames : j + batch <= NumFrames /\ d.addr = Back(x, j)
    <3>1. CASE d \in Range(tx[1])
      <4>1. PICK k \in 1..Queued : d = tx[1][k]
        BY <2>1, <3>1 DEF Range, Queued
      <4>2. d.addr = Back(x, Queued - k + 1)
        BY <4>1 DEF RobinInv
      <4>3. Queued - k + 1 \in 1..NumFrames /\ Queued - k + 1 + batch <= NumFrames
        BY <2>1, <2>2, <2>4
      <4> QED BY <4>2, <4>3
    <3>2. CASE d \in Range(wire)
      <4>1. PICK k \in 1..OnWire : d = wire[k]
        BY <2>1, <3>2 DEF Range, OnWire
      <4>2. d.addr = Back(x, Queued + OnWire - k + 1)
        BY <4>1 DEF RobinInv
      <4>3. Queued + OnWire - k + 1 \in 1..NumFrames /\ Queued + OnWire - k + 1 + batch <= NumFrames
        BY <2>1, <2>2, <2>4
      <4> QED BY <4>2, <4>3
    <3> QED BY <2>1, <3>1, <3>2
  <2>6. \A k \in 1..batch : \A j \in 1..NumFrames : j + batch <= NumFrames =>
          (x + k - 1) % NumFrames # Back(x, j)
    BY <2>1, <2>2, <2>4, RobinArith
  <2> HIDE DEF x
  <2> QED BY <2>3, <2>5, <2>6, Zenon
<1> QED BY <1>1, <1>2, RobinStep, RoomInit, RoomStep, TypeInit, TypeStep, PTL DEF Spec


-----------------------------------------------------------------------------
(* The number of packets, with one socket. *)

\* Every FramesPerPkt-th descriptor of a batch ends a packet.
LEMMA EopCount ==
    ASSUME NEW m \in Nat, NEW F \in Nat \ {0}
    PROVE  Cardinality({i \in 1..(m * F) : i % F = 0}) = m
<1> DEFINE E == {i \in 1..(m * F) : i % F = 0}
           f == [j \in 1..m |-> j * F]
<1>1. ASSUME NEW j \in 1..m
      PROVE  f[j] \in E
  <2>1. j \in Nat /\ j <= m /\ j >= 1
    OBVIOUS
  <2>2. j * F \in Nat /\ j * F <= m * F
    BY <2>1, MulMono
  <2>3. j * F >= 1
    BY <2>1
  <2>4. (j * F) % F = 0
    BY <2>1, DivExact, 0 \in Nat
  <2>5. m * F \in Nat
    OBVIOUS
  <2>6. j * F \in 1..(m * F)
    BY <2>2, <2>3, <2>5
  <2> QED BY <2>4, <2>6
<1>2. ASSUME NEW j \in 1..m, NEW k \in 1..m, f[j] = f[k]
      PROVE  j = k
  <2>1. j * F = k * F /\ j \in Nat /\ k \in Nat
    BY <1>2
  <2>2. (j * F) \div F = j /\ (k * F) \div F = k
    BY <2>1, DivExact, 0 \in Nat
  <2> QED BY <2>1, <2>2, Zenon
<1>3. ASSUME NEW i \in E
      PROVE  \E j \in 1..m : f[j] = i
  <2> DEFINE j == i \div F
  <2>1. i \in Nat /\ i >= 1 /\ i <= m * F /\ i % F = 0 /\ m * F \in Nat
    OBVIOUS
  <2>2. j \in Nat /\ i = j * F
    <3>1. \A y \in Nat : y \div F \in Nat /\ (y % F = 0 => y = (y \div F) * F)
      OBVIOUS
    <3> QED BY <2>1, <3>1
  <2> HIDE DEF j
  <2>3. j >= 1
    BY <2>1, <2>2
  <2>4. j <= m
    <3> SUFFICES ASSUME m + 1 <= j PROVE FALSE
      BY <2>2
    <3>1. (m + 1) * F <= j * F /\ (m + 1) * F = m * F + F
      BY <2>2, MulMono
    <3> QED BY <2>1, <2>2, <3>1
  <2>5. j \in 1..m
    BY <2>2, <2>3, <2>4
  <2> QED BY <2>2, <2>5
<1>4. f \in [1..m -> E]
  BY <1>1
<1>5. DOMAIN f = 1..m
  OBVIOUS
<1> HIDE DEF f, E
<1>6. f \in Bijection(1..m, E)
  <2>1. f \in Injection(1..m, E)
    BY <1>2, <1>4, Zenon DEF Injection, IsInjective
  <2>2. f \in Surjection(1..m, E)
    BY <1>3, <1>4, Zenon DEF Surjection
  <2> QED BY <2>1, <2>2, Zenon DEF Bijection
<1>7. IsFiniteSet(1..m) /\ Cardinality(1..m) = m
  BY FS_Interval
<1>8. Cardinality(E) = Cardinality(1..m)
  BY <1>6, <1>7, FS_Bijection DEF ExistsBijection
<1> QED BY <1>7, <1>8 DEF E

\* Where the thread is: before a round, in it, behind the write, at the end.
InComplete == pc \in {"complete", "reap"}
AtLoop == pc = "loop"
InRound == pc \in {"reserve", "write"} \/ (InComplete /\ back = "reserve")
AfterWrite == InComplete /\ back = "return"
AtEnd == pc \in {"drain", "exit"} \/ (InComplete /\ back = "drain")

\* What has been submitted, in terms of pkt_cnt.
LoopOK == sent = pktCnt /\ pktCnt <= PktCount
RoundOK == sent = pktCnt /\ txCnt = 0 /\ pktCnt + Pkts <= PktCount
WriteOK == sent = pktCnt + Pkts /\ txCnt = 0 /\ sent <= PktCount
EndOK == sent <= PktCount /\ (benchmarkDone \/ sent = PktCount)

CountInv ==
    /\ AtLoop => LoopOK
    /\ InRound => RoundOK
    /\ AfterWrite => WriteOK
    /\ AtEnd => EndOK

\* The four places exclude each other, and there is no other.
LEMMA Places ==
    /\ pc = "loop" <=> AtLoop
    /\ pc \in {"reserve", "write"} => InRound /\ ~AfterWrite /\ ~AtEnd
    /\ pc \in {"drain", "exit"} => AtEnd /\ ~AfterWrite /\ ~InRound
    /\ pc \in {"complete", "reap"} /\ back = "reserve" => InRound /\ ~AfterWrite /\ ~AtEnd
    /\ pc \in {"complete", "reap"} /\ back = "return" => AfterWrite /\ ~InRound /\ ~AtEnd
    /\ pc \in {"complete", "reap"} /\ back = "drain" => AtEnd /\ ~InRound /\ ~AfterWrite
    /\ AtLoop => ~InRound /\ ~AfterWrite /\ ~AtEnd
BY DEF AtLoop, InRound, AfterWrite, AtEnd, InComplete

\* The places after a step.
LEMMA PlacesNext ==
    /\ pc' = "loop" => AtLoop' /\ ~InRound' /\ ~AfterWrite' /\ ~AtEnd'
    /\ pc' \in {"reserve", "write"} => ~AtLoop' /\ InRound' /\ ~AfterWrite' /\ ~AtEnd'
    /\ pc' \in {"drain", "exit"} => ~AtLoop' /\ AtEnd' /\ ~AfterWrite' /\ ~InRound'
    /\ pc' \in {"complete", "reap"} /\ back' = "reserve" =>
         ~AtLoop' /\ InRound' /\ ~AfterWrite' /\ ~AtEnd'
    /\ pc' \in {"complete", "reap"} /\ back' = "return" =>
         ~AtLoop' /\ AfterWrite' /\ ~InRound' /\ ~AtEnd'
    /\ pc' \in {"complete", "reap"} /\ back' = "drain" =>
         ~AtLoop' /\ AtEnd' /\ ~InRound' /\ ~AfterWrite'
BY DEF AtLoop, InRound, AfterWrite, AtEnd, InComplete

LEMMA CountSubmit ==
    ASSUME DescsPerPkt = FramesPerPkt, PktCount > 0, TypeInv, CountInv, SubmitTx
    PROVE  CountInv'
<1> DEFINE new == FirstN(NewDescs, batch)
<1>1. /\ sent' = IF PktCount = 0 THEN 0 ELSE sent + Cardinality({i \in DOMAIN new : new[i].eop})
      /\ pc = "write" /\ pc' = "complete" /\ back' = "return"
      /\ batch' = batch /\ txCnt' = txCnt /\ pktCnt' = pktCnt
  BY DEF SubmitTx
<1>2. PktCount # 0
  BY SizesAssumption
<1>3. Cardinality({i \in DOMAIN new : new[i].eop}) = Pkts
  <2>1. DOMAIN new = 1..batch /\ \A i \in 1..batch : new[i].eop = (i % FramesPerPkt = 0)
    BY NewProps
  <2>2. {i \in DOMAIN new : new[i].eop} = {i \in 1..batch : i % FramesPerPkt = 0}
    <3> HIDE DEF new
    <3> QED BY <2>1, Zenon
  <2>3. Pkts \in Nat /\ batch = Pkts * FramesPerPkt /\ FramesPerPkt \in Nat \ {0}
    BY SizesAssumption DEF TypeInv, BatchWhole
  <2>4. Cardinality({i \in 1..(Pkts * FramesPerPkt) : i % FramesPerPkt = 0}) = Pkts
    BY <2>3, EopCount
  <2> QED BY <2>2, <2>3, <2>4
<1>4. sent' = sent + Pkts
  BY <1>1, <1>2, <1>3, Zenon
<1>5. Pkts' = Pkts
  BY <1>1 DEF Pkts
<1>6. RoundOK
  BY <1>1, Places DEF CountInv
<1>7. WriteOK'
  BY <1>1, <1>4, <1>5, <1>6 DEF RoundOK, WriteOK
<1> QED BY <1>1, <1>7, PlacesNext DEF CountInv

LEMMA CountResume ==
    ASSUME NumSocks = 1, PktCount > 0, TypeInv, CountInv, InComplete, Resume,
           UNCHANGED <<back, batch, benchmarkDone, sent>>
    PROVE  CountInv'
<1>1. cur = 1 /\ ~(cur < NumSocks)
  BY OneSocket
<1>2. PktCount \in Nat /\ PktCount # 0 /\ Pkts \in Nat /\ pktCnt \in Nat /\ txCnt \in Nat
  BY SizesAssumption DEF TypeInv, TypeOK, BatchWhole
<1>3. ASSUME NEW n \in Nat, Return(n), sent = pktCnt + n, sent <= PktCount
      PROVE  CountInv'
  <2>1. /\ pktCnt' = pktCnt + n
        /\ \/ pc' = "drain" /\ benchmarkDone
           \/ pc' = "loop"
    BY <1>1, <1>2, <1>3 DEF Return, Leave
  <2>2. LoopOK'
    BY <1>3, <2>1 DEF LoopOK
  <2>3. benchmarkDone => EndOK'
    BY <1>3 DEF EndOK
  <2> QED BY <2>1, <2>2, <2>3, PlacesNext DEF CountInv
<1>4. CASE back = "return" /\ Return(txCnt + batch \div FramesPerPkt)
  <2>1. sent = pktCnt + Pkts /\ txCnt = 0 /\ sent <= PktCount
    BY <1>4, Places DEF CountInv, InComplete, WriteOK
  <2>2. txCnt + batch \div FramesPerPkt = Pkts
    BY <1>2, <2>1 DEF Pkts
  <2>3. Return(Pkts)
    BY <1>4, <2>2
  <2> QED BY <1>2, <1>3, <2>1, <2>3
<1>5. CASE back = "reserve" /\ Return(txCnt)
  <2>1. sent = pktCnt /\ txCnt = 0 /\ pktCnt + Pkts <= PktCount
    BY <1>5, Places DEF CountInv, InComplete, RoundOK
  <2>2. sent = pktCnt + txCnt /\ sent <= PktCount
    BY <1>2, <2>1
  <2> QED BY <1>2, <1>3, <1>5, <2>2
<1>6. CASE back = "reserve" /\ pc' = "reserve" /\ UNCHANGED <<cur, txCnt, pktCnt, pending>>
  <2>1. RoundOK
    BY <1>6, Places DEF CountInv, InComplete
  <2>2. RoundOK'
    BY <1>6, <2>1 DEF RoundOK, Pkts
  <2> QED BY <1>6, <2>2, PlacesNext DEF CountInv
<1>7. CASE back = "drain" /\ DrainNext(outstanding'[cur] # 0)
  <2>1. EndOK
    BY <1>7, Places DEF CountInv, InComplete
  <2>3. EndOK'
    BY <2>1 DEF EndOK
  <2>2. pc' \in {"drain", "exit"}
    BY <1>7 DEF DrainNext
  <2> QED BY <2>2, <2>3, PlacesNext DEF CountInv
<1>8. \/ back = "return" /\ Return(txCnt + batch \div FramesPerPkt)
      \/ back = "reserve" /\ Return(txCnt)
      \/ back = "reserve" /\ pc' = "reserve" /\ UNCHANGED <<cur, txCnt, pktCnt, pending>>
      \/ back = "drain" /\ DrainNext(outstanding'[cur] # 0)
  BY DEF Resume
<1> QED BY <1>4, <1>5, <1>6, <1>7, <1>8

LEMMA CountStartRound ==
    ASSUME PktCount > 0, TypeInv, CountInv, StartRound
    PROVE  CountInv'
<1>1. PktCount \in Nat /\ pktCnt \in Nat
  BY SizesAssumption DEF TypeInv, TypeOK
<1>2. sent = pktCnt /\ pktCnt <= PktCount /\ sent' = sent /\ pktCnt' = pktCnt
      /\ benchmarkDone' = benchmarkDone
  BY Places DEF StartRound, CountInv, LoopOK
<1>3. CASE pktCnt >= PktCount /\ Leave
  <2>1. sent' = PktCount /\ pc' \in {"drain", "exit"}
    BY <1>1, <1>2, <1>3 DEF Leave
  <2>2. EndOK'
    BY <1>1, <2>1 DEF EndOK
  <2> QED BY <2>1, <2>2, PlacesNext DEF CountInv
<1>4. CASE pktCnt < PktCount /\ batch' = GetBatchSize(pktCnt) /\ txCnt' = 0
           /\ (pc' = "reserve" \/ pc' = "loop" \/ (benchmarkDone /\ Leave))
  <2>1. pktCnt + batch' \div FramesPerPkt <= PktCount
    BY <1>1, <1>4, BatchProps
  <2>2. LoopOK' /\ RoundOK'
    BY <1>2, <1>4, <2>1 DEF LoopOK, RoundOK, Pkts
  <2>3. pc' = "reserve" \/ pc' = "loop" \/ (pc' \in {"drain", "exit"} /\ benchmarkDone)
    BY <1>4 DEF Leave
  <2>4. benchmarkDone => EndOK'
    BY <1>2 DEF EndOK
  <2> QED BY <2>2, <2>3, <2>4, PlacesNext DEF CountInv
<1>5. pc = "loop"
  BY DEF StartRound
<1> QED BY <1>3, <1>4, <1>5 DEF StartRound

LEMMA CountStep ==
    ASSUME NumSocks = 1, DescsPerPkt = FramesPerPkt, PktCount > 0
    PROVE  TypeInv /\ CountInv /\ [Next]_vars => CountInv'
<1> SUFFICES ASSUME TypeInv, CountInv, [Next]_vars PROVE CountInv'
  OBVIOUS
<1>1. CASE ReserveTx
  <2>1. /\ pc = "reserve" /\ UNCHANGED <<sent, txCnt, pktCnt, batch, benchmarkDone>>
        /\ pc' = "write" \/ (pc' = "complete" /\ back' = "reserve")
    BY <1>1 DEF ReserveTx
  <2>2. RoundOK
    BY <2>1, Places DEF CountInv
  <2>3. RoundOK'
    BY <2>1, <2>2 DEF RoundOK, Pkts
  <2> QED BY <2>1, <2>3, PlacesNext DEF CountInv
<1>2. CASE CompleteTx
  <2>1. CASE Resume
    BY <1>2, <2>1, CountResume DEF CompleteTx, InComplete
  <2>2. CASE pc' = "reap" /\ UNCHANGED <<cur, txCnt, pktCnt, pending, retries>>
    <3>1. pc = "complete" /\ UNCHANGED <<sent, back, batch, benchmarkDone>>
      BY <1>2 DEF CompleteTx
    <3>2. /\ RoundOK => RoundOK'
          /\ WriteOK => WriteOK'
          /\ EndOK => EndOK'
      BY <2>2, <3>1 DEF RoundOK, WriteOK, EndOK, Pkts
    <3>3. back \in {"reserve", "return", "drain"}
      BY DEF TypeInv, TypeOK
    <3> QED BY <2>2, <3>1, <3>2, <3>3, Places, PlacesNext DEF CountInv
  <2> QED BY <1>2, <2>1, <2>2 DEF CompleteTx
<1>3. CASE ReapTx
  BY <1>3, CountResume DEF ReapTx, InComplete
<1>4. CASE Drain
  <2>1. /\ pc = "drain" /\ UNCHANGED <<sent, benchmarkDone>>
        /\ pc' \in {"drain", "exit"} \/ (pc' = "complete" /\ back' = "drain")
    BY <1>4 DEF Drain, DrainNext
  <2>2. EndOK
    BY <2>1, Places DEF CountInv
  <2>3. EndOK'
    BY <2>1, <2>2 DEF EndOK
  <2> QED BY <2>1, <2>3, PlacesNext DEF CountInv
<1>5. CASE UNCHANGED <<pc, back, batch, txCnt, pktCnt, sent>> /\ (benchmarkDone => benchmarkDone')
  BY <1>5 DEF CountInv, Pkts, AtLoop, InRound, AfterWrite, AtEnd, InComplete,
              LoopOK, RoundOK, WriteOK, EndOK
<1>6. \/ StartRound \/ ReserveTx \/ SubmitTx \/ CompleteTx \/ ReapTx \/ Drain
      \/ UNCHANGED <<pc, back, batch, txCnt, pktCnt, sent>> /\ (benchmarkDone => benchmarkDone')
  BY DEF Next, User, KernelTx, KernelKickEnd, KernelComplete, BenchmarkDone, vars, userVars
<1> QED BY <1>1, <1>2, <1>3, <1>4, <1>5, <1>6, CountStartRound, CountSubmit

\* --tx-pkt-count with one socket: tx_only_all never submits more packets than
\* it was asked for, whatever the size of the batches, and exactly as many when
\* its loop ends without a signal.
THEOREM CountSent ==
    ASSUME NumSocks = 1, DescsPerPkt = FramesPerPkt
    PROVE  Spec => []SendsPktCount
<1>1. CASE PktCount > 0
  <2>1. Init => CountInv
    <3> SUFFICES ASSUME Init PROVE CountInv
      OBVIOUS
    <3>1. LoopOK /\ pc = "loop"
      BY SizesAssumption DEF Init, LoopOK
    <3> QED BY <3>1, Places DEF CountInv
  <2>2. TypeInv /\ CountInv => SendsPktCount
    <3> SUFFICES ASSUME TypeInv, CountInv PROVE SendsPktCount
      OBVIOUS
    <3>1. sent \in Nat /\ pktCnt \in Nat /\ Pkts \in Nat /\ PktCount \in Nat
      BY SizesAssumption DEF TypeInv, TypeOK, BatchWhole
    <3>2. AtLoop \/ InRound \/ AfterWrite \/ AtEnd
      <4>1. /\ pc \in {"loop", "reserve", "write", "complete", "reap", "drain", "exit"}
            /\ back \in {"reserve", "return", "drain"}
        BY DEF TypeInv, TypeOK
      <4> QED BY <4>1 DEF AtLoop, InRound, AfterWrite, AtEnd, InComplete
    <3>3. sent <= PktCount
      <4>1. LoopOK \/ RoundOK \/ WriteOK \/ EndOK
        BY <3>2, Zenon DEF CountInv
      <4> QED BY <3>1, <4>1 DEF LoopOK, RoundOK, WriteOK, EndOK
    <3>4. pc \in {"drain", "exit"} /\ ~benchmarkDone => sent = PktCount
      BY Places DEF CountInv, EndOK
    <3> QED BY <3>3, <3>4 DEF SendsPktCount
  <2>3. TypeInv /\ CountInv /\ [Next]_vars => CountInv'
    BY <1>1, CountStep
  <2> QED BY <2>1, <2>2, <2>3, TypeInit, TypeStep, PTL DEF Spec
<1>2. CASE ~(PktCount > 0)
  <2>1. SendsPktCount
    BY <1>2 DEF SendsPktCount
  <2> QED BY <2>1, PTL
<1> QED BY <1>1, <1>2
===========================================================================
