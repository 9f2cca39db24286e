---------------------------- MODULE L2fwdProofs -----------------------------
(***************************************************************************)
(* The l2fwd datapath, for every number of sockets, size of umem, rings    *)
(* and batch, and in every mode, where unfinished packets of two sockets   *)
(* cannot meet in nb_frags (FragsUnshared).                                *)
(*                                                                         *)
(* CursorInv ties the thread's counters to the cursors of the rings. On it *)
(* rests OwnInv: every frame is at one place, and the descriptors in       *)
(* reserved tx slots are copies of the peeked ones. From the two follow    *)
(* the frame invariants, the wait loops, the refinement of FrameCycle and, *)
(* with a further invariant each, the integrity of packets (PacketInv) and *)
(* the sum of outstanding_tx.                                              *)
(***************************************************************************)
EXTENDS L2fwd, XskProofs

-----------------------------------------------------------------------------
(* Types and cursors.  TypeOK alone is not inductive: that a counter stays a  *)
(* natural number and a release stays inside the ring follows from how the    *)
(* cursors are tied to each other, and the other way round.                   *)

CursorInv == TypeOK /\ CursorsInStep

LEMMA InitCursors == Init => CursorInv
<1> SUFFICES ASSUME Init PROVE CursorInv
  OBVIOUS
<1>1. 1 \in Socks
  BY SizesAssumption DEF Socks
<1>2. PopulatedFillRing \in Seq(Frames)
  BY SizesAssumption DEF PopulatedFillRing, Frames
<1>3. EmptyCons \in ConsRing(Frames) /\ EmptyCons \in ConsRing(Desc) /\ EmptyProd \in ProdRing(Desc)
  BY DEF EmptyCons, EmptyProd, ConsRing, ProdRing
<1>4. TypeOK
  BY <1>1, <1>2, <1>3 DEF Init, InitKernel, TypeOK, TypeOKKernel, PCs
<1>5. CursorsInStep
  BY <1>1 DEF Init, InitKernel, CursorsInStep, CqInStep, PhaseInStep, FragsInStep, SockInStep,
              EmptyCons, EmptyProd, HandedOn, WaitsForTx, Ordered
<1> QED BY <1>4, <1>5 DEF CursorInv

\* The facts of CursorInv that most steps use.
LEMMA CursorFacts ==
    ASSUME CursorInv
    PROVE  /\ cur \in Socks /\ 1 \in Socks
           /\ cq.q \in Seq(Frames) /\ cq.seen \in Nat /\ cq.peeked \in Nat
           /\ Ordered(cq) /\ crcvd \in Nat /\ crcvd <= Len(cq.q)
           /\ left \in Nat /\ fragsDone \in Nat /\ nbFrags \in Nat
           /\ rx[cur] \in ConsRing(Desc) /\ tx[cur] \in ProdRing(Desc) /\ Ordered(rx[cur])
           /\ \A s \in Socks :
               /\ rx[s].q \in Seq(Desc) /\ rx[s].seen \in Nat /\ rx[s].peeked \in Nat
               /\ tx[s].q \in Seq(Desc) /\ tx[s].resv \in Seq(Desc)
               /\ Len(tx[s].resv) \in Nat
<1> USE DEF CursorInv, TypeOK, TypeOKKernel, CursorsInStep
<1>1. cur \in Socks /\ 1 \in Socks
  BY SizesAssumption DEF Socks
<1>2. /\ cq.q \in Seq(Frames) /\ cq.seen \in Nat /\ cq.peeked \in Nat
      /\ \A s \in Socks :
          /\ rx[s].q \in Seq(Desc) /\ rx[s].seen \in Nat /\ rx[s].peeked \in Nat
          /\ tx[s].q \in Seq(Desc) /\ tx[s].resv \in Seq(Desc)
  BY RingFields
<1>3. Ordered(cq) /\ Ordered(rx[cur]) /\ crcvd <= Len(cq.q)
  BY <1>1, <1>2 DEF CqInStep, SockInStep, Ordered
<1> QED BY <1>1, <1>2, <1>3

\* HandedOn is nothing but between the submit and the release of rx.
LEMMA HandedOnValue ==
    /\ pc # "rxrelease" => \A s : HandedOn(s) = 0
    /\ pc = "rxrelease" => HandedOn(cur) = fragsDone /\ \A s : s # cur => HandedOn(s) = 0
BY DEF HandedOn

\* Between two calls of l2fwd only unfinished packets are peeked and reserved,
\* and every socket but one has none.
LEMMA BetweenCalls ==
    ASSUME FragsUnshared, CursorInv, left = 0, NEW c \in Socks,
           HandedOn(cur) = fragsDone
    PROVE  /\ Len(tx[c].resv) = nbFrags
           /\ \A s \in Socks :
               /\ rx[s].peeked = Len(tx[s].resv) + (IF s = cur THEN fragsDone ELSE 0)
               /\ s # c => Len(tx[s].resv) = 0
<1>1. cur \in Socks /\ (c # cur => MaxFrags = 1)
  BY SizesAssumption, CursorFacts DEF Socks, FragsUnshared
<1>2. Len(tx[cur].resv) = nbFrags /\ rx[cur].peeked = nbFrags + fragsDone /\ (c # cur => nbFrags = 0)
  BY <1>1, CursorFacts DEF FragsInStep, CursorInv, CursorsInStep
<1>3. \A s \in Socks : s # cur => rx[s].peeked = 0 /\ Len(tx[s].resv) = 0
  BY DEF SockInStep, CursorInv, CursorsInStep
<1> QED BY <1>1, <1>2, <1>3, CursorFacts

\* NextSock goes to a socket's turn, to the top of the loop or out.
LEMMA NextSockProps ==
    ASSUME CursorInv, NextSock
    PROVE  /\ pc' \in {"complete", "loop", "exit"} /\ cur' \in Socks
           /\ back' \in {"peek", "kick"} /\ (pc' = "complete" => back' = "peek")
<1>1. cur \in Socks /\ back \in {"peek", "kick"}
  BY DEF CursorInv, TypeOK
<1>2. CASE cur < NumSocks
  BY <1>1, <1>2, SizesAssumption DEF NextSock, Socks
<1>3. CASE ~(cur < NumSocks)
  BY <1>1, <1>3 DEF NextSock
<1> QED BY <1>2, <1>3

LEMMA StartRoundCursors ==
    ASSUME FragsUnshared, CursorInv, StartRound PROVE CursorInv'
<1> USE CursorFacts
<1>1. pc = "loop" /\ left = 0 /\ fragsDone = 0 /\ crcvd = 0
  BY DEF StartRound, CursorInv, CursorsInStep, CqInStep, PhaseInStep, WaitsForTx
<1>2. /\ pc' \in {"loop", "complete"} /\ cur' \in {1, cur}
      /\ back' \in {"peek", back} /\ (pc' = "complete" => back' = "peek")
      /\ UNCHANGED <<fq, cq, rx, tx, pend, inflight, crcvd, left, fragsDone,
                     nbFrags, outstanding, benchmarkDone>>
  BY <1>1 DEF StartRound
<1>3. HandedOn(cur) = 0 /\ \A s : HandedOn(s)' = 0
  BY <1>1, <1>2 DEF HandedOn
<1>4. rxAsleep' \in BOOLEAN /\ kicked' \in [Socks -> BOOLEAN]
  <2>1. rxAsleep \in BOOLEAN /\ kicked \in [Socks -> BOOLEAN]
    BY DEF CursorInv, TypeOK, TypeOKKernel
  <2>2. CASE OptPoll
    BY <2>1, <2>2, KickType DEF StartRound, Recvfrom
  <2>3. CASE ~OptPoll
    BY <2>1, <2>3 DEF StartRound
  <2> QED BY <2>2, <2>3
<1>5. TypeOK'
  BY <1>2, <1>4 DEF CursorInv, TypeOK, TypeOKKernel, PCs
<1>6. CqInStep' /\ PhaseInStep'
  <2>1. cur' \in Socks /\ outstanding[cur'] \in Nat /\ crcvd = cq.peeked /\ Ordered(cq)
    BY <1>2 DEF CursorInv, TypeOK, CursorsInStep, CqInStep
  <2> HIDE CursorFacts
  <2> QED BY <1>1, <1>2, <2>1 DEF CqInStep, PhaseInStep, WaitsForTx, Ordered
<1>7. cur' \in Socks /\ Len(tx[cur'].resv) = nbFrags
      /\ \A s \in Socks : /\ rx[s].peeked = Len(tx[s].resv)
                          /\ s # cur' => Len(tx[s].resv) = 0
  BY <1>1, <1>2, <1>3, BetweenCalls
<1>8. FragsInStep'
  BY <1>1, <1>2, <1>3, <1>7 DEF CursorInv, CursorsInStep, FragsInStep
<1>9. \A s \in Socks : SockInStep(s)'
  BY <1>2, <1>7 DEF CursorInv, CursorsInStep, SockInStep, Ordered
<1> QED BY <1>5, <1>6, <1>8, <1>9 DEF CursorInv, CursorsInStep

LEMMA CompleteTxCursors ==
    ASSUME CursorInv, CompleteTx PROVE CursorInv'
<1>1. pc = "complete" /\ crcvd = 0 /\ fragsDone = 0
  BY DEF CompleteTx, CursorInv, CursorsInStep, CqInStep, PhaseInStep
<1>2. /\ UNCHANGED <<fq, cq, rx, tx, pend, inflight, rxAsleep, cur, back, crcvd, left,
                     fragsDone, nbFrags, outstanding, benchmarkDone>>
      /\ pc' \in {"reap", back} /\ back \in {"peek", "kick"}
  BY DEF CompleteTx, CursorInv, TypeOK
<1>3. kicked' \in [Socks -> BOOLEAN]
  BY KickType DEF CompleteTx, CursorInv, TypeOK, TypeOKKernel
<1>4. TypeOK'
  BY <1>2, <1>3 DEF CursorInv, TypeOK, TypeOKKernel, PCs
<1>5. CqInStep' /\ PhaseInStep'
  BY <1>1, <1>2 DEF CursorInv, CursorsInStep, CqInStep, PhaseInStep, WaitsForTx, Ordered
<1>6. \A s : HandedOn(s)' = HandedOn(s)
  BY <1>1, <1>2 DEF HandedOn
<1>7. FragsInStep' /\ \A s \in Socks : SockInStep(s)'
  BY <1>2, <1>6 DEF CursorInv, CursorsInStep, FragsInStep, SockInStep, Ordered
<1> QED BY <1>4, <1>5, <1>7 DEF CursorInv, CursorsInStep

LEMMA PeekCqCursors ==
    ASSUME CursorInv, PeekCq PROVE CursorInv'
<1> USE CursorFacts
<1>1. pc = "reap" /\ crcvd = 0 /\ cq.peeked = 0 /\ fragsDone = 0
  BY DEF PeekCq, CursorInv, CursorsInStep, CqInStep, PhaseInStep
<1>2. /\ UNCHANGED <<fq, rx, tx, pend, inflight, rxAsleep, kicked, cur, back, left,
                     fragsDone, nbFrags, outstanding, benchmarkDone>>
      /\ pc' = (IF crcvd' > 0 THEN "fill" ELSE back) /\ back \in {"peek", "kick"}
      /\ outstanding[cur] \in Nat
  BY DEF PeekCq, CursorInv, TypeOK
<1>3. /\ cq' \in ConsRing(Frames) /\ Ordered(cq')
      /\ crcvd' \in Nat /\ crcvd' = cq'.peeked /\ crcvd' <= outstanding[cur]
  <2>1. Ndescs \in Nat /\ Ndescs <= outstanding[cur]
    BY <1>2, BatchAssumption DEF Ndescs
  <2>2. cq \in ConsRing(Frames)
    BY DEF CursorInv, TypeOK, TypeOKKernel
  <2>3. cq' = Peek(cq, Ndescs) /\ crcvd' = PeekCount(cq, Ndescs)
    BY DEF PeekCq
  <2> HIDE DEF Ndescs
  <2>4. /\ cq' \in ConsRing(Frames) /\ Ordered(cq')
        /\ crcvd' \in Nat /\ crcvd' <= Ndescs /\ cq'.peeked = cq.peeked + crcvd'
    BY <2>1, <2>2, <2>3, PeekProps
  <2> HIDE CursorFacts
  <2>5. crcvd' = cq'.peeked
    <3>1. cq'.peeked = 0 + crcvd'
      BY <1>1, <2>4
    <3>2. \A n \in Nat : 0 + n = n
      OBVIOUS
    <3> QED BY <2>4, <3>1, <3>2
  <2>6. crcvd' <= outstanding[cur]
    BY <1>2, <2>1, <2>4
  <2> QED BY <2>4, <2>5, <2>6
<1>4. pc' \in {"fill", back} /\ (pc' = "fill" <=> crcvd' # 0)
  BY <1>2, <1>3
<1>5. TypeOK'
  BY <1>2, <1>3, <1>4 DEF CursorInv, TypeOK, TypeOKKernel, PCs
<1>6. CqInStep' /\ PhaseInStep'
  BY <1>1, <1>2, <1>3, <1>4 DEF CursorInv, CursorsInStep, CqInStep, PhaseInStep, WaitsForTx, Ordered
<1>7. \A s : HandedOn(s)' = HandedOn(s)
  BY <1>1, <1>2, <1>4 DEF HandedOn
<1>8. FragsInStep' /\ \A s \in Socks : SockInStep(s)'
  BY <1>2, <1>7 DEF CursorInv, CursorsInStep, FragsInStep, SockInStep, Ordered
<1> QED BY <1>5, <1>6, <1>8 DEF CursorInv, CursorsInStep

LEMMA RefillCursors ==
    ASSUME CursorInv, RefillSubmit \/ RefillRelease PROVE CursorInv'
<1> USE CursorFacts
<1>1. /\ crcvd = cq.peeked /\ crcvd <= outstanding[cur] /\ fragsDone = 0
      /\ cq \in ConsRing(Frames) /\ outstanding[cur] \in Nat /\ back \in {"peek", "kick"}
      /\ pc \in {"fill", "release"}
  BY DEF CursorInv, CursorsInStep, CqInStep, PhaseInStep, TypeOK, TypeOKKernel, RefillSubmit, RefillRelease
<1>2. /\ pc' \in {"release", back} /\ (pc' # "release" => crcvd' = 0)
      /\ UNCHANGED <<rx, tx, pend, inflight, rxAsleep, kicked, cur, back, left,
                     fragsDone, nbFrags, benchmarkDone>>
  BY <1>1 DEF RefillSubmit, RefillRelease
<1>3. fq' \in Seq(Frames)
  <2>1. fq \in Seq(Frames)
    BY DEF CursorInv, TypeOK, TypeOKKernel
  <2>2. FirstN(cq.q, crcvd) \in Seq(Frames)
    BY FirstNProps
  <2>3. fq' = fq \/ fq' = fq \o FirstN(cq.q, crcvd)
    BY DEF RefillSubmit, RefillRelease
  <2> HIDE CursorFacts
  <2> QED BY <2>1, <2>2, <2>3, ConcatProperties
<1>4. /\ cq' \in ConsRing(Frames) /\ Ordered(cq') /\ crcvd' = cq'.peeked /\ crcvd' \in Nat
      /\ outstanding' \in [Socks -> Nat] /\ crcvd' <= outstanding'[cur]
  <2>1. CASE RefillSubmit
    BY <1>1, <2>1 DEF RefillSubmit, CursorInv, TypeOK, Ordered
  <2>2. CASE RefillRelease
    <3>1. cq' \in ConsRing(Frames) /\ Ordered(cq') /\ cq'.peeked = 0
      <4> HIDE CursorFacts
      <4>1. crcvd \in Nat /\ crcvd <= cq.peeked /\ Ordered(cq) /\ cq.peeked \in Nat
        BY <1>1, CursorFacts
      <4> DEFINE k == Release(cq, crcvd)
      <4>2. k \in ConsRing(Frames) /\ Ordered(k) /\ k.peeked = cq.peeked - crcvd
        BY <1>1, <4>1, ReleaseProps
      <4>3. cq' = k
        BY <2>2 DEF RefillRelease
      <4>4. cq.peeked - crcvd = 0
        BY <1>1, <4>1
      <4> HIDE DEF k
      <4> QED BY <4>2, <4>3, <4>4
    <3> QED BY <1>1, <2>2, <3>1 DEF RefillRelease, CursorInv, TypeOK
  <2> QED BY <2>1, <2>2
<1>5. TypeOK'
  BY <1>1, <1>2, <1>3, <1>4 DEF CursorInv, TypeOK, TypeOKKernel, PCs
<1>6. CqInStep' /\ PhaseInStep'
  BY <1>1, <1>2, <1>4 DEF CursorInv, CursorsInStep, CqInStep, PhaseInStep, WaitsForTx, Ordered
<1>7. \A s : HandedOn(s)' = HandedOn(s)
  BY <1>1, <1>2 DEF HandedOn
<1>8. FragsInStep' /\ \A s \in Socks : SockInStep(s)'
  BY <1>2, <1>7 DEF CursorInv, CursorsInStep, FragsInStep, SockInStep, Ordered
<1> QED BY <1>5, <1>6, <1>8 DEF CursorInv, CursorsInStep

LEMMA PeekRxCursors ==
    ASSUME FragsUnshared, CursorInv, PeekRx PROVE CursorInv'
<1> DEFINE n == PeekCount(rx[cur], BatchSize)
           p == Peek(rx[cur], BatchSize)
<1>1. pc = "peek" /\ left = 0 /\ fragsDone = 0 /\ crcvd = 0
  BY CursorFacts DEF PeekRx, CursorInv, CursorsInStep, CqInStep, PhaseInStep, WaitsForTx
<1>2. /\ p \in ConsRing(Desc) /\ Ordered(p) /\ p.q = rx[cur].q
      /\ n \in Nat /\ p.peeked = rx[cur].peeked + n
  <2>1. rx[cur] \in ConsRing(Desc) /\ Ordered(rx[cur]) /\ BatchSize \in Nat
    BY BatchAssumption, CursorFacts
  <2> QED BY <2>1, PeekProps
<1>3. /\ rx' = [rx EXCEPT ![cur] = p] /\ left' = n /\ fragsDone' = 0
      /\ n = 0 => NextSock
      /\ n # 0 => pc' = "reserve" /\ cur' = cur /\ back' = back
      /\ UNCHANGED <<fq, cq, tx, pend, inflight, kicked, crcvd, nbFrags,
                     outstanding, benchmarkDone>>
  BY DEF PeekRx
<1>4. rxAsleep' \in BOOLEAN
  BY DEF PeekRx, Recvfrom, CursorInv, TypeOK, TypeOKKernel
<1> HIDE DEF n, p
<1>5. /\ cur' \in Socks /\ pc' \in {"complete", "loop", "exit", "reserve"}
      /\ back' \in {"peek", "kick"} /\ (pc' = "complete" => back' = "peek")
      /\ pc' = "reserve" <=> n # 0
  <2>1. cur \in Socks /\ back \in {"peek", "kick"}
    BY DEF CursorInv, TypeOK
  <2> QED BY <1>3, <2>1, NextSockProps
<1>6. rx' \in [Socks -> ConsRing(Desc)] /\ rx'[cur] = p /\ \A s \in Socks : s # cur => rx'[s] = rx[s]
  BY <1>2, <1>3 DEF CursorInv, TypeOK, TypeOKKernel
<1>7. TypeOK'
  BY <1>2, <1>3, <1>4, <1>5, <1>6 DEF CursorInv, TypeOK, TypeOKKernel, PCs
<1>8. CqInStep' /\ PhaseInStep'
  <2>1. outstanding[cur'] \in Nat /\ crcvd = cq.peeked /\ Ordered(cq)
    BY <1>5 DEF CursorInv, TypeOK, CursorsInStep, CqInStep
  <2> QED BY <1>1, <1>2, <1>3, <1>5, <2>1 DEF CqInStep, PhaseInStep, WaitsForTx, Ordered
<1>9. HandedOn(cur) = 0 /\ \A s : HandedOn(s)' = 0
  BY <1>1, <1>5 DEF HandedOn
<1>10. /\ Len(tx[cur'].resv) = nbFrags
       /\ \A s \in Socks : /\ rx[s].peeked = Len(tx[s].resv)
                           /\ s # cur' => Len(tx[s].resv) = 0
  BY <1>1, <1>5, <1>9, BetweenCalls, CursorFacts
<1>11. rx'[cur'].peeked = Len(tx[cur'].resv) + n
  <2>1. n # 0 => cur' = cur
    BY <1>3
  <2>2. cur \in Socks /\ \A s \in Socks : Len(tx[s].resv) \in Nat /\ rx[s].peeked \in Nat
    BY CursorFacts
  <2>3. CASE cur' = cur
    BY <1>2, <1>6, <1>10, <2>2, <2>3
  <2>4. CASE cur' # cur
    <3>1. n = 0 /\ rx'[cur'] = rx[cur'] /\ rx[cur'].peeked = Len(tx[cur'].resv)
      BY <1>5, <1>6, <1>10, <2>1, <2>4
    <3> QED BY <1>5, <2>2, <3>1
  <2> QED BY <2>3, <2>4
<1>12. FragsInStep'
  BY <1>1, <1>3, <1>5, <1>9, <1>10, <1>11, CursorFacts DEF CursorInv, CursorsInStep, FragsInStep
<1>13. \A s \in Socks : SockInStep(s)'
  <2> TAKE s \in Socks
  <2>1. Ordered(rx'[s]) /\ rx'[s].q = rx[s].q /\ SockInStep(s)
    BY <1>2, <1>6 DEF CursorInv, CursorsInStep, SockInStep
  <2>2. s # cur' => rx'[s].peeked = 0
    <3>1. n # 0 => cur' = cur
      BY <1>3
    <3>2. rx[s].peeked = Len(tx[s].resv) /\ (s # cur' => Len(tx[s].resv) = 0)
      BY <1>10
    <3>3. CASE s = cur
      BY <1>2, <1>6, <3>1, <3>2, <3>3
    <3>4. CASE s # cur
      BY <1>6, <3>2, <3>4
    <3> QED BY <3>3, <3>4
  <2> QED BY <1>3, <1>10, <2>1, <2>2 DEF SockInStep, Ordered
<1> QED BY <1>7, <1>8, <1>12, <1>13 DEF CursorInv, CursorsInStep

LEMMA ReserveCursors ==
    ASSUME CursorInv, ReserveTx \/ KickInReserve PROVE CursorInv'
<1>1. /\ pc \in {"reserve", "kick"}
      /\ pc' \in {"copy", "complete", "reserve"}
      /\ back' \in {"kick", back} /\ (pc' = "complete" => back' = "kick")
      /\ UNCHANGED <<fq, cq, rx, tx, pend, inflight, rxAsleep, cur, crcvd, left, fragsDone,
                     nbFrags, outstanding, benchmarkDone>>
  BY DEF ReserveTx, KickInReserve, kernelVars
<1>2. left > 0 /\ fragsDone = 0 /\ crcvd = 0
  BY <1>1 DEF CursorInv, CursorsInStep, CqInStep, PhaseInStep
<1>3. kicked' \in [Socks -> BOOLEAN]
  <2>1. kicked \in [Socks -> BOOLEAN]
    BY DEF CursorInv, TypeOK, TypeOKKernel
  <2> QED BY <2>1, KickType DEF ReserveTx, KickInReserve, kernelVars
<1>4. TypeOK'
  BY <1>1, <1>3 DEF CursorInv, TypeOK, TypeOKKernel, PCs
<1>5. CqInStep' /\ PhaseInStep'
  BY <1>1, <1>2 DEF CursorInv, CursorsInStep, CqInStep, PhaseInStep, WaitsForTx, Ordered
<1>6. \A s : HandedOn(s)' = HandedOn(s)
  BY <1>1 DEF HandedOn
<1>7. FragsInStep' /\ \A s \in Socks : SockInStep(s)'
  BY <1>1, <1>6 DEF CursorInv, CursorsInStep, FragsInStep, SockInStep, Ordered
<1> QED BY <1>4, <1>5, <1>7 DEF CursorInv, CursorsInStep

\* The descriptor CopyDesc looks at, and what it does to the tx ring.
LEMMA CopyDescProps ==
    ASSUME CursorInv, CopyDesc
    PROVE  \E d \in Desc, v \in Actions \cup {"none"} :
            /\ rx[cur].peeked - left + 1 \in DOMAIN rx[cur].q
            /\ d = rx[cur].q[rx[cur].peeked - left + 1]
            /\ [d EXCEPT !.act = v] \in Desc
            /\ tx' = [tx EXCEPT ![cur] = WriteSlot(@, [d EXCEPT !.act = v])]
            /\ nbFrags' = IF d.eop THEN 0 ELSE nbFrags + 1
            /\ fragsDone' = IF d.eop THEN fragsDone + nbFrags + 1 ELSE fragsDone
            /\ v # "none" <=> nbFrags = 0
<1> DEFINE i == rx[cur].peeked - left + 1
           d == rx[cur].q[i]
<1>1. rx[cur].peeked = Len(tx[cur].resv) + left /\ left > 0
  BY HandedOnValue, CursorFacts DEF CopyDesc, CursorInv, CursorsInStep, FragsInStep
<1>2. i \in DOMAIN rx[cur].q
  <2>1. /\ rx[cur].q \in Seq(Desc) /\ rx[cur].peeked <= Len(rx[cur].q)
        /\ rx[cur].peeked \in Nat /\ left \in Nat /\ left <= rx[cur].peeked
    <3>1. /\ rx[cur].q \in Seq(Desc) /\ rx[cur].peeked \in Nat /\ rx[cur].seen \in Nat
          /\ Ordered(rx[cur]) /\ left \in Nat /\ Len(tx[cur].resv) \in Nat
      BY CursorFacts
    <3> QED BY <1>1, <3>1 DEF Ordered
  <2>2. i \in 1..Len(rx[cur].q)
    BY <1>1, <2>1
  <2> QED BY <2>1, <2>2
<1>3. d \in Desc
  BY <1>2, CursorFacts
<1>4. PICK v \in IF RunsProgram THEN Verdicts ELSE {"none"} :
            tx' = [tx EXCEPT ![cur] = WriteSlot(@, [d EXCEPT !.act = v])]
  BY DEF CopyDesc
<1>5. v \in Actions \cup {"none"} /\ (v # "none" <=> nbFrags = 0)
  BY VerdictAssumption DEF RunsProgram, Actions
<1>6. /\ nbFrags' = IF d.eop THEN 0 ELSE nbFrags + 1
      /\ fragsDone' = IF d.eop THEN fragsDone + nbFrags + 1 ELSE fragsDone
  BY DEF CopyDesc
<1>7. [d EXCEPT !.act = v] \in Desc
  BY <1>3, <1>5 DEF Desc
<1> QED BY <1>2, <1>3, <1>4, <1>5, <1>6, <1>7

LEMMA CopyDescCursors ==
    ASSUME CursorInv, CopyDesc PROVE CursorInv'
<1>1. PICK d \in Desc, v \in Actions \cup {"none"} :
            /\ rx[cur].peeked - left + 1 \in DOMAIN rx[cur].q
            /\ d = rx[cur].q[rx[cur].peeked - left + 1]
            /\ [d EXCEPT !.act = v] \in Desc
            /\ tx' = [tx EXCEPT ![cur] = WriteSlot(@, [d EXCEPT !.act = v])]
            /\ nbFrags' = IF d.eop THEN 0 ELSE nbFrags + 1
            /\ fragsDone' = IF d.eop THEN fragsDone + nbFrags + 1 ELSE fragsDone
  BY CopyDescProps
<1> DEFINE w == WriteSlot(tx[cur], [d EXCEPT !.act = v])
<1>2. w \in ProdRing(Desc) /\ w.q = tx[cur].q /\ Len(w.resv) = Len(tx[cur].resv) + 1
  <2>1. tx[cur] \in ProdRing(Desc) /\ tx[cur].resv \in Seq(Desc)
    BY CursorFacts
  <2>2. w \in ProdRing(Desc) /\ w.q = tx[cur].q /\ w.resv = Append(tx[cur].resv, [d EXCEPT !.act = v])
    <3> DEFINE e == [d EXCEPT !.act = v]
    <3>1. e \in Desc
      BY <1>1
    <3> HIDE DEF e
    <3>2. LET x == WriteSlot(tx[cur], e)
          IN  x \in ProdRing(Desc) /\ x.q = tx[cur].q /\ x.resv = Append(tx[cur].resv, e)
      BY <2>1, <3>1, WriteSlotProps
    <3> QED BY <3>2 DEF e
  <2> HIDE DEF w
  <2> QED BY <1>1, <2>1, <2>2
<1> HIDE DEF w
<1>3. tx' \in [Socks -> ProdRing(Desc)] /\ tx'[cur] = w /\ \A s \in Socks : s # cur => tx'[s] = tx[s]
  BY <1>1, <1>2 DEF w, CursorInv, TypeOK, TypeOKKernel
<1>4. /\ pc = "copy" /\ left > 0 /\ left' = left - 1
      /\ pc' \in {"copy", "submit"} /\ (pc' = "copy" <=> left' # 0)
      /\ UNCHANGED <<fq, cq, rx, pend, inflight, rxAsleep, kicked, cur, back,
                     crcvd, outstanding, benchmarkDone>>
  BY CursorFacts DEF CopyDesc
<1>5. d.eop \in BOOLEAN
  BY <1>1 DEF Desc
<1>6. /\ nbFrags' \in Nat /\ fragsDone' \in Nat
      /\ nbFrags' + fragsDone' = nbFrags + fragsDone + 1
  <2>1. nbFrags \in Nat /\ fragsDone \in Nat
    BY CursorFacts
  <2> QED BY <1>1, <1>5, <2>1
<1>7. TypeOK'
  BY <1>3, <1>4, <1>6, CursorFacts DEF CursorInv, TypeOK, TypeOKKernel, PCs
<1>8. CqInStep' /\ PhaseInStep'
  BY <1>4, CursorFacts DEF CursorInv, CursorsInStep, CqInStep, PhaseInStep, WaitsForTx, Ordered
<1>9. HandedOn(cur) = 0 /\ \A s : HandedOn(s)' = 0
  BY <1>4 DEF HandedOn
<1>10. FragsInStep'
  <2>1. MaxFrags = 1 => d.eop
    BY <1>1, CursorFacts DEF CursorInv, CursorsInStep, SockInStep
  <2>2. /\ nbFrags + fragsDone = Len(tx[cur].resv)
        /\ rx[cur].peeked = Len(tx[cur].resv) + left
    BY <1>9, CursorFacts DEF CursorInv, CursorsInStep, FragsInStep
  <2>3. cur \in Socks /\ left \in Nat /\ Len(tx[cur].resv) \in Nat /\ rx[cur].peeked \in Nat
    BY CursorFacts
  <2>4. MaxFrags = 1 => nbFrags' = 0
    BY <1>1, <2>1
  <2>5. /\ cur' = cur /\ rx' = rx /\ left' = left - 1
        /\ Len(tx'[cur].resv) = Len(tx[cur].resv) + 1
    BY <1>2, <1>3, <1>4
  <2>6. nbFrags' + fragsDone' = Len(tx'[cur].resv)
    BY <1>6, <2>2, <2>5
  <2>7. rx[cur].peeked = Len(tx'[cur].resv) + left'
    BY <2>2, <2>3, <2>5
  <2>8. Len(tx'[cur].resv) \in Nat
    BY <2>3, <2>5
  <2> QED BY <1>9, <2>4, <2>5, <2>6, <2>7, <2>8 DEF FragsInStep
<1>11. \A s \in Socks : SockInStep(s)'
  BY <1>3, <1>4 DEF CursorInv, CursorsInStep, SockInStep, Ordered
<1> QED BY <1>7, <1>8, <1>10, <1>11 DEF CursorInv, CursorsInStep

LEMMA SubmitTxCursors ==
    ASSUME CursorInv, SubmitTx PROVE CursorInv'
<1> DEFINE w == Submit(tx[cur], fragsDone)
<1>1. /\ pc = "submit" /\ pc' = "rxrelease" /\ tx' = [tx EXCEPT ![cur] = w]
      /\ UNCHANGED <<fq, cq, rx, pend, inflight, rxAsleep, kicked, cur, back,
                     crcvd, left, fragsDone, nbFrags, outstanding, benchmarkDone>>
  BY DEF SubmitTx
<1>2. HandedOn(cur) = 0 /\ \A s : s = cur => HandedOn(s)' = fragsDone
  BY <1>1 DEF HandedOn
<1>3. /\ nbFrags + fragsDone = Len(tx[cur].resv)
      /\ rx[cur].peeked = Len(tx[cur].resv) + left
      /\ MaxFrags = 1 => nbFrags = 0
  BY <1>2, CursorFacts DEF CursorInv, CursorsInStep, FragsInStep
<1>4. w \in ProdRing(Desc) /\ Len(w.resv) = Len(tx[cur].resv) - fragsDone
  <2>1. /\ tx[cur] \in ProdRing(Desc) /\ tx[cur].resv \in Seq(Desc)
        /\ fragsDone \in Nat /\ fragsDone <= Len(tx[cur].resv)
    BY <1>3, CursorFacts
  <2>2. w \in ProdRing(Desc) /\ w.resv = DropN(tx[cur].resv, fragsDone)
    BY <2>1, SubmitProps
  <2> QED BY <2>1, <2>2, DropNProps
<1> HIDE DEF w
<1>5. tx' \in [Socks -> ProdRing(Desc)] /\ tx'[cur] = w /\ \A s \in Socks : s # cur => tx'[s] = tx[s]
  BY <1>1, <1>4 DEF CursorInv, TypeOK, TypeOKKernel
<1>6. TypeOK'
  BY <1>1, <1>5 DEF CursorInv, TypeOK, TypeOKKernel, PCs
<1>7. CqInStep' /\ PhaseInStep'
  BY <1>1, CursorFacts DEF CursorInv, CursorsInStep, CqInStep, PhaseInStep, WaitsForTx, Ordered
<1>8. FragsInStep'
  <2>1. left \in Nat /\ fragsDone \in Nat /\ nbFrags \in Nat /\ Len(tx[cur].resv) \in Nat
    BY CursorFacts
  <2>2. /\ cur' = cur /\ rx' = rx /\ left' = left /\ fragsDone' = fragsDone /\ nbFrags' = nbFrags
        /\ Len(tx'[cur].resv) = Len(tx[cur].resv) - fragsDone
    BY <1>1, <1>4, <1>5
  <2>3. HandedOn(cur)' = fragsDone
    BY <1>1 DEF HandedOn
  <2> DEFINE r == Len(tx[cur].resv)
             q == Len(tx'[cur].resv)
  <2>4. nbFrags + fragsDone = q + fragsDone /\ rx[cur].peeked = q + fragsDone + left
    <3>1. r \in Nat /\ q = r - fragsDone /\ nbFrags + fragsDone = r /\ rx[cur].peeked = r + left
      BY <1>3, <2>1, <2>2
    <3> HIDE DEF r, q
    <3> QED BY <2>1, <3>1
  <2> QED BY <1>3, <2>2, <2>3, <2>4 DEF FragsInStep
<1>9. \A s \in Socks : SockInStep(s)'
  BY <1>1, <1>5 DEF CursorInv, CursorsInStep, SockInStep, Ordered
<1> QED BY <1>6, <1>7, <1>8, <1>9 DEF CursorInv, CursorsInStep

LEMMA ReleaseRxCursors ==
    ASSUME FragsUnshared, CursorInv, ReleaseRx PROVE CursorInv'
<1> DEFINE r == Release(rx[cur], fragsDone)
<1>1. /\ pc = "rxrelease" /\ NextSock /\ fragsDone' = 0
      /\ rx' = [rx EXCEPT ![cur] = r]
      /\ outstanding' = [outstanding EXCEPT ![cur] = @ + fragsDone]
      /\ UNCHANGED <<fq, cq, tx, pend, inflight, rxAsleep, kicked, crcvd, left,
                     nbFrags, benchmarkDone>>
  BY DEF ReleaseRx
<1>2. left = 0 /\ crcvd = 0 /\ crcvd = cq.peeked /\ Ordered(cq)
  BY <1>1, CursorFacts DEF CursorInv, CursorsInStep, CqInStep, PhaseInStep, WaitsForTx
<1>3. /\ pc' \in {"complete", "loop", "exit"} /\ cur' \in Socks
      /\ back' \in {"peek", "kick"} /\ (pc' = "complete" => back' = "peek")
  BY <1>1, NextSockProps
<1>4. HandedOn(cur) = fragsDone /\ \A s : HandedOn(s)' = 0
  BY <1>1, <1>3 DEF HandedOn
<1>5. /\ Len(tx[cur'].resv) = nbFrags
      /\ rx[cur].peeked = Len(tx[cur].resv) + fragsDone
      /\ \A s \in Socks : /\ s # cur => rx[s].peeked = Len(tx[s].resv)
                          /\ s # cur' => Len(tx[s].resv) = 0
  BY <1>2, <1>3, <1>4, BetweenCalls, CursorFacts
<1>6. /\ r \in ConsRing(Desc) /\ Ordered(r) /\ r.q = DropN(rx[cur].q, fragsDone)
      /\ r.peeked = Len(tx[cur].resv)
  <2>1. /\ rx[cur] \in ConsRing(Desc) /\ Ordered(rx[cur]) /\ fragsDone \in Nat
        /\ rx[cur].peeked \in Nat /\ Len(tx[cur].resv) \in Nat
    BY CursorFacts
  <2>2. fragsDone <= rx[cur].peeked /\ rx[cur].peeked - fragsDone = Len(tx[cur].resv)
    BY <1>5, <2>1
  <2> QED BY <2>1, <2>2, ReleaseProps
<1> HIDE DEF r
<1>7. rx' \in [Socks -> ConsRing(Desc)] /\ rx'[cur] = r /\ \A s \in Socks : s # cur => rx'[s] = rx[s]
  BY <1>1, <1>6 DEF CursorInv, TypeOK, TypeOKKernel
<1>8. outstanding' \in [Socks -> Nat]
  BY <1>1 DEF CursorInv, TypeOK
<1>9. TypeOK'
  BY <1>1, <1>3, <1>7, <1>8 DEF CursorInv, TypeOK, TypeOKKernel, PCs
<1>10. CqInStep' /\ PhaseInStep'
  BY <1>1, <1>2, <1>3, <1>8 DEF CqInStep, PhaseInStep, WaitsForTx, Ordered
<1>11. \A s \in Socks : rx'[s].peeked = Len(tx[s].resv)
  BY <1>5, <1>6, <1>7
<1>12. FragsInStep'
  <2>1. Len(tx[cur'].resv) \in Nat /\ nbFrags \in Nat
    BY <1>3, CursorFacts
  <2> QED BY <1>1, <1>2, <1>3, <1>4, <1>5, <1>11, <2>1 DEF CursorInv, CursorsInStep, FragsInStep
<1>13. \A s \in Socks : SockInStep(s)'
  <2> TAKE s \in Socks
  <2>1. s # cur' => rx'[s].peeked = 0 /\ Len(tx'[s].resv) = 0
    BY <1>1, <1>5, <1>11
  <2>2. Ordered(rx'[s])
    BY <1>6, <1>7 DEF CursorInv, CursorsInStep, SockInStep
  <2>3. MaxFrags = 1 => \A i \in DOMAIN rx'[s].q : rx'[s].q[i].eop
    <3>1. MaxFrags = 1 => \A i \in DOMAIN rx[s].q : rx[s].q[i].eop
      BY DEF CursorInv, CursorsInStep, SockInStep
    <3>2. CASE s # cur
      BY <1>7, <3>1, <3>2
    <3>3. CASE s = cur
      <4>1. rx[cur].q \in Seq(Desc) /\ fragsDone \in Nat /\ fragsDone <= Len(rx[cur].q)
        <5>1. /\ rx[cur].q \in Seq(Desc) /\ rx[cur].peeked \in Nat /\ rx[cur].seen \in Nat
              /\ Ordered(rx[cur]) /\ fragsDone \in Nat /\ Len(tx[cur].resv) \in Nat
          BY CursorFacts
        <5> QED BY <1>5, <5>1 DEF Ordered
      <4>2. /\ r.q \in Seq(Desc) /\ Len(r.q) = Len(rx[cur].q) - fragsDone
            /\ \A i \in 1..(Len(rx[cur].q) - fragsDone) : r.q[i] = rx[cur].q[fragsDone + i]
        <5> DEFINE q == DropN(rx[cur].q, fragsDone)
        <5>1. /\ q \in Seq(Desc) /\ Len(q) = Len(rx[cur].q) - fragsDone
              /\ \A i \in 1..(Len(rx[cur].q) - fragsDone) : q[i] = rx[cur].q[fragsDone + i]
          BY <4>1, DropNProps
        <5> HIDE DEF q
        <5> QED BY <1>6, <5>1 DEF q
      <4>3. ASSUME NEW i \in DOMAIN r.q
            PROVE  fragsDone + i \in DOMAIN rx[cur].q /\ r.q[i] = rx[cur].q[fragsDone + i]
        <5>1. i \in 1..(Len(rx[cur].q) - fragsDone) /\ Len(rx[cur].q) \in Nat
          BY <4>1, <4>2
        <5>2. fragsDone + i \in 1..Len(rx[cur].q)
          BY <4>1, <5>1
        <5>3. r.q[i] = rx[cur].q[fragsDone + i]
          BY ONLY <4>2, <5>1
        <5>4. DOMAIN rx[cur].q = 1..Len(rx[cur].q)
          BY ONLY <4>1
        <5> QED BY ONLY <5>2, <5>3, <5>4
      <4> QED BY <1>7, <3>1, <3>3, <4>3
    <3> QED BY <3>2, <3>3
  <2> QED BY <2>1, <2>2, <2>3 DEF SockInStep, Ordered
<1> QED BY <1>9, <1>10, <1>12, <1>13 DEF CursorInv, CursorsInStep

\* What the kernel leaves alone, and what its steps do to the rings.
LEMMA KernelRings ==
    ASSUME CursorInv, Kernel
    PROVE  /\ UNCHANGED <<userVars, benchmarkDone>>
           /\ TypeOKKernel'
           /\ cq'.peeked = cq.peeked /\ Ordered(cq')
           /\ \A s \in Socks :
               /\ rx'[s].peeked = rx[s].peeked /\ Ordered(rx'[s])
               /\ MaxFrags = 1 => \A i \in DOMAIN rx'[s].q : rx'[s].q[i].eop
               /\ tx'[s].resv = tx[s].resv
<1>1. UNCHANGED <<userVars, benchmarkDone>>
  BY DEF Kernel
<1>2. TypeOKKernel /\ Ordered(cq) /\ \A s \in Socks : SockInStep(s)
  BY CursorFacts DEF CursorInv, TypeOK, CursorsInStep
<1>3. ASSUME NEW s \in Socks, KernelRx(s)
      PROVE  /\ TypeOKKernel' /\ cq' = cq /\ tx' = tx
             /\ \A t \in Socks :
                 /\ rx'[t].peeked = rx[t].peeked /\ Ordered(rx'[t])
                 /\ MaxFrags = 1 => \A i \in DOMAIN rx'[t].q : rx'[t].q[i].eop
  <2>1. PICK n \in 1..MaxFrags :
            /\ n <= Len(fq) /\ fq' = DropN(fq, n)
            /\ rx' = [rx EXCEPT ![s].q = @ \o Packet(fq, n)]
    BY <1>3 DEF KernelRx
  <2>2. n \in Nat \ {0} /\ fq \in Seq(Frames)
    BY SizesAssumption, <1>2 DEF TypeOKKernel
  <2> DEFINE p == Packet(fq, n)
  <2>3. p \in Seq(Desc) /\ Len(p) = n /\ p[n].eop
    BY <2>1, <2>2, PacketProps
  <2> HIDE DEF p
  <2>4. fq' \in Seq(Frames)
    BY <2>1, <2>2, DropNProps
  <2>5. rx[s] \in ConsRing(Desc) /\ rx[s].q \in Seq(Desc) /\ rx[s].seen \in Nat /\ rx[s].peeked \in Nat
    BY <1>2, RingFields DEF TypeOKKernel
  <2> DEFINE r == [rx[s] EXCEPT !.q = rx[s].q \o p]
  <2>6. rx[s].q \o p \in Seq(Desc) /\ Len(rx[s].q \o p) = Len(rx[s].q) + n
    BY <2>3, <2>5, ConcatProperties
  <2>7. r \in ConsRing(Desc) /\ r.peeked = rx[s].peeked /\ r.seen = rx[s].seen /\ r.q = rx[s].q \o p
    BY <2>5, <2>6 DEF ConsRing
  <2>8. Ordered(r)
    BY <1>2, <2>2, <2>5, <2>6, <2>7 DEF SockInStep, Ordered
  <2>9. ASSUME MaxFrags = 1 PROVE \A i \in DOMAIN r.q : r.q[i].eop
    <3>1. n = 1 /\ \A i \in DOMAIN rx[s].q : rx[s].q[i].eop
      BY <1>2, <2>9 DEF SockInStep
    <3>2. \A j \in DOMAIN p : p[j].eop
      BY <2>3, <3>1
    <3> DEFINE a == rx[s].q
    <3>3. a \in Seq(Desc) /\ (\A i \in DOMAIN a : a[i].eop)
      BY <2>5, <3>1
    <3>4. r.q = a \o p
      BY <2>7
    <3> HIDE DEF a, r
    <3>5. \A i \in DOMAIN (a \o p) :
            \/ i \in DOMAIN a /\ (a \o p)[i] = a[i]
            \/ i - Len(a) \in DOMAIN p /\ (a \o p)[i] = p[i - Len(a)]
      BY <2>3, <3>3, ConcatEntries
    <3>6. \A i \in DOMAIN (a \o p) : (a \o p)[i].eop
      BY <3>2, <3>3, <3>5
    <3> QED BY <3>4, <3>6
  <2>10. rx' = [rx EXCEPT ![s] = r]
    BY <2>1 DEF p
  <2> HIDE DEF r
  <2>11. rx' \in [Socks -> ConsRing(Desc)] /\ rx'[s] = r /\ \A t \in Socks : t # s => rx'[t] = rx[t]
    BY <1>2, <2>7, <2>10 DEF TypeOKKernel
  <2>12. UNCHANGED <<cq, tx, pend, inflight, rxAsleep, kicked>>
    BY <1>3 DEF KernelRx
  <2>13. TypeOKKernel'
    BY <1>2, <2>4, <2>11, <2>12 DEF TypeOKKernel
  <2> QED BY <1>2, <2>7, <2>8, <2>9, <2>11, <2>12, <2>13 DEF SockInStep
<1>4. ASSUME NEW s \in Socks, KernelTx(s)
      PROVE  /\ TypeOKKernel' /\ cq' = cq /\ rx' = rx
             /\ \A t \in Socks : tx'[t].resv = tx[t].resv
  <2>1. tx[s] \in ProdRing(Desc) /\ tx[s].q \in Seq(Desc) /\ tx[s].resv \in Seq(Desc)
    BY <1>2, RingFields DEF TypeOKKernel
  <2>2. tx[s].q # <<>> /\ tx' = [tx EXCEPT ![s].q = Tail(@)] /\ UNCHANGED <<fq, cq, rx, rxAsleep, kicked>>
    BY <1>4 DEF KernelTx
  <2>3. Head(tx[s].q) \in Desc /\ Tail(tx[s].q) \in Seq(Desc)
    BY <2>1, <2>2
  <2>4. Head(tx[s].q).addr \in Frames
    BY <2>3 DEF Desc
  <2>5. pend' \in [Socks -> SUBSET Frames] /\ inflight' \in SUBSET Frames
    BY <1>2, <1>4, <2>4 DEF KernelTx, TypeOKKernel
  <2> DEFINE w == [tx[s] EXCEPT !.q = Tail(tx[s].q)]
  <2>6. w \in ProdRing(Desc) /\ w.resv = tx[s].resv
    BY <2>1, <2>3 DEF ProdRing
  <2>7. tx' = [tx EXCEPT ![s] = w]
    BY <2>2
  <2> HIDE DEF w
  <2>8. tx' \in [Socks -> ProdRing(Desc)] /\ \A t \in Socks : tx'[t].resv = tx[t].resv
    BY <1>2, <2>6, <2>7 DEF TypeOKKernel
  <2>9. TypeOKKernel'
    BY <1>2, <2>2, <2>5, <2>8 DEF TypeOKKernel
  <2> QED BY <2>2, <2>8, <2>9
<1>5. ASSUME NEW s \in Socks, KernelKickEnd(s)
      PROVE  TypeOKKernel' /\ cq' = cq /\ rx' = rx /\ tx' = tx
  BY <1>2, <1>5 DEF KernelKickEnd, TypeOKKernel
<1>6. ASSUME KernelRxSleep
      PROVE  TypeOKKernel' /\ cq' = cq /\ rx' = rx /\ tx' = tx
  BY <1>2, <1>6 DEF KernelRxSleep, TypeOKKernel
<1>7. ASSUME NEW f \in Frames, KernelComplete(f)
      PROVE  /\ TypeOKKernel' /\ rx' = rx /\ tx' = tx
             /\ cq'.peeked = cq.peeked /\ Ordered(cq')
  <2>1. cq \in ConsRing(Frames) /\ cq.q \in Seq(Frames) /\ cq.seen \in Nat /\ cq.peeked \in Nat
    BY <1>2, RingFields DEF TypeOKKernel
  <2>2. cq' = [cq EXCEPT !.q = Append(cq.q, f)]
    BY <1>7 DEF KernelComplete
  <2>3. cq' \in ConsRing(Frames) /\ cq'.peeked = cq.peeked /\ Ordered(cq')
    <3>1. Append(cq.q, f) \in Seq(Frames) /\ Len(Append(cq.q, f)) = Len(cq.q) + 1
      BY <2>1, AppendProperties
    <3>2. cq' \in ConsRing(Frames) /\ cq'.q = Append(cq.q, f) /\ cq'.peeked = cq.peeked /\ cq'.seen = cq.seen
      BY <2>1, <2>2, <3>1 DEF ConsRing
    <3> QED BY <1>2, <2>1, <3>1, <3>2 DEF Ordered
  <2>4. /\ inflight' \in SUBSET Frames
        /\ UNCHANGED <<fq, rx, tx, pend, rxAsleep, kicked>>
    BY <1>2, <1>7 DEF KernelComplete, TypeOKKernel
  <2> QED BY <1>2, <2>3, <2>4 DEF TypeOKKernel
<1> QED BY <1>1, <1>2, <1>3, <1>4, <1>5, <1>6, <1>7 DEF Kernel, SockInStep

LEMMA KernelCursors ==
    ASSUME CursorInv, Kernel PROVE CursorInv'
<1>1. UNCHANGED <<pc, cur, back, crcvd, left, fragsDone, nbFrags, outstanding, benchmarkDone>>
  BY KernelRings DEF userVars
<1>2. TypeOK'
  BY <1>1, KernelRings DEF CursorInv, TypeOK
<1>3. CqInStep' /\ PhaseInStep'
  BY <1>1, KernelRings DEF CursorInv, CursorsInStep, CqInStep, PhaseInStep, WaitsForTx, Ordered
<1>4. \A s : HandedOn(s)' = HandedOn(s)
  BY <1>1 DEF HandedOn
<1>5. cur \in Socks /\ rx'[cur].peeked = rx[cur].peeked /\ tx'[cur].resv = tx[cur].resv
  BY KernelRings, CursorFacts
<1>6. FragsInStep'
  BY <1>1, <1>4, <1>5 DEF CursorInv, CursorsInStep, FragsInStep
<1>7. \A s \in Socks : SockInStep(s)'
  BY <1>1, KernelRings DEF CursorInv, CursorsInStep, SockInStep, Ordered
<1> QED BY <1>2, <1>3, <1>6, <1>7 DEF CursorInv, CursorsInStep

\* Steps that touch neither the rings nor the thread.
LEMMA StutterCursors ==
    ASSUME CursorInv, BenchmarkDone \/ UNCHANGED vars PROVE CursorInv'
<1>1. UNCHANGED <<kernelVars, userVars>> /\ benchmarkDone' \in BOOLEAN
  BY DEF BenchmarkDone, vars, CursorInv, TypeOK
<1>2. TypeOK'
  BY <1>1 DEF kernelVars, userVars, CursorInv, TypeOK, TypeOKKernel
<1>3. CursorsInStep'
  BY <1>1 DEF kernelVars, userVars, CursorInv, CursorsInStep, CqInStep, PhaseInStep,
              FragsInStep, SockInStep, WaitsForTx, HandedOn, Ordered
<1> QED BY <1>2, <1>3 DEF CursorInv

LEMMA NextCursors ==
    ASSUME FragsUnshared, CursorInv, [Next]_vars PROVE CursorInv'
<1>1. CASE User
  BY <1>1, StartRoundCursors, CompleteTxCursors, PeekCqCursors, RefillCursors, PeekRxCursors,
     ReserveCursors, CopyDescCursors, SubmitTxCursors, ReleaseRxCursors DEF User
<1>2. CASE Kernel
  BY <1>2, KernelCursors
<1>3. CASE BenchmarkDone \/ UNCHANGED vars
  BY <1>3, StutterCursors
<1> QED BY <1>1, <1>2, <1>3 DEF Next

\* Where unfinished packets cannot mix (one socket, or one frame per packet),
\* xdpsock's counters stay natural numbers and agree with the cursors of its
\* rings, whatever the sizes of umem, rings and batch and whatever the kernel
\* does between two ring accesses.
THEOREM CursorsCorrect ==
    ASSUME FragsUnshared PROVE Spec => [](TypeOK /\ CursorsInStep)
<1>1. Init => CursorInv
  BY InitCursors
<1>2. CursorInv /\ [Next]_vars => CursorInv'
  BY NextCursors
<1>3. CursorInv => TypeOK /\ CursorsInStep
  BY DEF CursorInv
<1> QED BY <1>1, <1>2, <1>3, PTL DEF Spec

-----------------------------------------------------------------------------
(* Ownership.  A place is a ring of the umem, a ring of a socket or what the  *)
(* kernel has of it; every frame is at one place, and a step moves frames     *)
(* from one place to the next.                                                *)

Places == ({"fill", "comp", "wire"} \X {0}) \cup ({"rx", "tx", "pend"} \X Socks)

Held ==
    [p \in Places |->
        CASE p[1] = "fill" -> FillHeld
          [] p[1] = "comp" -> CompHeld
          [] p[1] = "wire" -> inflight
          [] p[1] = "rx"   -> RxHeld(p[2])
          [] p[1] = "tx"   -> TxHeld(p[2])
          [] OTHER         -> pend[p[2]]]

LEMMA PlacesAre ==
    /\ <<"fill", 0>> \in Places /\ <<"comp", 0>> \in Places /\ <<"wire", 0>> \in Places
    /\ \A s \in Socks : <<"rx", s>> \in Places /\ <<"tx", s>> \in Places /\ <<"pend", s>> \in Places
    /\ \A p \in Places :
        \/ p = <<"fill", 0>> \/ p = <<"comp", 0>> \/ p = <<"wire", 0>>
        \/ \E s \in Socks : p = <<"rx", s>> \/ p = <<"tx", s>> \/ p = <<"pend", s>>
BY DEF Places

LEMMA HeldAt ==
    /\ Held[<<"fill", 0>>] = FillHeld
    /\ Held[<<"comp", 0>>] = CompHeld
    /\ Held[<<"wire", 0>>] = inflight
    /\ \A s \in Socks :
        /\ Held[<<"rx", s>>] = RxHeld(s)
        /\ Held[<<"tx", s>>] = TxHeld(s)
        /\ Held[<<"pend", s>>] = pend[s]
BY PlacesAre DEF Held

LEMMA HeldNext ==
    /\ Held'[<<"fill", 0>>] = FillHeld'
    /\ Held'[<<"comp", 0>>] = CompHeld'
    /\ Held'[<<"wire", 0>>] = inflight'
    /\ \A s \in Socks :
        /\ Held'[<<"rx", s>>] = RxHeld(s)'
        /\ Held'[<<"tx", s>>] = TxHeld(s)'
        /\ Held'[<<"pend", s>>] = pend'[s]
BY PlacesAre DEF Held

\* The frames on a ring are there once.
RingsInjective ==
    /\ IsInjective(fq)
    /\ IsInjective(LiveCq)
    /\ \A s \in Socks : IsInjective(Addrs(LiveRx(s))) /\ IsInjective(Addrs(tx[s].q))

\* What l2fwd has written to reserved tx slots are the peeked rx descriptors
\* that were not handed on, but for the program's verdict.
CopyOf(d, e) == d.addr = e.addr /\ d.head = e.head /\ d.eop = e.eop

LEMMA VerdictSet ==
    ASSUME NEW d \in Desc, NEW v \in Actions \cup {"none"}
    PROVE  LET e == [d EXCEPT !.act = v] IN CopyOf(e, d) /\ e \in Desc /\ e.act = v
<1>1. d = [addr |-> d.addr, head |-> d.head, eop |-> d.eop, act |-> d.act]
      /\ d.addr \in Frames /\ d.head \in Frames /\ d.eop \in BOOLEAN
  BY DEF Desc
<1> DEFINE e == [addr |-> d.addr, head |-> d.head, eop |-> d.eop, act |-> v]
<1>2. [d EXCEPT !.act = v] = e
  BY <1>1
<1>3. CopyOf(e, d) /\ e \in Desc /\ e.act = v
  BY <1>1 DEF CopyOf, Desc
<1> QED BY <1>2, <1>3

CopiesInStep(s) ==
    \A i \in DOMAIN tx[s].resv : CopyOf(tx[s].resv[i], rx[s].q[HandedOn(s) + i])

OwnInv ==
    /\ Partition(Places, Frames, Held)
    /\ RingsInjective
    /\ \A s \in Socks : CopiesInStep(s)

Inv == CursorInv /\ OwnInv

LEMMA OwnFrames ==
    ASSUME OwnInv
    PROVE  NoFrameShared /\ NoFrameLost
<1>1. Partition(Places, Frames, Held) /\ RingsInjective
  BY DEF OwnInv
<1>2. \A p, q \in Places : p # q => Held[p] \cap Held[q] = {}
  BY <1>1 DEF Partition
<1>3. /\ Disjoint(FillHeld, CompHeld) /\ Disjoint(inflight, FillHeld) /\ Disjoint(inflight, CompHeld)
  BY <1>2, PlacesAre, HeldAt DEF Disjoint
<1>4. ASSUME NEW s \in Socks
      PROVE  /\ Disjoint(RxHeld(s), TxHeld(s))
             /\ Disjoint(pend[s], RxHeld(s)) /\ Disjoint(pend[s], TxHeld(s))
             /\ \A p \in Places : p \notin {<<"rx", s>>, <<"tx", s>>, <<"pend", s>>} =>
                  Disjoint(SockHeld(s), Held[p])
  <2>1. /\ <<"rx", s>> # <<"tx", s>> /\ <<"rx", s>> # <<"pend", s>> /\ <<"tx", s>> # <<"pend", s>>
        /\ <<"rx", s>> \in Places /\ <<"tx", s>> \in Places /\ <<"pend", s>> \in Places
    BY PlacesAre
  <2>2. Disjoint(RxHeld(s), TxHeld(s)) /\ Disjoint(pend[s], RxHeld(s)) /\ Disjoint(pend[s], TxHeld(s))
    BY <1>2, <2>1, HeldAt DEF Disjoint
  <2>3. SockHeld(s) = Held[<<"rx", s>>] \cup Held[<<"tx", s>>] \cup Held[<<"pend", s>>]
    BY HeldAt DEF SockHeld
  <2> QED BY <1>2, <2>1, <2>2, <2>3 DEF Disjoint
<1>5. ASSUME NEW s \in Socks
      PROVE  /\ Disjoint(SockHeld(s), FillHeld) /\ Disjoint(SockHeld(s), CompHeld)
             /\ Disjoint(SockHeld(s), inflight)
             /\ \A t \in Socks \ {s} : Disjoint(SockHeld(s), SockHeld(t))
  <2>1. /\ <<"fill", 0>> \notin {<<"rx", s>>, <<"tx", s>>, <<"pend", s>>}
        /\ <<"comp", 0>> \notin {<<"rx", s>>, <<"tx", s>>, <<"pend", s>>}
        /\ <<"wire", 0>> \notin {<<"rx", s>>, <<"tx", s>>, <<"pend", s>>}
    OBVIOUS
  <2>2. ASSUME NEW t \in Socks \ {s} PROVE Disjoint(SockHeld(s), SockHeld(t))
    <3>1. /\ <<"rx", t>> \notin {<<"rx", s>>, <<"tx", s>>, <<"pend", s>>}
          /\ <<"tx", t>> \notin {<<"rx", s>>, <<"tx", s>>, <<"pend", s>>}
          /\ <<"pend", t>> \notin {<<"rx", s>>, <<"tx", s>>, <<"pend", s>>}
      OBVIOUS
    <3>2. SockHeld(t) = Held[<<"rx", t>>] \cup Held[<<"tx", t>>] \cup Held[<<"pend", t>>]
      BY HeldAt DEF SockHeld
    <3> QED BY <1>4, <3>1, <3>2, PlacesAre DEF Disjoint
  <2> QED BY <1>4, <2>1, <2>2, PlacesAre, HeldAt
<1>6. NoFrameShared
  BY <1>1, <1>3, <1>4, <1>5 DEF NoFrameShared, RingsInjective, Disjoint
<1>7. NoFrameLost
  <2>1. ASSUME NEW f \in Frames
        PROVE  f \in FillHeld \cup CompHeld \cup inflight \cup UNION {SockHeld(s) : s \in Socks}
    <3>1. PICK p \in Places : f \in Held[p]
      BY <1>1 DEF Partition
    <3>2. ASSUME NEW s \in Socks, p = <<"rx", s>> \/ p = <<"tx", s>> \/ p = <<"pend", s>>
          PROVE  f \in SockHeld(s)
      BY <3>1, <3>2, HeldAt DEF SockHeld
    <3> QED BY <3>1, <3>2, PlacesAre, HeldAt
  <2>2. \A p \in Places : Held[p] \subseteq Frames
    BY <1>1 DEF Partition
  <2>3. FillHeld \subseteq Frames /\ CompHeld \subseteq Frames /\ inflight \subseteq Frames
    BY <2>2, PlacesAre, HeldAt
  <2>4. \A s \in Socks : SockHeld(s) \subseteq Frames
    BY <2>2, PlacesAre, HeldAt DEF SockHeld
  <2> QED BY <2>1, <2>3, <2>4 DEF NoFrameLost
<1> QED BY <1>6, <1>7

\* The live parts of the rings are sequences of frames, and what is reserved on
\* tx has its descriptors on rx.
LEMMA LiveFacts ==
    ASSUME CursorInv
    PROVE  /\ LiveCq \in Seq(Frames)
           /\ \A s \in Socks :
               /\ HandedOn(s) \in Nat /\ HandedOn(s) + Len(tx[s].resv) <= Len(rx[s].q)
               /\ HandedOn(s) <= Len(rx[s].q)
               /\ LiveRx(s) \in Seq(Desc) /\ LiveRx(s) = DropN(rx[s].q, HandedOn(s))
               /\ Addrs(LiveRx(s)) \in Seq(Frames)
               /\ Addrs(LiveRx(s)) = DropN(Addrs(rx[s].q), HandedOn(s))
               /\ Addrs(tx[s].q) \in Seq(Frames)
<1>1. LiveCq \in Seq(Frames)
  <2> DEFINE n == IF pc = "release" THEN crcvd ELSE 0
  <2>1. n \in Nat /\ n <= Len(cq.q) /\ cq.q \in Seq(Frames)
    BY CursorFacts
  <2> HIDE DEF n
  <2>2. DropN(cq.q, n) \in Seq(Frames)
    BY <2>1, DropNProps
  <2> QED BY <2>2 DEF LiveCq, n
<1>2. ASSUME NEW s \in Socks
      PROVE  HandedOn(s) \in Nat /\ HandedOn(s) + Len(tx[s].resv) <= Len(rx[s].q)
             /\ HandedOn(s) <= Len(rx[s].q)
  <2>1. /\ rx[s].peeked <= Len(rx[s].q) /\ Len(rx[s].q) \in Nat /\ rx[s].peeked \in Nat
        /\ Len(tx[s].resv) \in Nat /\ left \in Nat /\ fragsDone \in Nat
    <3>1. /\ rx[s].q \in Seq(Desc) /\ rx[s].peeked \in Nat /\ rx[s].seen \in Nat
          /\ Len(tx[s].resv) \in Nat /\ left \in Nat /\ fragsDone \in Nat
      BY CursorFacts
    <3>2. rx[s].peeked <= rx[s].seen /\ rx[s].seen <= Len(rx[s].q)
      BY DEF CursorInv, CursorsInStep, SockInStep, Ordered
    <3> QED BY <3>1, <3>2
  <2>2. CASE s = cur
    <3>1. rx[s].peeked = Len(tx[s].resv) + HandedOn(s) + left
      BY <2>2 DEF CursorInv, CursorsInStep, FragsInStep
    <3>2. HandedOn(s) \in Nat
      BY <2>1 DEF HandedOn
    <3> QED BY <2>1, <3>1, <3>2
  <2>3. CASE s # cur
    <3>1. HandedOn(s) = 0 /\ Len(tx[s].resv) = 0
      BY <2>3 DEF CursorInv, CursorsInStep, SockInStep, HandedOn
    <3> QED BY <2>1, <3>1
  <2> QED BY <2>2, <2>3
<1>3. ASSUME NEW s \in Socks
      PROVE  /\ LiveRx(s) \in Seq(Desc) /\ LiveRx(s) = DropN(rx[s].q, HandedOn(s))
             /\ Addrs(LiveRx(s)) \in Seq(Frames)
             /\ Addrs(LiveRx(s)) = DropN(Addrs(rx[s].q), HandedOn(s))
             /\ Addrs(tx[s].q) \in Seq(Frames)
  <2> DEFINE h == HandedOn(s)
             q == rx[s].q
             l == DropN(q, h)
  <2>1. h \in Nat /\ h <= Len(q) /\ q \in Seq(Desc) /\ tx[s].q \in Seq(Desc)
    BY <1>2, CursorFacts
  <2>2. LiveRx(s) = l
    BY DEF LiveRx
  <2> HIDE DEF h, q
  <2>3. l \in Seq(Desc) /\ Addrs(l) = DropN(Addrs(q), h)
    BY <2>1, DropNProps, AddrsDrop
  <2> HIDE DEF l
  <2>4. Addrs(l) \in Seq(Frames) /\ Addrs(tx[s].q) \in Seq(Frames)
    BY <2>1, <2>3, AddrsProps
  <2> QED BY <2>2, <2>3, <2>4 DEF h, q, l
<1> QED BY <1>1, <1>2, <1>3

\* Reservations are kept while the rx ring at most grows at its end.
LEMMA SameCopies ==
    ASSUME CursorInv, NEW s \in Socks, CopiesInStep(s),
           tx'[s].resv = tx[s].resv, HandedOn(s)' = HandedOn(s),
           \A i \in DOMAIN rx[s].q : rx'[s].q[i] = rx[s].q[i]
    PROVE  CopiesInStep(s)'
<1> SUFFICES ASSUME NEW i \in DOMAIN tx[s].resv
             PROVE  CopyOf(tx[s].resv[i], rx'[s].q[HandedOn(s) + i])
  BY DEF CopiesInStep, CopyOf
<1>1. HandedOn(s) + i \in DOMAIN rx[s].q
  <2>1. /\ HandedOn(s) \in Nat /\ HandedOn(s) + Len(tx[s].resv) <= Len(rx[s].q)
        /\ tx[s].resv \in Seq(Desc) /\ rx[s].q \in Seq(Desc)
    BY LiveFacts, CursorFacts
  <2>2. i \in 1..Len(tx[s].resv) /\ DOMAIN rx[s].q = 1..Len(rx[s].q)
    BY <2>1
  <2> QED BY <2>1, <2>2, SMTT(30)
<1> QED BY <1>1 DEF CopiesInStep

\* What a step does not touch stays where it is.
LEMMA HeldSame ==
    ASSUME NEW p \in Places,
           p = <<"fill", 0>> => FillHeld' = FillHeld,
           p = <<"comp", 0>> => CompHeld' = CompHeld,
           p = <<"wire", 0>> => inflight' = inflight,
           \A s \in Socks : p = <<"rx", s>> => RxHeld(s)' = RxHeld(s),
           \A s \in Socks : p = <<"tx", s>> => TxHeld(s)' = TxHeld(s),
           \A s \in Socks : p = <<"pend", s>> => pend'[s] = pend[s]
    PROVE  Held'[p] = Held[p]
<1>1. CASE p = <<"fill", 0>> \/ p = <<"comp", 0>> \/ p = <<"wire", 0>>
  BY <1>1, HeldAt, HeldNext
<1>2. ASSUME NEW s \in Socks, p = <<"rx", s>> \/ p = <<"tx", s>> \/ p = <<"pend", s>>
      PROVE  Held'[p] = Held[p]
  <2>1. /\ Held[<<"rx", s>>] = RxHeld(s) /\ Held[<<"tx", s>>] = TxHeld(s) /\ Held[<<"pend", s>>] = pend[s]
        /\ Held'[<<"rx", s>>] = RxHeld(s)' /\ Held'[<<"tx", s>>] = TxHeld(s)'
        /\ Held'[<<"pend", s>>] = pend'[s]
    BY HeldAt, HeldNext
  <2> QED BY <1>2, <2>1
<1> QED BY <1>1, <1>2, PlacesAre

\* No frame changes its place.
SameHeld ==
    /\ pend' = pend
    /\ \A s \in Socks : LiveRx(s)' = LiveRx(s) /\ tx'[s].q = tx[s].q
    /\ \A p \in Places : Held'[p] = Held[p]

\* A step that leaves the live parts of the rings alone.
LEMMA SameOwn ==
    ASSUME OwnInv, fq' = fq, LiveCq' = LiveCq, inflight' = inflight, pend' = pend,
           \A s \in Socks : LiveRx(s)' = LiveRx(s) /\ tx'[s].q = tx[s].q,
           \A s \in Socks : CopiesInStep(s)'
    PROVE  SameHeld /\ OwnInv'
<1>1. /\ FillHeld' = FillHeld /\ CompHeld' = CompHeld
      /\ \A s \in Socks : RxHeld(s)' = RxHeld(s) /\ TxHeld(s)' = TxHeld(s)
  BY DEF FillHeld, CompHeld, RxHeld, TxHeld
<1>2. \A p \in Places : Held'[p] = Held[p]
  BY <1>1, HeldSame
<1>3. Partition(Places, Frames, Held)'
  <2>1. Partition(Places, Frames, Held)
    BY DEF OwnInv
  <2> QED BY <1>2, <2>1 DEF Partition
<1>4. RingsInjective'
  BY DEF OwnInv, RingsInjective
<1> QED BY <1>2, <1>3, <1>4 DEF OwnInv, SameHeld

\* Frames X move from a to b, and the rings stay injective.
LEMMA MoveOwn ==
    ASSUME OwnInv, NEW X, NEW a, NEW b, Moved(Places, Held, Held', X, a, b),
           RingsInjective', \A s \in Socks : CopiesInStep(s)'
    PROVE  OwnInv'
<1>1. Partition(Places, Frames, Held)
  BY DEF OwnInv
<1>2. Partition(Places, Frames, Held')
  <2> DEFINE H == Held
             G == Held'
  <2>1. Partition(Places, Frames, H) /\ Moved(Places, H, G, X, a, b)
    BY <1>1
  <2> HIDE DEF H, G
  <2>2. Partition(Places, Frames, G)
    BY ONLY <2>1, MovedPartition
  <2> QED BY <2>2 DEF G
<1> QED BY <1>2 DEF OwnInv, Partition

\* RefillSubmit gives the peeked completions to the fill ring.
LEMMA RefillSubmitMoves ==
    ASSUME Inv, RefillSubmit
    PROVE  /\ \E X \in SUBSET Frames :
                Moved(Places, Held, Held', X, <<"comp", 0>>, <<"fill", 0>>)
           /\ OwnInv'
<1> DEFINE c == cq.q
           x == FirstN(c, crcvd)
<1>1. /\ pc = "fill" /\ pc' = "release" /\ fq' = fq \o x /\ crcvd' = crcvd
      /\ UNCHANGED <<cq, rx, tx, pend, inflight, cur, fragsDone>>
  BY DEF RefillSubmit
<1>2. c \in Seq(Frames) /\ crcvd \in Nat /\ crcvd <= Len(c) /\ fq \in Seq(Frames)
  BY CursorFacts DEF Inv, CursorInv, TypeOK, TypeOKKernel
<1>3. LiveCq = c /\ LiveCq' = DropN(c, crcvd)
  <2>1. LiveCq = DropN(c, 0)
    BY <1>1 DEF LiveCq
  <2>2. DropN(c, 0) = c
    BY <1>2, DropNone
  <2> QED BY <1>1, <2>1, <2>2 DEF LiveCq
<1> HIDE DEF c
<1>4. IsInjective(c) /\ IsInjective(fq) /\ Range(c) \cap Range(fq) = {}
  <2>1. NoFrameShared
    BY OwnFrames DEF Inv
  <2> QED BY <1>3, <2>1 DEF NoFrameShared, Disjoint, FillHeld, CompHeld
<1>5. /\ IsInjective(DropN(c, crcvd)) /\ IsInjective(fq \o x)
      /\ Range(DropN(c, crcvd)) = Range(c) \ Range(x)
      /\ Range(fq \o x) = Range(fq) \cup Range(x)
      /\ Range(x) \subseteq Range(c)
  BY <1>2, <1>4, MovePrefix
<1>6. Range(c) \subseteq Frames
  BY <1>2 DEF Range
<1> HIDE DEF x
<1>7. /\ FillHeld' = FillHeld \cup Range(x) /\ CompHeld' = CompHeld \ Range(x)
      /\ Range(x) \subseteq CompHeld
  BY <1>1, <1>3, <1>5 DEF FillHeld, CompHeld
<1>8. \A s : HandedOn(s) = 0 /\ HandedOn(s)' = 0
  BY <1>1 DEF HandedOn
<1>9. \A s \in Socks : LiveRx(s)' = LiveRx(s) /\ RxHeld(s)' = RxHeld(s) /\ TxHeld(s)' = TxHeld(s)
  BY <1>1, <1>8 DEF LiveRx, RxHeld, TxHeld
<1>10. Moved(Places, Held, Held', Range(x), <<"comp", 0>>, <<"fill", 0>>)
  <2>1. \A p \in Places : p # <<"comp", 0>> /\ p # <<"fill", 0>> => Held'[p] = Held[p]
    BY <1>1, <1>9, HeldSame
  <2> QED BY <1>7, <2>1, HeldAt, HeldNext, PlacesAre DEF Moved
<1>11. RingsInjective'
  BY <1>1, <1>3, <1>5, <1>9 DEF Inv, OwnInv, RingsInjective
<1>12. \A s \in Socks : CopiesInStep(s)'
  BY <1>1, <1>8 DEF Inv, OwnInv, CopiesInStep
<1>13. OwnInv'
  BY <1>10, <1>11, <1>12, MoveOwn DEF Inv
<1> QED BY <1>5, <1>6, <1>10, <1>13

\* The NIC's completion goes to the end of the completion ring.
LEMMA CompleteMoves ==
    ASSUME Inv, NEW f \in Frames, KernelComplete(f), UNCHANGED <<userVars, benchmarkDone>>
    PROVE  /\ \E X \in SUBSET Frames :
                Moved(Places, Held, Held', X, <<"wire", 0>>, <<"comp", 0>>)
           /\ OwnInv'
<1> DEFINE c == LiveCq
           x == <<f>>
<1>1. /\ f \in inflight /\ inflight' = inflight \ {f} /\ cq'.q = Append(cq.q, f)
      /\ UNCHANGED <<fq, rx, tx, pend, pc, cur, crcvd, fragsDone>>
  BY DEF KernelComplete, userVars, Inv, CursorInv, TypeOK, TypeOKKernel, ConsRing
<1>2. c \in Seq(Frames) /\ x \in Seq(Frames) /\ LiveCq' = c \o x
  <2> DEFINE n == IF pc = "release" THEN crcvd ELSE 0
  <2>1. n \in Nat /\ n <= Len(cq.q) /\ cq.q \in Seq(Frames)
    BY CursorFacts DEF Inv
  <2>2. LiveCq = DropN(cq.q, n) /\ LiveCq' = DropN(Append(cq.q, f), n)
    BY <1>1 DEF LiveCq
  <2> HIDE DEF n
  <2>3. DropN(Append(cq.q, f), n) = DropN(cq.q, n) \o <<f>>
    BY <2>1, DropAppend
  <2> QED BY <2>2, <2>3, LiveFacts DEF Inv
<1>3. IsInjective(c) /\ Range(c) \cap {f} = {} /\ IsInjective(x) /\ Range(x) = {f} /\ Len(x) = 1
  <2>1. NoFrameShared
    BY OwnFrames DEF Inv
  <2> QED BY <1>1, <2>1, SmallSeqs DEF NoFrameShared, Disjoint, CompHeld
<1>4. FirstN(x, 1) = x
  <2>1. x # <<>> /\ x[1] = f
    OBVIOUS
  <2>2. FirstN(x, 1) = <<x[1]>>
    BY <1>2, <2>1, TailDrop
  <2> QED BY <2>1, <2>2
<1> HIDE DEF c, x
<1>5. IsInjective(c \o x) /\ Range(c \o x) = Range(c) \cup {f}
  <2>1. /\ IsInjective(c \o FirstN(x, 1))
        /\ Range(c \o FirstN(x, 1)) = Range(c) \cup Range(FirstN(x, 1))
    <3>1. 1 \in Nat /\ 1 <= Len(x) /\ Range(x) \cap Range(c) = {}
      BY <1>3
    <3> QED BY <1>2, <1>3, <3>1, MovePrefix
  <2> QED BY <1>3, <1>4, <2>1
<1>6. CompHeld' = CompHeld \cup {f} /\ FillHeld' = FillHeld
  BY <1>1, <1>2, <1>5 DEF CompHeld, FillHeld, c
<1>7. \A s : HandedOn(s)' = HandedOn(s)
  BY <1>1 DEF HandedOn
<1>8. \A s \in Socks : LiveRx(s)' = LiveRx(s) /\ RxHeld(s)' = RxHeld(s) /\ TxHeld(s)' = TxHeld(s)
  BY <1>1, <1>7 DEF LiveRx, RxHeld, TxHeld
<1>9. Moved(Places, Held, Held', {f}, <<"wire", 0>>, <<"comp", 0>>)
  <2>1. \A p \in Places : p # <<"comp", 0>> /\ p # <<"wire", 0>> => Held'[p] = Held[p]
    BY <1>1, <1>6, <1>8, HeldSame
  <2> QED BY <1>1, <1>6, <2>1, HeldAt, HeldNext, PlacesAre DEF Moved
<1>10. RingsInjective'
  BY <1>1, <1>2, <1>5, <1>8 DEF Inv, OwnInv, RingsInjective
<1>11. \A s \in Socks : CopiesInStep(s)'
  BY <1>1, <1>7 DEF Inv, OwnInv, CopiesInStep
<1>12. OwnInv'
  BY <1>9, <1>10, <1>11, MoveOwn DEF Inv
<1> QED BY <1>9, <1>12

\* The kernel receives a packet into the first frames of the fill ring.
LEMMA KernelRxMoves ==
    ASSUME Inv, NEW c \in Socks, KernelRx(c), UNCHANGED <<userVars, benchmarkDone>>
    PROVE  /\ \E X \in SUBSET Frames :
                Moved(Places, Held, Held', X, <<"fill", 0>>, <<"rx", c>>)
           /\ OwnInv'
<1>0. PICK n \in 1..MaxFrags :
        /\ n <= Len(fq) /\ fq' = DropN(fq, n)
        /\ rx' = [rx EXCEPT ![c].q = @ \o Packet(fq, n)]
  BY DEF KernelRx
<1>1. /\ n \in Nat \ {0} /\ n <= Len(fq) /\ fq' = DropN(fq, n)
      /\ rx' = [rx EXCEPT ![c].q = @ \o Packet(fq, n)]
  BY <1>0, SizesAssumption
<1>2. UNCHANGED <<cq, tx, pend, inflight, pc, cur, crcvd, fragsDone>>
  BY DEF KernelRx, userVars
<1> DEFINE p == Packet(fq, n)
           x == FirstN(fq, n)
           r == Addrs(LiveRx(c))
<1>3. fq \in Seq(Frames) /\ p \in Seq(Desc) /\ Addrs(p) = x
  <2>1. fq \in Seq(Frames)
    BY DEF Inv, CursorInv, TypeOK, TypeOKKernel
  <2> QED BY <1>1, <2>1, PacketProps, AddrsPacket
<1>4. rx'[c].q = rx[c].q \o p /\ \A s \in Socks : s # c => rx'[s] = rx[s]
  BY <1>1 DEF Inv, CursorInv, TypeOK, TypeOKKernel, ConsRing
<1> HIDE DEF p
<1>5. \A s : HandedOn(s)' = HandedOn(s)
  BY <1>2 DEF HandedOn
<1>6. Addrs(LiveRx(c))' = r \o x /\ r \in Seq(Frames)
  <2> DEFINE h == HandedOn(c)
             q == rx[c].q
             l == DropN(q, h)
  <2>1. h \in Nat /\ h <= Len(q) /\ q \in Seq(Desc) /\ LiveRx(c) = l /\ r \in Seq(Frames)
    BY LiveFacts, CursorFacts DEF Inv
  <2>2. LiveRx(c)' = DropN(q \o p, h)
    BY <1>4, <1>5 DEF LiveRx
  <2> HIDE DEF h, q, r
  <2>3. DropN(q \o p, h) = l \o p /\ l \in Seq(Desc)
    BY <1>3, <2>1, DropConcat, DropNProps
  <2>4. Addrs(l \o p) = Addrs(l) \o Addrs(p)
    BY <1>3, <2>3, AddrsConcat
  <2> QED BY <1>3, <2>1, <2>2, <2>3, <2>4 DEF r
<1>7. IsInjective(fq) /\ IsInjective(r) /\ Range(fq) \cap Range(r) = {}
  <2>1. NoFrameShared
    BY OwnFrames DEF Inv
  <2> QED BY <2>1 DEF NoFrameShared, Disjoint, FillHeld, RxHeld, SockHeld
<1> HIDE DEF r
<1>8. /\ IsInjective(DropN(fq, n)) /\ IsInjective(r \o x)
      /\ Range(DropN(fq, n)) = Range(fq) \ Range(x)
      /\ Range(r \o x) = Range(r) \cup Range(x)
      /\ Range(x) \subseteq Range(fq)
  BY <1>1, <1>3, <1>6, <1>7, MovePrefix, SMTT(30)
<1>9. Range(fq) \subseteq Frames
  BY <1>3 DEF Range
<1> HIDE DEF x
<1>10. /\ FillHeld' = FillHeld \ Range(x) /\ RxHeld(c)' = RxHeld(c) \cup Range(x)
       /\ Range(x) \subseteq FillHeld
  BY <1>1, <1>6, <1>8 DEF FillHeld, RxHeld, r
<1>11. LiveCq' = LiveCq /\ CompHeld' = CompHeld
  BY <1>2 DEF LiveCq, CompHeld
<1>12. \A s \in Socks : /\ s # c => LiveRx(s)' = LiveRx(s) /\ RxHeld(s)' = RxHeld(s)
                        /\ TxHeld(s)' = TxHeld(s)
  BY <1>2, <1>4, <1>5 DEF LiveRx, RxHeld, TxHeld
<1>13. Moved(Places, Held, Held', Range(x), <<"fill", 0>>, <<"rx", c>>)
  <2>1. \A q \in Places : q # <<"fill", 0>> /\ q # <<"rx", c>> => Held'[q] = Held[q]
    BY <1>2, <1>11, <1>12, HeldSame
  <2> QED BY <1>10, <2>1, HeldAt, HeldNext, PlacesAre DEF Moved
<1>14. RingsInjective'
  <2>1. IsInjective(fq') /\ IsInjective(LiveCq') /\ IsInjective(Addrs(LiveRx(c))')
    BY <1>1, <1>6, <1>8, <1>11 DEF Inv, OwnInv, RingsInjective
  <2>2. \A s \in Socks : (s # c => IsInjective(Addrs(LiveRx(s))')) /\ IsInjective(Addrs(tx[s].q)')
    BY <1>2, <1>12 DEF Inv, OwnInv, RingsInjective
  <2> QED BY <2>1, <2>2 DEF RingsInjective
<1>15. ASSUME NEW s \in Socks PROVE CopiesInStep(s)'
  <2>1. \A i \in DOMAIN rx[s].q : rx'[s].q[i] = rx[s].q[i]
    <3>1. CASE s = c
      <4> DEFINE q == rx[c].q
      <4>1. q \in Seq(Desc)
        BY CursorFacts DEF Inv
      <4> HIDE DEF q
      <4>2. \A i \in DOMAIN q : (q \o p)[i] = q[i]
        BY <1>3, <4>1, ConcatEntries
      <4> QED BY <1>4, <3>1, <4>2 DEF q
    <3>2. CASE s # c
      BY <1>4, <3>2
    <3> QED BY <3>1, <3>2
  <2> QED BY <1>2, <1>5, <2>1, SameCopies DEF Inv, OwnInv
<1>16. OwnInv'
  BY <1>13, <1>14, <1>15, MoveOwn DEF Inv
<1> QED BY <1>8, <1>9, <1>13, <1>16

\* The copied descriptors of whole packets go from rx to the tx ring.
LEMMA SubmitTxMoves ==
    ASSUME Inv, SubmitTx
    PROVE  /\ \E X \in SUBSET Frames :
                Moved(Places, Held, Held', X, <<"rx", cur>>, <<"tx", cur>>)
           /\ OwnInv'
<1> DEFINE q == rx[cur].q
           t == tx[cur].q
           v == tx[cur].resv
           n == fragsDone
           a == Addrs(q)
           b == Addrs(t)
           x == FirstN(a, n)
<1>1. /\ pc = "submit" /\ pc' = "rxrelease" /\ tx' = [tx EXCEPT ![cur] = Submit(@, n)]
      /\ UNCHANGED <<fq, cq, rx, pend, inflight, cur, crcvd, fragsDone>>
  BY DEF SubmitTx
<1>2. /\ cur \in Socks /\ q \in Seq(Desc) /\ t \in Seq(Desc) /\ v \in Seq(Desc)
      /\ tx[cur] \in ProdRing(Desc) /\ n \in Nat
  BY CursorFacts DEF Inv
<1>3. /\ \A s \in Socks : HandedOn(s) = 0
      /\ HandedOn(cur)' = n /\ \A s \in Socks : s # cur => HandedOn(s)' = 0
  BY <1>1 DEF HandedOn
<1>4. n <= Len(v) /\ Len(v) <= Len(q)
  <2>1. nbFrags + n = Len(v) /\ nbFrags \in Nat
    BY <1>2, <1>3, CursorFacts DEF Inv, CursorInv, CursorsInStep, FragsInStep
  <2>2. 0 + Len(v) <= Len(q)
    BY <1>2, <1>3, LiveFacts DEF Inv
  <2> QED BY <1>2, <2>1, <2>2
<1>5. \A i \in 1..Len(v) : CopyOf(v[i], q[i])
  <2>1. \A i \in DOMAIN v : CopyOf(v[i], q[0 + i])
    BY <1>2, <1>3 DEF Inv, OwnInv, CopiesInStep
  <2> QED BY <1>2, <2>1
<1>6. tx'[cur].q = t \o FirstN(v, n) /\ tx'[cur].resv = DropN(v, n)
      /\ \A s \in Socks : s # cur => tx'[s] = tx[s]
  <2>1. LET w == Submit(tx[cur], n) IN w.q = t \o FirstN(v, n) /\ w.resv = DropN(v, n)
    BY <1>2, <1>4, SubmitProps
  <2> QED BY <1>1, <1>2, <2>1 DEF Inv, CursorInv, TypeOK, TypeOKKernel
<1> HIDE DEF q, t, v, n
<1>7. Addrs(LiveRx(cur)) = a /\ Addrs(LiveRx(cur))' = DropN(a, n) /\ a \in Seq(Frames) /\ b \in Seq(Frames)
      /\ Len(a) = Len(q)
  <2>1. Addrs(LiveRx(cur)) = DropN(a, 0)
    BY <1>2, <1>3, LiveFacts DEF Inv, q
  <2>2. a \in Seq(Frames) /\ Len(a) = Len(q) /\ b \in Seq(Frames)
    BY <1>2, AddrsProps
  <2>3. Addrs(DropN(q, n)) = DropN(a, n)
    BY <1>2, <1>4, AddrsDrop
  <2>4. LiveRx(cur)' = DropN(q, n)
    BY <1>1, <1>3 DEF LiveRx, q
  <2> HIDE DEF a
  <2> QED BY <2>1, <2>2, <2>3, <2>4, DropNone
<1>8. Addrs(tx'[cur].q) = b \o x
  <2>1. \A i \in 1..n : v[i].addr = q[i].addr
    BY <1>2, <1>4, <1>5 DEF CopyOf
  <2>2. Addrs(FirstN(v, n)) = x /\ FirstN(v, n) \in Seq(Desc)
    <3>1. n <= Len(q) /\ n <= Len(v)
      BY <1>2, <1>4
    <3>2. Addrs(FirstN(v, n)) = FirstN(Addrs(q), n)
      BY <1>2, <2>1, <3>1, AddrsCopy
    <3> QED BY <1>2, <3>1, <3>2, FirstNProps
  <2>3. Addrs(t \o FirstN(v, n)) = Addrs(t) \o Addrs(FirstN(v, n))
    BY <1>2, <2>2, AddrsConcat
  <2> QED BY <1>6, <2>2, <2>3
<1>9. IsInjective(a) /\ IsInjective(b) /\ Range(a) \cap Range(b) = {}
  <2>1. NoFrameShared
    BY OwnFrames DEF Inv
  <2> QED BY <1>2, <1>7, <2>1 DEF NoFrameShared, Disjoint, RxHeld, TxHeld, t
<1> HIDE DEF a, b
<1>10. /\ IsInjective(DropN(a, n)) /\ IsInjective(b \o x)
       /\ Range(DropN(a, n)) = Range(a) \ Range(x)
       /\ Range(b \o x) = Range(b) \cup Range(x)
       /\ Range(x) \subseteq Range(a)
  <2>1. n <= Len(a)
    BY <1>2, <1>4, <1>7
  <2> QED BY <1>2, <1>7, <1>9, <2>1, MovePrefix
<1>11. Range(a) \subseteq Frames
  BY <1>7 DEF Range
<1> HIDE DEF x
<1>12. /\ RxHeld(cur)' = RxHeld(cur) \ Range(x) /\ TxHeld(cur)' = TxHeld(cur) \cup Range(x)
       /\ Range(x) \subseteq RxHeld(cur)
  <2>1. RxHeld(cur)' = Range(Addrs(LiveRx(cur))') /\ RxHeld(cur) = Range(Addrs(LiveRx(cur)))
        /\ TxHeld(cur)' = Range(Addrs(tx'[cur].q)) /\ TxHeld(cur) = Range(b)
    BY <1>1 DEF RxHeld, TxHeld, b, t
  <2> QED BY <1>7, <1>8, <1>10, <2>1
<1>13. FillHeld' = FillHeld /\ LiveCq' = LiveCq /\ CompHeld' = CompHeld
  BY <1>1 DEF FillHeld, LiveCq, CompHeld
<1>14. \A s \in Socks : s # cur => /\ LiveRx(s)' = LiveRx(s) /\ RxHeld(s)' = RxHeld(s)
                                   /\ TxHeld(s)' = TxHeld(s)
  BY <1>1, <1>3, <1>6 DEF LiveRx, RxHeld, TxHeld
<1>15. Moved(Places, Held, Held', Range(x), <<"rx", cur>>, <<"tx", cur>>)
  <2>1. \A p \in Places : p # <<"rx", cur>> /\ p # <<"tx", cur>> => Held'[p] = Held[p]
    BY <1>1, <1>13, <1>14, HeldSame
  <2>2. Held'[<<"rx", cur>>] = RxHeld(cur)' /\ Held'[<<"tx", cur>>] = TxHeld(cur)'
    BY <1>1, <1>2, HeldNext
  <2> QED BY <1>2, <1>12, <2>1, <2>2, HeldAt, PlacesAre DEF Moved
<1>16. RingsInjective'
  <2>1. IsInjective(fq') /\ IsInjective(LiveCq')
    BY <1>1, <1>13 DEF Inv, OwnInv, RingsInjective
  <2>2. ASSUME NEW s \in Socks PROVE IsInjective(Addrs(LiveRx(s))') /\ IsInjective(Addrs(tx'[s].q))
    <3>1. CASE s = cur
      <4>1. Addrs(LiveRx(s))' = Addrs(LiveRx(cur))'
        BY <1>1, <3>1
      <4> QED BY <1>7, <1>8, <1>10, <3>1, <4>1
    <3>2. CASE s # cur
      BY <1>6, <1>14, <3>2 DEF Inv, OwnInv, RingsInjective
    <3> QED BY <3>1, <3>2
  <2> QED BY <2>1, <2>2 DEF RingsInjective
<1>17. ASSUME NEW s \in Socks PROVE CopiesInStep(s)'
  <2>1. CASE s = cur
    <3>1. tx'[s].resv = DropN(v, n) /\ HandedOn(s)' = n /\ rx'[s].q = q
      BY <1>1, <1>3, <1>6, <2>1 DEF q
    <3>2. ASSUME NEW i \in DOMAIN DropN(v, n) PROVE CopyOf(DropN(v, n)[i], q[n + i])
      <4> DEFINE d == DropN(v, n)
      <4>1. d \in Seq(Desc) /\ Len(d) = Len(v) - n /\ \A j \in 1..(Len(v) - n) : d[j] = v[n + j]
        BY <1>2, <1>4, DropNProps
      <4>2. i \in 1..(Len(v) - n)
        <5> HIDE DEF d
        <5>1. i \in 1..Len(d)
          BY <3>2, <4>1 DEF d
        <5> QED BY <4>1, <5>1
      <4>3. n + i \in 1..Len(v) /\ d[i] = v[n + i]
        BY <1>2, <1>4, <4>1, <4>2
      <4> QED BY <1>5, <4>3
    <3> QED BY <3>1, <3>2 DEF CopiesInStep, CopyOf
  <2>2. CASE s # cur
    <3>1. tx'[s].resv = tx[s].resv /\ HandedOn(s)' = HandedOn(s) /\ rx' = rx
      BY <1>1, <1>3, <1>6, <2>2
    <3> QED BY <3>1, SameCopies DEF Inv, OwnInv
  <2> QED BY <2>1, <2>2
<1>18. OwnInv'
  BY <1>15, <1>16, <1>17, MoveOwn DEF Inv
<1> QED BY <1>10, <1>11, <1>15, <1>18

\* The frames of the first descriptor of a tx ring go to the kernel, and with
\* the last fragment of a packet all its frames go to the NIC.
LEMMA KernelTxMoves ==
    ASSUME Inv, NEW c \in Socks, KernelTx(c), UNCHANGED <<userVars, benchmarkDone>>
    PROVE  /\ \E f \in Frames :
                /\ f \in TxHeld(c)
                /\ \A p \in Places : \A g \in Held'[p] :
                     IF g = f THEN p = <<"wire", 0>> \/ p = <<"pend", c>>
                     ELSE g \in Held[p] \/ (p = <<"wire", 0>> /\ g \in Held[<<"pend", c>>])
           /\ OwnInv'
<1> DEFINE q == tx[c].q
           a == Addrs(q)
           f == a[1]
           e == <<>>
<1>1. /\ q # <<>> /\ tx' = [tx EXCEPT ![c].q = Tail(@)]
      /\ UNCHANGED <<fq, cq, rx, pc, cur, crcvd, fragsDone>>
  BY DEF KernelTx, userVars
<1>2. q \in Seq(Desc) /\ tx[c] \in ProdRing(Desc) /\ pend \in [Socks -> SUBSET Frames]
  BY CursorFacts DEF Inv, CursorInv, TypeOK, TypeOKKernel
<1>3. /\ Tail(q) = DropN(q, 1) /\ 1 \in Nat /\ 1 <= Len(q) /\ Head(q) = q[1]
  BY <1>1, <1>2, TailDrop
<1>4. tx'[c].q = DropN(q, 1) /\ \A s \in Socks : tx'[s].resv = tx[s].resv /\ (s # c => tx'[s] = tx[s])
  BY <1>1, <1>3 DEF Inv, CursorInv, TypeOK, TypeOKKernel, ProdRing
<1>5. \/ inflight' = inflight \cup pend[c] \cup {q[1].addr} /\ pend' = [pend EXCEPT ![c] = {}]
      \/ inflight' = inflight /\ pend' = [pend EXCEPT ![c] = pend[c] \cup {q[1].addr}]
  BY <1>3 DEF KernelTx
<1> HIDE DEF q
<1>6. a \in Seq(Frames) /\ Len(a) = Len(q) /\ f = q[1].addr /\ a # <<>> /\ Addrs(DropN(q, 1)) = DropN(a, 1)
  <2>1. a \in Seq(Frames) /\ Len(a) = Len(q) /\ \A i \in 1..Len(q) : a[i] = q[i].addr
    BY <1>2, AddrsProps
  <2>2. Addrs(DropN(q, 1)) = DropN(a, 1)
    BY <1>2, <1>3, AddrsDrop
  <2>3. 1 \in 1..Len(q)
    BY <1>2, <1>3
  <2> HIDE DEF a
  <2>4. a # <<>>
    BY <1>3, <2>1
  <2> QED BY <2>1, <2>2, <2>3, <2>4
<1>7. IsInjective(a)
  BY DEF Inv, OwnInv, RingsInjective, q
<1> HIDE DEF a
<1>8. FirstN(a, 1) = <<f>> /\ 1 <= Len(a)
  BY <1>6, TailDrop
<1>9. /\ IsInjective(DropN(a, 1)) /\ Range(DropN(a, 1)) = Range(a) \ {f} /\ f \in Range(a)
      /\ f \in Frames
  <2>1. e \in Seq(Frames) /\ IsInjective(e) /\ Range(a) \cap Range(e) = {} /\ Range(<<f>>) = {f}
    BY SmallSeqs
  <2> HIDE DEF e
  <2>2. /\ IsInjective(DropN(a, 1)) /\ Range(DropN(a, 1)) = Range(a) \ Range(FirstN(a, 1))
        /\ Range(FirstN(a, 1)) \subseteq Range(a)
    BY <1>3, <1>6, <1>7, <1>8, <2>1, MovePrefix
  <2>3. f \in Range(a) /\ Range(a) \subseteq Frames
    BY <1>6, <1>8, <2>1, <2>2 DEF Range
  <2> QED BY <1>8, <2>1, <2>2, <2>3
<1> HIDE DEF f
<1>10. TxHeld(c)' = TxHeld(c) \ {f} /\ f \in TxHeld(c)
  BY <1>4, <1>6, <1>9 DEF TxHeld, a, q
<1>11. FillHeld' = FillHeld /\ LiveCq' = LiveCq /\ CompHeld' = CompHeld
  BY <1>1 DEF FillHeld, LiveCq, CompHeld
<1>12. \A s : HandedOn(s)' = HandedOn(s)
  BY <1>1 DEF HandedOn
<1>13. \A s \in Socks : /\ LiveRx(s)' = LiveRx(s) /\ RxHeld(s)' = RxHeld(s)
                        /\ s # c => TxHeld(s)' = TxHeld(s)
  BY <1>1, <1>4, <1>12 DEF LiveRx, RxHeld, TxHeld
<1>14. RingsInjective'
  <2>1. IsInjective(fq') /\ IsInjective(LiveCq') /\ \A s \in Socks : IsInjective(Addrs(LiveRx(s))')
    BY <1>1, <1>11, <1>13 DEF Inv, OwnInv, RingsInjective
  <2>2. \A s \in Socks : IsInjective(Addrs(tx'[s].q))
    BY <1>4, <1>6, <1>9 DEF Inv, OwnInv, RingsInjective
  <2> QED BY <2>1, <2>2 DEF RingsInjective
<1>15. \A s \in Socks : CopiesInStep(s)'
  BY <1>1, <1>4, <1>12, SameCopies DEF Inv, OwnInv
<1> DEFINE T == <<"tx", c>>
           K == <<"pend", c>>
           W == <<"wire", 0>>
<1>16. T \in Places /\ K \in Places /\ W \in Places /\ T # K /\ T # W /\ K # W
  BY PlacesAre
<1>17. \A p \in Places : p # T /\ p # K /\ p # W => Held'[p] = Held[p]
  <2>1. \A s \in Socks : s # c => pend'[s] = pend[s]
    BY <1>2, <1>5
  <2> QED BY <1>11, <1>13, <2>1, HeldSame
<1>18. /\ Held[T] = TxHeld(c) /\ Held[K] = pend[c] /\ Held[W] = inflight
       /\ Held'[T] = Held[T] \ {f} /\ Held'[K] = pend'[c] /\ Held'[W] = inflight'
  BY <1>10, HeldAt, HeldNext
<1> HIDE DEF T, K, W
<1>19. CASE inflight' = inflight /\ pend' = [pend EXCEPT ![c] = pend[c] \cup {f}]
  <2>1. Held'[K] = Held[K] \cup {f} /\ Held'[W] = Held[W]
    BY <1>2, <1>18, <1>19
  <2>2. Moved(Places, Held, Held', {f}, T, K)
    BY <1>10, <1>16, <1>17, <1>18, <2>1 DEF Moved
  <2>3. OwnInv'
    BY <1>14, <1>15, <2>2, MoveOwn DEF Inv
  <2>4. \A p \in Places : \A g \in Held'[p] :
           IF g = f THEN p = W \/ p = K ELSE g \in Held[p] \/ (p = W /\ g \in Held[K])
    <3>1. Partition(Places, Frames, Held)
      BY DEF Inv, OwnInv
    <3> QED BY <1>10, <1>16, <1>17, <1>18, <2>1, <3>1 DEF Partition
  <2> QED BY <1>9, <1>10, <2>3, <2>4 DEF W, K
<1>20. CASE inflight' = inflight \cup pend[c] \cup {f} /\ pend' = [pend EXCEPT ![c] = {}]
  <2> DEFINE H == Held
             G == Held'
             M == [p \in Places |-> IF p = T THEN H[T] \ {f} ELSE IF p = K THEN H[K] \cup {f} ELSE H[p]]
  <2>1. G[K] = {} /\ G[W] = H[W] \cup H[K] \cup {f}
    BY <1>2, <1>18, <1>20
  <2>2. /\ Partition(Places, Frames, H) /\ f \in H[T] /\ G[T] = H[T] \ {f}
        /\ \A p \in Places : p # T /\ p # K /\ p # W => G[p] = H[p]
    BY <1>10, <1>17, <1>18 DEF Inv, OwnInv
  <2> HIDE DEF H, G
  <2>3. Moved(Places, H, M, {f}, T, K)
    BY <1>16, <2>2 DEF Moved
  <2>4. Moved(Places, M, G, M[K], K, W)
    BY <1>16, <2>1, <2>2 DEF Moved
  <2> HIDE DEF M
  <2>5. Partition(Places, Frames, M)
    BY ONLY <2>2, <2>3, MovedPartition
  <2>6. Partition(Places, Frames, G)
    BY ONLY <2>4, <2>5, MovedPartition
  <2>7. OwnInv'
    BY <1>14, <1>15, <2>6 DEF OwnInv, Partition, G
  <2>8. \A p \in Places : \A g \in G[p] :
           IF g = f THEN p = W \/ p = K ELSE g \in H[p] \/ (p = W /\ g \in H[K])
    BY <1>16, <2>1, <2>2 DEF Partition
  <2> QED BY <1>9, <1>10, <2>7, <2>8 DEF W, K, G, H
<1> QED BY <1>5, <1>6, <1>19, <1>20

\* The completion slots that are released held frames of the fill ring.
LEMMA RefillReleaseOwn ==
    ASSUME Inv, RefillRelease
    PROVE  SameHeld /\ OwnInv'
<1>1. /\ pc = "release" /\ pc' # "release" /\ pc' # "rxrelease" /\ cq' = Release(cq, crcvd)
      /\ UNCHANGED <<fq, rx, tx, pend, inflight, cur, fragsDone>>
  BY DEF RefillRelease, Inv, CursorInv, TypeOK
<1>2. LiveCq' = LiveCq
  <2>1. LiveCq = DropN(cq.q, crcvd) /\ LiveCq' = DropN(cq'.q, 0) /\ cq'.q = DropN(cq.q, crcvd)
    BY <1>1 DEF LiveCq, Release
  <2>2. LiveCq \in Seq(Frames)
    BY LiveFacts DEF Inv
  <2> QED BY <2>1, <2>2, DropNone
<1>3. \A s : HandedOn(s) = 0 /\ HandedOn(s)' = 0
  BY <1>1 DEF HandedOn
<1>4. \A s \in Socks : LiveRx(s)' = LiveRx(s) /\ tx'[s].q = tx[s].q
  BY <1>1, <1>3 DEF LiveRx
<1>5. \A s \in Socks : CopiesInStep(s)'
  BY <1>1, <1>3, SameCopies DEF Inv, OwnInv
<1> QED BY <1>1, <1>2, <1>4, <1>5, SameOwn DEF Inv

\* The rx slots that are released held frames of the tx ring.
LEMMA ReleaseRxOwn ==
    ASSUME Inv, ReleaseRx
    PROVE  SameHeld /\ OwnInv'
<1> DEFINE n == fragsDone
           q == rx[cur].q
<1>1. /\ pc = "rxrelease" /\ pc' \notin {"release", "rxrelease"}
      /\ rx' = [rx EXCEPT ![cur] = Release(@, n)]
      /\ UNCHANGED <<fq, cq, tx, pend, inflight, crcvd>>
  BY NextSockProps DEF ReleaseRx, Inv
<1>2. LiveCq' = LiveCq
  BY <1>1 DEF LiveCq
<1>3. /\ HandedOn(cur) = n /\ \A s \in Socks : s # cur => HandedOn(s) = 0
      /\ \A s : HandedOn(s)' = 0
  BY <1>1 DEF HandedOn
<1>4. cur \in Socks /\ q \in Seq(Desc) /\ n \in Nat /\ n + Len(tx[cur].resv) <= Len(q) /\ n <= Len(q)
  BY <1>3, LiveFacts, CursorFacts DEF Inv
<1>5. rx'[cur].q = DropN(q, n) /\ \A s \in Socks : s # cur => rx'[s] = rx[s]
  BY <1>1, <1>4 DEF Release, Inv, CursorInv, TypeOK, TypeOKKernel
<1>6. ASSUME NEW s \in Socks PROVE LiveRx(s)' = LiveRx(s)
  <2>1. LiveRx(s)' = DropN(rx'[s].q, 0)
    BY <1>3 DEF LiveRx
  <2>2. rx'[s].q = LiveRx(s) /\ LiveRx(s) \in Seq(Desc)
    <3>1. LiveRx(s) = DropN(rx[s].q, HandedOn(s)) /\ LiveRx(s) \in Seq(Desc) /\ rx[s].q \in Seq(Desc)
      BY LiveFacts, CursorFacts DEF Inv
    <3>2. CASE s = cur
      BY <1>3, <1>5, <3>1, <3>2
    <3>3. CASE s # cur
      BY <1>3, <1>5, <3>1, <3>3, DropNone
    <3> QED BY <3>2, <3>3
  <2> QED BY <2>1, <2>2, DropNone
<1> HIDE DEF n, q
<1>7. ASSUME NEW s \in Socks PROVE CopiesInStep(s)'
  <2>1. CopiesInStep(s) /\ tx'[s].resv = tx[s].resv
    BY <1>1 DEF Inv, OwnInv
  <2>2. CASE s = cur
    <3>1. ASSUME NEW i \in DOMAIN tx[s].resv PROVE rx'[s].q[0 + i] = q[n + i]
      <4>1. i \in 1..(Len(q) - n) /\ i \in Nat
        <5>1. i \in 1..Len(tx[cur].resv) /\ Len(tx[cur].resv) \in Nat
          BY <1>4, <2>2, <3>1, CursorFacts, SMTT(30) DEF Inv
        <5> QED BY <1>4, <5>1
      <4>2. DropN(q, n)[i] = q[n + i]
        BY <1>4, <4>1, DropNProps
      <4>3. 0 + i = i
        BY <4>1
      <4> QED BY <1>5, <2>2, <4>2, <4>3
    <3> QED BY <1>3, <2>1, <2>2, <3>1 DEF CopiesInStep, CopyOf, q
  <2>3. CASE s # cur
    BY <1>3, <1>5, <2>1, <2>3, SameCopies DEF Inv
  <2> QED BY <2>2, <2>3
<1> QED BY <1>1, <1>2, <1>6, <1>7, SameOwn DEF Inv

\* Steps that move no frame: the thread looks, waits, asks or is told to stop.
LEMMA QuietOwn ==
    ASSUME Inv, UNCHANGED <<fq, inflight, pend>>, pc = "release" => crcvd' = crcvd,
           cq'.q = cq.q,
           pc = "release" <=> pc' = "release",
           \A s \in Socks : /\ rx'[s].q = rx[s].q /\ tx'[s].q = tx[s].q /\ tx'[s].resv = tx[s].resv
                            /\ HandedOn(s)' = HandedOn(s)
    PROVE  SameHeld /\ OwnInv'
<1>1. LiveCq' = LiveCq
  BY DEF LiveCq
<1>2. \A s \in Socks : LiveRx(s)' = LiveRx(s)
  BY DEF LiveRx
<1>3. \A s \in Socks : CopiesInStep(s)'
  BY SameCopies DEF Inv, OwnInv
<1> QED BY <1>1, <1>2, <1>3, SameOwn DEF Inv

LEMMA QuietUser ==
    ASSUME Inv, StartRound \/ CompleteTx \/ PeekCq \/ PeekRx \/ ReserveTx \/ KickInReserve
    PROVE  SameHeld /\ OwnInv'
<1>0. CursorInv
  BY DEF Inv
<1>1. /\ pc \notin {"release", "rxrelease"} /\ pc' \notin {"release", "rxrelease"}
      /\ UNCHANGED <<fq, inflight, pend, tx>>
  <2>1. back \in {"peek", "kick"}
    BY DEF Inv, CursorInv, TypeOK
  <2>2. CASE PeekRx
    <3>1. CASE PeekCount(rx[cur], BatchSize) = 0
      BY <1>0, <2>2, <3>1, NextSockProps DEF PeekRx
    <3>2. CASE PeekCount(rx[cur], BatchSize) # 0
      BY <2>2, <3>2 DEF PeekRx
    <3> QED BY <3>1, <3>2
  <2> QED BY <2>1, <2>2 DEF StartRound, CompleteTx, PeekCq, ReserveTx, KickInReserve, kernelVars
<1>2. cq'.q = cq.q
  BY DEF StartRound, CompleteTx, PeekCq, PeekRx, ReserveTx, KickInReserve, kernelVars, Peek
<1>3. \A s \in Socks : rx'[s].q = rx[s].q
  <2>1. CASE PeekRx
    BY <2>1 DEF PeekRx, Peek, Inv, CursorInv, TypeOK, TypeOKKernel
  <2> QED BY <2>1 DEF StartRound, CompleteTx, PeekCq, ReserveTx, KickInReserve, kernelVars
<1>4. \A s \in Socks : HandedOn(s)' = HandedOn(s)
  BY <1>1 DEF HandedOn
<1> QED BY <1>1, <1>2, <1>3, <1>4, QuietOwn

\* Copying a descriptor reserves its frame's place on the tx ring.
LEMMA CopyDescOwn ==
    ASSUME Inv, CopyDesc
    PROVE  SameHeld /\ OwnInv'
<1>0. CursorInv
  BY DEF Inv
<1>1. PICK d \in Desc, v \in Actions \cup {"none"} :
            /\ rx[cur].peeked - left + 1 \in DOMAIN rx[cur].q
            /\ d = rx[cur].q[rx[cur].peeked - left + 1]
            /\ [d EXCEPT !.act = v] \in Desc
            /\ tx' = [tx EXCEPT ![cur] = WriteSlot(@, [d EXCEPT !.act = v])]
            /\ nbFrags' = IF d.eop THEN 0 ELSE nbFrags + 1
            /\ fragsDone' = IF d.eop THEN fragsDone + nbFrags + 1 ELSE fragsDone
  BY <1>0, CopyDescProps
<1> DEFINE e == [d EXCEPT !.act = v]
           r == tx[cur].resv
<1>2. /\ pc = "copy" /\ pc' \notin {"release", "rxrelease"}
      /\ UNCHANGED <<fq, cq, rx, pend, inflight, cur, crcvd>>
  BY DEF CopyDesc
<1>3. \A s : HandedOn(s) = 0 /\ HandedOn(s)' = 0
  BY <1>2 DEF HandedOn
<1>4. CopyOf(e, d) /\ e \in Desc
  BY <1>1, VerdictSet, SMTT(30)
<1> HIDE DEF e
<1>5. /\ tx'[cur].q = tx[cur].q /\ tx'[cur].resv = Append(r, e)
      /\ \A s \in Socks : s # cur => tx'[s] = tx[s]
  <2>1. tx[cur] \in ProdRing(Desc) /\ cur \in Socks
    BY <1>0, CursorFacts
  <2>2. LET x == WriteSlot(tx[cur], e) IN x.q = tx[cur].q /\ x.resv = Append(r, e)
    BY <1>4, <2>1, WriteSlotProps
  <2> QED BY <1>1, <2>1, <2>2 DEF e, Inv, CursorInv, TypeOK, TypeOKKernel
<1>6. d = rx[cur].q[Len(r) + 1] /\ r \in Seq(Desc)
  <2>1. rx[cur].peeked = Len(r) + HandedOn(cur) + left /\ r \in Seq(Desc) /\ Len(r) \in Nat /\ left \in Nat
    BY <1>0, CursorFacts DEF CursorInv, CursorsInStep, FragsInStep
  <2>2. rx[cur].peeked - left + 1 = Len(r) + 1
    BY <1>3, <2>1
  <2> QED BY <1>1, <2>1, <2>2
<1>7. ASSUME NEW s \in Socks PROVE CopiesInStep(s)'
  <2>1. CopiesInStep(s)
    BY DEF Inv, OwnInv
  <2>2. CASE s = cur
    <3>0. tx'[s].resv = Append(r, e) /\ rx'[s].q = rx[cur].q /\ HandedOn(s)' = 0
      BY <1>2, <1>3, <1>5, <2>2
    <3> SUFFICES ASSUME NEW i \in DOMAIN Append(r, e)
                 PROVE  CopyOf(Append(r, e)[i], rx[cur].q[0 + i])
      BY <3>0 DEF CopiesInStep, CopyOf
    <3>1. DOMAIN Append(r, e) = DOMAIN r \cup {Len(r) + 1} /\ Len(r) \in Nat /\ DOMAIN r = 1..Len(r)
      BY <1>4, <1>6
    <3>2. CASE i = Len(r) + 1
      <4>1. Append(r, e)[i] = e /\ 0 + i = Len(r) + 1
        BY <1>4, <1>6, <3>1, <3>2
      <4> QED BY <1>4, <1>6, <4>1
    <3>3. CASE i \in DOMAIN r
      <4>1. Append(r, e)[i] = r[i]
        BY <1>4, <1>6, <3>1, <3>3
      <4> QED BY <1>3, <2>1, <2>2, <3>3, <4>1 DEF CopiesInStep
    <3> QED BY <3>1, <3>2, <3>3
  <2>3. CASE s # cur
    BY <1>0, <1>2, <1>3, <1>5, <2>1, <2>3, SameCopies
  <2> QED BY <2>2, <2>3
<1>8. LiveCq' = LiveCq /\ \A s \in Socks : LiveRx(s)' = LiveRx(s) /\ tx'[s].q = tx[s].q
  BY <1>2, <1>3, <1>5 DEF LiveCq, LiveRx
<1> QED BY <1>2, <1>7, <1>8, SameOwn DEF Inv

LEMMA InitOwn == Init => OwnInv
<1> SUFFICES ASSUME Init PROVE OwnInv
  OBVIOUS
<1>1. fq = [i \in Frames |-> i] /\ inflight = {} /\ \A s \in Socks : pend[s] = {}
  BY DEF Init, InitKernel, PopulatedFillRing
<1>2. IsInjective(fq) /\ Range(fq) = Frames
  BY <1>1 DEF IsInjective, Range
<1>3. LiveCq = <<>>
  BY DEF Init, InitKernel, EmptyCons, LiveCq, DropN
<1>4. ASSUME NEW s \in Socks PROVE Addrs(LiveRx(s)) = <<>> /\ Addrs(tx[s].q) = <<>> /\ tx[s].resv = <<>>
  <2>1. rx[s].q = <<>> /\ HandedOn(s) = 0 /\ tx[s].q = <<>> /\ tx[s].resv = <<>>
    BY DEF Init, InitKernel, EmptyCons, EmptyProd, HandedOn
  <2> QED BY <2>1 DEF LiveRx, DropN, Addrs
<1>5. RingsInjective
  BY <1>2, <1>3, <1>4, SmallSeqs DEF RingsInjective
<1>6. Held[<<"fill", 0>>] = Frames /\ \A p \in Places : p # <<"fill", 0>> => Held[p] = {}
  <2>1. FillHeld = Frames /\ CompHeld = {} /\ \A s \in Socks : RxHeld(s) = {} /\ TxHeld(s) = {}
    BY <1>2, <1>3, <1>4, SmallSeqs DEF FillHeld, CompHeld, RxHeld, TxHeld
  <2> QED BY <1>1, <2>1, HeldAt, PlacesAre
<1>7. Partition(Places, Frames, Held)
  BY <1>6, PlacesAre DEF Partition
<1>8. \A s \in Socks : CopiesInStep(s)
  BY <1>4 DEF CopiesInStep
<1> QED BY <1>5, <1>7, <1>8 DEF OwnInv

\* The steps other than the five that hand frames on.
QuietNext ==
    \/ StartRound \/ CompleteTx \/ PeekCq \/ RefillRelease \/ PeekRx \/ ReserveTx
    \/ KickInReserve \/ CopyDesc \/ ReleaseRx
    \/ (KernelRxSleep \/ \E s \in Socks : KernelKickEnd(s)) /\ UNCHANGED <<userVars, benchmarkDone>>
    \/ BenchmarkDone \/ UNCHANGED vars

LEMMA QuietNextOwn ==
    ASSUME Inv, QuietNext PROVE SameHeld /\ OwnInv'
<1>1. CASE \/ (KernelRxSleep \/ \E s \in Socks : KernelKickEnd(s)) /\ UNCHANGED <<userVars, benchmarkDone>>
           \/ BenchmarkDone \/ UNCHANGED vars
  <2>1. UNCHANGED <<fq, cq, rx, tx, inflight, pend, pc, cur, crcvd, fragsDone>>
    BY <1>1 DEF KernelRxSleep, KernelKickEnd, BenchmarkDone, vars, kernelVars, userVars
  <2>2. \A s \in Socks : HandedOn(s)' = HandedOn(s)
    BY <2>1 DEF HandedOn
  <2> QED BY <2>1, <2>2, QuietOwn
<1> QED BY <1>1, QuietUser, RefillReleaseOwn, CopyDescOwn, ReleaseRxOwn DEF QuietNext

\* Every step is a quiet one or one of the five.
LEMMA NextSteps ==
    ASSUME [Next]_vars
    PROVE  \/ QuietNext \/ RefillSubmit \/ SubmitTx
           \/ /\ UNCHANGED <<userVars, benchmarkDone>>
              /\ \/ \E c \in Socks : KernelRx(c) \/ KernelTx(c)
                 \/ \E f \in Frames : KernelComplete(f)
BY DEF Next, User, Kernel, QuietNext

LEMMA NextOwn ==
    ASSUME Inv, [Next]_vars PROVE OwnInv'
BY NextSteps, QuietNextOwn, RefillSubmitMoves, SubmitTxMoves, KernelRxMoves, KernelTxMoves, CompleteMoves

LEMMA SpecInv == ASSUME FragsUnshared PROVE Spec => []Inv
<1>1. Init => Inv
  BY InitCursors, InitOwn DEF Inv
<1>2. Inv /\ [Next]_vars => Inv'
  BY NextCursors, NextOwn DEF Inv
<1> QED BY <1>1, <1>2, PTL DEF Spec

\* xdpsock's forwarding never has a frame in two places, wherever the kernel's
\* receptions, transmissions and completions come between its ring accesses.
THEOREM NeverShared ==
    ASSUME FragsUnshared PROVE Spec => []NoFrameShared
<1>1. Inv => NoFrameShared
  BY OwnFrames DEF Inv
<1> QED BY <1>1, SpecInv, PTL

\* It never leaks one either: the umem does not run dry.
THEOREM NeverLost ==
    ASSUME FragsUnshared PROVE Spec => []NoFrameLost
<1>1. Inv => NoFrameLost
  BY OwnFrames DEF Inv
<1> QED BY <1>1, SpecInv, PTL

\* The loop of complete_tx_l2fwd that waits for fill slots never turns, however
\* many completions the kernel has delivered: they and the fill ring are
\* different frames of the umem.
THEOREM NeverWaits ==
    ASSUME FragsUnshared PROVE Spec => []RefillNeverWaits
<1>1. ASSUME Inv PROVE RefillNeverWaits
  <2> SUFFICES ASSUME pc = "fill" PROVE FillRoom
    BY DEF RefillNeverWaits
  <2> DEFINE c == cq.q
             x == FirstN(c, crcvd)
  <2>1. c \in Seq(Frames) /\ crcvd \in Nat /\ crcvd <= Len(c) /\ fq \in Seq(Frames)
    BY <1>1, CursorFacts DEF Inv, CursorInv, TypeOK, TypeOKKernel
  <2>2. LiveCq = c
    <3>1. LiveCq = DropN(c, 0)
      BY DEF LiveCq
    <3> QED BY <2>1, <3>1, DropNone
  <2> HIDE DEF c
  <2>3. IsInjective(c) /\ IsInjective(fq) /\ Range(c) \cap Range(fq) = {}
    <3>1. NoFrameShared
      BY <1>1, OwnFrames DEF Inv
    <3> QED BY <2>2, <3>1 DEF NoFrameShared, Disjoint, FillHeld, CompHeld
  <2>4. IsInjective(fq \o x)
    BY <2>1, <2>3, MovePrefix
  <2>5. x \in Seq(Frames) /\ Len(x) = crcvd
    BY <2>1, FirstNProps
  <2> HIDE DEF x
  <2>6. fq \o x \in Seq(Frames) /\ Len(fq \o x) = Len(fq) + Len(x)
    BY <2>1, <2>5, ConcatProperties
  <2>7. Len(fq \o x) <= NumFrames
    BY <2>4, <2>6, InjectiveLen
  <2> QED BY <2>1, <2>5, <2>6, <2>7, FillAssumption, SizesAssumption DEF FillRoom
<1> QED BY <1>1, SpecInv, PTL

\* While l2fwd waits for tx slots the kernel finds completion slots: the frames
\* on the full tx ring, the peeked ones, and all that the completion ring would
\* hold are different frames, and more than the umem has.
THEOREM WaitingDrains ==
    ASSUME FragsUnshared PROVE Spec => []WaitingTxCanDrain
<1>1. ASSUME Inv PROVE WaitingTxCanDrain
  <2> SUFFICES ASSUME pc = "reserve", ~CanReserve(tx[cur], TxSize, left)
               PROVE  CompUsed < CompSize
    BY DEF WaitingTxCanDrain
  <2> DEFINE q == rx[cur].q
             a == Addrs(q)
             b == Addrs(tx[cur].q)
             c == cq.q
             A == Range(a)
             B == Range(b)
             C == Range(c)
             U == UNION {pend[s] : s \in Socks}
  <2>1. /\ cur \in Socks /\ q \in Seq(Desc) /\ c \in Seq(Frames)
        /\ a \in Seq(Frames) /\ Len(a) = Len(q) /\ b \in Seq(Frames) /\ Len(b) = Len(tx[cur].q)
    <3>1. cur \in Socks /\ q \in Seq(Desc) /\ tx[cur].q \in Seq(Desc) /\ c \in Seq(Frames)
      BY <1>1, CursorFacts DEF Inv
    <3> QED BY <3>1, AddrsProps
  <2>2. Addrs(LiveRx(cur)) = a /\ LiveCq = c
    <3>1. Addrs(LiveRx(cur)) = DropN(a, 0) /\ LiveCq = DropN(c, 0)
      BY <1>1, <2>1, LiveFacts DEF Inv, HandedOn, LiveCq
    <3> HIDE DEF a, c
    <3> QED BY <2>1, <3>1, DropNone
  <2>3. Len(b) + Len(a) > TxSize
    <3>1. /\ rx[cur].peeked = Len(tx[cur].resv) + HandedOn(cur) + left /\ HandedOn(cur) = 0
          /\ Ordered(rx[cur]) /\ rx[cur].peeked \in Nat /\ rx[cur].seen \in Nat
          /\ Len(tx[cur].resv) \in Nat /\ left \in Nat
      BY <1>1, CursorFacts DEF Inv, CursorInv, CursorsInStep, FragsInStep, HandedOn
    <3>2. Len(tx[cur].q) + Len(tx[cur].resv) + left > TxSize
      <4>1. Len(tx[cur].q) \in Nat /\ TxSize \in Nat
        BY <1>1, CursorFacts, SizesAssumption DEF Inv
      <4>2. ~(Len(tx[cur].q) + Len(tx[cur].resv) + left <= TxSize)
        BY DEF CanReserve
      <4>3. \A t, r, l, z \in Nat : ~(t + r + l <= z) => t + r + l > z
        OBVIOUS
      <4> QED BY ONLY <3>1, <4>1, <4>2, <4>3
    <3>3. Len(tx[cur].resv) + left <= Len(q)
      BY <2>1, <3>1, SMTT(30) DEF Ordered
    <3>4. Len(tx[cur].q) \in Nat /\ Len(q) \in Nat
      BY <1>1, CursorFacts DEF Inv
    <3>5. \A t, r, l, k, z \in Nat : t + r + l > z /\ r + l <= k => t + k > z
      OBVIOUS
    <3> HIDE DEF a, b, q
    <3>6. Len(tx[cur].q) + Len(q) > TxSize
      BY ONLY <3>1, <3>2, <3>3, <3>4, <3>5, SizesAssumption
    <3> QED BY ONLY <2>1, <3>6
  <2>4. NoFrameShared /\ NoFrameLost
    BY <1>1, OwnFrames DEF Inv
  <2>5. /\ A = RxHeld(cur) /\ B = TxHeld(cur) /\ C = CompHeld
        /\ IsInjective(a) /\ IsInjective(b) /\ IsInjective(c)
    BY <2>1, <2>2, <2>4 DEF NoFrameShared, RxHeld, TxHeld, CompHeld
  <2>6. A \cap B = {} /\ (A \cup B) \cap (C \cup inflight) = {} /\ C \cap inflight = {}
    <3> HIDE DEF A, B, C
    <3> QED BY <2>1, <2>4, <2>5 DEF NoFrameShared, Disjoint, SockHeld
  <2>7. U \cap (A \cup B \cup C \cup inflight) = {}
    <3>1. ASSUME NEW s \in Socks PROVE pend[s] \cap (A \cup B \cup C \cup inflight) = {}
      <4> HIDE DEF A, B, C
      <4>1. /\ Disjoint(pend[s], RxHeld(s) \cup TxHeld(s))
            /\ Disjoint(SockHeld(s), FillHeld \cup CompHeld \cup inflight)
            /\ s # cur => Disjoint(SockHeld(s), SockHeld(cur))
        BY <2>1, <2>4 DEF NoFrameShared
      <4> QED BY <2>5, <4>1 DEF Disjoint, SockHeld
    <3> HIDE DEF A, B, C
    <3> QED BY <3>1
  <2>8. /\ IsFiniteSet(A) /\ Cardinality(A) = Len(a)
        /\ IsFiniteSet(B) /\ Cardinality(B) = Len(b)
        /\ IsFiniteSet(C) /\ Cardinality(C) = Len(c)
    <3> HIDE DEF a, b, c
    <3> QED BY <2>1, <2>5, InjectiveCard
  <2>9. inflight \in SUBSET Frames /\ U \in SUBSET Frames /\ A \cup B \cup C \in SUBSET Frames
    <3>1. inflight \in SUBSET Frames /\ pend \in [Socks -> SUBSET Frames]
      BY <1>1 DEF Inv, CursorInv, TypeOK, TypeOKKernel
    <3>2. A \subseteq Frames /\ B \subseteq Frames /\ C \subseteq Frames
      BY <2>1 DEF Range
    <3> QED BY <3>1, <3>2
  <2> HIDE DEF A, B, C, U
  <2>10. IsFiniteSet(inflight) /\ IsFiniteSet(U)
    BY <2>9, FramesCard
  <2>11. /\ IsFiniteSet(A \cup B) /\ Cardinality(A \cup B) = Len(a) + Len(b)
         /\ IsFiniteSet(C \cup inflight) /\ Cardinality(C \cup inflight) = Len(c) + Cardinality(inflight)
    <3> HIDE DEF a, b, c
    <3>1. /\ IsFiniteSet(A \cup B) /\ Cardinality(A \cup B) = Cardinality(A) + Cardinality(B)
          /\ Cardinality(A) \in Nat /\ Cardinality(B) \in Nat
      BY <2>6, <2>8, DisjointCard
    <3>2. IsFiniteSet(C \cup inflight) /\ Cardinality(C \cup inflight) = Cardinality(C) + Cardinality(inflight)
      BY <2>6, <2>8, <2>10, DisjointCard
    <3>3. Len(b) + Len(a) = Len(a) + Len(b)
      BY <2>8, <3>1
    <3> QED BY <2>8, <3>1, <3>2, <3>3
  <2> DEFINE V == (A \cup B) \cup (C \cup inflight)
  <2>12. /\ IsFiniteSet(V)
         /\ Cardinality(V) = (Len(a) + Len(b)) + (Len(c) + Cardinality(inflight))
    <3> HIDE DEF a, b, c
    <3>1. Cardinality(V) = Cardinality(A \cup B) + Cardinality(C \cup inflight) /\ IsFiniteSet(V)
      BY <2>6, <2>11, DisjointCard
    <3> QED BY <2>11, <3>1
  <2>13. U \cap V = {} /\ U \cup V \in SUBSET Frames
    BY <2>7, <2>9
  <2> HIDE DEF V
  <2>14. Cardinality(U \cup V) = Cardinality(U) + Cardinality(V) /\ Cardinality(U \cup V) <= NumFrames
    BY <2>10, <2>12, <2>13, DisjointCard, FramesCard
  <2>15. /\ Cardinality(U) \in Nat /\ Cardinality(inflight) \in Nat
         /\ Len(a) \in Nat /\ Len(b) \in Nat /\ Len(c) \in Nat
    <3> HIDE DEF a, b, c
    <3> QED BY <2>1, <2>9, FramesCard
  <2>16. CompUsed = Len(c) + Cardinality(inflight) + Cardinality(U)
    BY DEF CompUsed, U
  <2> HIDE DEF a, b, c
  <2> QED BY <2>3, <2>12, <2>14, <2>15, <2>16, RingSizesAssumption, SizesAssumption
<1> QED BY <1>1, SpecInv, PTL

-----------------------------------------------------------------------------
(* The frame cycle. *)

StageOf(p) == IF p[1] = "pend" THEN "wire" ELSE p[1]

\* The stages of the places, one by one.
LEMMA Stages ==
    /\ StageOf(<<"fill", 0>>) = "fill" /\ StageOf(<<"comp", 0>>) = "comp"
    /\ StageOf(<<"wire", 0>>) = "wire"
    /\ \A s \in Socks : /\ StageOf(<<"rx", s>>) = "rx" /\ StageOf(<<"tx", s>>) = "tx"
                        /\ StageOf(<<"pend", s>>) = "wire"
BY DEF StageOf

\* The owner of a frame is the stage of its place.
LEMMA OwnerStage ==
    OwnInv => \A p \in Places : \A f \in Held[p] : f \in Frames /\ Owner[f] = StageOf(p)
<1> SUFFICES ASSUME OwnInv, NEW p \in Places, NEW f \in Held[p]
             PROVE  f \in Frames /\ Owner[f] = StageOf(p)
  OBVIOUS
<1>1. f \in Frames /\ \A q \in Places : f \in Held[q] => q = p
  BY DEF OwnInv, Partition
<1>2. /\ f \in FillHeld <=> p = <<"fill", 0>>
      /\ f \in CompHeld <=> p = <<"comp", 0>>
      /\ f \in inflight <=> p = <<"wire", 0>>
  BY <1>1, HeldAt, PlacesAre
<1>3. \A s \in Socks : /\ f \in RxHeld(s) <=> p = <<"rx", s>>
                       /\ f \in TxHeld(s) <=> p = <<"tx", s>>
                       /\ f \in pend[s] <=> p = <<"pend", s>>
  <2> TAKE s \in Socks
  <2>1. /\ Held[<<"rx", s>>] = RxHeld(s) /\ Held[<<"tx", s>>] = TxHeld(s) /\ Held[<<"pend", s>>] = pend[s]
        /\ <<"rx", s>> \in Places /\ <<"tx", s>> \in Places /\ <<"pend", s>> \in Places
    BY HeldAt, PlacesAre
  <2> QED BY <1>1, <2>1
<1> DEFINE inRx == \E s \in Socks : f \in RxHeld(s)
           inTx == \E s \in Socks : f \in TxHeld(s)
           inPend == \E s \in Socks : f \in pend[s]
<1>4. Owner[f] = CASE f \in FillHeld -> "fill"
                   [] inRx -> "rx"
                   [] inTx -> "tx"
                   [] f \in inflight \/ inPend -> "wire"
                   [] f \in CompHeld -> "comp"
                   [] OTHER -> "lost"
  BY <1>1 DEF Owner
<1>5. CASE p = <<"fill", 0>> \/ p = <<"comp", 0>> \/ p = <<"wire", 0>>
  <2>1. ~inRx /\ ~inTx /\ ~inPend
    BY <1>3, <1>5
  <2> HIDE DEF inRx, inTx, inPend
  <2>2. CASE p = <<"fill", 0>>
    <3>1. f \in FillHeld /\ f \notin inflight /\ f \notin CompHeld /\ StageOf(p) = "fill"
      BY <1>2, <2>2, Stages
    <3> QED BY <1>1, <1>4, <2>1, <3>1
  <2>3. CASE p = <<"comp", 0>>
    <3>1. f \notin FillHeld /\ f \notin inflight /\ f \in CompHeld /\ StageOf(p) = "comp"
      BY <1>2, <2>3, Stages
    <3> QED BY <1>1, <1>4, <2>1, <3>1
  <2>4. CASE p = <<"wire", 0>>
    <3>1. f \notin FillHeld /\ f \in inflight /\ f \notin CompHeld /\ StageOf(p) = "wire"
      BY <1>2, <2>4, Stages
    <3> QED BY <1>1, <1>4, <2>1, <3>1
  <2> QED BY <1>5, <2>2, <2>3, <2>4
<1>6. ASSUME NEW s \in Socks, p = <<"rx", s>> \/ p = <<"tx", s>> \/ p = <<"pend", s>>
      PROVE  Owner[f] = StageOf(p)
  <2>1. f \notin FillHeld /\ f \notin inflight /\ f \notin CompHeld
    BY <1>2, <1>6
  <2>2. CASE p = <<"rx", s>>
    <3>1. inRx /\ ~inTx /\ ~inPend /\ StageOf(p) = "rx"
      BY <1>3, <2>2, Stages
    <3> HIDE DEF inRx, inTx, inPend
    <3> QED BY <1>4, <2>1, <3>1
  <2>3. CASE p = <<"tx", s>>
    <3>1. ~inRx /\ inTx /\ ~inPend /\ StageOf(p) = "tx"
      BY <1>3, <2>3, Stages
    <3> HIDE DEF inRx, inTx, inPend
    <3> QED BY <1>4, <2>1, <3>1
  <2>4. CASE p = <<"pend", s>>
    <3>1. ~inRx /\ ~inTx /\ inPend /\ StageOf(p) = "wire"
      BY <1>3, <2>4, Stages
    <3> HIDE DEF inRx, inTx, inPend
    <3> QED BY <1>4, <2>1, <3>1
  <2> QED BY <1>6, <2>2, <2>3, <2>4
<1> QED BY <1>1, <1>5, <1>6, PlacesAre

LEMMA OwnerStageNext ==
    OwnInv' => \A p \in Places : \A f \in Held'[p] : f \in Frames /\ Owner'[f] = StageOf(p)
<1>1. (OwnInv => \A p \in Places : \A f \in Held[p] : f \in Frames /\ Owner[f] = StageOf(p))'
  BY OwnerStage, PTL
<1> QED BY <1>1

\* The frames X go from stage g to stage h, the others stay.
HandsOn(X, g, h) ==
    /\ X \in SUBSET Frames
    /\ <<g, h>> \in {<<"fill", "rx">>, <<"rx", "tx">>, <<"tx", "wire">>, <<"wire", "comp">>, <<"comp", "fill">>}
    /\ \A p \in Places : \A f \in Held[p] : f \in X => StageOf(p) = g
    /\ \A p \in Places : \A f \in Held'[p] :
         IF f \in X THEN StageOf(p) = h ELSE \E q \in Places : f \in Held[q] /\ StageOf(q) = StageOf(p)

LEMMA CycleStep ==
    ASSUME OwnInv, OwnInv', NEW X, NEW g, NEW h, HandsOn(X, g, h)
    PROVE  Cycle!Next
<1>1. \A f \in Frames : (\E p \in Places : f \in Held[p]) /\ (\E p \in Places : f \in Held'[p])
  BY DEF OwnInv, Partition
<1>2. ASSUME NEW f \in X PROVE Owner[f] = g
  BY <1>1, <1>2, OwnerStage DEF HandsOn
<1>3. ASSUME NEW f \in Frames PROVE Owner'[f] = IF f \in X THEN h ELSE Owner[f]
  <2>1. PICK p \in Places : f \in Held'[p]
    BY <1>1
  <2>2. Owner'[f] = StageOf(p)
    BY <2>1, OwnerStageNext
  <2>3. CASE f \in X
    BY <2>1, <2>2, <2>3 DEF HandsOn
  <2>4. CASE f \notin X
    <3>1. PICK q \in Places : f \in Held[q] /\ StageOf(q) = StageOf(p)
      BY <2>1, <2>4 DEF HandsOn
    <3> QED BY <2>2, <2>4, <3>1, OwnerStage
  <2> QED BY <2>3, <2>4
<1>4. Owner' = [f \in Frames |-> IF f \in X THEN h ELSE Owner[f]]
  <2>1. Owner' = [f \in Frames |-> Owner'[f]]
    BY DEF Owner
  <2> QED BY <1>3, <2>1
<1>5. Cycle!HandOver(X, g, h)
  BY <1>2, <1>4 DEF Cycle!HandOver
<1> QED BY <1>5 DEF HandsOn, Cycle!Next


LEMMA MoveCycle ==
    ASSUME OwnInv, OwnInv', NEW X \in SUBSET Frames, NEW a, NEW b, Moved(Places, Held, Held', X, a, b),
           <<StageOf(a), StageOf(b)>> \in
              {<<"fill", "rx">>, <<"rx", "tx">>, <<"tx", "wire">>, <<"wire", "comp">>, <<"comp", "fill">>}
    PROVE  Cycle!Next
<1>1. Partition(Places, Frames, Held)
  BY DEF OwnInv
<1>2. \A p \in Places : \A f \in Held[p] : f \in X => StageOf(p) = StageOf(a)
  BY <1>1 DEF Partition, Moved
<1>3. ASSUME NEW p \in Places, NEW f \in Held'[p]
      PROVE  IF f \in X THEN StageOf(p) = StageOf(b)
             ELSE \E q \in Places : f \in Held[q] /\ StageOf(q) = StageOf(p)
  BY <1>1, <1>3 DEF Partition, Moved
<1> DEFINE g == StageOf(a)
           h == StageOf(b)
<1>4. \A p \in Places : \A f \in Held[p] : f \in X => StageOf(p) = g
  BY <1>2
<1>5. \A p \in Places : \A f \in Held'[p] :
         IF f \in X THEN StageOf(p) = h ELSE \E q \in Places : f \in Held[q] /\ StageOf(q) = StageOf(p)
  BY <1>3
<1>6. <<g, h>> \in
         {<<"fill", "rx">>, <<"rx", "tx">>, <<"tx", "wire">>, <<"wire", "comp">>, <<"comp", "fill">>}
  OBVIOUS
<1>7. HandsOn(X, g, h)
  BY ONLY <1>4, <1>5, <1>6, X \in SUBSET Frames DEF HandsOn
<1> QED BY <1>7, CycleStep

\* Every step hands a batch of frames on or leaves all of them where they are.
LEMMA CycleNext == Inv /\ Inv' /\ [Next]_vars => [Cycle!Next]_Owner
<1> SUFFICES ASSUME Inv, Inv', [Next]_vars PROVE Cycle!Next
  OBVIOUS
<1>0. OwnInv /\ OwnInv'
  BY DEF Inv
<1>1. CASE QuietNext
  <2>1. SameHeld
    BY <1>1, QuietNextOwn
  <2> DEFINE X == {}
             g == "fill"
             h == "rx"
  <2>2. \A p \in Places : \A f \in Held[p] : f \in X => StageOf(p) = g
    OBVIOUS
  <2>3. \A p \in Places : \A f \in Held'[p] :
           IF f \in X THEN StageOf(p) = h ELSE \E q \in Places : f \in Held[q] /\ StageOf(q) = StageOf(p)
    BY <2>1 DEF SameHeld
  <2>4. X \in SUBSET Frames /\ <<g, h>> \in
         {<<"fill", "rx">>, <<"rx", "tx">>, <<"tx", "wire">>, <<"wire", "comp">>, <<"comp", "fill">>}
    OBVIOUS
  <2>5. HandsOn(X, g, h)
    BY ONLY <2>2, <2>3, <2>4 DEF HandsOn
  <2> QED BY <1>0, <2>5, CycleStep
<1>2. CASE RefillSubmit
  BY <1>0, <1>2, RefillSubmitMoves, MoveCycle, Stages
<1>3. CASE SubmitTx
  <2>1. cur \in Socks
    BY DEF Inv, CursorInv, TypeOK
  <2> QED BY <1>0, <1>3, <2>1, SubmitTxMoves, MoveCycle, Stages
<1>4. ASSUME NEW c \in Socks, KernelRx(c), UNCHANGED <<userVars, benchmarkDone>> PROVE Cycle!Next
  BY <1>0, <1>4, KernelRxMoves, MoveCycle, Stages
<1>5. ASSUME NEW f \in Frames, KernelComplete(f), UNCHANGED <<userVars, benchmarkDone>> PROVE Cycle!Next
  BY <1>0, <1>5, CompleteMoves, MoveCycle, Stages
<1>6. ASSUME NEW c \in Socks, KernelTx(c), UNCHANGED <<userVars, benchmarkDone>> PROVE Cycle!Next
  <2>1. PICK f \in Frames :
          /\ f \in TxHeld(c)
          /\ \A p \in Places : \A g \in Held'[p] :
               IF g = f THEN p = <<"wire", 0>> \/ p = <<"pend", c>>
               ELSE g \in Held[p] \/ (p = <<"wire", 0>> /\ g \in Held[<<"pend", c>>])
    BY <1>6, KernelTxMoves
  <2>2. <<"tx", c>> \in Places /\ <<"pend", c>> \in Places /\ Held[<<"tx", c>>] = TxHeld(c)
    BY <1>6, PlacesAre, HeldAt
  <2>3. \A p \in Places : f \in Held[p] => p = <<"tx", c>>
    BY <1>0, <2>1, <2>2 DEF OwnInv, Partition
  <2>4. /\ StageOf(<<"wire", 0>>) = "wire" /\ StageOf(<<"pend", c>>) = "wire" /\ StageOf(<<"tx", c>>) = "tx"
    BY <1>6, Stages
  <2> DEFINE X == {f}
             y == "tx"
             z == "wire"
  <2>5. \A p \in Places : \A g \in Held[p] : g \in X => StageOf(p) = y
    BY <2>3, <2>4
  <2>6. ASSUME NEW p \in Places, NEW g \in Held'[p]
        PROVE  IF g \in X THEN StageOf(p) = z
               ELSE \E q \in Places : g \in Held[q] /\ StageOf(q) = StageOf(p)
    BY <2>1, <2>2, <2>4, <2>6
  <2>7. X \in SUBSET Frames /\ <<y, z>> \in
         {<<"fill", "rx">>, <<"rx", "tx">>, <<"tx", "wire">>, <<"wire", "comp">>, <<"comp", "fill">>}
    BY <2>1
  <2>8. \A p \in Places : \A g \in Held'[p] :
           IF g \in X THEN StageOf(p) = z ELSE \E q \in Places : g \in Held[q] /\ StageOf(q) = StageOf(p)
    BY <2>6
  <2>9. HandsOn(X, y, z)
    BY ONLY <2>5, <2>7, <2>8 DEF HandsOn
  <2> QED BY <1>0, <2>9, CycleStep
<1> QED BY <1>1, <1>2, <1>3, <1>4, <1>5, <1>6, NextSteps

\* l2fwd implements the frame cycle, however many sockets, frames and ring slots
\* there are: a frame that the fill ring gave to the kernel is received into,
\* queued, sent and completed, in this order, before it is in the fill ring
\* again.  The initial states map to initial states and every step hands a
\* batch of frames to the next stage or none.
THEOREM CycleImplemented ==
    ASSUME FragsUnshared PROVE Spec => ImplementsCycle
<1>1. Init => Cycle!Init
  <2> SUFFICES ASSUME Init PROVE Cycle!Init
    OBVIOUS
  <2>1. OwnInv /\ <<"fill", 0>> \in Places /\ Held[<<"fill", 0>>] = Frames
    <3>1. fq = [i \in Frames |-> i]
      BY DEF Init, PopulatedFillRing
    <3> QED BY <3>1, InitOwn, HeldAt, PlacesAre DEF FillHeld, Range
  <2>2. \A f \in Frames : Owner[f] = "fill"
    BY <2>1, OwnerStage, Stages
  <2>3. Owner = [f \in Frames |-> Owner[f]]
    BY DEF Owner
  <2> QED BY <2>2, <2>3 DEF Cycle!Init
<1> QED BY <1>1, CycleNext, SpecInv, PTL DEF Spec, ImplementsCycle, Cycle!Spec


-----------------------------------------------------------------------------
(* Packets. *)

Judged(d) == d.act # "none" <=> Starts(d)

\* The live part of rx holds whole packets, what is left on tx ends with one,
\* and the frames a socket's kernel side has pending are the start of the first
\* packet on tx.
PacketsInStep(s) ==
    /\ WholePackets(LiveRx(s))
    /\ Chained(tx[s].q) /\ EndsWhole(tx[s].q)
    /\ tx[s].q # <<>> => (Starts(tx[s].q[1]) <=> pend[s] = {})
    /\ tx[s].q = <<>> => pend[s] = {}
    /\ \A i \in DOMAIN tx[s].q : Judged(tx[s].q[i])
    /\ \A i \in DOMAIN tx[s].resv : Judged(tx[s].resv[i])

\* nb_frags counts the reserved descriptors after the last end of a packet.
OpenFrags(v, n) ==
    /\ Len(v) > n => v[Len(v) - n].eop
    /\ \A i \in DOMAIN v : i > Len(v) - n => ~v[i].eop

PacketInv ==
    /\ \A s \in Socks : PacketsInStep(s)
    /\ OpenFrags(tx[cur].resv, nbFrags)

\* What l2fwd reserved on tx is the start of what is live on rx.
LEMMA CopiesChain ==
    ASSUME Inv, PacketInv, NEW s \in Socks
    PROVE  LET v == tx[s].resv
               l == LiveRx(s)
           IN  /\ v \in Seq(Desc) /\ l \in Seq(Desc) /\ Len(v) <= Len(l)
               /\ \A i \in 1..Len(v) : CopyOf(v[i], l[i])
               /\ Chained(v) /\ StartsWhole(v) /\ WholePackets(l)
<1> DEFINE v == tx[s].resv
           q == rx[s].q
           h == HandedOn(s)
           l == LiveRx(s)
<1>1. /\ v \in Seq(Desc) /\ q \in Seq(Desc) /\ h \in Nat /\ h + Len(v) <= Len(q) /\ h <= Len(q)
      /\ l = DropN(q, h) /\ l \in Seq(Desc)
  BY LiveFacts, CursorFacts DEF Inv
<1>2. CopiesInStep(s) /\ WholePackets(l)
  BY DEF Inv, OwnInv, PacketInv, PacketsInStep
<1>3. \A i \in DOMAIN v : CopyOf(v[i], q[h + i])
  BY <1>2 DEF CopiesInStep
<1> HIDE DEF v, q, h, l
<1>4. Len(l) = Len(q) - h /\ \A i \in 1..(Len(q) - h) : l[i] = q[h + i]
  BY <1>1, DropNProps
<1>5. Len(v) \in Nat /\ Len(q) \in Nat /\ Len(v) <= Len(l)
  BY <1>1, <1>4
<1>6. \A i \in 1..Len(v) : CopyOf(v[i], l[i])
  <2>1. ASSUME NEW i \in 1..Len(v) PROVE CopyOf(v[i], l[i])
    <3>1. i \in DOMAIN v /\ i \in 1..(Len(q) - h)
      BY <1>1, <1>5, <2>1
    <3> QED BY <1>3, <1>4, <3>1
  <2> QED BY <2>1
<1>7. Chained(v)
  <2>1. ASSUME NEW i \in 1..(Len(v) - 1) PROVE Follows(v[i], v[i + 1])
    <3>1. i \in 1..Len(v) /\ i + 1 \in 1..Len(v) /\ i \in 1..(Len(l) - 1)
      BY <1>1, <1>4, <1>5, <2>1
    <3>2. Follows(l[i], l[i + 1])
      BY <1>2, <3>1 DEF WholePackets, Chained
    <3> QED BY <1>6, <3>1, <3>2 DEF Follows, CopyOf, Starts
  <2> QED BY <2>1 DEF Chained
<1>8. StartsWhole(v)
  <2> SUFFICES ASSUME v # <<>> PROVE Starts(v[1])
    BY DEF StartsWhole
  <2>1. Len(v) > 0
    BY <1>1
  <2>2. 1 \in 1..Len(v) /\ Len(l) > 0
    BY <1>1, <1>4, <1>5, <2>1
  <2>3. l # <<>>
    BY <2>2
  <2> QED BY <1>2, <1>6, <2>2, <2>3 DEF WholePackets, StartsWhole, CopyOf, Starts
<1> QED BY <1>1, <1>2, <1>5, <1>6, <1>7, <1>8 DEF v, l

LEMMA SamePackets ==
    ASSUME Inv, PacketInv, pend' = pend, cur' \in Socks, nbFrags' = nbFrags,
           \A s \in Socks : LiveRx(s)' = LiveRx(s) /\ tx'[s] = tx[s]
    PROVE  PacketInv'
<1>1. \A s \in Socks : PacketsInStep(s)'
  BY DEF PacketInv, PacketsInStep
<1>2. OpenFrags(tx[cur'].resv, nbFrags)
  <2>1. CASE cur' = cur
    BY <2>1 DEF PacketInv
  <2>2. CASE cur' # cur
    <3>1. tx[cur'].resv \in Seq(Desc) /\ Len(tx[cur'].resv) = 0 /\ nbFrags \in Nat
      BY <2>2, CursorFacts DEF Inv, CursorInv, CursorsInStep, SockInStep
    <3>2. DOMAIN tx[cur'].resv = {} /\ ~(0 > nbFrags)
      BY <3>1
    <3> QED BY <3>1, <3>2 DEF OpenFrags
  <2> QED BY <2>1, <2>2
<1> QED BY <1>1, <1>2 DEF PacketInv, OpenFrags

LEMMA InitPackets == Init => PacketInv
<1> SUFFICES ASSUME Init PROVE PacketInv
  OBVIOUS
<1>1. ASSUME NEW s \in Socks
      PROVE  LiveRx(s) = <<>> /\ tx[s].q = <<>> /\ tx[s].resv = <<>> /\ pend[s] = {}
  <2>1. rx[s].q = <<>> /\ HandedOn(s) = 0
    BY DEF Init, InitKernel, EmptyCons, HandedOn
  <2> QED BY <2>1 DEF Init, InitKernel, EmptyProd, LiveRx, DropN
<1>2. WholePackets(<<>>) /\ Chained(<<>>) /\ EndsWhole(<<>>)
  BY DEF WholePackets, Chained, StartsWhole, EndsWhole
<1>3. cur \in Socks /\ nbFrags = 0
  BY SizesAssumption DEF Init, Socks
<1> QED BY <1>1, <1>2, <1>3 DEF PacketInv, PacketsInStep, OpenFrags

\* The steps that leave the packets as they are.
LEMMA QuietPackets ==
    ASSUME Inv, Inv', PacketInv,
           \/ QuietNext /\ ~CopyDesc
           \/ RefillSubmit
           \/ \E f \in Frames : KernelComplete(f) /\ UNCHANGED <<userVars, benchmarkDone>>
    PROVE  PacketInv'
<1>1. cur' \in Socks
  BY DEF Inv, CursorInv, TypeOK
<1>2. CASE QuietNext /\ ~CopyDesc
  <2>1. SameHeld
    BY <1>2, QuietNextOwn
  <2>2. tx' = tx /\ nbFrags' = nbFrags
    BY <1>2 DEF QuietNext, StartRound, CompleteTx, PeekCq, RefillRelease, PeekRx, ReserveTx,
         KickInReserve, ReleaseRx, KernelRxSleep, KernelKickEnd, BenchmarkDone, vars, kernelVars, userVars
  <2> QED BY <1>1, <2>1, <2>2, SamePackets DEF SameHeld
<1>3. CASE RefillSubmit
  <2>1. UNCHANGED <<rx, tx, pend, nbFrags>> /\ \A s : HandedOn(s) = 0 /\ HandedOn(s)' = 0
    BY <1>3 DEF RefillSubmit, HandedOn
  <2>2. \A s \in Socks : LiveRx(s)' = LiveRx(s)
    BY <2>1 DEF LiveRx
  <2> QED BY <1>1, <2>1, <2>2, SamePackets
<1>4. ASSUME NEW f \in Frames, KernelComplete(f), UNCHANGED <<userVars, benchmarkDone>>
      PROVE  PacketInv'
  <2>1. UNCHANGED <<rx, tx, pend, nbFrags, pc, cur, fragsDone>>
    BY <1>4 DEF KernelComplete, userVars
  <2>2. \A s \in Socks : LiveRx(s)' = LiveRx(s)
    BY <2>1 DEF LiveRx, HandedOn
  <2> QED BY <1>1, <2>1, <2>2, SamePackets
<1> QED BY <1>2, <1>3, <1>4


\* A received packet comes whole to the end of rx.
LEMMA KernelRxPackets ==
    ASSUME Inv, PacketInv, NEW c \in Socks, KernelRx(c), UNCHANGED <<userVars, benchmarkDone>>
    PROVE  PacketInv'
<1>1. PICK n \in 1..MaxFrags :
        n <= Len(fq) /\ rx' = [rx EXCEPT ![c].q = @ \o Packet(fq, n)]
  BY DEF KernelRx
<1>2. UNCHANGED <<tx, pend, pc, cur, fragsDone, nbFrags>>
  BY DEF KernelRx, userVars
<1> DEFINE p == Packet(fq, n)
           q == rx[c].q
           h == HandedOn(c)
           l == DropN(q, h)
<1>3. p \in Seq(Desc) /\ WholePackets(p)
  <2>1. n \in Nat \ {0}
    BY SizesAssumption
  <2>2. fq \in Seq(Frames) /\ IsInjective(fq)
    BY DEF Inv, CursorInv, TypeOK, TypeOKKernel, OwnInv, RingsInjective
  <2> QED BY <1>1, <2>1, <2>2, PacketProps, PacketWhole
<1>4. rx'[c].q = q \o p /\ \A s \in Socks : s # c => rx'[s] = rx[s]
  BY <1>1 DEF Inv, CursorInv, TypeOK, TypeOKKernel, ConsRing
<1> HIDE DEF p
<1>5. \A s : HandedOn(s)' = HandedOn(s)
  BY <1>2 DEF HandedOn
<1>6. h \in Nat /\ h <= Len(q) /\ q \in Seq(Desc) /\ LiveRx(c) = l
  BY LiveFacts, CursorFacts DEF Inv
<1>7. LiveRx(c)' = DropN(q \o p, h)
  BY <1>4, <1>5 DEF LiveRx
<1>8. WholePackets(l)
  BY <1>6 DEF PacketInv, PacketsInStep
<1> HIDE DEF h, q
<1>9. DropN(q \o p, h) = l \o p /\ l \in Seq(Desc)
  BY <1>3, <1>6, DropConcat, DropNProps
<1> HIDE DEF l
<1>10. WholePackets(LiveRx(c)')
  BY <1>3, <1>7, <1>8, <1>9, ChainConcat DEF WholePackets
<1>11. ASSUME NEW s \in Socks PROVE PacketsInStep(s)'
  <2>1. WholePackets(LiveRx(s)')
    <3>1. CASE s = c
      BY <1>10, <3>1
    <3>2. CASE s # c
      <4>1. LiveRx(s)' = LiveRx(s)
        BY <1>4, <1>5, <3>2 DEF LiveRx
      <4> QED BY <4>1 DEF PacketInv, PacketsInStep
    <3> QED BY <3>1, <3>2
  <2> QED BY <1>2, <2>1 DEF PacketInv, PacketsInStep, WholePackets, Chained, StartsWhole, EndsWhole
<1> QED BY <1>2, <1>11 DEF PacketInv, OpenFrags

\* The kernel takes the first descriptor of a tx ring.
LEMMA KernelTxPackets ==
    ASSUME Inv, PacketInv, NEW c \in Socks, KernelTx(c), UNCHANGED <<userVars, benchmarkDone>>
    PROVE  PacketInv'
<1> DEFINE q == tx[c].q
<1>1. /\ q # <<>> /\ tx' = [tx EXCEPT ![c].q = Tail(@)]
      /\ UNCHANGED <<rx, pc, cur, fragsDone, nbFrags>>
  BY DEF KernelTx, userVars
<1>2. q \in Seq(Desc) /\ pend \in [Socks -> SUBSET Frames] /\ cur \in Socks
  BY CursorFacts DEF Inv, CursorInv, TypeOK, TypeOKKernel
<1>3. tx'[c].q = Tail(q) /\ \A s \in Socks : tx'[s].resv = tx[s].resv /\ (s # c => tx'[s] = tx[s])
  BY <1>1 DEF Inv, CursorInv, TypeOK, TypeOKKernel, ProdRing
<1>4. /\ \A s \in Socks : s # c => pend'[s] = pend[s]
      /\ q[1].eop => pend'[c] = {}
      /\ ~q[1].eop => pend'[c] # {}
  <2>1. Head(q) = q[1]
    BY <1>1, <1>2, TailDrop
  <2> QED BY <1>2, <2>1 DEF KernelTx
<1>5. \A s \in Socks : LiveRx(s)' = LiveRx(s)
  BY <1>1 DEF LiveRx, HandedOn
<1>6. ASSUME NEW s \in Socks, s # c PROVE PacketsInStep(s)'
  BY <1>3, <1>4, <1>5, <1>6 DEF PacketInv, PacketsInStep
<1>7. PacketsInStep(c)'
  <2>1. Chained(q) /\ EndsWhole(q) /\ \A i \in DOMAIN q : Judged(q[i])
    BY DEF PacketInv, PacketsInStep
  <2> HIDE DEF q
  <2>2. /\ Chained(Tail(q)) /\ EndsWhole(Tail(q))
        /\ Tail(q) # <<>> => (Starts(Tail(q)[1]) <=> q[1].eop)
        /\ Tail(q) = <<>> => q[1].eop
    BY <1>1, <1>2, <2>1, ChainTail
  <2>3. \A i \in DOMAIN Tail(q) : Judged(Tail(q)[i])
    <3>1. \A i \in DOMAIN Tail(q) : i + 1 \in DOMAIN q /\ Tail(q)[i] = q[i + 1]
      BY <1>1, <1>2
    <3> QED BY <2>1, <3>1
  <2> HIDE DEF Chained, EndsWhole, StartsWhole, Starts, Judged, WholePackets
  <2>4. /\ WholePackets(LiveRx(c)') /\ Chained(tx'[c].q) /\ EndsWhole(tx'[c].q)
        /\ \A i \in DOMAIN tx'[c].q : Judged(tx'[c].q[i])
        /\ \A i \in DOMAIN tx'[c].resv : Judged(tx'[c].resv[i])
    BY <1>3, <1>5, <2>2, <2>3 DEF PacketInv, PacketsInStep
  <2>5. /\ tx'[c].q # <<>> => (Starts(tx'[c].q[1]) <=> pend'[c] = {})
        /\ tx'[c].q = <<>> => pend'[c] = {}
    BY <1>3, <1>4, <2>2
  <2> QED BY <2>4, <2>5 DEF PacketsInStep, WholePackets, Chained, StartsWhole, EndsWhole, Starts, Judged
<1>8. OpenFrags(tx'[cur].resv, nbFrags)
  BY <1>2, <1>3 DEF PacketInv
<1> QED BY <1>1, <1>6, <1>7, <1>8 DEF PacketInv, OpenFrags


\* One turn of the descriptor loop: the descriptor that finds nb_frags = 0 is
\* the first of its packet.
LEMMA CopyDescPackets ==
    ASSUME Inv, PacketInv, CopyDesc
    PROVE  PacketInv'
<1>0. CursorInv
  BY DEF Inv
<1>1. PICK d \in Desc, a \in Actions \cup {"none"} :
            /\ d = rx[cur].q[rx[cur].peeked - left + 1]
            /\ rx[cur].peeked - left + 1 \in DOMAIN rx[cur].q
            /\ tx' = [tx EXCEPT ![cur] = WriteSlot(@, [d EXCEPT !.act = a])]
            /\ nbFrags' = IF d.eop THEN 0 ELSE nbFrags + 1
            /\ a # "none" <=> nbFrags = 0
  BY <1>0, CopyDescProps
<1> DEFINE e == [d EXCEPT !.act = a]
           v == tx[cur].resv
           l == LiveRx(cur)
           k == Len(v)
           m == nbFrags
<1>2. /\ pc = "copy" /\ pc' \notin {"release", "rxrelease"} /\ UNCHANGED <<rx, pend, cur>>
      /\ \A s : HandedOn(s) = 0 /\ HandedOn(s)' = 0
  BY DEF CopyDesc, HandedOn
<1>3. CopyOf(e, d) /\ e \in Desc /\ e.act = a
  BY <1>1, VerdictSet
<1>4. cur \in Socks /\ m \in Nat /\ k \in Nat /\ m <= k /\ rx[cur].peeked - left + 1 = k + 1
  <2>1. /\ rx[cur].peeked = Len(v) + HandedOn(cur) + left /\ nbFrags + fragsDone = Len(v) + HandedOn(cur)
        /\ Len(v) \in Nat /\ left \in Nat /\ nbFrags \in Nat /\ fragsDone \in Nat /\ cur \in Socks
    BY <1>0, CursorFacts DEF CursorInv, CursorsInStep, FragsInStep
  <2>2. HandedOn(cur) = 0
    BY <1>2
  <2>3. \A p, x, y, f, g \in Nat : p = x + 0 + y /\ f + g = x + 0 => f <= x /\ p - y + 1 = x + 1
    OBVIOUS
  <2>4. rx[cur].peeked \in Nat
    BY <2>1, <2>2
  <2> QED BY ONLY <2>1, <2>2, <2>3, <2>4
<1>5. l = rx[cur].q /\ l \in Seq(Desc)
  <2>1. l = DropN(rx[cur].q, 0) /\ rx[cur].q \in Seq(Desc)
    BY <1>0, <1>2, <1>4, LiveFacts, CursorFacts
  <2> QED BY <2>1, DropNone
<1>6. d = l[k + 1] /\ k + 1 \in 1..Len(l)
  <2>1. d = rx[cur].q[k + 1] /\ k + 1 \in DOMAIN rx[cur].q
    BY ONLY <1>1, <1>4
  <2>2. k + 1 \in DOMAIN l /\ d = l[k + 1]
    BY ONLY <1>5, <2>1
  <2> QED BY ONLY <1>5, <2>2
<1>7. /\ v \in Seq(Desc) /\ \A i \in 1..k : CopyOf(v[i], l[i])
      /\ WholePackets(l) /\ OpenFrags(v, m)
  BY <1>4, CopiesChain, SMTT(30) DEF PacketInv
<1>8. /\ tx'[cur].q = tx[cur].q /\ tx'[cur].resv = Append(v, e)
      /\ \A s \in Socks : s # cur => tx'[s] = tx[s]
  <2>1. tx[cur] \in ProdRing(Desc)
    BY <1>0, CursorFacts
  <2> HIDE DEF e
  <2>2. LET x == WriteSlot(tx[cur], e) IN x.q = tx[cur].q /\ x.resv = Append(v, e)
    BY <1>3, <2>1, WriteSlotProps
  <2> QED BY <1>1, <1>4, <2>2 DEF e, Inv, CursorInv, TypeOK, TypeOKKernel
<1>9. nbFrags' = IF d.eop THEN 0 ELSE m + 1
  BY <1>1
<1>10. a # "none" <=> m = 0
  BY <1>1
<1> HIDE DEF e, v, l, k, m
<1>11. Starts(d) <=> m = 0
  <2>1. CASE k = 0
    <3>1. l # <<>> /\ m = 0 /\ k + 1 = 1
      BY <1>4, <1>5, <1>6, <2>1
    <3> QED BY <1>6, <1>7, <3>1 DEF WholePackets, StartsWhole
  <2>2. CASE k > 0
    <3>1. k \in 1..(Len(l) - 1) /\ k \in 1..k
      BY <1>4, <1>5, <1>6, <2>2
    <3>2. Starts(l[k + 1]) <=> v[k].eop
      BY <1>7, <3>1 DEF WholePackets, Chained, Follows, CopyOf
    <3>3. v[k].eop <=> m = 0
      <4>1. k = Len(v) /\ k \in DOMAIN v
        BY <1>7, <3>1 DEF k
      <4>2. CASE m = 0
        <5>1. Len(v) > m /\ Len(v) - m = k
          BY <1>4, <2>2, <4>1, <4>2
        <5> QED BY <1>7, <4>2, <5>1 DEF OpenFrags
      <4>3. CASE m # 0
        <5>1. k > Len(v) - m
          BY <1>4, <4>1, <4>3
        <5> QED BY <1>7, <4>1, <4>3, <5>1 DEF OpenFrags
      <4> QED BY <4>2, <4>3
    <3> QED BY <1>6, <3>2, <3>3
  <2> QED BY <1>4, <2>1, <2>2
<1>12. Judged(e)
  BY <1>3, <1>10, <1>11 DEF Judged, CopyOf, Starts
<1>13. DOMAIN Append(v, e) = 1..(k + 1) /\ Len(Append(v, e)) = k + 1
       /\ Append(v, e)[k + 1] = e /\ DOMAIN v = 1..k /\ \A i \in 1..k : Append(v, e)[i] = v[i]
  BY <1>3, <1>7 DEF k
<1>14. OpenFrags(Append(v, e), nbFrags')
  <2>1. CASE d.eop
    <3>1. nbFrags' = 0 /\ e.eop
      BY <1>3, <1>9, <2>1 DEF CopyOf
    <3> QED BY <1>4, <1>13, <3>1 DEF OpenFrags
  <2>2. CASE ~d.eop
    <3>1. nbFrags' = m + 1 /\ ~e.eop
      BY <1>3, <1>9, <2>2 DEF CopyOf
    <3>2. k + 1 - (m + 1) = k - m /\ (k + 1 > m + 1 <=> k > m) /\ (k > m => k - m \in 1..k)
      BY <1>4
    <3>3. k > m => v[k - m].eop
      BY <1>7 DEF OpenFrags, k
    <3>4. \A i \in 1..k : i > k - m => ~v[i].eop
      BY <1>7, <1>13 DEF OpenFrags, k
    <3> DEFINE w == Append(v, e)
    <3>6. Len(w) = k + 1 /\ DOMAIN w = 1..(k + 1) /\ w[k + 1] = e /\ \A i \in 1..k : w[i] = v[i]
      BY <1>13
    <3> HIDE DEF w
    <3>7. k + 1 > m + 1 => w[k + 1 - (m + 1)].eop
      BY <3>2, <3>3, <3>6
    <3>8. \A i \in 1..(k + 1) : i > k - m => ~w[i].eop
      <4> SUFFICES ASSUME NEW i \in 1..(k + 1), i > k - m PROVE ~w[i].eop
        OBVIOUS
      <4>1. CASE i \in 1..k
        BY <3>4, <3>6, <4>1
      <4>2. CASE i = k + 1
        BY <3>1, <3>6, <4>2
      <4>3. i \in 1..k \/ i = k + 1
        BY <1>4
      <4> QED BY <4>1, <4>2, <4>3
    <3>9. OpenFrags(w, m + 1)
      <4>0. Len(w) - (m + 1) = k - m /\ k + 1 - (m + 1) = k - m /\ (Len(w) > m + 1 <=> k + 1 > m + 1)
        BY ONLY <1>4, <3>6
      <4>1. Len(w) > m + 1 => w[Len(w) - (m + 1)].eop
        BY ONLY <3>7, <4>0
      <4>2. \A i \in DOMAIN w : i > Len(w) - (m + 1) => ~w[i].eop
        BY ONLY <3>6, <3>8, <4>0
      <4> QED BY ONLY <4>1, <4>2 DEF OpenFrags
    <3> QED BY <3>1, <3>9 DEF w
  <2> QED BY <2>1, <2>2
<1>15. \A s \in Socks : LiveRx(s)' = LiveRx(s)
  BY <1>2 DEF LiveRx
<1>16. ASSUME NEW s \in Socks PROVE PacketsInStep(s)'
  <2>1. PacketsInStep(s)
    BY DEF PacketInv
  <2>2. CASE s # cur
    BY <1>2, <1>8, <1>15, <2>1, <2>2 DEF PacketsInStep
  <2>3. CASE s = cur
    <3>1. \A i \in DOMAIN v : Judged(v[i])
      BY <2>1, <2>3 DEF PacketsInStep, v
    <3>2. \A i \in DOMAIN tx'[s].resv : Judged(tx'[s].resv[i])
      <4>1. \A i \in 1..(k + 1) : i \in 1..k \/ i = k + 1
        BY <1>4
      <4> QED BY <1>8, <1>12, <1>13, <2>3, <3>1, <4>1
    <3>3. tx'[s].q = tx[s].q
      BY <1>8, <2>3
    <3> QED BY <1>2, <1>15, <2>1, <3>2, <3>3 DEF PacketsInStep
  <2> QED BY <2>2, <2>3
<1> QED BY <1>2, <1>8, <1>14, <1>16 DEF PacketInv

\* What is submitted to tx, and taken from the live part of rx, is whole packets.
LEMMA SubmitTxPackets ==
    ASSUME Inv, PacketInv, SubmitTx
    PROVE  PacketInv'
<1> DEFINE t == tx[cur].q
           v == tx[cur].resv
           l == LiveRx(cur)
           n == fragsDone
           m == nbFrags
           r == FirstN(v, n)
<1>1. /\ pc = "submit" /\ pc' = "rxrelease" /\ tx' = [tx EXCEPT ![cur] = Submit(@, n)]
      /\ UNCHANGED <<rx, pend, cur, fragsDone, nbFrags>>
  BY DEF SubmitTx
<1>2. cur \in Socks /\ t \in Seq(Desc) /\ tx[cur] \in ProdRing(Desc) /\ n \in Nat /\ m \in Nat
  BY CursorFacts DEF Inv
<1>3. /\ \A s \in Socks : HandedOn(s) = 0
      /\ HandedOn(cur)' = n /\ \A s \in Socks : s # cur => HandedOn(s)' = 0
  BY <1>1 DEF HandedOn
<1>4. /\ v \in Seq(Desc) /\ l \in Seq(Desc) /\ Len(v) <= Len(l)
      /\ \A i \in 1..Len(v) : CopyOf(v[i], l[i])
      /\ Chained(v) /\ StartsWhole(v) /\ WholePackets(l) /\ OpenFrags(v, m)
  BY <1>2, CopiesChain DEF PacketInv
<1>5. m + n = Len(v) /\ Len(v) \in Nat /\ Len(l) \in Nat /\ n <= Len(v) /\ n <= Len(l)
  <2>1. m + n = Len(v) /\ Len(v) \in Nat /\ Len(l) \in Nat
    BY <1>2, <1>3, <1>4, CursorFacts DEF Inv, CursorInv, CursorsInStep, FragsInStep
  <2> QED BY <1>2, <1>4, <2>1
<1>6. tx'[cur].q = t \o r /\ tx'[cur].resv = DropN(v, n)
      /\ \A s \in Socks : s # cur => tx'[s] = tx[s]
  <2>1. LET w == Submit(tx[cur], n) IN w.q = t \o r /\ w.resv = DropN(v, n)
    BY <1>2, <1>5, SubmitProps
  <2> QED BY <1>1, <1>2, <2>1 DEF Inv, CursorInv, TypeOK, TypeOKKernel
<1>7. LiveRx(cur)' = DropN(l, n)
  <2>1. l = DropN(rx[cur].q, 0) /\ rx[cur].q \in Seq(Desc)
    BY <1>2, <1>3, LiveFacts, CursorFacts DEF Inv
  <2>2. LiveRx(cur)' = DropN(rx[cur].q, n)
    BY <1>1, <1>3 DEF LiveRx
  <2> HIDE DEF l
  <2> QED BY <2>1, <2>2, DropNone
<1>8. /\ PacketsInStep(cur) /\ Chained(t) /\ EndsWhole(t)
      /\ t # <<>> => (Starts(t[1]) <=> pend[cur] = {})
      /\ t = <<>> => pend[cur] = {}
      /\ \A i \in DOMAIN t : Judged(t[i])
      /\ \A i \in DOMAIN v : Judged(v[i])
  BY <1>2 DEF PacketInv, PacketsInStep
<1> HIDE DEF t, v, l, n, m
<1>9. n > 0 => v[n].eop /\ l[n].eop
  <2> SUFFICES ASSUME n > 0 PROVE v[n].eop /\ l[n].eop
    OBVIOUS
  <2>1. Len(v) > m /\ Len(v) - m = n /\ n \in 1..Len(v)
    BY <1>2, <1>5
  <2> QED BY <1>4, <2>1 DEF OpenFrags, CopyOf
<1>10. WholePackets(r) /\ r \in Seq(Desc) /\ Len(r) = n /\ \A i \in 1..n : r[i] = v[i]
  BY <1>2, <1>4, <1>5, <1>9, ChainFirst, FirstNProps
<1>11. WholePackets(DropN(l, n))
  BY <1>2, <1>4, <1>5, <1>9, ChainDrop
<1> HIDE DEF r
<1>12. /\ Chained(t \o r) /\ EndsWhole(t \o r)
       /\ t # <<>> => (t \o r)[1] = t[1]
       /\ t = <<>> => t \o r = r
  BY <1>2, <1>8, <1>10, ChainConcat
<1>13. /\ t \o r # <<>> => (Starts((t \o r)[1]) <=> pend[cur] = {})
       /\ t \o r = <<>> => pend[cur] = {}
  <2>1. CASE t = <<>>
    BY <1>8, <1>10, <1>12, <2>1 DEF WholePackets, StartsWhole
  <2>2. CASE t # <<>>
    <3>1. t \o r # <<>>
      BY <1>2, <1>10, <2>2
    <3> QED BY <1>8, <1>12, <2>2, <3>1
  <2> QED BY <2>1, <2>2
<1>14. \A i \in DOMAIN (t \o r) : Judged((t \o r)[i])
  <2>1. \A i \in DOMAIN r : Judged(r[i])
    <3>1. \A i \in DOMAIN r : i \in 1..n /\ i \in DOMAIN v
      BY <1>2, <1>4, <1>5, <1>10
    <3> QED BY <1>8, <1>10, <3>1
  <2> QED BY <1>2, <1>8, <1>10, <2>1, ConcatEntries
<1>15. /\ DropN(v, n) \in Seq(Desc) /\ Len(DropN(v, n)) = m
       /\ \A i \in DOMAIN DropN(v, n) : DropN(v, n)[i] = v[n + i] /\ n + i \in DOMAIN v /\ n + i > Len(v) - m
  <2>1. /\ DropN(v, n) \in Seq(Desc) /\ Len(DropN(v, n)) = Len(v) - n
        /\ \A i \in 1..(Len(v) - n) : DropN(v, n)[i] = v[n + i]
    BY <1>2, <1>4, <1>5, DropNProps
  <2>2. Len(v) - n = m /\ Len(v) - m = n
    BY <1>2, <1>5
  <2> DEFINE w == DropN(v, n)
  <2> HIDE DEF w
  <2>3. w \in Seq(Desc) /\ Len(w) = m /\ \A i \in 1..m : w[i] = v[n + i]
    BY <2>1, <2>2 DEF w
  <2>4. ASSUME NEW i \in DOMAIN w PROVE w[i] = v[n + i] /\ n + i \in DOMAIN v /\ n + i > Len(v) - m
    <3>1. i \in 1..m /\ DOMAIN v = 1..Len(v)
      BY <1>4, <2>3, <2>4
    <3>2. \A x, y, z, j \in Nat : x + y = z /\ j \in 1..x => y + j \in 1..z /\ y + j > z - x
      OBVIOUS
    <3>3. n + i \in 1..Len(v) /\ n + i > Len(v) - m
      BY ONLY <1>2, <1>5, <3>1, <3>2
    <3> QED BY <2>3, <3>1, <3>3
  <2> QED BY <2>3, <2>4 DEF w
<1>16. \A i \in DOMAIN DropN(v, n) : Judged(DropN(v, n)[i])
  BY <1>8, <1>15
<1>17. OpenFrags(DropN(v, n), m)
  BY <1>2, <1>4, <1>15 DEF OpenFrags
<1>18. PacketsInStep(cur)'
  BY <1>1, <1>6, <1>7, <1>11, <1>12, <1>13, <1>14, <1>16 DEF PacketsInStep
<1>19. ASSUME NEW s \in Socks, s # cur PROVE PacketsInStep(s)'
  <2>1. LiveRx(s)' = LiveRx(s)
    BY <1>1, <1>3, <1>19 DEF LiveRx
  <2> QED BY <1>1, <1>6, <1>19, <2>1 DEF PacketInv, PacketsInStep
<1> QED BY <1>1, <1>6, <1>17, <1>18, <1>19 DEF PacketInv, m


LEMMA NextPackets ==
    ASSUME Inv, Inv', PacketInv, [Next]_vars PROVE PacketInv'
BY NextSteps, QuietPackets, CopyDescPackets, SubmitTxPackets, KernelRxPackets, KernelTxPackets

LEMMA SpecPackets == ASSUME FragsUnshared PROVE Spec => [](Inv /\ PacketInv)
<1>1. Init => PacketInv
  BY InitPackets
<1>2. Inv /\ Inv' /\ PacketInv /\ [Next]_vars => PacketInv'
  BY NextPackets
<1> QED BY <1>1, <1>2, SpecInv, PTL DEF Spec

\* The tx rings hold whole packets as they were received, although l2fwd moves
\* batches that end anywhere in a packet and the kernel takes descriptors one
\* by one.
THEOREM PacketsWhole ==
    ASSUME FragsUnshared PROVE Spec => []TxPacketsWhole
<1>1. ASSUME Inv, PacketInv PROVE TxPacketsWhole
  <2> SUFFICES ASSUME NEW s \in Socks
               PROVE  LET q == tx[s].q IN
                        /\ q # <<>> => q[Len(q)].eop
                        /\ \A i \in DOMAIN q :
                            LET starts == IF i = 1 THEN pend[s] = {} ELSE q[i - 1].eop
                            IN  /\ starts <=> q[i].addr = q[i].head
                                /\ (i > 1 /\ ~starts) => q[i].head = q[i - 1].head
    BY DEF TxPacketsWhole
  <2> DEFINE q == tx[s].q
  <2>1. /\ q \in Seq(Desc) /\ Chained(q) /\ EndsWhole(q)
        /\ q # <<>> => (Starts(q[1]) <=> pend[s] = {})
    BY <1>1, CursorFacts DEF Inv, PacketInv, PacketsInStep
  <2> HIDE DEF q
  <2>2. ASSUME NEW i \in DOMAIN q
        PROVE  LET starts == IF i = 1 THEN pend[s] = {} ELSE q[i - 1].eop
               IN  /\ starts <=> q[i].addr = q[i].head
                   /\ (i > 1 /\ ~starts) => q[i].head = q[i - 1].head
    <3>1. CASE i = 1
      <4>1. q # <<>>
        BY <2>1, <2>2
      <4> QED BY <2>1, <3>1, <4>1 DEF Starts
    <3>2. CASE i # 1
      <4>1. i - 1 \in 1..(Len(q) - 1) /\ (i - 1) + 1 = i
        BY <2>1, <2>2, <3>2
      <4>2. Follows(q[i - 1], q[i])
        BY <2>1, <4>1 DEF Chained
      <4> QED BY <3>2, <4>2 DEF Follows, Starts
    <3> QED BY <3>1, <3>2
  <2> QED BY <2>1, <2>2 DEF EndsWhole, q
<1> QED BY <1>1, SpecPackets, PTL

\* The XDP program has run on every first fragment and on no other, although
\* nb_frags, which decides it, outlives the call and the batch.
THEOREM ProgramOnHeads ==
    ASSUME FragsUnshared PROVE Spec => []ProgramRunsOnHeads
<1>1. ASSUME Inv, PacketInv PROVE ProgramRunsOnHeads
  <2> SUFFICES ASSUME NEW s \in Socks, NEW d \in Range(tx[s].q) \cup Range(tx[s].resv)
               PROVE  Judged(d)
    BY DEF ProgramRunsOnHeads, Judged, Starts
  <2>1. PacketsInStep(s)
    BY <1>1 DEF PacketInv
  <2> QED BY <2>1 DEF PacketsInStep, Range
<1> QED BY <1>1, SpecPackets, PTL


-----------------------------------------------------------------------------
(* What is outstanding.  A step changes what one socket counts, so the sums   *)
(* over the sockets change by as much.                                        *)

Counts == [Socks -> Nat]

LEMMA TicketsFinite ==
    ASSUME NEW f \in Counts
    PROVE  IsFiniteSet(Tickets(f))
<1> DEFINE W(s) == {s} \X (1..f[s])
           T == {W(s) : s \in Socks}
           g == [s \in Socks |-> W(s)]
<1>1. IsFiniteSet(Socks)
  BY SizesAssumption, FS_Interval DEF Socks
<1>2. ASSUME NEW s \in Socks PROVE IsFiniteSet(W(s))
  <2>1. f[s] \in Int /\ 1 \in Int
    BY DEF Counts
  <2>2. IsFiniteSet(1..f[s]) /\ IsFiniteSet({s})
    BY <2>1, FS_Interval, FS_Singleton
  <2> QED BY <2>2, FS_Product
<1>3. \A t \in T : IsFiniteSet(t)
  BY <1>2
<1>4. g \in Surjection(Socks, T)
  BY DEF Surjection
<1> HIDE DEF g, W
<1>5. IsFiniteSet(T)
  <2> HIDE DEF T
  <2> QED BY <1>1, <1>4, FS_Surjection
<1>6. IsFiniteSet(UNION T)
  <2> HIDE DEF T
  <2> QED BY <1>3, <1>5, FS_UNION
<1> QED BY <1>6 DEF Tickets, W

LEMMA TotalWithout ==
    ASSUME NEW f \in Counts, NEW c \in Socks
    PROVE  LET R == {t \in Tickets(f) : t[1] # c}
           IN  IsFiniteSet(R) /\ Cardinality(R) \in Nat /\ Total(f) = Cardinality(R) + f[c]
<1> DEFINE T == Tickets(f)
           R == {t \in T : t[1] # c}
           W == {c} \X (1..f[c])
<1>1. IsFiniteSet(T)
  BY TicketsFinite
<1>2. f[c] \in Nat /\ f[c] \in Int /\ 1 \in Int
  BY DEF Counts
<1>3. IsFiniteSet(1..f[c]) /\ Cardinality(1..f[c]) = f[c]
  BY <1>2, FS_Interval, SMTT(30)
<1>4. IsFiniteSet({c}) /\ Cardinality({c}) = 1
  BY FS_Singleton
<1>5. IsFiniteSet(W) /\ Cardinality(W) = f[c]
  <2>1. IsFiniteSet(W) /\ Cardinality(W) = Cardinality({c}) * Cardinality(1..f[c])
    BY <1>3, <1>4, FS_Product
  <2> HIDE DEF W
  <2> QED BY <1>2, <1>3, <1>4, <2>1
<1>6. T = R \cup W /\ R \cap W = {}
  <2>1. \A t : t \in T <=> \E s \in Socks : t \in {s} \X (1..f[s])
    BY DEF Tickets
  <2>2. ASSUME NEW t \in T, t[1] = c PROVE t \in W
    BY <2>1, <2>2
  <2>3. W \subseteq T
    BY <2>1
  <2>4. \A t \in W : t[1] = c
    OBVIOUS
  <2> HIDE DEF W, T
  <2> QED BY <2>2, <2>3, <2>4
<1>7. R \in SUBSET T
  OBVIOUS
<1> HIDE DEF T, W
<1>8. IsFiniteSet(R)
  <2> HIDE DEF R
  <2> QED BY <1>1, <1>7, FS_Subset
<1> HIDE DEF R
<1>9. Cardinality(T) = Cardinality(R) + Cardinality(W) /\ Cardinality(R) \in Nat
  BY <1>5, <1>6, <1>8, DisjointCard, FS_CardinalityType
<1> QED BY <1>5, <1>8, <1>9 DEF R, T, Total

\* If one socket counts differently the total differs as much.
LEMMA TotalChange ==
    ASSUME NEW f \in Counts, NEW g \in Counts, NEW c \in Socks,
           \A s \in Socks : s # c => g[s] = f[s]
    PROVE  Total(f) \in Nat /\ Total(g) \in Nat /\ Total(g) + f[c] = Total(f) + g[c]
<1> DEFINE R == {t \in Tickets(f) : t[1] # c}
           Q == {t \in Tickets(g) : t[1] # c}
<1>1. Q = R
  <2>1. \A t : t \in Tickets(f) <=> \E s \in Socks : t \in {s} \X (1..f[s])
    BY DEF Tickets
  <2>2. \A t : t \in Tickets(g) <=> \E s \in Socks : t \in {s} \X (1..g[s])
    BY DEF Tickets
  <2>3. ASSUME NEW t PROVE t \in Q <=> t \in R
    BY <2>1, <2>2
  <2> HIDE DEF Q, R
  <2> QED BY <2>3
<1>2. Cardinality(R) \in Nat /\ Total(f) = Cardinality(R) + f[c]
  BY TotalWithout
<1>3. Total(g) = Cardinality(Q) + g[c]
  BY TotalWithout
<1>4. f[c] \in Nat /\ g[c] \in Nat
  BY DEF Counts
<1> HIDE DEF R, Q
<1> QED BY <1>1, <1>2, <1>3, <1>4

TxCounts == [s \in Socks |-> Len(tx[s].q)]
Submitted == IF pc = "rxrelease" THEN fragsDone ELSE 0
Gathering == UNION {pend[s] : s \in Socks}

LEMMA ExactMeans ==
    OutstandingExact <=> Total(outstanding) + Submitted = Total(TxCounts) + CompUsed
BY DEF OutstandingExact, TxCounts, Submitted

LEMMA ExactMeansNext ==
    OutstandingExact' <=> Total(outstanding') + Submitted' = Total(TxCounts') + CompUsed'
BY DEF OutstandingExact, TxCounts, Submitted

LEMMA CountsType ==
    ASSUME Inv
    PROVE  /\ outstanding \in Counts /\ TxCounts \in Counts /\ Submitted \in Nat
           /\ \A s \in Socks : TxCounts[s] = Len(tx[s].q) /\ tx[s].q \in Seq(Desc)
           /\ Len(cq.q) \in Nat /\ inflight \in SUBSET Frames /\ Gathering \in SUBSET Frames
           /\ Cardinality(inflight) \in Nat /\ Cardinality(Gathering) \in Nat
           /\ CompUsed = Len(cq.q) + Cardinality(inflight) + Cardinality(Gathering)
<1>1. outstanding \in Counts /\ fragsDone \in Nat
  BY DEF Inv, CursorInv, TypeOK, Counts
<1>2. \A s \in Socks : tx[s].q \in Seq(Desc)
  BY DEF Inv, CursorInv, TypeOK, TypeOKKernel, ProdRing
<1>3. \A s \in Socks : Len(tx[s].q) \in Nat
  BY <1>2
<1>4. inflight \in SUBSET Frames /\ pend \in [Socks -> SUBSET Frames] /\ cq.q \in Seq(Frames)
  BY DEF Inv, CursorInv, TypeOK, TypeOKKernel, ConsRing
<1>5. Gathering \in SUBSET Frames
  BY <1>4 DEF Gathering
<1>6. Cardinality(inflight) \in Nat /\ Cardinality(Gathering) \in Nat
  BY <1>4, <1>5, FramesCard
<1>7. Len(cq.q) \in Nat
  BY <1>4
<1> QED BY <1>1, <1>2, <1>3, <1>4, <1>5, <1>6, <1>7 DEF TxCounts, Counts, Submitted, CompUsed, Gathering

LEMMA CountsTypeNext ==
    ASSUME Inv'
    PROVE  /\ outstanding' \in Counts /\ TxCounts' \in Counts /\ Submitted' \in Nat
           /\ \A s \in Socks : TxCounts'[s] = Len(tx'[s].q) /\ tx'[s].q \in Seq(Desc)
           /\ Len(cq'.q) \in Nat /\ inflight' \in SUBSET Frames /\ Gathering' \in SUBSET Frames
           /\ Cardinality(inflight') \in Nat /\ Cardinality(Gathering') \in Nat
           /\ CompUsed' = Len(cq'.q) + Cardinality(inflight') + Cardinality(Gathering')
<1>1. outstanding' \in Counts /\ fragsDone' \in Nat
  BY DEF Inv, CursorInv, TypeOK, Counts
<1>2. \A s \in Socks : tx'[s].q \in Seq(Desc)
  BY DEF Inv, CursorInv, TypeOK, TypeOKKernel, ProdRing
<1>3. \A s \in Socks : Len(tx'[s].q) \in Nat
  BY <1>2
<1>4. inflight' \in SUBSET Frames /\ pend' \in [Socks -> SUBSET Frames] /\ cq'.q \in Seq(Frames)
  BY DEF Inv, CursorInv, TypeOK, TypeOKKernel, ConsRing
<1>5. Gathering' \in SUBSET Frames
  BY <1>4 DEF Gathering
<1>6. Cardinality(inflight') \in Nat /\ Cardinality(Gathering') \in Nat
  BY <1>4, <1>5, FramesCard
<1>7. Len(cq'.q) \in Nat
  BY <1>4
<1> QED BY <1>1, <1>2, <1>3, <1>4, <1>5, <1>6, <1>7 DEF TxCounts, Counts, Submitted, CompUsed, Gathering

LEMMA SlotsNat == ASSUME Inv PROVE CompUsed \in Nat
<1>1. \A l, w, g \in Nat : l + w + g \in Nat
  OBVIOUS
<1> QED BY <1>1, CountsType

\* Completion slots stay as they are.
LEMMA SlotsSame ==
    ASSUME UNCHANGED <<inflight, pend>>, cq'.q = cq.q
    PROVE  CompUsed' = CompUsed
BY DEF CompUsed

\* What is submitted was counted with it.
LEMMA SubmitTxExact ==
    ASSUME Inv, Inv', OutstandingExact, SubmitTx PROVE OutstandingExact'
<1>1. /\ pc = "submit" /\ pc' = "rxrelease" /\ tx' = [tx EXCEPT ![cur] = Submit(@, fragsDone)]
      /\ UNCHANGED <<cq, pend, inflight, fragsDone, outstanding>>
  BY DEF SubmitTx
<1>2. Submitted = 0 /\ Submitted' = fragsDone /\ CompUsed' = CompUsed
  BY <1>1, SlotsSame DEF Submitted
<1>3. /\ cur \in Socks /\ tx[cur] \in ProdRing(Desc) /\ fragsDone \in Nat
      /\ fragsDone <= Len(tx[cur].resv) /\ tx \in [Socks -> ProdRing(Desc)]
  <2>1. /\ nbFrags + fragsDone = Len(tx[cur].resv) + HandedOn(cur) /\ HandedOn(cur) = 0
        /\ nbFrags \in Nat /\ fragsDone \in Nat /\ cur \in Socks /\ tx[cur] \in ProdRing(Desc)
    BY <1>1, CursorFacts DEF Inv, CursorInv, CursorsInStep, FragsInStep, HandedOn
  <2>2. Len(tx[cur].resv) \in Nat
    BY <2>1 DEF ProdRing
  <2>3. \A n, d, l \in Nat : n + d = l + 0 => d <= l
    OBVIOUS
  <2>4. fragsDone <= Len(tx[cur].resv)
    BY ONLY <2>1, <2>2, <2>3
  <2> QED BY <2>1, <2>4 DEF Inv, CursorInv, TypeOK, TypeOKKernel
<1>4. TxCounts'[cur] = TxCounts[cur] + fragsDone
  <2> DEFINE q == tx[cur].q
             r == FirstN(tx[cur].resv, fragsDone)
  <2>1. tx'[cur].q = q \o r
    BY <1>1, <1>3 DEF Submit
  <2>2. q \in Seq(Desc) /\ tx[cur].resv \in Seq(Desc)
    BY <1>3 DEF ProdRing
  <2>3. r \in Seq(Desc) /\ Len(r) = fragsDone
    BY <1>3, <2>2, FirstNProps
  <2> HIDE DEF q, r
  <2>4. Len(q \o r) = Len(q) + fragsDone
    BY <2>2, <2>3, SMTT(30)
  <2> QED BY <1>3, <2>1, <2>4, CountsType, CountsTypeNext DEF q
<1>5. \A s \in Socks : s # cur => TxCounts'[s] = TxCounts[s]
  BY <1>1, <1>3 DEF TxCounts
<1>6. /\ Total(TxCounts) \in Nat /\ Total(TxCounts') \in Nat
      /\ Total(TxCounts') + TxCounts[cur] = Total(TxCounts) + TxCounts'[cur]
  <2> DEFINE f == TxCounts
             g == TxCounts'
  <2>1. f \in Counts /\ g \in Counts /\ \A s \in Socks : s # cur => g[s] = f[s]
    BY <1>5, CountsType, CountsTypeNext
  <2> HIDE DEF f, g
  <2>2. Total(f) \in Nat /\ Total(g) \in Nat /\ Total(g) + f[cur] = Total(f) + g[cur]
    BY <1>3, <2>1, TotalChange
  <2> QED BY <2>2 DEF f, g
<1>7. Total(outstanding') = Total(outstanding)
  BY <1>1
<1>8. /\ Total(outstanding) \in Nat /\ TxCounts[cur] \in Nat /\ CompUsed \in Nat
  <2>1. outstanding \in Counts /\ TxCounts \in Counts
    BY CountsType
  <2>2. Total(outstanding) \in Nat
    BY <1>3, <2>1, TotalChange
  <2> QED BY <1>3, <2>1, <2>2, SlotsNat DEF Counts
<1>9. Total(outstanding) + 0 = Total(TxCounts) + CompUsed
  BY <1>2, ExactMeans
<1>10. Total(outstanding') + Submitted' = Total(TxCounts') + CompUsed'
  BY <1>2, <1>3, <1>4, <1>6, <1>7, <1>8, <1>9, SMTT(30)
<1> QED BY <1>10, ExactMeansNext

LEMMA ReleaseRxExact ==
    ASSUME Inv, Inv', OutstandingExact, ReleaseRx PROVE OutstandingExact'
<1>1. /\ pc = "rxrelease" /\ NextSock /\ outstanding' = [outstanding EXCEPT ![cur] = @ + fragsDone]
      /\ UNCHANGED <<cq, pend, inflight, tx>> /\ fragsDone' = 0
  BY DEF ReleaseRx
<1>2. Submitted = fragsDone /\ Submitted' = 0 /\ CompUsed' = CompUsed /\ TxCounts' = TxCounts
  BY <1>1, SlotsSame DEF Submitted, TxCounts
<1>3. cur \in Socks /\ fragsDone \in Nat /\ outstanding \in Counts /\ outstanding' \in Counts
  BY CursorFacts, CountsType, CountsTypeNext DEF Inv
<1>4. outstanding'[cur] = outstanding[cur] + fragsDone
  BY <1>1, <1>3 DEF Counts
<1>5. \A s \in Socks : s # cur => outstanding'[s] = outstanding[s]
  BY <1>1, <1>3 DEF Counts
<1>6. /\ Total(outstanding) \in Nat /\ Total(outstanding') \in Nat
      /\ Total(outstanding') + outstanding[cur] = Total(outstanding) + outstanding'[cur]
  BY <1>3, <1>5, TotalChange
<1>7. Total(outstanding) + fragsDone = Total(TxCounts) + CompUsed
  BY <1>2, ExactMeans
<1>8. outstanding[cur] \in Nat
  BY <1>3 DEF Counts
<1>9. Total(outstanding') + Submitted' = Total(TxCounts') + CompUsed'
  BY <1>2, <1>3, <1>4, <1>6, <1>7, <1>8
<1> QED BY <1>9, ExactMeansNext

LEMMA RefillReleaseExact ==
    ASSUME Inv, Inv', OutstandingExact, RefillRelease PROVE OutstandingExact'
<1>1. /\ pc = "release" /\ pc' = back /\ cq' = Release(cq, crcvd)
      /\ outstanding' = [outstanding EXCEPT ![cur] = @ - crcvd]
      /\ UNCHANGED <<tx, pend, inflight, fragsDone>> /\ back \in {"peek", "kick"}
  BY DEF RefillRelease, Inv, CursorInv, TypeOK
<1>2. Submitted = 0 /\ Submitted' = 0 /\ TxCounts' = TxCounts
  BY <1>1 DEF Submitted, TxCounts
<1>3. /\ cur \in Socks /\ crcvd \in Nat /\ crcvd <= Len(cq.q) /\ cq.q \in Seq(Frames)
      /\ outstanding \in Counts /\ outstanding' \in Counts /\ crcvd <= outstanding[cur]
  BY CursorFacts, CountsType, CountsTypeNext DEF Inv, CursorInv, CursorsInStep, CqInStep
<1>4. Len(cq'.q) = Len(cq.q) - crcvd
  <2>1. cq'.q = DropN(cq.q, crcvd)
    BY <1>1 DEF Release
  <2> QED BY <1>3, <2>1, DropNProps
<1>5. Gathering' = Gathering
  BY <1>1 DEF Gathering
<1>6. CompUsed' = CompUsed - crcvd /\ CompUsed \in Nat
  <2>1. CompUsed' = (Len(cq.q) - crcvd) + Cardinality(inflight) + Cardinality(Gathering)
    BY <1>1, <1>4, <1>5, CountsTypeNext
  <2>2. \A l, w, g \in Nat : (l - crcvd) + w + g = (l + w + g) - crcvd
    BY <1>3
  <2>3. CompUsed' = (Len(cq.q) + Cardinality(inflight) + Cardinality(Gathering)) - crcvd
    BY <2>1, <2>2, CountsType
  <2> QED BY <2>3, CountsType, SlotsNat
<1>7. outstanding[cur] \in Nat /\ outstanding'[cur] = outstanding[cur] - crcvd
  BY <1>1, <1>3 DEF Counts
<1>8. \A s \in Socks : s # cur => outstanding'[s] = outstanding[s]
  BY <1>1, <1>3 DEF Counts
<1>9. /\ Total(outstanding) \in Nat /\ Total(outstanding') \in Nat
      /\ Total(outstanding') + outstanding[cur] = Total(outstanding) + outstanding'[cur]
  BY <1>3, <1>8, TotalChange
<1>10. Total(TxCounts) \in Nat
  BY <1>3, CountsType, TotalChange
<1>11. Total(outstanding) + 0 = Total(TxCounts) + CompUsed
  BY <1>2, ExactMeans
<1>12. Total(outstanding') + Submitted' = Total(TxCounts') + CompUsed'
  BY <1>2, <1>3, <1>6, <1>7, <1>9, <1>10, <1>11, SMTT(30)
<1> QED BY <1>12, ExactMeansNext

\* A frame the NIC is done with keeps its completion slot.
LEMMA CompleteExact ==
    ASSUME Inv, Inv', OutstandingExact, NEW f \in Frames, KernelComplete(f),
           UNCHANGED <<userVars, benchmarkDone>>
    PROVE  OutstandingExact'
<1>1. /\ f \in inflight /\ inflight' = inflight \ {f} /\ cq'.q = Append(cq.q, f)
      /\ UNCHANGED <<tx, pend, pc, fragsDone, outstanding>>
  BY DEF KernelComplete, userVars, Inv, CursorInv, TypeOK, TypeOKKernel, ConsRing
<1>2. Submitted' = Submitted /\ TxCounts' = TxCounts /\ Gathering' = Gathering
  BY <1>1 DEF Submitted, TxCounts, Gathering
<1>3. Len(cq'.q) = Len(cq.q) + 1
  <2>1. cq.q \in Seq(Frames)
    BY CursorFacts DEF Inv
  <2> QED BY <1>1, <2>1
<1>4. Cardinality(inflight') = Cardinality(inflight) - 1
  <2>1. IsFiniteSet(inflight)
    BY CountsType, FramesCard
  <2> QED BY <1>1, <2>1, FS_RemoveElement
<1>5. CompUsed' = CompUsed
  BY <1>2, <1>3, <1>4, CountsType, CountsTypeNext
<1> QED BY <1>1, <1>2, <1>5, ExactMeans, ExactMeansNext

\* A descriptor that leaves the tx ring takes a completion slot.
LEMMA KernelTxExact ==
    ASSUME Inv, Inv', OutstandingExact, NEW c \in Socks, KernelTx(c),
           UNCHANGED <<userVars, benchmarkDone>>
    PROVE  OutstandingExact'
<1> DEFINE q == tx[c].q
           f == q[1].addr
           P == Gathering
           Q == Gathering'
           W == inflight
           V == inflight'
<1>1. /\ q # <<>> /\ tx' = [tx EXCEPT ![c].q = Tail(@)]
      /\ UNCHANGED <<cq, pc, fragsDone, outstanding>>
  BY DEF KernelTx, userVars
<1>2. /\ q \in Seq(Desc) /\ pend \in [Socks -> SUBSET Frames] /\ tx \in [Socks -> ProdRing(Desc)]
  BY CursorFacts DEF Inv, CursorInv, TypeOK, TypeOKKernel
<1>3. Head(q) = q[1] /\ Len(Tail(q)) = Len(q) - 1 /\ 1 \in DOMAIN q /\ Len(q) \in Nat
  BY <1>1, <1>2
<1>4. tx'[c].q = Tail(q) /\ \A s \in Socks : s # c => tx'[s] = tx[s]
  BY <1>1, <1>2 DEF ProdRing
<1>5. \/ V = W \cup pend[c] \cup {f} /\ pend' = [pend EXCEPT ![c] = {}]
      \/ V = W /\ pend' = [pend EXCEPT ![c] = pend[c] \cup {f}]
  BY <1>3 DEF KernelTx
<1>6. f \in TxHeld(c)
  BY <1>3 DEF TxHeld, Addrs, Range
<1>7. NoFrameShared
  BY OwnFrames DEF Inv
<1>8. /\ f \notin W /\ P \cap W = {} /\ f \notin P
      /\ \A s \in Socks : s # c => pend[s] \cap pend[c] = {}
  <2>1. ASSUME NEW s \in Socks
        PROVE  pend[s] \cap W = {} /\ f \notin pend[s] /\ (s # c => pend[s] \cap pend[c] = {})
    <3>1. /\ Disjoint(pend[s], RxHeld(s) \cup TxHeld(s))
          /\ Disjoint(SockHeld(s), FillHeld \cup CompHeld \cup inflight)
          /\ s # c => Disjoint(SockHeld(s), SockHeld(c))
      BY <1>7 DEF NoFrameShared
    <3> HIDE DEF f
    <3> QED BY <1>6, <3>1 DEF Disjoint, SockHeld
  <2>2. Disjoint(SockHeld(c), FillHeld \cup CompHeld \cup inflight)
    BY <1>7 DEF NoFrameShared
  <2> HIDE DEF f
  <2>3. f \notin W
    BY <1>6, <2>2 DEF Disjoint, SockHeld
  <2> QED BY <2>1, <2>3 DEF Gathering
<1> HIDE DEF f
<1>9. Q \cup V = (P \cup W) \cup {f} /\ Q \cap V = {}
  <2>1. \A x : x \in P <=> \E s \in Socks : x \in pend[s]
    BY DEF Gathering
  <2>2. \A x : x \in Q <=> \E s \in Socks : x \in pend'[s]
    BY DEF Gathering
  <2>3. CASE V = W \cup pend[c] \cup {f} /\ pend' = [pend EXCEPT ![c] = {}]
    <3>1. pend'[c] = {} /\ \A s \in Socks : s # c => pend'[s] = pend[s]
      BY <1>2, <2>3
    <3>2. Q = P \ pend[c]
      <4> HIDE DEF P, Q
      <4> QED BY <1>8, <2>1, <2>2, <3>1
    <3>3. pend[c] \subseteq P
      BY <2>1
    <3> HIDE DEF P, Q, V, W
    <3> QED BY <1>8, <2>3, <3>2, <3>3
  <2>4. CASE V = W /\ pend' = [pend EXCEPT ![c] = pend[c] \cup {f}]
    <3>1. pend'[c] = pend[c] \cup {f} /\ \A s \in Socks : s # c => pend'[s] = pend[s]
      BY <1>2, <2>4
    <3>2. Q = P \cup {f}
      <4> HIDE DEF P, Q
      <4> QED BY <2>1, <2>2, <3>1
    <3> HIDE DEF P, Q, V, W
    <3> QED BY <1>8, <2>4, <3>2
  <2> QED BY <1>5, <2>3, <2>4
<1>10. IsFiniteSet(P) /\ IsFiniteSet(Q) /\ IsFiniteSet(V) /\ IsFiniteSet(W)
  BY CountsType, CountsTypeNext, FramesCard
<1>11. Cardinality(Q) + Cardinality(V) = Cardinality(P) + Cardinality(W) + 1
  <2> HIDE DEF P, Q, V, W
  <2>1. IsFiniteSet(P \cup W) /\ Cardinality(P \cup W) = Cardinality(P) + Cardinality(W)
    BY <1>8, <1>10, DisjointCard
  <2>2. Cardinality(Q \cup V) = Cardinality(Q) + Cardinality(V)
    BY <1>9, <1>10, DisjointCard
  <2>3. f \notin P \cup W
    BY <1>8
  <2>4. Cardinality((P \cup W) \cup {f}) = Cardinality(P \cup W) + 1
    BY <2>1, <2>3, FS_AddElement
  <2> QED BY <1>9, <2>1, <2>2, <2>4
<1>12. CompUsed' = CompUsed + 1 /\ CompUsed \in Nat
  <2>2. Len(cq.q) + Cardinality(V) + Cardinality(Q) = (Len(cq.q) + Cardinality(W) + Cardinality(P)) + 1
    <3>1. /\ Len(cq.q) \in Nat /\ Cardinality(W) \in Nat /\ Cardinality(P) \in Nat
          /\ Cardinality(V) \in Nat /\ Cardinality(Q) \in Nat
      BY CountsType, CountsTypeNext
    <3> DEFINE l == Len(cq.q)
               w == Cardinality(W)
               g == Cardinality(P)
               v == Cardinality(V)
               u == Cardinality(Q)
    <3>2. u + v = g + w + 1
      BY <1>11
    <3>3. l \in Nat /\ w \in Nat /\ g \in Nat /\ v \in Nat /\ u \in Nat
      BY <3>1
    <3> HIDE DEF l, w, g, v, u
    <3>4. l + v + u = (l + w + g) + 1
      BY ONLY <3>2, <3>3
    <3> QED BY <3>4 DEF l, w, g, v, u
  <2>3. CompUsed' = Len(cq.q) + Cardinality(V) + Cardinality(Q)
    BY <1>1, CountsTypeNext
  <2> QED BY <2>2, <2>3, CountsType, SlotsNat
<1>13. TxCounts'[c] = TxCounts[c] - 1 /\ TxCounts[c] \in Nat
  BY <1>3, <1>4, CountsType, CountsTypeNext
<1>14. \A s \in Socks : s # c => TxCounts'[s] = TxCounts[s]
  BY <1>4 DEF TxCounts
<1>15. /\ Total(TxCounts) \in Nat /\ Total(TxCounts') \in Nat
       /\ Total(TxCounts') + TxCounts[c] = Total(TxCounts) + TxCounts'[c]
  <2> DEFINE t == TxCounts
             u == TxCounts'
  <2>1. t \in Counts /\ u \in Counts /\ \A s \in Socks : s # c => u[s] = t[s]
    BY <1>14, CountsType, CountsTypeNext
  <2> HIDE DEF t, u
  <2>2. Total(t) \in Nat /\ Total(u) \in Nat /\ Total(u) + t[c] = Total(t) + u[c]
    BY <2>1, TotalChange
  <2> QED BY <2>2 DEF t, u
<1>16. Submitted' = Submitted /\ Total(outstanding') = Total(outstanding)
  BY <1>1 DEF Submitted
<1>17. Total(outstanding) + Submitted = Total(TxCounts) + CompUsed
  BY ExactMeans
<1>18. Total(TxCounts') + CompUsed' = Total(TxCounts) + CompUsed
  BY <1>12, <1>13, <1>15
<1> QED BY <1>16, <1>17, <1>18, ExactMeansNext

\* The other steps touch neither what is counted nor the counters.
LEMMA QuietExact ==
    ASSUME OutstandingExact, UNCHANGED <<outstanding, inflight, pend>>, cq'.q = cq.q,
           Submitted' = Submitted, \A s \in Socks : tx'[s].q = tx[s].q
    PROVE  OutstandingExact'
<1>1. TxCounts' = TxCounts
  BY DEF TxCounts
<1>2. CompUsed' = CompUsed
  BY SlotsSame
<1> QED BY <1>1, <1>2, ExactMeans, ExactMeansNext

LEMMA NextExact ==
    ASSUME Inv, Inv', OutstandingExact, [Next]_vars PROVE OutstandingExact'
<1>1. CASE StartRound \/ CompleteTx \/ PeekCq \/ RefillSubmit \/ PeekRx \/ ReserveTx \/ KickInReserve
  <2>1. pc # "rxrelease" /\ pc' # "rxrelease" /\ UNCHANGED <<outstanding, inflight, pend, tx>>
    <3>1. back \in {"peek", "kick"}
      BY DEF Inv, CursorInv, TypeOK
    <3> QED BY <1>1, <3>1 DEF StartRound, CompleteTx, PeekCq, RefillSubmit, PeekRx, ReserveTx,
            KickInReserve, NextSock, kernelVars
  <2>2. cq'.q = cq.q
    BY <1>1 DEF StartRound, CompleteTx, PeekCq, RefillSubmit, PeekRx, ReserveTx, KickInReserve,
            kernelVars, Peek
  <2> QED BY <2>1, <2>2, QuietExact DEF Submitted
<1>2. CASE CopyDesc
  <2>1. pc = "copy" /\ pc' # "rxrelease" /\ UNCHANGED <<cq, outstanding, inflight, pend>>
    BY <1>2 DEF CopyDesc
  <2>2. \A s \in Socks : tx'[s].q = tx[s].q
    <3>1. \E e : tx' = [tx EXCEPT ![cur] = WriteSlot(@, e)]
      BY <1>2 DEF CopyDesc
    <3>2. PICK e : tx' = [tx EXCEPT ![cur] = WriteSlot(@, e)]
      BY <3>1
    <3>3. tx \in [Socks -> ProdRing(Desc)]
      BY DEF Inv, CursorInv, TypeOK, TypeOKKernel
    <3> QED BY <3>2, <3>3 DEF WriteSlot, ProdRing
  <2> QED BY <2>1, <2>2, QuietExact DEF Submitted
<1>3. CASE Kernel
  <2>1. CASE KernelRxSleep \/ (\E s \in Socks : KernelRx(s) \/ KernelKickEnd(s))
    <3>1. UNCHANGED <<cq, outstanding, inflight, pend, tx, pc, fragsDone>>
      BY <1>3, <2>1 DEF Kernel, KernelRxSleep, KernelRx, KernelKickEnd, userVars
    <3> QED BY <3>1, QuietExact DEF Submitted
  <2> QED BY <1>3, <2>1, KernelTxExact, CompleteExact DEF Kernel
<1>4. CASE BenchmarkDone \/ UNCHANGED vars
  <2>1. UNCHANGED <<cq, outstanding, inflight, pend, tx, pc, fragsDone>>
    BY <1>4 DEF BenchmarkDone, vars, kernelVars, userVars
  <2> QED BY <2>1, QuietExact DEF Submitted
<1> QED BY <1>1, <1>2, <1>3, <1>4, SubmitTxExact, ReleaseRxExact, RefillReleaseExact DEF Next, User

LEMMA InitExact == Init => OutstandingExact
<1> SUFFICES ASSUME Init PROVE OutstandingExact
  OBVIOUS
<1>1. /\ outstanding = [s \in Socks |-> 0] /\ cq.q = <<>> /\ inflight = {} /\ pc = "loop"
      /\ \A s \in Socks : pend[s] = {} /\ tx[s].q = <<>>
  BY DEF Init, InitKernel, EmptyCons, EmptyProd
<1>2. TxCounts = outstanding
  BY <1>1 DEF TxCounts
<1>3. Gathering = {}
  BY <1>1 DEF Gathering
<1>4. CompUsed = 0
  <2>1. CompUsed = Len(cq.q) + Cardinality(inflight) + Cardinality(Gathering)
    BY DEF CompUsed, Gathering
  <2> QED BY <1>1, <1>3, <2>1, FS_EmptySet
<1>5. Total(outstanding) \in Nat /\ 1 \in Socks
  <2>1. 1 \in Socks /\ outstanding \in Counts
    BY <1>1, SizesAssumption DEF Socks, Counts
  <2> QED BY <2>1, TotalChange
<1>6. Submitted = 0
  BY <1>1 DEF Submitted
<1> QED BY <1>2, <1>4, <1>5, <1>6, ExactMeans

\* outstanding_tx is exact, however many sockets reap each other's completions
\* from the one completion ring: together they are owed what is on the tx rings,
\* with the NIC or completed, and nothing else.
THEOREM OutstandingCorrect ==
    ASSUME FragsUnshared PROVE Spec => []OutstandingExact
<1>1. Inv /\ Inv' /\ OutstandingExact /\ [Next]_vars => OutstandingExact'
  BY NextExact
<1> QED BY <1>1, InitExact, SpecInv, PTL DEF Spec
===========================================================================
