------------------------------- MODULE RxDrop -------------------------------
(***************************************************************************)
(* afxdp/l2fwd/xdpsock.c run as --rxdrop: received frames go straight back *)
(* to the fill ring (rx_drop, rx_drop_all), interleaved with the kernel at *)
(* every ring access.  The sockets have no tx ring.                        *)
(***************************************************************************)
EXTENDS XskKernel, Functions

CONSTANTS
    BatchSize,   \* opt_batch_size
    BusyPoll,    \* opt_busy_poll
    OptPoll      \* opt_poll

ASSUME BatchAssumption == BatchSize \in Nat \ {0}

ASSUME FlagAssumption == BusyPoll \in BOOLEAN /\ OptPoll \in BOOLEAN

VARIABLES
    pc,            \* where the thread is
    cur,           \* the socket rx_drop_all is serving
    rcvd,          \* rcvd of rx_drop
    benchmarkDone  \* benchmark_done

userVars == <<pc, cur, rcvd>>
vars == <<kernelVars, userVars, benchmarkDone>>
noTx == <<cq, tx, pend, inflight, kicked>>

TypeOK ==
    /\ fq \in Seq(Frames)
    /\ rx \in [Socks -> ConsRing(Desc)]
    /\ rxAsleep \in BOOLEAN
    /\ pc \in {"loop", "peek", "fill", "release", "exit"}
    /\ cur \in Socks
    /\ rcvd \in Nat
    /\ benchmarkDone \in BOOLEAN

Init ==
    /\ InitKernel
    /\ fq = PopulatedFillRing
    /\ pc = "loop" /\ cur = 1 /\ rcvd = 0
    /\ benchmarkDone = FALSE

-----------------------------------------------------------------------------
(* rx_drop_all *)

\* poll(POLLIN) has something to report.
PollReady == \E s \in Socks : rx[s].q # <<>>

\* Without --poll the round starts at once.  poll() wakes the driver; a timeout
\* or a signal goes round again.
StartRound ==
    /\ pc = "loop"
    /\ IF OptPoll THEN Recvfrom ELSE UNCHANGED rxAsleep
    /\ IF OptPoll => PollReady
       THEN pc' = "peek" /\ cur' = 1
       ELSE UNCHANGED <<pc, cur>>
    /\ UNCHANGED <<noTx, fq, rx, rcvd, benchmarkDone>>

\* Only the first socket is served.
NextSock_First == pc' = (IF benchmarkDone THEN "exit" ELSE "loop") /\ UNCHANGED cur

\* rx_drop(xsks[cur]) returned: the next socket, or the end of the round.
NextSock ==
    IF cur < NumSocks
    THEN pc' = "peek" /\ cur' = cur + 1
    ELSE pc' = (IF benchmarkDone THEN "exit" ELSE "loop") /\ UNCHANGED cur

-----------------------------------------------------------------------------
(* rx_drop *)

\* The flag of the fill ring is not looked at.
WakesWhenEmpty_BusyOnly == BusyPoll

WakesWhenEmpty == BusyPoll \/ FillNeedsWakeup

\* Up to BatchSize descriptors are peeked; with none, the driver is woken if
\* it asked for it and the call returns.
PeekRx ==
    /\ pc = "peek"
    /\ rx' = [rx EXCEPT ![cur] = Peek(@, BatchSize)]
    /\ rcvd' = PeekCount(rx[cur], BatchSize)
    /\ IF rcvd' = 0
       THEN /\ NextSock
            /\ IF WakesWhenEmpty THEN Recvfrom ELSE UNCHANGED rxAsleep
       ELSE pc' = "fill" /\ UNCHANGED <<cur, rxAsleep>>
    /\ UNCHANGED <<noTx, fq, benchmarkDone>>

FillRoom == Len(fq) + rcvd <= FillSize

\* The frames of the peeked descriptors.
Peeked == FirstN(Addrs(rx[cur].q), rcvd)

\* Fill slots are reserved, the frames' addresses written and submitted.  The
\* loop that waits for room changes nothing the thread holds; RefillNeverWaits
\* says that it never turns.
RefillSubmit ==
    /\ pc = "fill" /\ FillRoom
    /\ fq' = fq \o Peeked
    /\ pc' = "release"
    /\ UNCHANGED <<noTx, rx, rxAsleep, cur, rcvd, benchmarkDone>>

\* The cursor is given back but not the slots.
ReleaseRx_Kept ==
    /\ pc = "release"
    /\ rx' = [rx EXCEPT ![cur].peeked = @ - rcvd]
    /\ rcvd' = 0
    /\ NextSock
    /\ UNCHANGED <<noTx, fq, rxAsleep, benchmarkDone>>

\* One batch, whatever was received.
ReleaseRx_Batch ==
    /\ pc = "release"
    /\ rx' = [rx EXCEPT ![cur] = Release(@, IF Len(@.q) < BatchSize THEN Len(@.q) ELSE BatchSize)]
    /\ rcvd' = 0
    /\ NextSock
    /\ UNCHANGED <<noTx, fq, rxAsleep, benchmarkDone>>

\* Their rx slots are released; the call returns.
ReleaseRx ==
    /\ pc = "release"
    /\ rx' = [rx EXCEPT ![cur] = Release(@, rcvd)]
    /\ rcvd' = 0
    /\ NextSock
    /\ UNCHANGED <<noTx, fq, rxAsleep, benchmarkDone>>

-----------------------------------------------------------------------------
\* int_exit on a signal, or is_benchmark_done in the poller thread.
BenchmarkDone ==
    /\ ~benchmarkDone
    /\ benchmarkDone' = TRUE
    /\ UNCHANGED <<kernelVars, userVars>>

User == StartRound \/ PeekRx \/ RefillSubmit \/ ReleaseRx

Kernel ==
    /\ (\E s \in Socks : KernelRx(s)) \/ KernelRxSleep
    /\ UNCHANGED <<userVars, benchmarkDone>>

Next == User \/ Kernel \/ BenchmarkDone

Spec == Init /\ [][Next]_vars

\* The thread keeps running.  Nothing obliges a packet to arrive.
FairSpec == Spec /\ WF_vars(User)

-----------------------------------------------------------------------------
(* Who holds a frame; entries handed on but not yet released are nobody's. *)

HandedOn(s) == IF pc = "release" /\ s = cur THEN rcvd ELSE 0

Received(s) == Addrs(DropN(rx[s].q, HandedOn(s)))

FillHeld == Range(fq)
RxHeld(s) == Range(Received(s))

\* The thread's counter agrees with the ring it works on.
CursorsInStep ==
    /\ rcvd > 0 <=> pc \in {"fill", "release"}
    /\ \A s \in Socks : Ordered(rx[s]) /\ rx[s].peeked = IF s = cur THEN rcvd ELSE 0

\* No frame is in two places: a frame on the fill ring that is also on rx would
\* be overwritten before it is looked at.
NoFrameShared ==
    /\ IsInjective(fq)
    /\ \A s \in Socks :
        /\ IsInjective(Received(s))
        /\ RxHeld(s) \cap FillHeld = {}
        /\ \A t \in Socks \ {s} : RxHeld(s) \cap RxHeld(t) = {}

\* No frame leaks: each is on the fill ring or on an rx ring.
NoFrameLost == Frames = FillHeld \cup UNION {RxHeld(s) : s \in Socks}

\* The loop of rx_drop that waits for fill slots never turns.
RefillNeverWaits == pc = "fill" => FillRoom

-----------------------------------------------------------------------------
(* Liveness, under FairSpec. *)

\* A received frame is eventually free for reception again (or the run ends).
FramesReturn ==
    \A f \in Frames :
        (\E s \in Socks : f \in RxHeld(s)) ~> (f \in FillHeld \/ pc = "exit")

\* A driver that stopped receiving for want of frames is woken (or the run
\* ends): a socket whose rx ring is empty does it for all of them, and while the
\* driver sleeps the rx rings do get empty.
DriverWoken == rxAsleep ~> (~rxAsleep \/ pc = "exit")
=============================================================================
