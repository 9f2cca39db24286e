------------------------------- MODULE L2fwd --------------------------------
(***************************************************************************)
(* afxdp/l2fwd/xdpsock.c run as --l2fwd: the thread that moves received    *)
(* frames through the XDP program to the tx ring (l2fwd, l2fwd_all) and    *)
(* completed frames back to the fill ring (complete_tx_l2fwd), interleaved *)
(* with the kernel at every ring access.                                   *)
(***************************************************************************)
EXTENDS XskKernel, Functions

CONSTANTS
    BatchSize,   \* opt_batch_size
    CopyFlag,    \* XDP_COPY is among the bind flags (-c or -S)
    BusyPoll,    \* opt_busy_poll
    OptPoll,     \* opt_poll
    Verdicts     \* what the XDP program may return

ASSUME BatchAssumption == BatchSize \in Nat \ {0}

ASSUME FlagAssumption ==
    /\ CopyFlag \in BOOLEAN /\ BusyPoll \in BOOLEAN /\ OptPoll \in BOOLEAN
    /\ CopyFlag => CopyMode

ASSUME VerdictAssumption == Verdicts \subseteq Actions /\ Verdicts # {}

\* The sizes of xdpsock.c: rx_size = tx_size = comp_size = NUM_FRAMES / 2.
ASSUME RingSizesAssumption ==
    /\ RxSize <= TxSize
    /\ NumFrames <= TxSize + CompSize

VARIABLES
    pc,            \* where the thread is
    cur,           \* the socket l2fwd_all is serving
    back,          \* where complete_tx_l2fwd returns to
    crcvd,         \* rcvd of complete_tx_l2fwd
    left,          \* descriptors of the batch still to be copied
    fragsDone,     \* frags_done
    nbFrags,       \* nb_frags: static, one for all sockets
    outstanding,   \* outstanding_tx, per socket
    benchmarkDone  \* benchmark_done

userVars == <<pc, cur, back, crcvd, left, fragsDone, nbFrags, outstanding>>
vars == <<kernelVars, userVars, benchmarkDone>>

PCs == {"loop", "complete", "reap", "fill", "release", "peek", "reserve", "kick",
        "copy", "submit", "rxrelease", "exit"}

TypeOK ==
    /\ TypeOKKernel
    /\ pc \in PCs
    /\ cur \in Socks
    /\ back \in {"peek", "kick"}
    /\ crcvd \in Nat
    /\ left \in Nat
    /\ fragsDone \in Nat
    /\ nbFrags \in Nat
    /\ outstanding \in [Socks -> Nat]
    /\ benchmarkDone \in BOOLEAN

Init ==
    /\ InitKernel
    /\ fq = PopulatedFillRing
    /\ pc = "loop" /\ cur = 1 /\ back = "peek"
    /\ crcvd = 0 /\ left = 0 /\ fragsDone = 0 /\ nbFrags = 0
    /\ outstanding = [s \in Socks |-> 0]
    /\ benchmarkDone = FALSE

-----------------------------------------------------------------------------
(* l2fwd_all *)

\* poll(POLLIN | POLLOUT) has something to report: a received descriptor, or
\* a tx ring at most half full.
PollReady ==
    \E s \in Socks : rx[s].q # <<>> \/ 2 * Len(tx[s].q) <= TxSize

\* Without --poll the round starts at once.  poll() itself drives copy-mode Tx
\* and wakes the driver; a timeout goes round again.
StartRound ==
    /\ pc = "loop"
    /\ IF OptPoll THEN Kick(Socks) /\ Recvfrom
                  ELSE UNCHANGED <<kicked, rxAsleep>>
    /\ \/ /\ OptPoll => PollReady
          /\ pc' = "complete" /\ cur' = 1 /\ back' = "peek"
       \/ /\ OptPoll /\ ~PollReady
          /\ UNCHANGED <<pc, cur, back>>
    /\ UNCHANGED <<fq, cq, rx, tx, pend, inflight, crcvd, left, fragsDone,
                   nbFrags, outstanding, benchmarkDone>>

\* l2fwd(xsks[cur]) returned: the next socket, or the end of the round.
NextSock ==
    IF cur < NumSocks
    THEN /\ cur' = cur + 1 /\ pc' = "complete" /\ back' = "peek"
    ELSE /\ pc' = IF benchmarkDone THEN "exit" ELSE "loop"
         /\ UNCHANGED <<cur, back>>

-----------------------------------------------------------------------------
(* complete_tx_l2fwd *)

\* ndescs: no more completions than this socket is owed, a batch at most.
Ndescs == IF outstanding[cur] > BatchSize THEN BatchSize ELSE outstanding[cur]

\* Copy mode is recognised by the requested bind flag.
KicksOnComplete_Never == FALSE
KicksOnComplete == CopyFlag

\* Early return without outstanding frames; otherwise sendto() if the bind
\* flags ask for copy mode.
CompleteTx ==
    /\ pc = "complete"
    /\ IF outstanding[cur] = 0
       THEN pc' = back /\ UNCHANGED kicked
       ELSE /\ pc' = "reap"
            /\ IF KicksOnComplete THEN Kick({cur}) ELSE UNCHANGED kicked
    /\ UNCHANGED <<fq, cq, rx, tx, pend, inflight, rxAsleep, cur, back, crcvd,
                   left, fragsDone, nbFrags, outstanding, benchmarkDone>>

\* At most ndescs completions are peeked.
PeekCq ==
    /\ pc = "reap"
    /\ cq' = Peek(cq, Ndescs)
    /\ crcvd' = PeekCount(cq, Ndescs)
    /\ pc' = IF crcvd' > 0 THEN "fill" ELSE back
    /\ UNCHANGED <<fq, rx, tx, pend, inflight, rxAsleep, kicked, cur, back,
                   left, fragsDone, nbFrags, outstanding, benchmarkDone>>

FillRoom == Len(fq) + crcvd <= FillSize

\* Fill slots are reserved, the completed addresses copied and submitted.  The
\* loop that waits for room changes nothing the thread holds; RefillNeverWaits
\* says that it never turns.
RefillSubmit ==
    /\ pc = "fill" /\ FillRoom
    /\ fq' = fq \o FirstN(cq.q, crcvd)
    /\ pc' = "release"
    /\ UNCHANGED <<cq, rx, tx, pend, inflight, rxAsleep, kicked, cur, back,
                   crcvd, left, fragsDone, nbFrags, outstanding, benchmarkDone>>

RefillRelease_Kept ==
    /\ pc = "release"
    /\ cq' = [cq EXCEPT !.peeked = @ - crcvd]
    /\ outstanding' = [outstanding EXCEPT ![cur] = @ - crcvd]
    /\ crcvd' = 0
    /\ pc' = back
    /\ UNCHANGED <<fq, rx, tx, pend, inflight, rxAsleep, kicked, cur, back,
                   left, fragsDone, nbFrags, benchmarkDone>>

RefillRelease_NoDebit ==
    /\ pc = "release"
    /\ cq' = Release(cq, crcvd)
    /\ crcvd' = 0
    /\ pc' = back
    /\ UNCHANGED <<fq, rx, tx, pend, inflight, rxAsleep, kicked, cur, back,
                   left, fragsDone, nbFrags, outstanding, benchmarkDone>>

\* The completion slots are released and the frames no longer outstanding.
RefillRelease ==
    /\ pc = "release"
    /\ cq' = Release(cq, crcvd)
    /\ outstanding' = [outstanding EXCEPT ![cur] = @ - crcvd]
    /\ crcvd' = 0
    /\ pc' = back
    /\ UNCHANGED <<fq, rx, tx, pend, inflight, rxAsleep, kicked, cur, back,
                   left, fragsDone, nbFrags, benchmarkDone>>

-----------------------------------------------------------------------------
(* l2fwd *)

WakesWhenEmpty_BusyOnly == BusyPoll
WakesWhenEmpty == BusyPoll \/ FillNeedsWakeup

\* Up to BatchSize descriptors are peeked; with none, the driver is woken if
\* it asked for it and the call returns.
PeekRx ==
    /\ pc = "peek"
    /\ LET rcvd == PeekCount(rx[cur], BatchSize) IN
        /\ rx' = [rx EXCEPT ![cur] = Peek(@, BatchSize)]
        /\ left' = rcvd
        /\ fragsDone' = 0
        /\ IF rcvd = 0
           THEN /\ NextSock
                /\ IF WakesWhenEmpty THEN Recvfrom ELSE UNCHANGED rxAsleep
           ELSE /\ pc' = "reserve"
                /\ UNCHANGED <<cur, back, rxAsleep>>
    /\ UNCHANGED <<fq, cq, tx, pend, inflight, kicked, crcvd, nbFrags,
                   outstanding, benchmarkDone>>

\* Room for the whole batch on the tx ring, or a detour through
\* complete_tx_l2fwd and, if the kernel wants it, sendto().
ReserveTx ==
    /\ pc = "reserve"
    /\ IF CanReserve(tx[cur], TxSize, left)
       THEN pc' = "copy" /\ UNCHANGED back
       ELSE pc' = "complete" /\ back' = "kick"
    /\ UNCHANGED <<kernelVars, cur, crcvd, left, fragsDone, nbFrags,
                   outstanding, benchmarkDone>>

KickInReserve ==
    /\ pc = "kick"
    /\ IF BusyPoll \/ TxNeedsWakeup THEN Kick({cur}) ELSE UNCHANGED kicked
    /\ pc' = "reserve"
    /\ UNCHANGED <<fq, cq, rx, tx, pend, inflight, rxAsleep, cur, back, crcvd,
                   left, fragsDone, nbFrags, outstanding, benchmarkDone>>

RunsProgram_Always == TRUE
RunsProgram == nbFrags = 0

\* One turn of the descriptor loop.  The program runs on the descriptor that
\* finds nb_frags = 0; l2fwd ignores what ebpf_process_packet returns.
CopyDesc ==
    /\ pc = "copy" /\ left > 0
    /\ LET d == rx[cur].q[rx[cur].peeked - left + 1] IN
        /\ \E v \in IF RunsProgram THEN Verdicts ELSE {"none"} :
             tx' = [tx EXCEPT ![cur] = WriteSlot(@, [d EXCEPT !.act = v])]
        /\ nbFrags' = IF d.eop THEN 0 ELSE nbFrags + 1
        /\ fragsDone' = IF d.eop THEN fragsDone + nbFrags + 1 ELSE fragsDone
    /\ left' = left - 1
    /\ pc' = IF left = 1 THEN "submit" ELSE "copy"
    /\ UNCHANGED <<fq, cq, rx, pend, inflight, rxAsleep, kicked, cur, back,
                   crcvd, outstanding, benchmarkDone>>

SubmitTx_All ==
    /\ pc = "submit"
    /\ tx' = [tx EXCEPT ![cur] = Submit(@, Len(@.resv))]
    /\ pc' = "rxrelease"
    /\ UNCHANGED <<fq, cq, rx, pend, inflight, rxAsleep, kicked, cur, back,
                   crcvd, left, fragsDone, nbFrags, outstanding, benchmarkDone>>

\* The descriptors of the packets that ended in this batch are published.
SubmitTx ==
    /\ pc = "submit"
    /\ tx' = [tx EXCEPT ![cur] = Submit(@, fragsDone)]
    /\ pc' = "rxrelease"
    /\ UNCHANGED <<fq, cq, rx, pend, inflight, rxAsleep, kicked, cur, back,
                   crcvd, left, fragsDone, nbFrags, outstanding, benchmarkDone>>

ReleaseRx_All ==
    /\ pc = "rxrelease"
    /\ rx' = [rx EXCEPT ![cur] = Release(@, @.peeked)]
    /\ outstanding' = [outstanding EXCEPT ![cur] = @ + fragsDone]
    /\ fragsDone' = 0
    /\ NextSock
    /\ UNCHANGED <<fq, cq, tx, pend, inflight, rxAsleep, kicked, crcvd, left,
                   nbFrags, benchmarkDone>>

ReleaseRx_Kept ==
    /\ pc = "rxrelease"
    /\ rx' = [rx EXCEPT ![cur].peeked = @ - fragsDone]
    /\ outstanding' = [outstanding EXCEPT ![cur] = @ + fragsDone]
    /\ fragsDone' = 0
    /\ NextSock
    /\ UNCHANGED <<fq, cq, tx, pend, inflight, rxAsleep, kicked, crcvd, left,
                   nbFrags, benchmarkDone>>

\* Their rx slots are released; the call returns.
ReleaseRx ==
    /\ pc = "rxrelease"
    /\ rx' = [rx EXCEPT ![cur] = Release(@, fragsDone)]
    /\ outstanding' = [outstanding EXCEPT ![cur] = @ + fragsDone]
    /\ fragsDone' = 0
    /\ NextSock
    /\ UNCHANGED <<fq, cq, tx, pend, inflight, rxAsleep, kicked, crcvd, left,
                   nbFrags, benchmarkDone>>

-----------------------------------------------------------------------------
\* int_exit on a signal, or is_benchmark_done in the poller thread.
BenchmarkDone ==
    /\ ~benchmarkDone
    /\ benchmarkDone' = TRUE
    /\ UNCHANGED <<kernelVars, userVars>>

User ==
    \/ StartRound \/ CompleteTx \/ PeekCq \/ RefillSubmit \/ RefillRelease
    \/ PeekRx \/ ReserveTx \/ KickInReserve \/ CopyDesc \/ SubmitTx \/ ReleaseRx

Kernel ==
    /\ \/ \E s \in Socks : KernelRx(s) \/ KernelTx(s) \/ KernelKickEnd(s)
       \/ KernelRxSleep
       \/ \E f \in Frames : KernelComplete(f)
    /\ UNCHANGED <<userVars, benchmarkDone>>

Next == User \/ Kernel \/ BenchmarkDone

Spec == Init /\ [][Next]_vars

\* The thread keeps running; the kernel serves a tx ring it is asked to serve
\* again and again (a single sendto() may fail), and completes what it sent.
Fairness ==
    /\ WF_vars(User)
    /\ \A s \in Socks : SF_vars(KernelTx(s) /\ UNCHANGED <<userVars, benchmarkDone>>)
    /\ \A f \in Frames : WF_vars(KernelComplete(f) /\ UNCHANGED <<userVars, benchmarkDone>>)

FairSpec == Spec /\ Fairness

-----------------------------------------------------------------------------
(* Who holds a frame.  The entries of a consumed ring that were handed on    *)
(* but not yet released (between the two ring updates) are nobody's.         *)

LiveCq == DropN(cq.q, IF pc = "release" THEN crcvd ELSE 0)

HandedOn(s) == IF pc = "rxrelease" /\ s = cur THEN fragsDone ELSE 0

LiveRx(s) == DropN(rx[s].q, HandedOn(s))

FillHeld == Range(fq)
CompHeld == Range(LiveCq)
RxHeld(s) == Range(Addrs(LiveRx(s)))
TxHeld(s) == Range(Addrs(tx[s].q))
SockHeld(s) == RxHeld(s) \cup TxHeld(s) \cup pend[s]

Disjoint(A, B) == A \cap B = {}

\* The sum over the sockets of what each counts: one ticket per count.
Tickets(counts) == UNION {{s} \X (1..counts[s]) : s \in Socks}
Total(counts) == Cardinality(Tickets(counts))

\* complete_tx_l2fwd was called from the loop that waits for tx slots.
WaitsForTx == pc \in {"complete", "reap", "fill", "release"} /\ back = "kick"

\* nb_frags is one counter for all sockets, so the accounting of unfinished
\* packets holds for one socket, or where every packet fits one frame.
FragsUnshared == NumSocks = 1 \/ MaxFrags = 1

-----------------------------------------------------------------------------
(* Safety. *)

\* No frame is in two places: not twice in a ring, not in two rings, not in a
\* ring while the kernel owns it.  A frame in the fill ring that is also queued
\* for Tx would be overwritten by the next packet while it is being sent.
NoFrameShared ==
    /\ IsInjective(fq)
    /\ IsInjective(LiveCq)
    /\ Disjoint(FillHeld, CompHeld)
    /\ Disjoint(inflight, FillHeld \cup CompHeld)
    /\ \A s \in Socks :
        /\ IsInjective(Addrs(LiveRx(s)))
        /\ IsInjective(Addrs(tx[s].q))
        /\ Disjoint(RxHeld(s), TxHeld(s))
        /\ Disjoint(pend[s], RxHeld(s) \cup TxHeld(s))
        /\ Disjoint(SockHeld(s), FillHeld \cup CompHeld \cup inflight)
        /\ \A t \in Socks \ {s} : Disjoint(SockHeld(s), SockHeld(t))

\* No frame leaks: each is on a ring or with the NIC, so the umem never runs
\* dry however long xdpsock forwards.
NoFrameLost ==
    Frames = FillHeld \cup CompHeld \cup inflight \cup UNION {SockHeld(s) : s \in Socks}

\* The loop of complete_tx_l2fwd that waits for fill slots never turns: the
\* fill ring has a slot for every frame.
RefillNeverWaits == pc = "fill" => FillRoom

\* A socket that waits for tx slots and is owed no completion reaps none, so
\* the ring can only drain if the kernel still finds completion slots.  It
\* does: the frames on the full tx ring, those waiting to be queued and a full
\* completion ring would be more than the umem has.
WaitingTxCanDrain ==
    (pc = "reserve" /\ ~CanReserve(tx[cur], TxSize, left) /\ outstanding[cur] = 0)
        => CompUsed < CompSize

\* outstanding_tx, summed over the sockets that share the completion ring, is
\* what is on its way: a socket that reaps another's completions takes over
\* the other's debt and nobody's counter drifts or wraps below zero.
OutstandingExact ==
    LET submitted == IF pc = "rxrelease" THEN fragsDone ELSE 0
    IN  Total(outstanding) + submitted = Total([s \in Socks |-> Len(tx[s].q)]) + CompUsed

CqInStep ==
    /\ crcvd = cq.peeked /\ Ordered(cq)
    /\ pc \notin {"fill", "release"} => crcvd = 0
    /\ crcvd <= outstanding[cur]

PhaseInStep ==
    /\ left > 0 <=> pc \in {"reserve", "kick", "copy"} \/ WaitsForTx
    /\ pc \notin {"copy", "submit", "rxrelease"} => fragsDone = 0

FragsInStep ==
    /\ nbFrags + fragsDone = Len(tx[cur].resv) + HandedOn(cur)
    /\ rx[cur].peeked = Len(tx[cur].resv) + HandedOn(cur) + left
    /\ MaxFrags = 1 => nbFrags = 0

SockInStep(s) ==
    /\ Ordered(rx[s])
    /\ s # cur => rx[s].peeked = 0 /\ Len(tx[s].resv) = 0
    /\ MaxFrags = 1 => \A i \in DOMAIN rx[s].q : rx[s].q[i].eop

\* The cursors of the rings and the thread's counters agree.  A batch that ends
\* inside a packet leaves its fragments peeked on rx and reserved on tx, nb_frags
\* of each, for the next call to finish: frags_done never submits or releases
\* more than was reserved and peeked, and no counter wraps below zero.
CursorsInStep ==
    CqInStep /\ PhaseInStep /\ FragsInStep /\ \A s \in Socks : SockInStep(s)

\* What the kernel is given to send is whole packets as they were received:
\* each starts with its first fragment, goes on with its own fragments and
\* ends with the end-of-packet descriptor.
TxPacketsWhole ==
    \A s \in Socks : LET q == tx[s].q IN
        /\ q # <<>> => q[Len(q)].eop
        /\ \A i \in DOMAIN q :
            LET starts == IF i = 1 THEN pend[s] = {} ELSE q[i - 1].eop
            IN  /\ starts <=> q[i].addr = q[i].head
                /\ (i > 1 /\ ~starts) => q[i].head = q[i - 1].head

\* The XDP program runs once per packet, on its first fragment.
ProgramRunsOnHeads ==
    \A s \in Socks : \A d \in Range(tx[s].q) \cup Range(tx[s].resv) :
        d.act # "none" <=> d.addr = d.head

-----------------------------------------------------------------------------
(* The frame cycle this datapath implements. *)

Owner ==
    [f \in Frames |->
        CASE f \in FillHeld -> "fill"
          [] \E s \in Socks : f \in RxHeld(s) -> "rx"
          [] \E s \in Socks : f \in TxHeld(s) -> "tx"
          [] f \in inflight \/ \E s \in Socks : f \in pend[s] -> "wire"
          [] f \in CompHeld -> "comp"
          [] OTHER -> "lost"]

Cycle == INSTANCE FrameCycle WITH
    Stages <- {"fill", "rx", "tx", "wire", "comp"},
    Moves <- {<<"fill", "rx">>, <<"rx", "tx">>, <<"tx", "wire">>,
              <<"wire", "comp">>, <<"comp", "fill">>},
    Start <- "fill",
    owner <- Owner

\* l2fwd implements the frame cycle: a frame is received into, queued, sent,
\* completed and only then given back for reception.
ImplementsCycle == Cycle!Spec

-----------------------------------------------------------------------------
(* Liveness, under Fairness. *)

\* A received frame is eventually free for reception again (or the run ends).
FramesReturn ==
    \A f \in Frames :
        (\E s \in Socks : f \in RxHeld(s)) ~> (f \in FillHeld \/ benchmarkDone)

\* The driver that stopped receiving for want of frames is woken.
DriverWoken == rxAsleep ~> (~rxAsleep \/ pc = "exit")

\* After a signal or the end of --duration the thread leaves its loops, the
\* one that waits for tx slots included.
StopsWhenDone == benchmarkDone ~> (pc = "exit")
=============================================================================
