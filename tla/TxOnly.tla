------------------------------- MODULE TxOnly -------------------------------
(***************************************************************************)
(* afxdp/l2fwd/xdpsock.c run as --txonly: the thread queues packets whose  *)
(* frames it takes round robin from the umem (tx_only_all, tx_only) and    *)
(* reaps completions (complete_tx_only), then drains what is outstanding   *)
(* (complete_tx_only_all).  Nothing records which frames are free: that a  *)
(* frame is not written while the NIC may still read it rests on the sizes *)
(* of the rings and the order of completions.                              *)
(***************************************************************************)
EXTENDS XskRings, Functions, FiniteSets

CONSTANTS
    NumFrames,     \* NUM_FRAMES
    NumSocks,      \* num_socks; all sockets share one umem
    CompSize,      \* cfg.comp_size
    TxSize,        \* cfg.tx_size
    CopyMode,      \* the kernel bound the sockets in copy mode
    NeedWakeup,    \* opt_need_wakeup
    InOrder,       \* the NIC completes frames in the order it got them
    BatchSize,     \* opt_batch_size, in packets
    FramesPerPkt,  \* frames_per_pkt: opt_pkt_size in frames of the default size
    DescsPerPkt,   \* descriptors the loop writes: PKT_SIZE in frames of -f size
    PktCount,      \* opt_pkt_count, 0 for no limit
    Retries,       \* opt_retries
    OptPoll,       \* opt_poll
    TxCycle,       \* opt_tx_cycle_ns is set
    U32            \* 2^32; any modulus above the number of frames will do

ASSUME SizesAssumption ==
    /\ NumFrames \in Nat \ {0} /\ NumSocks \in Nat \ {0}
    /\ CompSize \in Nat \ {0} /\ TxSize \in Nat \ {0}
    /\ FramesPerPkt \in Nat \ {0} /\ DescsPerPkt \in Nat \ {0}
    /\ BatchSize \in Nat \ {0} /\ BatchSize * FramesPerPkt <= TxSize
    /\ PktCount \in Nat /\ Retries \in Nat
    /\ U32 \in Nat /\ U32 > NumFrames

\* tx_size + comp_size = NUM_FRAMES.
ASSUME RingSizesAssumption == TxSize + CompSize <= NumFrames

\* tx_only_all refuses --poll with --tx-cycle.
ASSUME FlagAssumption ==
    /\ CopyMode \in BOOLEAN /\ NeedWakeup \in BOOLEAN /\ InOrder \in BOOLEAN
    /\ OptPoll \in BOOLEAN /\ TxCycle \in BOOLEAN /\ ~(OptPoll /\ TxCycle)

VARIABLES
    tx,            \* per socket: descriptors submitted, not yet taken
    wire,          \* descriptors the kernel took, oldest first
    cq,            \* completion ring, shared by the sockets
    kicked,        \* per socket: a sendto() or poll() is driving copy-mode Tx
    pc,            \* where the thread is
    cur,           \* the socket being served
    back,          \* where complete_tx_only returns to
    batch,         \* batch_size, in descriptors
    frameNb,       \* frame_nb, per socket
    outstanding,   \* outstanding_tx, per socket
    txCnt, pktCnt, \* tx_cnt, pkt_cnt
    pending,       \* pending of complete_tx_only_all
    retries,       \* opt_retries
    benchmarkDone, \* benchmark_done
    sent           \* history: packets submitted while there is a limit

kernelVars == <<tx, wire, cq, kicked>>
userVars == <<pc, cur, back, batch, frameNb, outstanding, txCnt, pktCnt,
              pending, retries, sent>>
vars == <<kernelVars, userVars, benchmarkDone>>

Frames == 0..(NumFrames - 1)
Socks == 1..NumSocks
Descs == [addr: Frames, eop: BOOLEAN]

TypeOK ==
    /\ tx \in [Socks -> Seq(Descs)]
    /\ wire \in Seq(Descs)
    /\ cq \in ConsRing(Frames)
    /\ kicked \in [Socks -> BOOLEAN]
    /\ pc \in {"loop", "reserve", "write", "complete", "reap", "drain", "exit"}
    /\ cur \in Socks
    /\ back \in {"reserve", "return", "drain"}
    /\ batch \in 0..(BatchSize * FramesPerPkt)
    /\ frameNb \in [Socks -> Frames]
    /\ outstanding \in [Socks -> 0..(U32 - 1)]
    /\ txCnt \in Nat /\ pktCnt \in Nat /\ sent \in Nat
    /\ pending \in BOOLEAN
    /\ retries \in 0..Retries
    /\ benchmarkDone \in BOOLEAN

Init ==
    /\ tx = [s \in Socks |-> <<>>] /\ wire = <<>> /\ cq = EmptyCons
    /\ kicked = [s \in Socks |-> FALSE]
    /\ pc = "loop" /\ cur = 1 /\ back = "return" /\ batch = 0
    /\ frameNb = [s \in Socks |-> 0]
    /\ outstanding = [s \in Socks |-> 0]
    /\ txCnt = 0 /\ pktCnt = 0 /\ sent = 0
    /\ pending = FALSE /\ retries = Retries
    /\ benchmarkDone = FALSE

-----------------------------------------------------------------------------
(* The kernel's side (external). *)

CompUsed == Len(wire) + Len(cq.q)

KernelTx(s) ==
    /\ CopyMode => kicked[s]
    /\ tx[s] # <<>> /\ CompUsed < CompSize
    /\ wire' = Append(wire, Head(tx[s]))
    /\ tx' = [tx EXCEPT ![s] = Tail(@)]
    /\ UNCHANGED <<cq, kicked, userVars, benchmarkDone>>

KernelKickEnd(s) ==
    /\ kicked[s]
    /\ kicked' = [kicked EXCEPT ![s] = FALSE]
    /\ UNCHANGED <<tx, wire, cq, userVars, benchmarkDone>>

KernelComplete ==
    /\ \E i \in DOMAIN wire :
        /\ InOrder => i = 1
        /\ cq' = [cq EXCEPT !.q = Append(@, wire[i].addr)]
        /\ wire' = FirstN(wire, i - 1) \o DropN(wire, i)
    /\ UNCHANGED <<tx, kicked, userVars, benchmarkDone>>

\* sendto() and poll() drive copy-mode Tx.
Kick(S) == kicked' = [s \in Socks |-> kicked[s] \/ (CopyMode /\ s \in S)]

TxNeedsWakeup == NeedWakeup /\ CopyMode

-----------------------------------------------------------------------------
(* tx_only_all *)

GetBatchSize_Full(n) == BatchSize * FramesPerPkt
GetBatchSize_Packets(n) ==
    IF PktCount = 0 \/ n + BatchSize <= PktCount
    THEN BatchSize * FramesPerPkt
    ELSE PktCount - n

\* What is left of the packet count, a batch at most.
GetBatchSize(n) ==
    IF PktCount = 0 \/ n + BatchSize <= PktCount
    THEN BatchSize * FramesPerPkt
    ELSE (PktCount - n) * FramesPerPkt

\* After the loop: complete_tx_only_all if a number of packets was asked for.
Leave ==
    /\ pc' = IF PktCount > 0 THEN "drain" ELSE "exit"
    /\ cur' = 1 /\ pending' = FALSE

\* The set-up loop of tx_only_all writes fds[0] every time, so poll() watches
\* the last socket only.
PollReady == 2 * Len(tx[NumSocks]) <= TxSize

\* The top of the loop: the packet count is reached, or a round starts.  A
\* poll() without result goes round again; a sleep until the next --tx-cycle
\* that a signal interrupts ends the loop.
StartRound ==
    /\ pc = "loop"
    /\ \/ /\ PktCount > 0 /\ pktCnt >= PktCount
          /\ Leave
          /\ UNCHANGED <<batch, txCnt, kicked>>
       \/ /\ PktCount > 0 => pktCnt < PktCount
          /\ batch' = GetBatchSize(pktCnt)
          /\ txCnt' = 0
          /\ IF OptPoll THEN Kick({NumSocks}) ELSE UNCHANGED kicked
          /\ \/ IF OptPoll => PollReady
                THEN pc' = "reserve" /\ cur' = 1 /\ UNCHANGED pending
                ELSE UNCHANGED <<pc, cur, pending>>
             \/ TxCycle /\ benchmarkDone /\ Leave
    /\ UNCHANGED <<tx, wire, cq, back, frameNb, outstanding, pktCnt, retries,
                   benchmarkDone, sent>>

\* tx_only(xsks[cur]) returned n packets: the next socket, or the end of the
\* round.  Without a limit nobody reads pkt_cnt, and it is not kept.
Return(n) ==
    IF cur < NumSocks
    THEN /\ pc' = "reserve" /\ cur' = cur + 1 /\ txCnt' = n
         /\ UNCHANGED <<pktCnt, pending>>
    ELSE /\ pktCnt' = IF PktCount = 0 THEN 0 ELSE pktCnt + n
         /\ txCnt' = 0
         /\ IF benchmarkDone THEN Leave ELSE pc' = "loop" /\ UNCHANGED <<cur, pending>>

-----------------------------------------------------------------------------
(* tx_only *)

\* Room for the whole batch, or a detour through complete_tx_only.
ReserveTx ==
    /\ pc = "reserve"
    /\ IF Len(tx[cur]) + batch <= TxSize
       THEN pc' = "write" /\ UNCHANGED back
       ELSE pc' = "complete" /\ back' = "reserve"
    /\ UNCHANGED <<kernelVars, cur, batch, frameNb, outstanding, txCnt, pktCnt,
                   pending, retries, benchmarkDone, sent>>

\* How many descriptors the loop writes: whole packets until the batch is full.
Written == ((batch + DescsPerPkt - 1) \div DescsPerPkt) * DescsPerPkt

\* They name the frames from frame_nb on, round robin.
NewDescs ==
    [i \in 1..Written |-> [addr |-> (frameNb[cur] + i - 1) % NumFrames,
                           eop |-> i % DescsPerPkt = 0]]

NewFrameNb_Fixed == frameNb[cur]
NewFrameNb == (frameNb[cur] + Written) % NumFrames

\* The batch is written and submitted; complete_tx_only follows.
SubmitTx ==
    /\ pc = "write"
    /\ LET new == FirstN(NewDescs, batch) IN
        /\ tx' = [tx EXCEPT ![cur] = @ \o new]
        /\ sent' = IF PktCount = 0 THEN 0
                   ELSE sent + Cardinality({i \in DOMAIN new : new[i].eop})
    /\ frameNb' = [frameNb EXCEPT ![cur] = NewFrameNb]
    /\ outstanding' = [outstanding EXCEPT ![cur] = (@ + batch) % U32]
    /\ pc' = "complete" /\ back' = "return"
    /\ UNCHANGED <<wire, cq, kicked, cur, batch, txCnt, pktCnt, pending, retries,
                   benchmarkDone>>

-----------------------------------------------------------------------------
(* complete_tx_only *)

KicksOnComplete_Never == FALSE
KicksOnComplete == ~NeedWakeup \/ TxNeedsWakeup

\* outstanding_tx after n completions, whoever they belong to.
Debit_None(n) == outstanding[cur]
Debit(n) == (outstanding[cur] - n) % U32

\* One socket of complete_tx_only_all is done; after the last one, another turn
\* if something is pending and there are retries left.
DrainNext(p) ==
    IF cur < NumSocks
    THEN /\ pc' = "drain" /\ cur' = cur + 1 /\ pending' = p
         /\ UNCHANGED retries
    ELSE /\ cur' = 1
         /\ IF p /\ retries > 0
            THEN pc' = "drain" /\ pending' = FALSE /\ retries' = retries - 1
            ELSE pc' = "exit" /\ pending' = p /\ UNCHANGED retries

\* complete_tx_only returns: to the end of tx_only; to the loop that waits for
\* tx slots, where a finished benchmark makes tx_only return 0; or to the drain.
Resume ==
    \/ /\ back = "return"
       /\ Return(txCnt + batch \div FramesPerPkt)
       /\ UNCHANGED retries
    \/ /\ back = "reserve"
       /\ IF benchmarkDone
          THEN Return(txCnt)
          ELSE pc' = "reserve" /\ UNCHANGED <<cur, txCnt, pktCnt, pending>>
       /\ UNCHANGED retries
    \/ /\ back = "drain"
       /\ DrainNext(outstanding'[cur] # 0)
       /\ UNCHANGED <<txCnt, pktCnt>>

\* Early return without outstanding frames; otherwise sendto() if it is wanted.
CompleteTx ==
    /\ pc = "complete"
    /\ IF outstanding[cur] = 0
       THEN Resume /\ UNCHANGED kicked
       ELSE /\ pc' = "reap"
            /\ IF KicksOnComplete THEN Kick({cur}) ELSE UNCHANGED kicked
            /\ UNCHANGED <<cur, txCnt, pktCnt, pending, retries>>
    /\ UNCHANGED <<tx, wire, cq, back, batch, frameNb, outstanding, benchmarkDone, sent>>

\* Completions are peeked and released, a batch at most.
ReapTx ==
    /\ pc = "reap"
    /\ LET n == IF back = "drain" THEN BatchSize ELSE batch
           rcvd == PeekCount(cq, n)
       IN /\ cq' = Release(Peek(cq, n), rcvd)
          /\ outstanding' = [outstanding EXCEPT ![cur] = Debit(rcvd)]
    /\ Resume
    /\ UNCHANGED <<tx, wire, kicked, back, batch, frameNb, benchmarkDone, sent>>

-----------------------------------------------------------------------------
(* complete_tx_only_all *)

\* A socket with nothing outstanding leaves pending alone.
Drain ==
    /\ pc = "drain"
    /\ IF outstanding[cur] # 0
       THEN /\ pc' = "complete" /\ back' = "drain"
            /\ UNCHANGED <<cur, pending, retries>>
       ELSE DrainNext(pending) /\ UNCHANGED back
    /\ UNCHANGED <<kernelVars, batch, frameNb, outstanding, txCnt, pktCnt, benchmarkDone, sent>>

-----------------------------------------------------------------------------
\* int_exit on a signal, or is_benchmark_done in the poller thread.
BenchmarkDone ==
    /\ ~benchmarkDone
    /\ benchmarkDone' = TRUE
    /\ UNCHANGED <<kernelVars, userVars>>

User == StartRound \/ ReserveTx \/ SubmitTx \/ CompleteTx \/ ReapTx \/ Drain

Next ==
    \/ User
    \/ \E s \in Socks : KernelTx(s) \/ KernelKickEnd(s)
    \/ KernelComplete
    \/ BenchmarkDone

Spec == Init /\ [][Next]_vars

\* The thread keeps running; the kernel serves a tx ring it is asked to serve
\* again and again, and completes what it took.
Fairness ==
    /\ WF_vars(User)
    /\ \A s \in Socks : SF_vars(KernelTx(s))
    /\ WF_vars(KernelComplete)

FairSpec == Spec /\ Fairness

-----------------------------------------------------------------------------
(* Properties. *)

\* A frame is not written while a descriptor the NIC has still to send names it.
NoFrameRewritten ==
    pc = "write" =>
        \A i \in DOMAIN NewDescs :
            NewDescs[i].addr \notin {d.addr : d \in Range(tx[cur]) \cup Range(wire)}

\* With one socket outstanding_tx is what is on its way, so a reap never takes
\* it below zero.
OutstandingExact == outstanding[1] = Len(tx[1]) + CompUsed

\* What the kernel was given consists of whole packets.
PacketsWhole ==
    \A s \in Socks : tx[s] # <<>> => tx[s][Len(tx[s])].eop

\* --tx-pkt-count: never more packets than asked for, and exactly as many when
\* the loop ends by itself.
SendsPktCount ==
    PktCount > 0 =>
        /\ sent <= PktCount
        /\ (pc \in {"drain", "exit"} /\ ~benchmarkDone) => sent = PktCount

\* A run with a packet count comes to its end.
Finishes == PktCount > 0 => <>(pc = "exit")
=============================================================================
