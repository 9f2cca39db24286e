------------------------------ MODULE Dpdk ------------------------------
(***************************************************************************)
(* The DPDK forwarder (dpdk/main.c) from its command line to its end: the  *)
(* logical cores DpdkConfig gave ports to poll them, run the program and   *)
(* buffer what is to be sent, the buffers are drained by time, and a       *)
(* signal stops it all.                                                    *)
(*                                                                         *)
(* There are two builds.  With PROCESS_BATCH_PACKET (dpdk_batch) a packet  *)
(* goes to the partner of the port it came from.  Otherwise the program    *)
(* decides, and the port is the dst_port of l2fwd_simple_forward, a        *)
(* variable that is never set: here, whatever DstPort it may hold.  That   *)
(* build is modelled on one core, as README.md starts it: on more, cores   *)
(* would race for a transmit buffer.                                       *)
(*                                                                         *)
(* The devices, rte_eth_rx_burst, rte_eth_tx_buffer and its flush are      *)
(* DPDK's and modelled from their use.  A packet stands for its mbuf, and  *)
(* packets are numbered as they arrive.  sent, freed and unhandled are     *)
(* history, except that what is neither freed nor sent holds an mbuf.      *)
(***************************************************************************)
EXTENDS DpdkConfig, SequencesExt

CONSTANTS
    MAX_PKT_BURST,
    NbRxd, NbTxd,     \* descriptors of a receive and of a transmit queue
    NbMbufs,          \* the size of the mbuf pool
    DstPort,          \* what an unsigned that is not initialised may hold
    MaxPackets        \* bound: packets that arrive

ASSUME BurstAssumption ==
    /\ MAX_PKT_BURST \in Nat \ {0} /\ NbRxd \in Nat /\ NbTxd \in Nat /\ NbMbufs \in Nat
    /\ MaxPackets \in Nat

\* The build that runs the program has one core.
ASSUME BuildAssumption ==
    \A c \in Commands : c.batch \/ \E l \in LcoreIds : c.lcores \subseteq {l}

VARIABLES
    core,           \* core -> port index (0: top of the loop) and burst in hand
    due,            \* core -> diff_tsc > drain_tsc
    rxq, txq,       \* port -> packets in the queues of the device
    tx_buffer,      \* port -> packets waiting to be a burst
    stats,          \* port_statistics
    force_quit,
    arrived,        \* packets that have arrived
    sent,           \* port -> packets on the wire
    freed,          \* packets the buffer's error callback counted and freed
    unhandled       \* packets the program dropped or passed

vars == <<cvars, core, due, rxq, txq, tx_buffer, stats, force_quit, arrived, sent, freed, unhandled>>

NoPackets == [p \in PortIds |-> <<>>]
ZeroStats == [rx |-> 0, tx |-> 0, dropped |-> 0, xdp_drop |-> 0, xdp_pass |-> 0]

Init ==
    /\ ConfigInit
    /\ core = [c \in LcoreIds |-> [i |-> 0, pkts |-> <<>>]]
    /\ due = [c \in LcoreIds |-> FALSE]
    /\ rxq = NoPackets /\ txq = NoPackets /\ tx_buffer = NoPackets /\ sent = NoPackets
    /\ stats = [p \in PortIds |-> ZeroStats]
    /\ force_quit = FALSE
    /\ arrived = 0
    /\ freed = {} /\ unhandled = {}

Configure ==
    /\ ConfigNext
    /\ UNCHANGED <<core, due, rxq, txq, tx_buffer, stats, force_quit, arrived, sent, freed, unhandled>>

---------------------------------------------------------------------------
\* The devices.
InPool == NbMbufs - (arrived - Cardinality(freed) - Cardinality(UNION {ToSet(sent[p]) : p \in PortIds}))

Arrive(p) ==
    /\ pc = "run" /\ p \in Enabled
    /\ arrived < MaxPackets /\ InPool > 0 /\ Len(rxq[p]) < NbRxd
    /\ arrived' = arrived + 1
    /\ rxq' = [rxq EXCEPT ![p] = Append(@, arrived + 1)]
    /\ UNCHANGED <<cvars, core, due, txq, tx_buffer, stats, force_quit, sent, freed, unhandled>>

Transmit(p) ==
    /\ pc = "run" /\ txq[p] # <<>>
    /\ sent' = [sent EXCEPT ![p] = Append(@, Head(txq[p]))]
    /\ txq' = [txq EXCEPT ![p] = Tail(@)]
    /\ UNCHANGED <<cvars, core, due, rxq, tx_buffer, stats, force_quit, arrived, freed, unhandled>>

\* rte_eth_tx_buffer_flush of the buffers of ports, when they hold buf: what the
\* transmit queue has no room for is counted by the callback, and freed.
Accepted(p, buf) == LET room == NbTxd - Len(txq[p]) IN IF Len(buf[p]) < room THEN Len(buf[p]) ELSE room

Flush(ports, buf) ==
    /\ txq' = [p \in PortIds |->
                  IF p \in ports THEN txq[p] \o SubSeq(buf[p], 1, Accepted(p, buf)) ELSE txq[p]]
    /\ tx_buffer' = [p \in PortIds |-> IF p \in ports THEN <<>> ELSE buf[p]]
    /\ freed' = freed \cup UNION {ToSet(SubSeq(buf[p], Accepted(p, buf) + 1, Len(buf[p]))) : p \in ports}

\* What a flush adds to the statistics: tx by the caller, dropped by the callback.
CountFlush(ports, buf) ==
    stats' = [p \in PortIds |->
                IF p \in ports
                THEN [stats[p] EXCEPT !.tx = @ + Accepted(p, buf),
                                      !.dropped = @ + Len(buf[p]) - Accepted(p, buf)]
                ELSE stats[p]]

---------------------------------------------------------------------------
\* l2fwd_main_loop.  A core without ports returns at once.
Working(c) == pc = "run" /\ conf[c] # <<>> /\ core[c].i >= 0
Gone == -1

Quit_MainOnly(c) == force_quit /\ c = 0
Quit(c) == force_quit

\* The loop ends.
Leave(c) ==
    /\ Working(c) /\ core[c].i = 0 /\ Quit(c)
    /\ core' = [core EXCEPT ![c].i = Gone]
    /\ UNCHANGED <<cvars, due, rxq, txq, tx_buffer, stats, force_quit, arrived, sent, freed, unhandled>>

Drained_First(c) == {dst_ports[conf[c][1]]}
Drained(c) == {dst_ports[conf[c][k]] : k \in DOMAIN conf[c]}

\* A turn begins, with the buffers drained if it is time.
Turn(c) ==
    /\ Working(c) /\ core[c].i = 0 /\ ~Quit(c)
    /\ core' = [core EXCEPT ![c].i = 1]
    /\ \/ /\ due[c]
          /\ due' = [due EXCEPT ![c] = FALSE]
          /\ Flush(Drained(c), tx_buffer)
          /\ CountFlush(Drained(c), tx_buffer)
       \/ ~due[c] /\ UNCHANGED <<due, txq, tx_buffer, freed, stats>>
    /\ UNCHANGED <<cvars, rxq, force_quit, arrived, sent, unhandled>>

\* Time passes: more than drain_tsc since the last drain.
Elapse(c) ==
    /\ Working(c) /\ ~due[c]
    /\ due' = [due EXCEPT ![c] = TRUE]
    /\ UNCHANGED <<cvars, core, rxq, txq, tx_buffer, stats, force_quit, arrived, sent, freed, unhandled>>

AfterPort(c) == IF core[c].i = Len(conf[c]) THEN 0 ELSE core[c].i + 1
Port(c) == conf[c][core[c].i]

RxBurst(c) ==
    /\ Working(c) /\ core[c].i > 0 /\ core[c].pkts = <<>>
    /\ LET q == rxq[Port(c)]
           n == IF Len(q) < MAX_PKT_BURST THEN Len(q) ELSE MAX_PKT_BURST
       IN  /\ core' = [core EXCEPT ![c] = [i |-> IF n = 0 THEN AfterPort(c) ELSE @.i,
                                           pkts |-> SubSeq(q, 1, n)]]
           /\ rxq' = [rxq EXCEPT ![Port(c)] = SubSeq(@, n + 1, Len(@))]
           /\ stats' = [stats EXCEPT ![Port(c)].rx = @ + n]
    /\ UNCHANGED <<cvars, due, txq, tx_buffer, force_quit, arrived, sent, freed, unhandled>>

---------------------------------------------------------------------------
InHand(c) == Working(c) /\ core[c].pkts # <<>>

\* The packet in hand is dealt with, and after the last one the port is.
Done(c) ==
    core' = [core EXCEPT ![c] = [i |-> IF Len(@.pkts) = 1 THEN AfterPort(c) ELSE @.i,
                                 pkts |-> Tail(@.pkts)]]

\* rte_eth_tx_buffer, and tx += sent: the buffer is flushed when it is a burst.
TxBuffer_Late(d, m) ==
    LET buf == [tx_buffer EXCEPT ![d] = Append(@, m)]
    IN  IF Len(buf[d]) < MAX_PKT_BURST THEN tx_buffer' = buf /\ UNCHANGED <<txq, freed, stats>>
        ELSE Flush({d}, buf) /\ CountFlush({d}, tx_buffer)
TxBuffer(d, m) ==
    LET buf == [tx_buffer EXCEPT ![d] = Append(@, m)]
    IN  IF Len(buf[d]) < MAX_PKT_BURST THEN tx_buffer' = buf /\ UNCHANGED <<txq, freed, stats>>
        ELSE Flush({d}, buf) /\ CountFlush({d}, buf)

ForwardBatch_Reversed(c) ==
    /\ InHand(c) /\ cmd.batch
    /\ TxBuffer(dst_ports[Port(c)], Last(core[c].pkts))
    /\ core' = [core EXCEPT ![c] = [i |-> IF Len(@.pkts) = 1 THEN AfterPort(c) ELSE @.i,
                                    pkts |-> Front(@.pkts)]]
    /\ UNCHANGED <<cvars, due, rxq, force_quit, arrived, sent, unhandled>>

\* PROCESS_BATCH_PACKET: to the partner, with the addresses swapped.
ForwardBatch(c) ==
    /\ InHand(c) /\ cmd.batch
    /\ TxBuffer(dst_ports[Port(c)], Head(core[c].pkts))
    /\ Done(c)
    /\ UNCHANGED <<cvars, due, rxq, force_quit, arrived, sent, unhandled>>

\* l2fwd_simple_forward, where dst_port happens to be d.  Only the ports that are
\* enabled have a tx_buffer.
Send_AndLeave(c, d) ==
    /\ d \in Enabled
    /\ TxBuffer(d, Head(core[c].pkts))
    /\ unhandled' = unhandled \cup {Head(core[c].pkts)}
Send(c, d) ==
    /\ d \in Enabled
    /\ TxBuffer(d, Head(core[c].pkts))
    /\ UNCHANGED unhandled

\* The packet is counted, and neither sent nor freed.
Unhandle(c) ==
    /\ unhandled' = unhandled \cup {Head(core[c].pkts)}
    /\ UNCHANGED <<txq, tx_buffer, freed>>

ForwardXdp(c, verdict, d) ==
    /\ InHand(c) /\ ~cmd.batch
    /\ \/ verdict \in {"XDP_TX", "XDP_REDIRECT"} /\ Send(c, d)
       \/ /\ verdict = "XDP_DROP" /\ d \in PortIds
          /\ stats' = [stats EXCEPT ![d].xdp_drop = @ + 1]
          /\ Unhandle(c)
       \/ /\ verdict = "XDP_PASS" /\ d \in PortIds
          /\ stats' = [stats EXCEPT ![d].xdp_pass = @ + 1]
          /\ Unhandle(c)
       \/ verdict = "other" /\ UNCHANGED stats /\ Unhandle(c)
    /\ Done(c)
    /\ UNCHANGED <<cvars, due, rxq, force_quit, arrived, sent>>

Verdicts == {"XDP_DROP", "XDP_PASS", "XDP_TX", "XDP_REDIRECT", "other"}

\* dst_port is no port, or none with a buffer where one is needed: the process
\* reads or writes where it should not.
Crash(c, verdict, d) ==
    /\ InHand(c) /\ ~cmd.batch
    /\ verdict # "other"
    /\ d \notin (IF verdict \in {"XDP_DROP", "XDP_PASS"} THEN PortIds ELSE Enabled)
    /\ pc' = "crashed"
    /\ UNCHANGED <<cmd, at, mask, used, dst_ports, last_port, nb_in_mask, rx_lcore, conf>>
    /\ UNCHANGED <<core, due, rxq, txq, tx_buffer, stats, force_quit, arrived, sent, freed, unhandled>>

---------------------------------------------------------------------------
Ended == pc \in {"exit", "closed", "crashed"}

\* signal_handler, installed before the command line is read.
Signal ==
    /\ ~Ended /\ ~force_quit
    /\ force_quit' = TRUE
    /\ UNCHANGED <<cvars, core, due, rxq, txq, tx_buffer, stats, arrived, sent, freed, unhandled>>

\* main() has waited for every core, and closes the ports.
Close ==
    /\ pc = "run"
    /\ \A c \in LcoreIds : ~Working(c)
    /\ pc' = "closed"
    /\ UNCHANGED <<cmd, at, mask, used, dst_ports, last_port, nb_in_mask, rx_lcore, conf>>
    /\ UNCHANGED <<core, due, rxq, txq, tx_buffer, stats, force_quit, arrived, sent, freed, unhandled>>

Forward(c) ==
    \/ ForwardBatch(c)
    \/ \E verdict \in Verdicts, d \in DstPort : ForwardXdp(c, verdict, d) \/ Crash(c, verdict, d)

CoreStep(c) == Leave(c) \/ Turn(c) \/ RxBurst(c) \/ Forward(c)

Next ==
    \/ Configure
    \/ \E c \in LcoreIds : CoreStep(c) \/ Elapse(c)
    \/ \E p \in PortIds : Arrive(p) \/ Transmit(p)
    \/ Signal
    \/ Close

Spec == Init /\ [][Next]_vars

\* main() and each core keep running, time passes, and main() waits for the cores.
FairSpec ==
    /\ Spec
    /\ WF_vars(Configure)
    /\ \A c \in LcoreIds : WF_vars(CoreStep(c)) /\ WF_vars(Elapse(c))
    /\ WF_vars(Close)

---------------------------------------------------------------------------
Running == pc \in {"run", "closed"}

\* The core that polls a port, and what it has in hand of that port's packets.
Poller(p) == CHOOSE c \in LcoreIds : p \in ToSet(conf[c])
Burst(p) ==
    LET c == Poller(p)
    IN  IF core[c].i > 0 /\ Port(c) = p THEN core[c].pkts ELSE <<>>

\* Batch build: what a port received is exactly what its partner sent, dropped
\* or has buffered and the core has in hand, on whichever cores they are polled.
PairExact ==
    Running /\ cmd.batch =>
        \A p \in Enabled :
            LET d == dst_ports[p]
            IN  stats[p].rx = stats[d].tx + stats[d].dropped + Len(tx_buffer[d]) + Len(Burst(p))

\* Batch build: packets are neither doubled nor overtake each other on their way
\* from the wire of one port, over bursts, buffer and drains, to that of the other.
InOrder ==
    Running /\ cmd.batch =>
        \A p \in Enabled :
            LET d == dst_ports[p]
            IN  IsSorted(sent[d] \o txq[d] \o tx_buffer[d] \o Burst(p) \o rxq[p], <)

\* The places a packet is in.
Places(m) ==
    {<<"rxq", p>> : p \in {q \in PortIds : m \in ToSet(rxq[q])}}
    \cup {<<"core", c>> : c \in {e \in LcoreIds : m \in ToSet(core[e].pkts)}}
    \cup {<<"tx_buffer", p>> : p \in {q \in PortIds : m \in ToSet(tx_buffer[q])}}
    \cup {<<"txq", p>> : p \in {q \in PortIds : m \in ToSet(txq[q])}}
    \cup {<<"sent", p>> : p \in {q \in PortIds : m \in ToSet(sent[q])}}
    \cup (IF m \in freed THEN {<<"freed">>} ELSE {})
    \cup (IF m \in unhandled THEN {<<"unhandled">>} ELSE {})

\* Both builds, whatever dst_port holds: an mbuf is in one place.  It comes back
\* to the pool from the wire or the error callback; the ones that never do are
\* those of packets the program did not send.
MbufsAccounted ==
    /\ \A m \in 1..arrived : Cardinality(Places(m)) = 1
    /\ cmd.batch => unhandled = {}

\* Batch build: what is in a transmit buffer leaves it, without another packet
\* having to come, unless the program is stopped.
BuffersDrain ==
    \A p \in Attached :
        (cmd.batch /\ tx_buffer[p] # <<>>) ~> (force_quit \/ tx_buffer[p] = <<>>)

\* After a signal, whenever it comes, every core leaves its loop and main() ends.
StopsOnSignal == force_quit ~> Ended
===========================================================================
