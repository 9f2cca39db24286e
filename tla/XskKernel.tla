----------------------------- MODULE XskKernel ------------------------------
(***************************************************************************)
(* The kernel and driver side of the AF_XDP sockets of one umem, as        *)
(* xdpsock.c uses it (external: it is not part of the repository).  All    *)
(* sockets share the umem, and with it one fill ring and one completion    *)
(* ring; each has its own rx and tx ring (xsk_configure_umem,              *)
(* xsk_configure_socket).                                                  *)
(*                                                                         *)
(* A frame is named by its index in the umem.  A descriptor is the frame   *)
(* it points to and the end-of-packet bit of its options; "head", the      *)
(* frame that holds the packet's first bytes, and "act", what the XDP      *)
(* program answered for that first fragment, are kept for the properties.  *)
(***************************************************************************)
EXTENDS XskRings, FiniteSets

CONSTANTS
    NumFrames,   \* NUM_FRAMES, frames of the umem
    NumSocks,    \* num_socks
    FillSize,    \* cfg.fill_size
    CompSize,    \* cfg.comp_size
    RxSize,      \* cfg.rx_size
    TxSize,      \* cfg.tx_size
    MaxFrags,    \* most frames one received packet takes
    CopyMode,    \* the kernel bound the sockets in copy mode
    NeedWakeup   \* XDP_USE_NEED_WAKEUP is among the bind flags (no -m)

ASSUME SizesAssumption ==
    /\ NumFrames \in Nat \ {0}
    /\ NumSocks \in Nat \ {0}
    /\ FillSize \in Nat \ {0}
    /\ CompSize \in Nat \ {0}
    /\ RxSize \in Nat \ {0}
    /\ TxSize \in Nat \ {0}
    /\ MaxFrags \in Nat \ {0}

ASSUME ModeAssumption == CopyMode \in BOOLEAN /\ NeedWakeup \in BOOLEAN

\* xsk_configure_umem and xsk_populate_fill_ring give every frame a slot of
\* the fill ring: fill_size = 2 * XSK_RING_PROD__DEFAULT_NUM_DESCS = NUM_FRAMES.
ASSUME FillAssumption == NumFrames <= FillSize

VARIABLES
    fq,        \* fill ring: frames the kernel may receive into
    cq,        \* completion ring: frames the kernel has sent
    rx, tx,    \* per socket
    pend,      \* per socket: fragments taken from tx, end of packet not seen
    inflight,  \* frames handed to the NIC, not yet completed
    rxAsleep,  \* need-wakeup flag of the fill ring: the driver waits for a call
    kicked     \* per socket: a sendto() or poll() is driving copy-mode Tx

kernelVars == <<fq, cq, rx, tx, pend, inflight, rxAsleep, kicked>>

Frames == 1..NumFrames
Socks == 1..NumSocks
Actions == {"XDP_ABORTED", "XDP_DROP", "XDP_PASS", "XDP_TX", "XDP_REDIRECT"}

Desc == [addr: Frames, head: Frames, eop: BOOLEAN, act: Actions \cup {"none"}]

\* The n descriptors of a packet received into the frames fs[1..n].
Packet(fs, n) ==
    [i \in 1..n |->
        [addr |-> fs[i], head |-> fs[1], eop |-> (i = n), act |-> "none"]]

\* The frames of a sequence of descriptors.
Addrs(q) == [i \in DOMAIN q |-> q[i].addr]

\* Completion slots spoken for: the kernel reserves one for every descriptor
\* it takes from a tx ring.
CompUsed ==
    Len(cq.q) + Cardinality(inflight) + Cardinality(UNION {pend[s] : s \in Socks})

\* xsk_populate_fill_ring: every frame, in address order.
PopulatedFillRing == [i \in Frames |-> i]

TypeOKKernel ==
    /\ fq \in Seq(Frames)
    /\ cq \in ConsRing(Frames)
    /\ rx \in [Socks -> ConsRing(Desc)]
    /\ tx \in [Socks -> ProdRing(Desc)]
    /\ pend \in [Socks -> SUBSET Frames]
    /\ inflight \in SUBSET Frames
    /\ rxAsleep \in BOOLEAN
    /\ kicked \in [Socks -> BOOLEAN]

\* Every ring but the fill ring starts empty.
InitKernel ==
    /\ cq = EmptyCons
    /\ rx = [s \in Socks |-> EmptyCons]
    /\ tx = [s \in Socks |-> EmptyProd]
    /\ pend = [s \in Socks |-> {}]
    /\ inflight = {}
    /\ rxAsleep = FALSE
    /\ kicked = [s \in Socks |-> FALSE]

-----------------------------------------------------------------------------
(* What the application's system calls ask of the kernel. *)

\* sendto(): in copy mode it drives Tx; zero-copy Tx runs in the NAPI loop.
Kick(S) == kicked' = [s \in Socks |-> kicked[s] \/ (CopyMode /\ s \in S)]

\* recvfrom(): the driver looks at the fill ring again.
Recvfrom == rxAsleep' = FALSE

\* xsk_ring_prod__needs_wakeup() of the fill ring and of a tx ring.
FillNeedsWakeup == rxAsleep
TxNeedsWakeup == NeedWakeup /\ CopyMode

-----------------------------------------------------------------------------
(* Steps of the kernel and the driver. *)

\* A packet of up to MaxFrags fragments arrives.  It is published as a whole;
\* without enough fill entries or rx slots it is dropped and nothing changes.
KernelRx(s) ==
    /\ ~rxAsleep
    /\ \E n \in 1..MaxFrags :
        /\ n <= Len(fq)
        /\ Len(rx[s].q) + n <= RxSize
        /\ fq' = DropN(fq, n)
        /\ rx' = [rx EXCEPT ![s].q = @ \o Packet(fq, n)]
    /\ UNCHANGED <<cq, tx, pend, inflight, rxAsleep, kicked>>

\* A zero-copy driver that found the fill ring empty stops receiving.
KernelRxSleep ==
    /\ NeedWakeup /\ ~CopyMode
    /\ fq = <<>> /\ ~rxAsleep
    /\ rxAsleep' = TRUE
    /\ UNCHANGED <<fq, cq, rx, tx, pend, inflight, kicked>>

\* One tx descriptor is consumed, after a completion slot is reserved for it.
\* The packet goes to the NIC with its last fragment.
KernelTx(s) ==
    /\ CopyMode => kicked[s]
    /\ tx[s].q # <<>>
    /\ CompUsed < CompSize
    /\ LET d == Head(tx[s].q)
           p == pend[s] \cup {d.addr}
       IN IF d.eop
          THEN /\ inflight' = inflight \cup p
               /\ pend' = [pend EXCEPT ![s] = {}]
          ELSE /\ pend' = [pend EXCEPT ![s] = p]
               /\ UNCHANGED inflight
    /\ tx' = [tx EXCEPT ![s].q = Tail(@)]
    /\ UNCHANGED <<fq, cq, rx, rxAsleep, kicked>>

\* The system call that drives copy-mode Tx returns (EAGAIN, EBUSY and
\* ENOBUFS included: it may have sent nothing).
KernelKickEnd(s) ==
    /\ kicked[s]
    /\ kicked' = [kicked EXCEPT ![s] = FALSE]
    /\ UNCHANGED <<fq, cq, rx, tx, pend, inflight, rxAsleep>>

\* The NIC is done with a frame; completions come in any order.
KernelComplete(f) ==
    /\ f \in inflight
    /\ inflight' = inflight \ {f}
    /\ cq' = [cq EXCEPT !.q = Append(@, f)]
    /\ UNCHANGED <<fq, rx, tx, pend, rxAsleep, kicked>>
=============================================================================
