# A TLA+ model of userspace-xdp

userspace-xdp runs XDP programs in user space: packets are received over AF_XDP
(`afxdp/l2fwd`) or DPDK (`dpdk`), an eBPF program loaded by the runtime in
`module` decides what happens to them, and they are sent on.  This directory
models the parts of that system whose correctness depends on the order in which
things happen, checks the models with TLC and proves theorems about them with
TLAPS.

## 1. The system

| part | state it keeps | operations | hard behaviour |
|---|---|---|---|
| **AF_XDP l2fwd** (`afxdp/l2fwd/xdpsock.c`) | four rings per socket (fill and completion shared through the umem), `outstanding_tx` per socket, the static `nb_frags`, `benchmark_done` | `l2fwd_all`, `l2fwd`, `complete_tx_l2fwd`, `kick_tx` | the kernel works on the other end of every ring at any moment; sockets share rings; packets of several frames span calls; wait loops; wake-ups |
| **AF_XDP rxdrop / txonly** (same file) | as above, `frame_nb`, packet counts | `rx_drop_all`, `rx_drop`, `tx_only_all`, `tx_only`, `complete_tx_only`, `complete_tx_only_all` | as above; frames reused round robin; final drain with retries |
| **AF_XDP set-up and statistics** (same file) | sockets, umem, options, counters | `main`, `parse_command_line`, `xsk_configure_*`, `dump_stats`, `poller` | `benchmark_done` is set by a signal handler or the poller thread |
| **packet templates** (same file) | one frame template | `gen_eth_hdr_data`, `do_csum`, `csum_fold`, `udp_csum` | 16/32/64-bit arithmetic |
| **kernel dispatcher program** (`xdpsock_kern.c`) | `rr` | `xdp_sock_prog` | round robin over a power of two of sockets |
| **DPDK l2fwd** (`dpdk/main.c`) | the port mask, pairs and cores; tx buffers and statistics per port, without locks; `force_quit` | `main`, `check_port_pair_config`, `l2fwd_main_loop`, `l2fwd_simple_forward`, `signal_handler` | one loop per core; ports of two cores are partners; drain timer; mbuf ownership; stopping |
| **eBPF runtime glue** (`module/xdp-runtime.cpp`) | loaded program, registered maps | `ebpf_module_init`, `ebpf_module_run_at_handler` | start-up errors |
| **maps** (`module/maps.cpp`, `LRUCache11.hpp`, `lpm_trie.h`) | LRU list and index, LPM trie, dev map | lookup, update, delete | two structures kept in step; capacity; a lookup that gives a copy; longest prefix |
| **helpers** (`module/helpers.c`) | packet window, checksum | `csum_diff`, `adjust_head/tail`, `redirect_map`, `load_bytes` | bounds, folding of carries |
| **hash map** (`xdp_progs/includes/hash_map.h`) | buckets with a filled mark, a count | `elem_lookup`, `elem_update`, `elem_delete`, `get_elem_count` | open addressing with deletion; pointers into the table; no lock |
| **xdp-maps** (`xdp_progs/xdp-maps.bpf.c`) | one such map | a lookup and an update per packet | several cores at once |
| **katran** (`xdp_progs/katran/lib/bpf`) | VIPs, hash rings, reals, server ids, the connection table, the connection rate | `balancer_ingress` per packet; the control plane writes rings and server ids | flows must keep their real while rings change; services share one table; time-outs; flood limit |
| **other XDP programs** (`xdp_progs`) | maps they read or count in | one handler per packet | — |

Frames and packets move through `l2fwd` like this:

```
 fill ring --kernel--> rx ring --l2fwd--> tx ring --kernel--> wire --kernel--> completion ring
     ^                                                                              |
     +------------------------------- complete_tx_l2fwd ----------------------------+
```

What makes the datapath correct: a frame is never in two places (a frame that is
on the fill ring while it is still queued for Tx would be overwritten), no frame
is lost (the umem would run dry), packets leave as they came, the program sees
every packet once, the counters the code keeps next to the rings agree with
them, no wait loop turns for ever, and the thread stops when told to.

What makes the hash map correct: it behaves like a partial function whatever
collides, pointers handed out stay good, and the count is the number of keys.
On several cores, which it is not made for, at least what was there before
stays there and is found.

What makes the load balancer correct: a flow goes on to the real it began on
while rings change, packets of a service go to reals of that service only, and
a flood of connections does not flush the table.

What makes the DPDK forwarder correct: no two cores share a transmit buffer,
packets between two ports are neither lost uncounted nor reordered, none waits
in a buffer for ever, and a signal ends the program.

## 2. Modules

| module | models |
|---|---|
| `XskRings` | libxdp's rings with their cached indices: peek, release, reserve, submit (external) |
| `XskKernel` | the kernel's side of a umem and its sockets, with need-wakeup, copy mode and completion slots (external), and the set-up the application does |
| `FrameCycle` | abstract: every frame has one owner, ownership moves along given arcs |
| `L2fwd` | the `--l2fwd` thread composed with `XskKernel`; refines `FrameCycle` |
| `RxDrop` | the `--rxdrop` thread composed with `XskKernel` |
| `TxOnly` | the `--txonly` thread with its own, smaller kernel (no reception) |
| `HashProbe` | the probe loop of `hash_map.h` |
| `HashMap`, `MCHashMap` | `hash_map.h` call by call, and an instance with the hash of the code |
| `HashCores`, `MCHashCores` | `xdp-maps` on several cores, memory access by memory access |
| `LruCache` | the cache of `LRUCache11.hpp` |
| `Balancer`, `MCBalancer` | katran on that cache, with the control plane and the clock |
| `DpdkConfig` | `main()` of the DPDK forwarder up to the launch of the cores |
| `Dpdk`, `MCDpdk` | the cores, the devices and the end, composed with `DpdkConfig` |
| `XskProofs` | lemmas about rings and sequences of frames that `L2fwdProofs` and `RxDropProofs` share |
| `L2fwdProofs`, `RxDropProofs`, `TxOnlyProofs`, `HashMapProofs`, `HashCoresProofs`, `BalancerProofs`, `DpdkProofs` | theorems |

**Rings.** `XskRings` keeps a ring relative to its consumer index, so no index
grows.  `seen` is how far the application's cached producer index reaches,
`peeked` how far its cached consumer index is ahead of the shared one; both
matter, since the code leaves fragments peeked from one call to the next and a
peek only looks at the shared index when everything seen has been peeked.

**Threads.** A thread's `pc` stops at each access to memory shared with the
kernel, so kernel steps interleave everywhere they can.  A peek and the test of
the need-wakeup flag that follows an empty one are one step: the flag is only
read when the peek found nothing, and a flag set a moment later is what the next
round finds.  For `L2fwd`:

| `pc` | action | code |
|---|---|---|
| loop | `StartRound` | `l2fwd_all`, poll |
| complete | `CompleteTx` | `complete_tx_l2fwd` up to its `kick_tx` |
| reap | `PeekCq` | peek of the completion ring |
| fill | `RefillSubmit` | reserve and submit on the fill ring |
| release | `RefillRelease` | release of the completion ring, `outstanding_tx` |
| peek | `PeekRx` | `l2fwd`: peek of rx, early return |
| reserve, kick | `ReserveTx`, `KickInReserve` | the loop that waits for tx slots |
| copy | `CopyDesc` | one turn of the descriptor loop |
| submit | `SubmitTx` | submit on tx |
| rxrelease | `ReleaseRx` | release on rx, `outstanding_tx`, return |

A descriptor carries its frame, its end-of-packet bit and two history fields the
properties use: the frame with the packet's first bytes and the program's
answer.  Packet contents, statistics counters and fatal exits are left out.

`RxDrop` has the same shape: `StartRound`, `PeekRx`, `RefillSubmit`,
`ReleaseRx`.  `TxOnly` has `StartRound` (one turn of `tx_only_all` up to the
first socket), `ReserveTx`, `CompleteTx` and `ReapTx` (called from the wait for
tx slots, after a batch, and from the drain), `SubmitTx`, `Return` and `Drain`
(`complete_tx_only_all` with its retries).  Peek and release of the completion
ring are one step in `ReapTx`, as the thread touches nothing in between, and
`StartRound` leaves out the end of the loop on an error of `clock_nanosleep`.  Its unsigned counters wrap at `U32`.

**Hash map.** The three operations of `hash_map.h` run the same probe loop;
`Stops` is the test that ends it in a turn and `Probe` the bucket of the first
turn that passes.  Bytes of a deleted element stay in the bucket, as in the code.  A caller
may hold the pointer `elem_lookup` returned across later calls and write
through it (`Store`), as `layer3_filter` of the firewall counts drops.  `ref`,
`ret` and `deleted` are history variables.

**Hash map on several cores.** In `HashCores` a core is at a place of
`elem_lookup` or `elem_update`: the test of the mark (`TestEmpty`,
`TestFilled`), one byte compared (`MatchByte`, `MismatchByte`), one byte copied
(`CopyByte`), the mark set (`SetFilled`).  A core may read a key another core
has half written.  `xdp-maps` passes the address of a 4-byte integer to a map
with 16-byte keys, so the bytes behind it are chosen anew in each call.

**Load balancer.** One action is one packet: `Refuse` (anything `process_packet`
returns from early), `ById` (QUIC server id), `ByLru` (found in the connection
table) and `ByHash` (ring, and a new entry unless under flood).  Packets are
run one at a time: in the kernel each core has a table of its own.  The runtime
has one cache for all LRU maps and cores, without a lock (maps.cpp:143), so for
it this is one core; on more the list could be corrupted.  A packet is the
record of what parsing finds.  `KeyOf` is the flow as `flow_key` compares it.  `in_place`
tells the kernel's LRU map, where a lookup gives the entry, from the runtime's,
where it gives a copy and what the program writes to it is lost; both are
checked.  `pin` is history: the real for which a flow's own entry
was last stored or found, which is let go of when as many other flows were used
as the table surely holds, or when a packet is routed by its server id.

**DPDK.** `DpdkConfig` has one action per turn of a loop of `main()`.  In `Dpdk`
a core is at the top of its loop (`Turn`, which drains if `due`), at a port
(`RxBurst`) or at a packet of a burst (`ForwardBatch` in the batch build,
`ForwardXdp` in the other).  What the code computes from the time stamp counter
is `due`, which `Elapse` sets at any time.  Setting up the ports (`Launch`,
`InitFails`) is one step, since nothing else runs yet.  In the build that runs the program
`dst_port` is uninitialised and is any member of `DstPort`; if it is no port
with a buffer the process may crash (`Crash`).

## 3. What the runs check

The actual sizes (4096 frames, rings of 2048, batches of 64) are replaced by
3 or 4 frames (8 for `TxOnly`) with the same relations between them:
`rx_size = tx_size = comp_size = NUM_FRAMES / 2` and a fill ring that holds
every frame.  These relations are assumptions of the modules.  Small rings are
the hard case: every ring gets full and empty, batches end inside packets,
completions run out of slots, packets wait for slots in every wait loop.

| run | instance | shows |
|---|---|---|
| `l2fwd_frags` | one zero-copy socket, `--poll`, packets of one or two frames, batches of one | frames are neither shared nor lost and go round the cycle in order; descriptors of unfinished packets are carried to the next call exactly; packets leave whole; the program runs on first fragments and no others |
| `l2fwd_shared` | two sockets on one umem | sockets that reap each other's completions keep `outstanding_tx` exact; the wait for fill slots never turns and the wait for tx slots can always end; a sleeping driver is woken; the thread stops |
| `l2fwd_copy` | `-c`, no need-wakeup, packets of two frames | the `sendto()` of `complete_tx_l2fwd` alone keeps frames moving |
| `rxdrop` | two sockets, packets of one or two frames | as above for `rx_drop`: frames kept, no waiting, frames come back, a sleeping driver is woken |
| `txonly` | one copy-mode socket, seven packets of two frames, batches of two, rings of 5 and 3 | `frame_nb` never runs into a frame still to be sent, packets are submitted whole, exactly the packets asked for are sent, `outstanding_tx` is exact, the run ends |
| `hashmap` | three buckets, three keys of two bytes, two of which collide in the last bucket | until something is deleted lookups find exactly what was stored, pointers stay good, the count is exact; with deletions too, callers see their own last call |
| `hashcores` | two cores, two buckets, four keys of two bytes, the second of which is not set | keys that were there when no core was busy stay in their bucket and are never missed, an update is given up only when the table is full |
| `balancer` | five services on two addresses (flags: none, `F_HASH_NO_SRC_PORT`, `F_HASH_DPORT_ONLY`, `F_QUIC_VIP`, and `F_LRU_BYPASS` with `F_HASH_SRC_DST_PORT`), nine kinds of packet of six flows, a table pruned from three entries to two, two reals, time-outs of one tick | list and index of the cache stay in step, packets go to reals of their service only, packets for one port of a port-hashing service go to one real, entries are rate limited over any second, flows with an entry keep their real |
| `dpdk` | three ports, two cores, some sixty command lines, three packets, three mbufs, bursts of two, a transmit queue of one | ports are paired and polled once, statistics of a pair balance, packets keep their order, mbufs are in one place, buffers drain, a signal ends the program |
| `l2fwd_shared_frags`, `hashmap_delete`, `balancer_udp` | see the findings | the code does not do what is said of it |

A few frames are enough for the frame invariants because the
code treats frames alike: a violation needs two frames that meet, a third that
is received in between, and a full ring.  Two sockets are enough to interfere;
the thread serves them in a fixed order and keeps nothing per pair.

For the balancer the rate limit is two connections and a second one tick, so
that quanta begin, end and overlap the one-second window within the run; one
change of a ring or a server id at any moment is what moves a flow.  Four
keys compete for a table of two, so entries are pruned all the time.  Two
clients of the port-hashing service are enough for their packets to part.  For DPDK
a third port makes an odd one, a port map can use a port twice only with three,
and a transmit queue of one with bursts of two is overrun at the first flush.

**Fairness.** The AF_XDP thread is never blocked by the scheduler for ever: weak
fairness of its next step.  The driver's completions are weakly fair per frame.
Sending is strongly fair per socket, since in copy mode it is enabled only while
a `sendto()` is under way and each call may fail with `EAGAIN` or `EBUSY`; the
kernel does not fail all of them for ever.  Nothing is assumed about arriving
packets, and `benchmark_done` may never be set.  In `Dpdk` every
core is a thread that keeps running: weak fairness of its next step, on its own.
It also assumes that time passes (`Elapse`), that `main()` goes on
(`Configure`) and returns from waiting for cores that have ended (`Close`); it
assumes nothing about packets, transmission or signals.  The balancer and
the hash maps have no liveness property.  Deadlock is not checked where the program ends (the AF_XDP
threads, DPDK) or a bound stops the clock (the balancer).

**What is assumed of `TxOnly`.** `NoFrameRewritten` needs the tx and completion
rings together to be no larger than the umem, and completions in order
(`InOrder`).  With completions out of order the round-robin `frame_nb` could
meet a frame still being read; it matters when the frame is written again
(`--tstamp`).

### Findings

* `l2fwd_shared_frags`: `nb_frags` is one static counter for all sockets; an
  unfinished packet of one socket hides the first fragment of another's
  (xdpsock.c:1758).
* `hashmap_delete`: `elem_delete` breaks the probe sequence of colliding keys
  (hash_map.h:118).
* `balancer_udp`: `lru_hash_map_elem_lookup` gives a copy (maps.cpp:149), so the
  access time `connection_table_lookup` renews is lost: an active UDP flow is
  forgotten `LRU_UDP_TIMEOUT` after its first packet, and moves if the ring has
  changed.

Observed while modelling, without a run of their own.

AF_XDP (`xdpsock.c`): the answer of `ebpf_process_packet` is ignored, a dropped
packet is sent (1796).  Without `-c`, on a driver where the kernel falls back to
copy mode, nothing calls `sendto()` until the tx ring is too full for a batch,
so received frames may never come back (1441).  Under `--poll`, a `poll()`
without result skips both the reaping of completions and the test of
`benchmark_done` (1838); `rx_drop_all` skips the test in the same way (1559).
`complete_tx_only_all` overwrites `pending` per socket, so the program can end
with packets outstanding and retries left (1654).  With several sockets
`tx_only_all` sends up to one batch per socket too many, since one `batch_size`
is computed for all of them (1739).  `frames_per_pkt` is computed
from the default frame size and with the frame check sequence (2135), while the
loop of `tx_only` takes the size of `-f` and leaves the check sequence out
(1596): for sizes of 4097 to 4100 bytes a packet takes one frame and is counted
as two, and with `-f 2048` one of 3000 bytes takes two and is counted as one, so
that the loop may end within a packet and write past what it reserved.  `-Q` starts no poller
thread, so `--duration` has no effect with it.

Hash map and `xdp-maps`: the map is declared with keys longer than what the
program passes; what lies behind on the stack becomes part of the key, so
packets of one size may be counted under several keys, and fill the table
(aot_map_ids.h:11); two cores that insert at once can leave a mixture of their
keys in a bucket; the first packet of a size is counted as 0.

katran (`balancer.bpf.c`) and the runtime's LRU map: `flow_key` compares the
first 32 bits of an IPv6 address only (maps.cpp:112).  For a service that hashes
the destination port only, the entry is stored under the rewritten flow and the
next packet looks up the original one, so it never hits (140): its packets go
to one real per port, as `SamePortSameReal` says, and an active flow moves when
the ring changes, as flows of `F_LRU_BYPASS` services do.  Entries of
server ids are stored without access time, so a UDP packet without the id does
not find them (621), and regardless of `F_LRU_BYPASS` (862).
`update_vip_lru_miss_stats` assigns the protocol where it means to compare it.

DPDK (`dpdk/main.c`): `dst_port` of `l2fwd_simple_forward` is never set (220).
A packet the program drops or passes is not freed, so its mbuf never returns to
the pool (250-266).  Buffers are not flushed when the cores leave their loop.

## 4. What is proved

Every theorem holds for every value of the constants that satisfies the named
assumptions of the modules, and the hypotheses given here.  Every safety
invariant and action property the passing runs check is a theorem; the runs
check them on small instances, the violation runs show what fails without the
hypotheses.

| theorems of | state | if |
|---|---|---|
| `L2fwdProofs`: `CursorsCorrect` | `CursorsInStep` (and types) always | `FragsUnshared` |
| `NeverShared`, `NeverLost` | `NoFrameShared`, `NoFrameLost` | `FragsUnshared` |
| `NeverWaits`, `WaitingDrains` | `RefillNeverWaits`, `WaitingTxCanDrain` | `FragsUnshared` |
| `CycleImplemented` | `Spec => ImplementsCycle` | `FragsUnshared` |
| `PacketsWhole`, `ProgramOnHeads` | `TxPacketsWhole`, `ProgramRunsOnHeads` | `FragsUnshared` |
| `OutstandingCorrect` | `OutstandingExact` | `FragsUnshared` |
| `RxDropProofs`: `CursorsCorrect`, `NeverShared`, `NeverLost`, `NeverWaits` | `CursorsInStep`, `NoFrameShared`, `NoFrameLost`, `RefillNeverWaits` | |
| `TxOnlyProofs`: `OnlyWholePackets` | `PacketsWhole` | `DescsPerPkt = FramesPerPkt` |
| `OutstandingCounts` | `OutstandingExact` | one socket |
| `NeverRewritten` | `NoFrameRewritten` | one socket, `DescsPerPkt = FramesPerPkt`, `InOrder` |
| `CountSent` | `SendsPktCount` | one socket, `DescsPerPkt = FramesPerPkt` |
| `HashMapProofs`: `StoredFound`, `PointersKept`, `CountCorrect`, `OwnCallsSeen` | `FindsStored`, `PointersStay`, `CountExact`, `SeesLastCall /\ FullWhenFull` | |
| `HashCoresProofs`: `SettledKeysStay`, `SettledKeysFound`, `RefusedWhenFull` | `SettledStay`, `SettledNotMissed`, `GivesUpWhenFull` | |
| `BalancerProofs`: `TableInStep`, `OnlyToVipReals`, `SamePortTogether`, `RateLimited`, `RealsKept` | `IndexInStep`, `SentOnlyToVipReals`, `SamePortSameReal`, `InsertsRateLimited`, `FlowKeepsReal` | |
| `DpdkProofs`: `ConfigurationSound`, `ReceivedIsSent`, `NoOvertaking`, `MbufsKept` | `ConfigSound`, `PairExact`, `InOrder`, `MbufsAccounted` | |

**Cursors.** Types alone are not inductive: that `left` or `frags_done` stays a
natural number, and that a release stays inside the ring, follows from how the
counters are tied to the ring cursors, and the other way round.  `CursorInv`
joins the two.  For `L2fwd` it says which part of what was peeked on rx has been
reserved on tx, which part of that belongs to the unfinished packet (`nb_frags`)
and which was already submitted (`HandedOn`).  It only holds where unfinished
packets of two sockets cannot meet in the one static `nb_frags`:
`FragsUnshared` is one socket or packets of one frame.  `l2fwd_shared_frags` is
the counterexample without it, and every theorem about `L2fwd` rests on it.

**Frames of `rx_drop`.** Between the submit on the fill ring and the release of
rx, the frames of a batch are on both rings in memory.  `OwnInv` therefore
counts as held on rx only what has not been handed on, and says that all
sequences of frames held are injective and pairwise disjoint.  Moving a prefix
of one injective sequence to the end of a disjoint one keeps that
(`MovePrefix`), which is all that reception and refill do.  `NeverWaits`
follows: the fill ring and the batch together are an injective sequence of
frames, so no longer than the umem, so no longer than the fill ring.

**Frames of `l2fwd`.** The same over five stages.  `Places` names every ring and
what the kernel holds, and `OwnInv` says that what is held at them is a
partition of the umem, that each ring is injective, and that the descriptors in
reserved tx slots are copies of the rx descriptors that are peeked and not
handed on, but for the verdict.  The copies are what makes `SubmitTx` a move: it
publishes tx descriptors, and by them the frames leave rx.  Five steps move
frames from a place to the next (`MovedPartition`), the others move none
(`QuietNext`); read as owners, these moves are the steps of `FrameCycle`, whose
initial states are the initial states.  A packet that goes to the NIC with its
last fragment also moves the fragments gathered before, which are with one owner.
`WaitingDrains` counts: the frames on a tx ring without room for the batch and
those on rx are more than `TxSize`, the completion slots spoken for are other
frames, and the umem has no more than `TxSize + CompSize`.

**Packets of `l2fwd`.** `PacketInv` says that what is live on rx is whole packets,
that tx goes on where the kernel is gathering and ends with a packet, that the
program has judged first fragments and no others, and that the last `nb_frags`
reserved slots are those of an unfinished packet, behind the end of another.
So the `frags_done` slots that are submitted end with a packet.

**`outstanding_tx` of `l2fwd`.** Sockets reap each other's completions, so only
the sum is exact.  A sum over sockets would take an induction; `Total` counts
tickets instead, one per count, so that a change at one socket changes the
total as much (`TotalChange`) by counting a disjoint union.  Taking a
descriptor from tx takes one completion slot, as its frame, being on tx, is in
no other place (`OwnInv`).

**`tx_only`.** `RoomInv` is about counts: `outstanding_tx` is what is on tx, with
the NIC or completed.  It needs one socket, since sockets share a completion
ring here too and `complete_tx_only` reaps what belongs to another.  `RobinInv`
is about frames: what is on tx and with the NIC are the frames behind
`frame_nb`, newest first, so with `RoomInv` and `tx_size + comp_size <=
NUM_FRAMES` the frames about to be written are not among them.  It needs a NIC
that completes in order and a loop that writes as many frames as `frame_nb`
advances by, which is the case with the default frame size unless the packet is
4097 to 4100 bytes long.
`CountInv` follows the loop of `tx_only_all`: the batch computed at its top is
no more than what is left to send, and is what is counted and submitted at its
end.  With several sockets one batch is computed for all of them.

**Hash map.** The inductive invariant is `HomesIn(table)`: for every filled
bucket the probe of its key stops there.  An update writes the bucket where the
probe of its key stopped, which was empty or held that key: no other probe
passes through an empty bucket, so none changes (`ProbeOther`), and the key's
own probe still stops there (`ProbeKept`).  A deletion empties a bucket other
probes may pass through, which is why the invariant is conditional on
`~deleted`.  `CountExact` follows by the bijection between filled buckets and
keys.

**Hash map on several cores.** `CoresInv` says that a settled bucket (filled when
no core was busy) still is what it was, and for each core what it knows of the
settled buckets: those its loop has passed hold other keys, the one it compares
agrees in the bytes compared so far, and the one it copies to, if settled, has
the very key it copies, so that every byte it writes is there already.  The last
part holds because an update copies only into a bucket it saw empty, which is
not settled, or whose key it compared to the end.

**Load balancer.** `CacheOf` says that a cache is a list without doubles whose
keys are its index; lookups, writes, insertions and pruning keep it.  All VIPs
share the table, so `SentOnlyToVipReals` needs that a key leads to one VIP
whatever the flags made of its ports (`OneVip`); then `Entries` can say of each
entry that its real was named for that VIP.  For the rate, `Quanta` cuts the entries
added so far in three: those of this quantum of the counter and those of the
one before, at most `MAX_CONN_RATE` each, and the rest, which are more than a
second older than this quantum.  For `FlowKeepsReal`, the
entry of a pinned flow is in the list behind flows used since only (`Recent`),
which are fewer than the table keeps, and no other flow writes to it.  It is
about flows with an entry of their own.  The others move with the ring:
flows of `F_HASH_DPORT_ONLY` and `F_LRU_BYPASS` services, flows only seen under
flood, and flows whose last packet was routed by its server id, until one without
it is stored or found.  For `F_HASH_DPORT_ONLY` moving together is the point:
`PortInv` says that no such packet finds an entry, because what the service
stores has client 0 and what others store leads to other VIPs.  Three
assumptions: the addresses of VIPs differ in the 32 bits `flow_key` compares,
which holds for IPv4 and not for IPv6 services within one /32; no client has
the address 0 that `get_packet_dst` puts in; rings and server ids name reals for
every position, as the control plane fills them.

**DPDK configuration.** `ConfigInv` follows the loops of `main()`, one conjunct
for each place: the pairs checked so far have no port in common; the pairs set
so far are each other's destinations, which a later pair cannot change because
it has no port in common with them; of the ports below the loop variable all,
or all but `last_port` if their number is odd, are paired; the ports below the
loop variable are each in the list of one core.  Nothing the cores do changes
the configuration.  The assumption is that ports and cores are numbered from 0
and that a command line is a well-typed record.

**DPDK forwarding.** `RunInv` says that a core is at a port of its list and that
nothing runs before the launch; with `ConfigInv` only one core handles what is
for a port.  `PairInv` balances a port's count of received packets against what
its partner sent, dropped and buffers and what the core has in hand.
`OrderInv` says that wire, transmit queue, buffer, burst and receive queue, one
after the other, are in order of arrival.  `MbufInv` says that these and what
was freed or left by the program are each without doubles and share nothing,
whatever `dst_port` holds; the build that has it is assumed to run on one core
(`BuildAssumption`).

**Only model-checked:** what is under fairness (`FramesReturn`, `DriverWoken`,
`StopsWhenDone`, `Finishes`, `BuffersDrain`, `StopsOnSignal`), since
liveness is beyond the prover, and the three violation runs.  Types are part of the inductive
invariants and proved with them.

## 5. Not modelled

Most lines of the repository are not a program of its own: kernel headers kept
as copies (`bpf.h`, `if_link.h` and others, several times), a generated access
list (`standard_acl.c`), the same balancer three times (`lib`, `lib-aot` and
`lib-inline` differ in the names of map calls), loaders, scripts and plots.  Of
the rest:

* Option strings, statistics output, socket and port set-up errors and other
  fatal exits end the program or only print.
* The runtime glue in `module` calls bpftime, which is not part of the
  repository, one call after the other; an error ends the program.
* Helpers and checksums are functions of the bytes of one packet; the LPM and
  the device map are used by no program modelled here.
* katran's optional features (`LPM_SRC_LOOKUP`, `GLOBAL_LRU_LOOKUP`,
  `TCP_SERVER_ID_ROUTING`, `INLINE_DECAP`, flow debugging), header layouts and
  statistics.
* The values of the hash map under races, and the DPDK build that runs the
  program on more than one core: both are data races on unprotected memory
  with any outcome.
* The other XDP programs decide about each packet on its own.

## 6. Plan

What could come next, in this order: the theorems about `tx_only` for several
sockets, with the sums over sockets `L2fwd` has; `CursorsCorrect` for
`FragsUnshared` weakened to "no packet is unfinished when a round goes on to
the next socket"; the drain of `complete_tx_only_all` over several sockets.
