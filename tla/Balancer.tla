---------------------------- MODULE Balancer ----------------------------
(***************************************************************************)
(* The katran load balancer (xdp_progs/katran/lib/bpf/balancer.bpf.c, with *)
(* none of its optional features) on the LRU map of the runtime            *)
(* (module/maps.cpp): each packet to a virtual address is sent to the real *)
(* server its connection id names, or its connection is remembered to be   *)
(* on, or the consistent hash ring gives; the control plane changes rings  *)
(* and server ids meanwhile and time passes.                               *)
(*                                                                         *)
(* In the kernel a lookup gives a pointer to the entry (in_place); the LRU *)
(* map of the runtime copies the entry to a static variable and gives a    *)
(* pointer to that.  Both are modelled.                                    *)
(*                                                                         *)
(* Statistics are left out, except the connection rate the code reads.     *)
(* pin, ever and added are history.                                        *)
(***************************************************************************)
EXTENDS LruCache, Functions

CONSTANTS
    Packets,         \* the packets that may arrive
    VipMap,          \* vip_map: address, port and protocol -> number and flags
    Word(_),         \* the part of an address that flow_key compares
    Hash(_),         \* get_packet_hash(flow) % RING_SIZE
    RING_SIZE, MAX_REALS, LRU_UDP_TIMEOUT, ONE_SEC, MAX_CONN_RATE,
    ServerIds,       \* the server ids server_id_map has room for
    InitRing, InitServerId,   \* ch_rings and server_id_map before the first packet
    InPlaces,        \* the values of in_place to consider
    None,
    MaxTime,         \* bound: how often the clock ticks
    MaxChanges       \* bound: how often the control plane changes a map

ASSUME RateAssumption ==
    /\ MAX_CONN_RATE \in Nat \ {0} /\ ONE_SEC \in Nat /\ LRU_UDP_TIMEOUT \in Nat
    /\ MAX_REALS \in Nat /\ MaxTime \in Nat
    /\ InPlaces \subseteq BOOLEAN

\* The addresses of two VIPs differ in the part flow_key compares, which is all
\* of an IPv4 address.
ASSUME VipAssumption ==
    /\ None \notin DOMAIN VipMap /\ None \notin {"id", "lru", "hash"}
    /\ \A d, e \in DOMAIN VipMap : Word(d.addr) = Word(e.addr) => d.addr = e.addr

VARIABLES
    in_place,     \* a lookup in the LRU map gives the entry itself, not a copy
    lru,          \* the LRU map: flow -> position of the real, access time
    ring,         \* ch_rings: VIP number -> ring position -> real
    server_id,    \* server_id_map: server id -> real, 0 if not set
    rate,         \* conn_rate_stats: connections in this quantum, its start
    now,          \* bpf_ktime_get_ns()
    changes,      \* changes made by the control plane
    out,          \* where the last packet was sent, if to a real
    pin,          \* history: flow -> the real its entry in the LRU map was last used for
    ever,         \* history: the reals rings and server ids have ever named
    added         \* history: when the last 2 * MAX_CONN_RATE + 1 entries were added

vars == <<in_place, lru, ring, server_id, rate, now, changes, out, pin, ever, added>>

RingPos == 0..(RING_SIZE - 1)
VipNums == {VipMap[d].num : d \in DOMAIN VipMap}

---------------------------------------------------------------------------
(***************************************************************************)
(* Parsing.  A packet p has the fields the code looks at: the ethernet     *)
(* type, what is wrong with its IP header if anything, its ICMP type, the  *)
(* addresses, ports and protocol (of the embedded header in an ICMP error),*)
(* whether its TCP or UDP header is complete, SYN, whether it exceeds      *)
(* MAX_PCKT_SIZE, and the server id in its QUIC connection id, or 0.       *)
(***************************************************************************)

\* balancer_ingress and process_l3_headers return for a packet that is neither
\* TCP nor UDP over a good IP header: they drop the ones with a bad header, pass
\* the ones that are not for them on, and answer an ICMP echo.
L3Returns(p) ==
    \/ p.eth \in {"runt", "other"}
    \/ p.hdr \in {"short", "options", "fragment"}
    \/ p.icmp \in {"short", "echo", "other"}

\* The flow of a packet, which for an ICMP error is that of the packet it is
\* about: parse_icmp, parse_tcp and parse_udp turn addresses and ports round.
FlowOf(p) ==
    IF p.icmp = "error"
    THEN [src |-> p.dst, dst |-> p.src, sport |-> p.dport, dport |-> p.sport, proto |-> p.proto]
    ELSE [src |-> p.src, dst |-> p.dst, sport |-> p.sport, dport |-> p.dport, proto |-> p.proto]

AnyPort(f) == [addr |-> f.dst, port |-> 0, proto |-> f.proto]
ThisPort(f) == [addr |-> f.dst, port |-> f.dport, proto |-> f.proto]

\* The two lookups in vip_map.
VipOf(f) ==
    IF ThisPort(f) \in DOMAIN VipMap THEN ThisPort(f)
    ELSE IF AnyPort(f) \in DOMAIN VipMap THEN AnyPort(f) ELSE None

Flagged(vip, flag) == flag \in VipMap[vip].flags

\* What process_packet makes of the ports before it looks up the connection.
DropPorts(f) ==
    LET vip == VipOf(f)
        any == /\ ThisPort(f) \notin DOMAIN VipMap
               /\ ~Flagged(vip, "HASH_DPORT_ONLY") /\ ~Flagged(vip, "HASH_SRC_DST_PORT")
    IN  [f EXCEPT !.dport = IF any THEN 0 ELSE @,
                  !.sport = IF Flagged(vip, "HASH_NO_SRC_PORT") THEN 0 ELSE @]

KeyOf_NoDst(f) == [f EXCEPT !.src = Word(@), !.dst = 0]

\* The flow as flow_key compares it.
KeyOf(f) == [f EXCEPT !.src = Word(@), !.dst = Word(@)]

\* The packets process_packet returns for before it chooses a destination: it
\* passes other protocols and addresses on, and drops what is cut or too big.
ReturnsEarly(p) ==
    \/ L3Returns(p)
    \/ p.proto = "other"
    \/ ~p.l4
    \/ VipOf(FlowOf(p)) = None
    \/ p.big

\* The other packets: their VIP, and the flow they belong to.
Routed == {p \in Packets : ~ReturnsEarly(p)}
Vip == [p \in Routed |-> VipOf(FlowOf(p))]
Flow == [p \in Routed |-> DropPorts(FlowOf(p))]
FlowKey == [p \in Routed |-> KeyOf(Flow[p])]
Flags == [p \in Routed |-> VipMap[Vip[p]].flags]

Keys == {FlowKey[p] : p \in Routed}

---------------------------------------------------------------------------
Quiet == [routed |-> None, vip |-> None, key |-> None, real |-> 0, syn |-> FALSE]

NoPin == [k \in Keys |-> None]

\* Packets arrive when the clock, which starts at boot, is past any timeout.
Boot == ONE_SEC + LRU_UDP_TIMEOUT + 1

Init ==
    /\ in_place \in InPlaces
    /\ lru = EmptyCache
    /\ ring = InitRing
    /\ server_id = InitServerId
    /\ rate = [v1 |-> 0, v2 |-> 0]
    /\ now = Boot
    /\ changes = 0
    /\ out = Quiet
    /\ pin = NoPin
    /\ ever = [ring |-> [v \in VipNums |-> {InitRing[v][i] : i \in RingPos}],
               id |-> {InitServerId[s] : s \in ServerIds}]
    /\ added = <<>>

---------------------------------------------------------------------------
(***************************************************************************)
(* is_under_flood.  v1 is not counted further once it is over the rate, as *)
(* nothing depends on by how much.                                         *)
(***************************************************************************)
NewQuantum == now - rate.v2 > ONE_SEC

UnderFlood == ~NewQuantum /\ rate.v1 + 1 > MAX_CONN_RATE

CountConnection_KeepStart ==
    rate' = IF NewQuantum THEN [rate EXCEPT !.v1 = 1]
            ELSE [rate EXCEPT !.v1 = IF UnderFlood THEN MAX_CONN_RATE + 1 ELSE @ + 1]

CountConnection ==
    rate' = IF NewQuantum THEN [v1 |-> 1, v2 |-> now]
            ELSE [rate EXCEPT !.v1 = IF UnderFlood THEN MAX_CONN_RATE + 1 ELSE @ + 1]

\* History: an entry is added.
NoteInsert ==
    added' = IF Len(added) > 2 * MAX_CONN_RATE THEN Append(Tail(added), now)
             ELSE Append(added, now)

\* The program writes to the entry it was given by a lookup.
Write(c, k, v) == IF in_place THEN Assign(c, k, v) ELSE c

\* History: entry k was used.  A flow is let go of once so many others were
\* used since that it may have been pruned.
Used(pins, k) ==
    [g \in Keys |->
        IF pins[g] = None \/ g = k THEN pins[g]
        ELSE IF Cardinality(pins[g].others \cup {k}) >= MaxSize THEN None
        ELSE [pins[g] EXCEPT !.others = @ \cup {k}]]

Pinned(pins, k, r, t) ==
    [pins EXCEPT ![k] = [real |-> r, at |-> IF k.proto = "udp" THEN t ELSE 0, others |-> {}]]

---------------------------------------------------------------------------
NotSent == out' = Quiet

\* The packet is encapsulated and sent to the real; it is dropped if there is
\* no headroom for the outer header.
Encap(p, how, real) ==
    \/ out' = [routed |-> how, vip |-> Vip[p], key |-> FlowKey[p], real |-> real, syn |-> p.syn]
    \/ NotSent

\* process_packet returns before it chooses a destination.
Refuse ==
    /\ Packets # Routed
    /\ NotSent
    /\ UNCHANGED <<in_place, lru, ring, server_id, rate, now, changes, pin, ever, added>>

\* The server id of a QUIC packet, 0 if it does not name a real.
IdReal(p) ==
    IF "QUIC_VIP" \in Flags[p] /\ p.icmp = "no" /\ p.sid \in ServerIds
    THEN server_id[p.sid] ELSE 0

\* check_and_update_real_index_in_lru, where the flow is in the LRU map.
CheckRealInLru(k, real) ==
    LET found == TryGetRef(lru, k)
        pos == ValueIn(lru, k).pos
    IN  /\ lru' = IF pos = real THEN found
                  ELSE Write(found, k, [ValueIn(lru, k) EXCEPT !.pos = real])
        /\ UNCHANGED <<rate, added>>

\* The same, where it is not.
AddRealToLru(k, real) ==
    /\ CountConnection
    /\ IF UnderFlood THEN UNCHANGED <<lru, added>>
       ELSE lru' = Insert(lru, k, [pos |-> real, atime |-> 0]) /\ NoteInsert

ById(p) ==
    /\ IdReal(p) # 0
    /\ \/ /\ IdReal(p) >= MAX_REALS
          /\ NotSent
          /\ UNCHANGED <<lru, rate, pin, added>>
       \/ /\ IdReal(p) < MAX_REALS
          /\ \/ Contains(lru, FlowKey[p]) /\ CheckRealInLru(FlowKey[p], IdReal(p))
             \/ ~Contains(lru, FlowKey[p]) /\ AddRealToLru(FlowKey[p], IdReal(p))
          /\ Encap(p, "id", IdReal(p))
          /\ pin' = Used([pin EXCEPT ![FlowKey[p]] = None], FlowKey[p])
    /\ UNCHANGED <<in_place, ring, server_id, now, changes, ever>>

---------------------------------------------------------------------------
\* Whether process_packet looks the connection up, and what it finds.
LooksUp(p) == ~p.syn /\ "LRU_BYPASS" \notin Flags[p] /\ Contains(lru, FlowKey[p])

Expired_Early(p) == p.proto = "udp" /\ now - ValueIn(lru, FlowKey[p]).atime >= LRU_UDP_TIMEOUT

Expired(p) == p.proto = "udp" /\ now - ValueIn(lru, FlowKey[p]).atime > LRU_UDP_TIMEOUT

\* connection_table_lookup gives a destination.
Hit(p) == LooksUp(p) /\ ~Expired(p) /\ ValueIn(lru, FlowKey[p]).pos < MAX_REALS

ByLru(p) ==
    /\ IdReal(p) = 0
    /\ Hit(p)
    /\ LET found == TryGetRef(lru, FlowKey[p])
           entry == ValueIn(lru, FlowKey[p])
       IN  /\ lru' = IF p.proto = "udp" THEN Write(found, FlowKey[p], [entry EXCEPT !.atime = now])
                     ELSE found
           /\ Encap(p, "lru", entry.pos)
           /\ pin' = Pinned(Used(pin, FlowKey[p]), FlowKey[p], entry.pos, now)
    /\ UNCHANGED <<in_place, ring, server_id, rate, now, changes, ever, added>>

\* The flow get_packet_dst hashes, and stores the connection under.
HashedFlow ==
    [p \in Routed |-> IF "HASH_DPORT_ONLY" \in Flags[p]
                     THEN [Flow[p] EXCEPT !.src = 0, !.sport = Flow[p].dport]
                     ELSE Flow[p]]
HashedKey_Original == FlowKey

HashedKey == [p \in Routed |-> KeyOf(HashedFlow[p])]
RingSlot == [p \in Routed |-> [vip |-> VipMap[Vip[p]].num, pos |-> Hash(HashedFlow[p])]]

ASSUME TablesAssumption ==
    /\ InitRing \in [VipNums -> [RingPos -> Nat]]
    /\ InitServerId \in [ServerIds -> Nat]
    /\ \A p \in Routed : RingSlot[p].pos \in RingPos

\* No client has the address that get_packet_dst puts in for its address.
ASSUME SourceAssumption == \A p \in Routed : FlowKey[p].src # Word(0)

Real(p) == ring[RingSlot[p].vip][RingSlot[p].pos]

\* get_packet_dst: the real of the ring, remembered for the next packets of the
\* flow unless connections come too fast.  Real 0 is counted as a drop and used
\* all the same.
ByHash(p) ==
    /\ IdReal(p) = 0
    /\ ~Hit(p)
    /\ CountConnection
    /\ LET looked == IF LooksUp(p) THEN TryGetRef(lru, FlowKey[p]) ELSE lru
           pinned == IF LooksUp(p) THEN Used(pin, FlowKey[p]) ELSE pin
           key == HashedKey[p]
       IN  \/ /\ Real(p) >= MAX_REALS
              /\ lru' = looked /\ pin' = pinned /\ UNCHANGED added
              /\ NotSent
           \/ /\ Real(p) < MAX_REALS
              /\ "LRU_BYPASS" \in Flags[p] \/ UnderFlood
              /\ lru' = looked /\ pin' = pinned /\ UNCHANGED added
              /\ Encap(p, "hash", Real(p))
           \/ /\ Real(p) < MAX_REALS
              /\ "LRU_BYPASS" \notin Flags[p] /\ ~UnderFlood
              /\ lru' = Insert(looked, key,
                               [pos |-> Real(p), atime |-> IF p.proto = "udp" THEN now ELSE 0])
              /\ pin' = IF key = FlowKey[p] THEN Pinned(Used(pinned, key), key, Real(p), now)
                        ELSE Used(pinned, key)
              /\ NoteInsert
              /\ Encap(p, "hash", Real(p))
    /\ UNCHANGED <<in_place, ring, server_id, now, changes, ever>>

---------------------------------------------------------------------------
\* The control plane and the clock.
SetRing(v, i, r) ==
    /\ changes < MaxChanges
    /\ changes' = changes + 1
    /\ ring' = [ring EXCEPT ![v][i] = r]
    /\ ever' = [ever EXCEPT !.ring[v] = @ \cup {r}]
    /\ UNCHANGED <<in_place, lru, server_id, rate, now, out, pin, added>>

SetServerId(s, r) ==
    /\ changes < MaxChanges
    /\ changes' = changes + 1
    /\ server_id' = [server_id EXCEPT ![s] = r]
    /\ ever' = [ever EXCEPT !.id = @ \cup {r}]
    /\ UNCHANGED <<in_place, lru, ring, rate, now, out, pin, added>>

Tick ==
    /\ now < Boot + MaxTime
    /\ now' = now + 1
    /\ UNCHANGED <<in_place, lru, ring, server_id, rate, changes, out, pin, ever, added>>

Next ==
    \/ Refuse
    \/ \E p \in Routed : ById(p) \/ ByLru(p) \/ ByHash(p)
    \/ \E r \in 0..MAX_REALS :
          \/ \E v \in VipNums, i \in RingPos : SetRing(v, i, r)
          \/ \E s \in ServerIds : SetServerId(s, r)
    \/ Tick

Spec == Init /\ [][Next]_vars

---------------------------------------------------------------------------
\* The index of the cache and its list never come apart, through lookups,
\* updates of old and new flows and pruning.
IndexInStep == InStep(lru)

\* What the ring or a server id has never named for a VIP gets no packet of
\* that VIP, although all VIPs share one connection table: a flow key leads to
\* one VIP only, whatever the flags make of its ports.
SentOnlyToVipReals ==
    out.routed # None =>
        \/ out.real \in ever.ring[VipMap[out.vip].num]
        \/ Flagged(out.vip, "QUIC_VIP") /\ out.real \in ever.id

\* Two kinds of packet for the same port of a HASH_DPORT_ONLY service.
SamePort ==
    {pq \in Routed \X Routed :
        /\ pq[1] # pq[2] /\ Vip[pq[1]] = Vip[pq[2]] /\ Flow[pq[1]].dport = Flow[pq[2]].dport
        /\ "HASH_DPORT_ONLY" \in Flags[pq[1]] /\ "QUIC_VIP" \notin Flags[pq[1]]}

\* The real a packet would be sent to if it came now, without a server id.
Goes(p) == IF Hit(p) THEN ValueIn(lru, FlowKey[p]).pos ELSE Real(p)

\* Packets of a HASH_DPORT_ONLY service with the same destination port go to the
\* same real, whatever clients they come from and however the ring changed in
\* between, as the comment in get_packet_dst says: their connections are stored
\* under a flow without client, where no packet finds one that the ring has left
\* behind.  A QUIC service also stores flows by their server ids.
SamePortSameReal == \A pq \in SamePort : Goes(pq[1]) = Goes(pq[2])

\* The packet of this step belongs to flow f, and f has an entry in the LRU map
\* that a packet of f stored or found last.
Sticks(f) ==
    /\ out'.key = f /\ out'.routed \in {"lru", "hash"} /\ ~out'.syn
    /\ pin[f] # None
    /\ f.proto = "udp" => now - pin[f].at <= LRU_UDP_TIMEOUT

\* A flow with an entry keeps its real while the ring changes: every packet of
\* it but a SYN, and every ICMP error about it, goes to the real of the packet
\* that last stored or found the entry, unless so many other flows were used
\* since that the cache may have dropped it, or it is UDP and was silent for
\* LRU_UDP_TIMEOUT.  For UDP this takes a lookup that gives the entry itself.
\* A flow without an entry of its own moves with the ring, and nothing is said
\* of it here: flows of HASH_DPORT_ONLY services, which are stored under another
\* flow (SamePortSameReal is about them), flows of LRU_BYPASS services,
\* flows only seen under flood, and flows whose last packet was routed by its
\* server id, which stores no access time.
FlowKeepsReal ==
    [][\A f \in Keys :
         Sticks(f) /\ (f.proto = "udp" => in_place) => out'.real = pin[f].real]_out

\* The same for UDP with either kind of lookup: a flow that is not silent for
\* LRU_UDP_TIMEOUT stays in the map.
ActiveUdpKeepsReal ==
    [][\A f \in Keys : Sticks(f) /\ f.proto = "udp" => out'.real = pin[f].real]_out

\* However fast connections come, the two paths that add entries add together
\* no more than 2 * MAX_CONN_RATE in any stretch of ONE_SEC: quanta start more
\* than ONE_SEC apart, so the stretch meets at most two.
InsertsRateLimited == Len(added) > 2 * MAX_CONN_RATE => now - added[1] > ONE_SEC
===========================================================================
