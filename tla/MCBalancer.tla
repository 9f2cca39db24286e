--------------------------- MODULE MCBalancer ---------------------------
(***************************************************************************)
(* A small instance of Balancer: a TCP service, one for any UDP port, one  *)
(* that hashes the destination port only, one that bypasses the LRU map    *)
(* and one with QUIC, on two addresses.                                    *)
(***************************************************************************)
EXTENDS Balancer

\* Addresses 1 and 2 are clients, 8 and 9 are virtual.
VipRow(addr, port, proto) == [addr |-> addr, port |-> port, proto |-> proto]
MCVips == {VipRow(8, 80, "tcp"), VipRow(8, 0, "udp"), VipRow(8, 53, "udp"),
           VipRow(9, 0, "tcp"), VipRow(9, 0, "udp")}
MCVipMap == [d \in MCVips |->
    CASE d = VipRow(8, 80, "tcp") -> [num |-> 0, flags |-> {"HASH_NO_SRC_PORT"}]
      [] d = VipRow(8, 0, "udp")  -> [num |-> 1, flags |-> {}]
      [] d = VipRow(8, 53, "udp") -> [num |-> 2, flags |-> {"HASH_DPORT_ONLY"}]
      [] d = VipRow(9, 0, "tcp")  -> [num |-> 3, flags |-> {"LRU_BYPASS", "HASH_SRC_DST_PORT"}]
      [] d = VipRow(9, 0, "udp")  -> [num |-> 4, flags |-> {"QUIC_VIP"}]]

Good(proto, src, dst, sport, dport) ==
    [eth |-> "ip", hdr |-> "ok", icmp |-> "no", proto |-> proto, src |-> src, dst |-> dst,
     sport |-> sport, dport |-> dport, l4 |-> TRUE, syn |-> FALSE, big |-> FALSE, sid |-> 0]

Tcp == Good("tcp", 1, 8, 5, 80)
Udp == Good("udp", 1, 8, 5, 7)

Forwarded ==
    {Tcp, [Tcp EXCEPT !.syn = TRUE],
     [Good("tcp", 8, 1, 80, 5) EXCEPT !.icmp = "error"],
     Udp, [Udp EXCEPT !.dport = 53], [Udp EXCEPT !.dport = 53, !.src = 2],
     [Tcp EXCEPT !.dst = 9],
     [Udp EXCEPT !.dst = 9], [Udp EXCEPT !.dst = 9, !.sid = 1]}

Refused ==
    {[Tcp EXCEPT !.eth = "runt"], [Tcp EXCEPT !.hdr = "options"], [Tcp EXCEPT !.icmp = "echo"],
     [Tcp EXCEPT !.proto = "other"], [Tcp EXCEPT !.l4 = FALSE], [Tcp EXCEPT !.dport = 81],
     [Tcp EXCEPT !.big = TRUE]}

MCPackets == Forwarded \cup Refused

MCInitRing == [v \in 0..4 |-> [i \in RingPos |-> (IF v \in {0, 3} THEN v + i ELSE v) % MAX_REALS]]
MCInitServerId == [s \in ServerIds |-> 1]

MCWord(a) == a
MCHash(f) == (f.src + f.sport) % RING_SIZE
===========================================================================
