------------------------------ MODULE XskRings ------------------------------
(***************************************************************************)
(* The single-producer single-consumer rings of an AF_XDP socket, as the   *)
(* application sees them through libxdp (xsk_ring_prod__reserve, __submit, *)
(* xsk_ring_cons__peek, __release).  libxdp is not part of the repository: *)
(* the operators below are what afxdp/l2fwd/xdpsock.c relies on.           *)
(*                                                                         *)
(* A ring is kept relative to its consumer index, so no index grows.       *)
(*   - A ring the application consumes (rx, completion) is a record        *)
(*       q       the entries between consumer and producer,                *)
(*       seen    cached_prod - consumer: how far the application has       *)
(*               looked; it is refreshed only when nothing is left,        *)
(*       peeked  cached_cons - consumer: peeked but not released.          *)
(*   - A ring the application produces (tx) is a record                    *)
(*       q       the entries between consumer and producer,                *)
(*       resv    the entries written to reserved but unsubmitted slots     *)
(*               (cached_prod - producer of them).                         *)
(* A reservation re-reads the consumer index whenever its cached copy does *)
(* not leave room enough, so it succeeds exactly when there is room.       *)
(***************************************************************************)
EXTENDS Integers, Sequences

\* The two kinds of rings over entries of S, and cursors that are in order.
ConsRing(S) == [q: Seq(S), seen: Nat, peeked: Nat]
ProdRing(S) == [q: Seq(S), resv: Seq(S)]
Ordered(r) == r.peeked <= r.seen /\ r.seen <= Len(r.q)

EmptyCons == [q |-> <<>>, seen |-> 0, peeked |-> 0]

EmptyProd == [q |-> <<>>, resv |-> <<>>]

\* The first n entries of s, and what is left without them.
FirstN(s, n) == SubSeq(s, 1, n)
DropN(s, n) == SubSeq(s, n + 1, Len(s))

\* cached_prod after a peek: re-read only when every seen entry is peeked.
SeenBy(r) == IF r.seen = r.peeked THEN Len(r.q) ELSE r.seen

\* How many entries xsk_ring_cons__peek(r, nb) returns.
PeekCount(r, nb) ==
    LET avail == SeenBy(r) - r.peeked IN IF avail < nb THEN avail ELSE nb

\* The ring after xsk_ring_cons__peek(r, nb).
Peek(r, nb) ==
    [q |-> r.q, seen |-> SeenBy(r), peeked |-> r.peeked + PeekCount(r, nb)]

\* xsk_ring_cons__release(r, n).
Release(r, n) ==
    [q |-> DropN(r.q, n), seen |-> r.seen - n, peeked |-> r.peeked - n]

\* xsk_ring_prod__reserve(r, n) succeeds on a ring of the given size.
CanReserve(r, size, n) == Len(r.q) + Len(r.resv) + n <= size

\* The reserved slot that follows the ones already written is filled.
WriteSlot(r, e) == [r EXCEPT !.resv = Append(r.resv, e)]

\* xsk_ring_prod__submit(r, n): the first n reserved entries are published.
Submit(r, n) ==
    [q |-> r.q \o FirstN(r.resv, n), resv |-> DropN(r.resv, n)]
=============================================================================
