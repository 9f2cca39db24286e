--------------------------- MODULE DpdkConfig ---------------------------
(***************************************************************************)
(* How main() of the DPDK forwarder (dpdk/main.c) turns its command line   *)
(* into a configuration: which ports are enabled, where each one forwards  *)
(* to and which logical core polls it.  One action is one turn of a loop.  *)
(* Reading the strings of the command line is left out; a command is the   *)
(* record of what they say.                                                *)
(***************************************************************************)
EXTENDS Integers, Sequences, FiniteSets

CONSTANTS
    RTE_MAX_ETHPORTS, RTE_MAX_LCORE, MAX_RX_QUEUE_PER_LCORE,
    Attached,     \* the ports EAL found
    Commands,     \* the command lines, with the cores EAL may use and the build
    None

PortIds == 0..(RTE_MAX_ETHPORTS - 1)
LcoreIds == 0..(RTE_MAX_LCORE - 1)

\* In a command mask is None without -p, pairs is None without --portmap.
ASSUME ConfigAssumption ==
    /\ RTE_MAX_ETHPORTS \in Nat \ {0} /\ RTE_MAX_LCORE \in Nat \ {0}
    /\ MAX_RX_QUEUE_PER_LCORE \in Nat
    /\ Attached \subseteq PortIds
    /\ \A c \in Commands :
          /\ c.mask = None \/ c.mask \subseteq PortIds
          /\ c.pairs = None \/ c.pairs \in Seq(Nat \X Nat)
          /\ c.queues \in Nat
          /\ c.lcores \subseteq LcoreIds
          /\ c.batch \in BOOLEAN

VARIABLES
    pc,           \* where main() is
    cmd,          \* the command line
    at,           \* the loop variable: index or portid
    mask,         \* l2fwd_enabled_port_mask, as a set
    used,         \* port_pair_config_mask
    dst_ports,    \* l2fwd_dst_ports
    last_port,    \* the port still without a partner, if nb_in_mask is odd
    nb_in_mask,   \* nb_ports_in_mask
    rx_lcore,     \* rx_lcore_id
    conf          \* lcore_queue_conf: core -> rx_port_list

cvars == <<pc, cmd, at, mask, used, dst_ports, last_port, nb_in_mask, rx_lcore, conf>>

ConfigInit ==
    /\ pc = "parse"
    /\ cmd \in Commands
    /\ at = 0
    /\ mask = {}
    /\ used = {}
    /\ dst_ports = [p \in PortIds |-> 0]
    /\ last_port = 0
    /\ nb_in_mask = 0
    /\ rx_lcore = 0
    /\ conf = [c \in LcoreIds |-> <<>>]

Enabled == mask \cap Attached

---------------------------------------------------------------------------
\* rte_exit: main() gives up.
Exit ==
    /\ pc' = "exit"
    /\ UNCHANGED <<cmd, at, mask, used, dst_ports, last_port, nb_in_mask, rx_lcore, conf>>

\* l2fwd_parse_args accepts the command line.
ValidArgs(c) ==
    /\ c.mask # {}
    /\ c.queues \in 1..(MAX_RX_QUEUE_PER_LCORE - 1)
    /\ c.pairs # None =>
          /\ 2 * Len(c.pairs) <= RTE_MAX_ETHPORTS
          /\ \A i \in DOMAIN c.pairs : c.pairs[i][1] \in PortIds /\ c.pairs[i][2] \in PortIds

Parse ==
    /\ pc = "parse"
    /\ ValidArgs(cmd) /\ Attached # {}
    /\ mask' = IF cmd.mask = None THEN {} ELSE cmd.mask
    /\ pc' = IF cmd.pairs = None THEN "mask" ELSE "check"
    /\ at' = 1
    /\ UNCHANGED <<cmd, used, dst_ports, last_port, nb_in_mask, rx_lcore, conf>>

RefuseArgs == pc = "parse" /\ ~(ValidArgs(cmd) /\ Attached # {}) /\ Exit

---------------------------------------------------------------------------
\* check_port_pair_config: both ports of a pair have to be enabled and there,
\* and in no earlier pair.
PortsOf(pair) == {pair[1], pair[2]}

PairFits_Twice(pair) == PortsOf(pair) \subseteq Enabled
PairFits(pair) == PortsOf(pair) \subseteq Enabled /\ PortsOf(pair) \cap used = {}

CheckPair ==
    /\ pc = "check" /\ at <= Len(cmd.pairs)
    /\ PairFits(cmd.pairs[at])
    /\ used' = used \cup PortsOf(cmd.pairs[at])
    /\ at' = at + 1
    /\ UNCHANGED <<pc, cmd, mask, dst_ports, last_port, nb_in_mask, rx_lcore, conf>>

RefusePair == pc = "check" /\ at <= Len(cmd.pairs) /\ ~PairFits(cmd.pairs[at]) /\ Exit

PairsChecked ==
    /\ pc = "check" /\ at > Len(cmd.pairs)
    /\ mask' = mask \cap used
    /\ pc' = "mask"
    /\ UNCHANGED <<cmd, at, used, dst_ports, last_port, nb_in_mask, rx_lcore, conf>>

\* The mask must not reach past the number of ports there are.
MaskPossible == mask \subseteq 0..(Cardinality(Attached) - 1)

CheckMask ==
    /\ pc = "mask" /\ MaskPossible
    /\ \/ cmd.pairs = None /\ pc' = "alternate" /\ at' = 0
       \/ cmd.pairs # None /\ pc' = "pair" /\ at' = 1
    /\ UNCHANGED <<cmd, mask, used, dst_ports, last_port, nb_in_mask, rx_lcore, conf>>

RefuseMask == pc = "mask" /\ ~MaskPossible /\ Exit

---------------------------------------------------------------------------
\* Destinations from --portmap: two turns of the loop, one for each port.
SetPair ==
    /\ pc = "pair" /\ at <= Len(cmd.pairs)
    /\ dst_ports' = [dst_ports EXCEPT ![cmd.pairs[at][1]] = cmd.pairs[at][2],
                                      ![cmd.pairs[at][2]] = cmd.pairs[at][1]]
    /\ at' = at + 1
    /\ UNCHANGED <<pc, cmd, mask, used, last_port, nb_in_mask, rx_lcore, conf>>

PairsSet ==
    /\ pc = "pair" /\ at > Len(cmd.pairs)
    /\ pc' = "lcores" /\ at' = 0
    /\ UNCHANGED <<cmd, mask, used, dst_ports, last_port, nb_in_mask, rx_lcore, conf>>

\* RTE_ETH_FOREACH_DEV without the ports that are not enabled: p is next.
IsNext(p) == p \in Enabled /\ p >= at /\ \A q \in Enabled : q >= at => p <= q
NoneLeft == \A q \in Enabled : q < at

\* Destinations without it: alternate ports are partners.
Alternate(p) ==
    /\ pc = "alternate" /\ IsNext(p)
    /\ \/ /\ nb_in_mask % 2 = 1
          /\ dst_ports' = [dst_ports EXCEPT ![p] = last_port, ![last_port] = p]
          /\ UNCHANGED last_port
       \/ /\ nb_in_mask % 2 = 0
          /\ last_port' = p
          /\ UNCHANGED dst_ports
    /\ nb_in_mask' = nb_in_mask + 1
    /\ at' = p + 1
    /\ UNCHANGED <<pc, cmd, mask, used, rx_lcore, conf>>

Alternated ==
    /\ pc = "alternate" /\ NoneLeft
    /\ dst_ports' = IF nb_in_mask % 2 = 1 THEN [dst_ports EXCEPT ![last_port] = last_port]
                    ELSE dst_ports
    /\ pc' = "lcores" /\ at' = 0
    /\ UNCHANGED <<cmd, mask, used, last_port, nb_in_mask, rx_lcore, conf>>

---------------------------------------------------------------------------
\* The while loop that looks for a core for the next port stops at c.
HasRoom(c) == c \in cmd.lcores /\ Len(conf[c]) # cmd.queues
IsCore(c) == HasRoom(c) /\ c >= rx_lcore /\ \A d \in LcoreIds : HasRoom(d) /\ d >= rx_lcore => c <= d

Assign(p, c) ==
    /\ pc = "lcores" /\ IsNext(p) /\ IsCore(c)
    /\ conf' = [conf EXCEPT ![c] = Append(@, p)]
    /\ rx_lcore' = c
    /\ at' = p + 1
    /\ UNCHANGED <<pc, cmd, mask, used, dst_ports, last_port, nb_in_mask>>

\* "Not enough cores"
NoCore == pc = "lcores" /\ ~NoneLeft /\ (\A c \in LcoreIds : c >= rx_lcore => ~HasRoom(c)) /\ Exit

\* The pool is created, every enabled port is initialised and the cores are
\* launched.
Launch ==
    /\ pc = "lcores" /\ NoneLeft /\ Enabled # {}
    /\ pc' = "run"
    /\ UNCHANGED <<cmd, at, mask, used, dst_ports, last_port, nb_in_mask, rx_lcore, conf>>

\* Some rte_eth_* call fails, or there is no port.
InitFails == pc = "lcores" /\ NoneLeft /\ Exit

ConfigNext ==
    \/ Parse \/ RefuseArgs
    \/ CheckPair \/ RefusePair \/ PairsChecked \/ CheckMask \/ RefuseMask
    \/ SetPair \/ PairsSet
    \/ (\E p \in Attached : Alternate(p)) \/ Alternated
    \/ (\E p \in Attached, c \in LcoreIds : Assign(p, c)) \/ NoCore
    \/ Launch \/ InitFails

---------------------------------------------------------------------------
Launched == pc \in {"run", "closed", "crashed"}

\* Once the cores run forwarding goes both ways between two enabled ports, or
\* from a port to itself: no two ports forward to the same one, so no two cores
\* ever fill the same transmit buffer, which has no lock.
ForwardsInPairs ==
    Launched => \A p \in Enabled : dst_ports[p] \in Enabled /\ dst_ports[dst_ports[p]] = p

\* Every enabled port is polled by one core, once in its round.
PolledOnce ==
    Launched =>
        /\ \A p \in Enabled : \E c \in LcoreIds : \E i \in DOMAIN conf[c] : conf[c][i] = p
        /\ \A c, d \in LcoreIds : \A i \in DOMAIN conf[c], j \in DOMAIN conf[d] :
              conf[c][i] = conf[d][j] => c = d /\ i = j

ConfigSound == ForwardsInPairs /\ PolledOnce
===========================================================================
