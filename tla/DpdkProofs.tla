--------------------------- MODULE DpdkProofs ---------------------------
(***************************************************************************)
(* The DPDK forwarder, for every value of the constants.                   *)
(*                                                                         *)
(* First its configuration: whatever ports, cores and command line there   *)
(* are, main() gives the cores a sound one (ConfigSound).  The invariant   *)
(* follows the loops of main(): the pairs checked so far do not meet, the  *)
(* ports below the loop variable are paired, or assigned to one core.      *)
(*                                                                         *)
(* Then the forwarding itself.  RunInv says that a core polls the port of  *)
(* its list it is at and nothing runs before the launch; on it rest three  *)
(* invariants about where packets are: what a port has in hand to transmit *)
(* came from its partner (PairInv), what a port received goes through five *)
(* places in the order of arrival (OrderInv), and every mbuf is in just    *)
(* one place (MbufInv).                                                    *)
(***************************************************************************)
EXTENDS Dpdk, FiniteSetTheorems, TLAPS

ConfigType ==
    /\ cmd \in Commands
    /\ at \in Nat
    /\ mask \subseteq PortIds
    /\ used \subseteq PortIds
    /\ dst_ports \in [PortIds -> PortIds]
    /\ last_port \in PortIds
    /\ nb_in_mask \in Nat
    /\ conf \in [LcoreIds -> Seq(PortIds)]

\* Pairs i and j of the port map have no port in common.
Apart(i, j) == PortsOf(cmd.pairs[i]) \cap PortsOf(cmd.pairs[j]) = {}

\* The first n pairs were found to fit; used are their ports.
Checked(n) ==
    /\ cmd.pairs # None
    /\ \A i \in 1..n : PortsOf(cmd.pairs[i]) \subseteq used
    /\ \A q \in used : \E i \in 1..n : q \in PortsOf(cmd.pairs[i])
    /\ \A i, j \in 1..n : i # j => Apart(i, j)

\* The ports of S forward to each other in pairs.
Paired(S) == \A p \in S : dst_ports[p] \in S /\ dst_ports[dst_ports[p]] = p

Below == {q \in Enabled : q < at}

\* Each port of S is polled, no other one is, and none twice.
PolledAre(S) ==
    /\ \A c \in LcoreIds : \A i \in DOMAIN conf[c] : conf[c][i] \in S
    /\ \A p \in S : \E c \in LcoreIds : \E i \in DOMAIN conf[c] : conf[c][i] = p
    /\ \A c, d \in LcoreIds : \A i \in DOMAIN conf[c], j \in DOMAIN conf[d] :
          conf[c][i] = conf[d][j] => c = d /\ i = j

NoneAssigned == \A c \in LcoreIds : conf[c] = <<>>

Fresh == NoneAssigned /\ nb_in_mask = 0

\* What holds at each place of main().
WhenParsing == pc = "parse" => Fresh /\ used = {}
WhenChecking ==
    pc = "check" =>
        /\ Fresh
        /\ at \in 1..(Len(cmd.pairs) + 1)
        /\ used \subseteq Enabled
        /\ Checked(at - 1)
WhenMask ==
    pc = "mask" =>
        /\ Fresh
        /\ cmd.pairs # None => Checked(Len(cmd.pairs)) /\ mask = used /\ used \subseteq Attached
WhenPairing ==
    pc = "pair" =>
        /\ NoneAssigned
        /\ at \in 1..(Len(cmd.pairs) + 1)
        /\ Checked(Len(cmd.pairs)) /\ mask = used /\ used \subseteq Attached
        /\ \A i \in 1..(at - 1) :
              /\ dst_ports[cmd.pairs[i][1]] = cmd.pairs[i][2]
              /\ dst_ports[cmd.pairs[i][2]] = cmd.pairs[i][1]
WhenAlternating ==
    pc = "alternate" =>
        /\ NoneAssigned
        /\ nb_in_mask % 2 = 0 => Paired(Below)
        /\ nb_in_mask % 2 = 1 => last_port \in Below /\ Paired(Below \ {last_port})
WhenAssigning == pc = "lcores" => Paired(Enabled) /\ PolledAre(Below)
WhenLaunched == Launched => Paired(Enabled) /\ PolledAre(Enabled)

ConfigInv ==
    /\ ConfigType
    /\ WhenParsing /\ WhenChecking /\ WhenMask /\ WhenPairing /\ WhenAlternating /\ WhenAssigning
    /\ WhenLaunched

---------------------------------------------------------------------------
\* No port is below the first one.
LEMMA NoneBelow ==
    PortIds \subseteq Nat /\ ~(\E p \in PortIds : p < 0)
  BY ConfigAssumption DEF PortIds

\* A port map is a sequence of pairs of numbers.
LEMMA PairsType ==
    ASSUME ConfigType, cmd.pairs # None
    PROVE  /\ cmd.pairs \in Seq(Nat \X Nat)
           /\ Len(cmd.pairs) \in Nat
           /\ \A i \in 1..Len(cmd.pairs) :
                 PortsOf(cmd.pairs[i]) = {cmd.pairs[i][1], cmd.pairs[i][2]}
  BY ConfigAssumption DEF ConfigType, PortsOf

\* Initially nothing is configured.
LEMMA ConfigInvInit ==
    ASSUME ConfigInit
    PROVE  ConfigInv
  <1>1. 0 \in PortIds
    BY ConfigAssumption DEF PortIds
  <1>2. ConfigType
    BY <1>1 DEF ConfigInit, ConfigType
  <1> QED
    BY <1>2 DEF ConfigInit, ConfigInv, WhenParsing, WhenChecking, WhenMask, WhenPairing,
                WhenAlternating, WhenAssigning, WhenLaunched, Launched, Fresh, NoneAssigned

\* Nothing is asked of a state in which main() has given up.
LEMMA ConfigInvExit ==
    ASSUME ConfigInv, Exit
    PROVE  ConfigInv'
  BY DEF Exit, ConfigInv, ConfigType, WhenParsing, WhenChecking, WhenMask, WhenPairing,
         WhenAlternating, WhenAssigning, WhenLaunched, Launched

\* The command line is accepted: no pair is checked yet.
LEMMA ConfigInvParse ==
    ASSUME ConfigInv, Parse
    PROVE  ConfigInv'
  <1>1. ConfigType'
    BY ConfigAssumption DEF ConfigInv, ConfigType, Parse
  <1>2. Fresh' /\ used' = {} /\ at' = 1 /\ cmd' = cmd
    BY DEF ConfigInv, WhenParsing, Parse, Fresh, NoneAssigned
  <1>3. \/ pc' = "mask" /\ cmd.pairs = None
        \/ pc' = "check" /\ cmd.pairs # None
    BY DEF Parse
  <1>4. WhenMask'
    BY <1>2, <1>3 DEF WhenMask
  <1>5. WhenChecking'
    <2>1. cmd.pairs # None => 1 \in 1..(Len(cmd.pairs) + 1)
      BY PairsType DEF ConfigInv
    <2> QED
      BY <1>2, <1>3, <2>1 DEF WhenChecking, Checked
  <1> QED
    BY <1>1, <1>3, <1>4, <1>5
    DEF ConfigInv, WhenParsing, WhenPairing, WhenAlternating, WhenAssigning, WhenLaunched, Launched

\* A pair fits: its ports are none of the earlier pairs'.
LEMMA ConfigInvCheckPair ==
    ASSUME ConfigInv, CheckPair
    PROVE  ConfigInv'
  <1>1. /\ ConfigType /\ Fresh
        /\ at \in 1..Len(cmd.pairs)
        /\ used \subseteq Enabled
        /\ Checked(at - 1)
        /\ pc = "check" /\ pc' = "check"
    BY PairsType DEF ConfigInv, WhenChecking, CheckPair, ConfigType, Checked
  <1>2. /\ used' = used \cup PortsOf(cmd.pairs[at])
        /\ PortsOf(cmd.pairs[at]) \subseteq Enabled
        /\ PortsOf(cmd.pairs[at]) \cap used = {}
        /\ at' = at + 1
    BY DEF CheckPair, PairFits
  <1>3. UNCHANGED <<cmd, mask, dst_ports, last_port, nb_in_mask, conf>>
    BY DEF CheckPair
  <1>4. used' \subseteq Enabled' /\ Enabled' = Enabled
    BY <1>1, <1>2, <1>3 DEF Enabled
  <1>5. ConfigType'
    BY <1>1, <1>2, <1>3, <1>4 DEF ConfigType, Enabled
  <1>6. Checked(at - 1)'
    <2>1. cmd.pairs # None /\ at \in Nat \ {0}
      BY <1>1 DEF Checked, ConfigType
    <2>2. \A i \in 1..at : i = at \/ i \in 1..(at - 1)
      BY <2>1
    <2>3. \A i \in 1..at : PortsOf(cmd.pairs[i]) \subseteq used'
      BY <1>1, <1>2, <2>2 DEF Checked
    <2>4. \A q \in used' : \E i \in 1..at : q \in PortsOf(cmd.pairs[i])
      BY <1>1, <1>2, <2>1 DEF Checked
    <2>5. \A i, j \in 1..at : i # j => Apart(i, j)
      BY <1>1, <1>2, <2>2 DEF Checked, Apart
    <2>6. (at - 1)' = at
      BY <1>2, <2>1
    <2> QED
      BY <1>3, <2>1, <2>3, <2>4, <2>5, <2>6 DEF Checked, Apart, PortsOf
  <1>7. WhenChecking'
    <2>1. at' \in 1..(Len(cmd.pairs) + 1)
      BY <1>1, <1>2, PairsType DEF Checked
    <2> QED
      BY <1>1, <1>3, <1>4, <1>6, <2>1 DEF WhenChecking, Fresh, NoneAssigned
  <1> QED
    BY <1>1, <1>5, <1>7
    DEF ConfigInv, WhenParsing, WhenMask, WhenPairing, WhenAlternating, WhenAssigning, WhenLaunched,
        Launched

\* The enabled ports are now those of the pairs.
LEMMA ConfigInvPairsChecked ==
    ASSUME ConfigInv, PairsChecked
    PROVE  ConfigInv'
  <1>1. /\ ConfigType /\ Fresh
        /\ used \subseteq Enabled
        /\ Checked(Len(cmd.pairs))
    <2>1. ConfigType /\ Fresh /\ used \subseteq Enabled /\ Checked(at - 1)
          /\ at \in 1..(Len(cmd.pairs) + 1) /\ at > Len(cmd.pairs)
      BY DEF ConfigInv, WhenChecking, PairsChecked
    <2>2. at - 1 = Len(cmd.pairs)
      BY <2>1, PairsType DEF Checked
    <2> QED
      BY <2>1, <2>2
  <1>2. mask' = used /\ used \subseteq Attached /\ pc' = "mask"
    BY <1>1 DEF PairsChecked, Enabled
  <1>3. UNCHANGED <<cmd, at, used, dst_ports, last_port, nb_in_mask, conf>>
    BY DEF PairsChecked
  <1>4. ConfigType'
    BY <1>1, <1>2, <1>3 DEF ConfigType
  <1>5. Checked(Len(cmd.pairs))'
    BY <1>1, <1>3 DEF Checked, Apart, PortsOf
  <1>6. WhenMask'
    BY <1>1, <1>2, <1>3, <1>5 DEF WhenMask, Fresh, NoneAssigned
  <1> QED
    BY <1>2, <1>4, <1>6
    DEF ConfigInv, WhenParsing, WhenChecking, WhenPairing, WhenAlternating, WhenAssigning,
        WhenLaunched, Launched

\* No destination is set yet.
LEMMA ConfigInvCheckMask ==
    ASSUME ConfigInv, CheckMask
    PROVE  ConfigInv'
  <1>1. ConfigType /\ NoneAssigned /\ nb_in_mask = 0
    BY DEF ConfigInv, WhenMask, CheckMask, Fresh
  <1>2. UNCHANGED <<cmd, mask, used, dst_ports, last_port, nb_in_mask, conf>>
    BY DEF CheckMask
  <1>3. ConfigType' /\ NoneAssigned'
    BY <1>1, <1>2 DEF ConfigType, NoneAssigned, CheckMask
  <1>4. CASE cmd.pairs = None /\ pc' = "alternate" /\ at' = 0
    <2>1. Below' = {}
      BY <1>2, <1>3, <1>4, NoneBelow DEF Below, Enabled, ConfigType
    <2>2. nb_in_mask' % 2 = 0
      BY <1>1, <1>2
    <2>3. WhenAlternating'
      BY <1>2, <1>3, <2>1, <2>2 DEF WhenAlternating, Paired
    <2> QED
      BY <1>3, <1>4, <2>3
      DEF ConfigInv, WhenParsing, WhenChecking, WhenMask, WhenPairing, WhenAssigning,
          WhenLaunched, Launched
  <1>5. CASE cmd.pairs # None /\ pc' = "pair" /\ at' = 1
    <2>1. Checked(Len(cmd.pairs)) /\ mask = used /\ used \subseteq Attached
      BY <1>5 DEF ConfigInv, WhenMask, CheckMask
    <2>2. Checked(Len(cmd.pairs))' /\ (mask = used)' /\ (used \subseteq Attached)'
      BY <1>2, <2>1 DEF Checked, Apart, PortsOf
    <2>3. 1 \in 1..(Len(cmd.pairs) + 1)
      BY <1>1, <1>5, PairsType
    <2>4. WhenPairing'
      BY <1>2, <1>3, <1>5, <2>2, <2>3 DEF WhenPairing
    <2> QED
      BY <1>3, <1>5, <2>4
      DEF ConfigInv, WhenParsing, WhenChecking, WhenMask, WhenAlternating, WhenAssigning,
          WhenLaunched, Launched
  <1> QED
    BY <1>4, <1>5 DEF CheckMask

\* The ports of a pair forward to each other; those of the others are not touched.
LEMMA ConfigInvSetPair ==
    ASSUME ConfigInv, SetPair
    PROVE  ConfigInv'
  <1>1. /\ ConfigType /\ NoneAssigned
        /\ at \in 1..Len(cmd.pairs)
        /\ Checked(Len(cmd.pairs)) /\ mask = used /\ used \subseteq Attached
        /\ \A i \in 1..(at - 1) :
              /\ dst_ports[cmd.pairs[i][1]] = cmd.pairs[i][2]
              /\ dst_ports[cmd.pairs[i][2]] = cmd.pairs[i][1]
    BY PairsType DEF ConfigInv, WhenPairing, SetPair, ConfigType, Checked
  <1>2. UNCHANGED <<cmd, mask, used, last_port, nb_in_mask, conf>> /\ at' = at + 1 /\ pc' = "pair"
    BY DEF SetPair
  <1> DEFINE a == cmd.pairs[at][1]
             b == cmd.pairs[at][2]
  <1>3. dst_ports' = [dst_ports EXCEPT ![a] = b, ![b] = a]
    BY DEF SetPair
  <1>4. \A i \in 1..Len(cmd.pairs) : cmd.pairs[i][1] \in PortIds /\ cmd.pairs[i][2] \in PortIds
    BY <1>1 DEF Checked, PortsOf, ConfigType
  <1>5. a \in PortIds /\ b \in PortIds
    BY <1>1, <1>4
  <1>6. dst_ports' \in [PortIds -> PortIds]
    BY <1>1, <1>3, <1>5 DEF ConfigType
  <1>7. ConfigType'
    BY <1>1, <1>2, <1>6 DEF ConfigType
  <1>8. dst_ports'[a] = b /\ dst_ports'[b] = a
    BY <1>1, <1>3, <1>5 DEF ConfigType
  <1>9. ASSUME NEW q \in PortIds, q # a, q # b
        PROVE  dst_ports'[q] = dst_ports[q]
    BY <1>1, <1>3, <1>5, <1>9 DEF ConfigType
  <1>10. ASSUME NEW i \in 1..(at' - 1)
         PROVE  /\ dst_ports'[cmd.pairs[i][1]] = cmd.pairs[i][2]
                /\ dst_ports'[cmd.pairs[i][2]] = cmd.pairs[i][1]
    <2>1. i \in 1..Len(cmd.pairs) /\ at \in 1..Len(cmd.pairs) /\ (i # at => i \in 1..(at - 1))
      <3>1. at \in Nat /\ at' = at + 1 /\ Len(cmd.pairs) \in Nat /\ at \in 1..Len(cmd.pairs)
        BY <1>1, <1>2, PairsType DEF Checked, ConfigType
      <3> QED
        BY <1>10, <3>1
    <2>2. CASE i = at
      BY <1>8, <2>2
    <2>3. CASE i # at
      <3>1. Apart(i, at)
        BY <1>1, <2>1, <2>3 DEF Checked
      <3>2. cmd.pairs[i][1] \notin {a, b} /\ cmd.pairs[i][2] \notin {a, b}
        BY <3>1 DEF Apart, PortsOf
      <3> QED
        BY <1>1, <1>4, <1>9, <2>1, <2>3, <3>2
    <2> QED
      BY <2>1, <2>2, <2>3
  <1>11. Checked(Len(cmd.pairs))'
    BY <1>1, <1>2 DEF Checked, Apart, PortsOf
  <1>12. WhenPairing'
    <2>1. at' \in 1..(Len(cmd.pairs) + 1)
      BY <1>1, <1>2, PairsType DEF Checked
    <2> QED
      BY <1>1, <1>2, <1>10, <1>11, <2>1 DEF WhenPairing, NoneAssigned
  <1> QED
    BY <1>2, <1>7, <1>12
    DEF ConfigInv, WhenParsing, WhenChecking, WhenMask, WhenAlternating, WhenAssigning,
        WhenLaunched, Launched

\* Every enabled port is in a pair, whose other port is its partner.
LEMMA ConfigInvPairsSet ==
    ASSUME ConfigInv, PairsSet
    PROVE  ConfigInv'
  <1>1. /\ ConfigType /\ NoneAssigned
        /\ Checked(Len(cmd.pairs)) /\ mask = used /\ used \subseteq Attached
        /\ at \in 1..(Len(cmd.pairs) + 1) /\ at > Len(cmd.pairs)
        /\ \A i \in 1..(at - 1) :
              /\ dst_ports[cmd.pairs[i][1]] = cmd.pairs[i][2]
              /\ dst_ports[cmd.pairs[i][2]] = cmd.pairs[i][1]
    BY DEF ConfigInv, WhenPairing, PairsSet
  <1>2. UNCHANGED <<cmd, mask, used, dst_ports, last_port, nb_in_mask, conf>> /\ at' = 0 /\ pc' = "lcores"
    BY DEF PairsSet
  <1>3. ConfigType' /\ NoneAssigned'
    BY <1>1, <1>2 DEF ConfigType, NoneAssigned
  <1>4. Paired(Enabled)
    <2>1. Enabled = used
      BY <1>1 DEF Enabled
    <2>2. at - 1 = Len(cmd.pairs)
      BY <1>1, PairsType DEF Checked
    <2>3. ASSUME NEW p \in used
          PROVE  dst_ports[p] \in used /\ dst_ports[dst_ports[p]] = p
      <3>1. PICK i \in 1..Len(cmd.pairs) : p \in PortsOf(cmd.pairs[i])
        BY <1>1 DEF Checked
      <3>2. PortsOf(cmd.pairs[i]) \subseteq used
        BY <1>1 DEF Checked
      <3> QED
        BY <1>1, <2>2, <3>1, <3>2 DEF PortsOf
    <2> QED
      BY <2>1, <2>3 DEF Paired
  <1>5. Paired(Enabled)'
    BY <1>2, <1>4 DEF Paired, Enabled
  <1>6. PolledAre(Below)'
    <2>1. Below' = {}
      BY <1>2, <1>3, NoneBelow DEF Below, Enabled, ConfigType
    <2> QED
      BY <1>3, <2>1 DEF PolledAre, NoneAssigned
  <1> QED
    BY <1>2, <1>3, <1>5, <1>6
    DEF ConfigInv, WhenParsing, WhenChecking, WhenMask, WhenPairing, WhenAlternating, WhenAssigning,
        WhenLaunched, Launched

\* The port that is next joins the ones below the loop variable.
LEMMA NextBelow ==
    ASSUME ConfigType, NEW p, IsNext(p)
    PROVE  /\ p \in Enabled /\ p \in PortIds /\ p \in Nat
           /\ p \notin Below
           /\ {q \in Enabled : q < p + 1} = Below \cup {p}
  <1>1. p \in Enabled /\ p >= at /\ \A q \in Enabled : q >= at => p <= q
    BY DEF IsNext
  <1>2. Enabled \subseteq Nat /\ Enabled \subseteq PortIds /\ at \in Nat
    BY NoneBelow DEF ConfigType, Enabled
  <1>3. \A q \in Enabled : q < p + 1 <=> q < at \/ q = p
    BY <1>1, <1>2
  <1>4. p \notin Below
    BY <1>1, <1>2 DEF Below
  <1>5. {q \in Enabled : q < p + 1} = Below \cup {p}
    BY <1>1, <1>3 DEF Below
  <1> QED
    BY <1>1, <1>2, <1>4, <1>5

LEMMA NoneLeftBelow ==
    ASSUME NoneLeft
    PROVE  Below = Enabled
  BY DEF NoneLeft, Below

\* Alternate ports become partners.
LEMMA ConfigInvAlternate ==
    ASSUME ConfigInv, NEW p, Alternate(p)
    PROVE  ConfigInv'
  <1>1. /\ ConfigType /\ NoneAssigned /\ pc = "alternate" /\ IsNext(p)
        /\ nb_in_mask % 2 = 0 => Paired(Below)
        /\ nb_in_mask % 2 = 1 => last_port \in Below /\ Paired(Below \ {last_port})
    BY DEF ConfigInv, WhenAlternating, Alternate
  <1>2. /\ p \in Enabled /\ p \in PortIds /\ p \in Nat
        /\ p \notin Below
        /\ {q \in Enabled : q < p + 1} = Below \cup {p}
    BY <1>1, NextBelow
  <1>3. UNCHANGED <<pc, cmd, mask, used, conf>> /\ at' = p + 1 /\ nb_in_mask' = nb_in_mask + 1
    BY DEF Alternate
  <1>4. Below' = Below \cup {p} /\ Below \subseteq PortIds
    BY <1>1, <1>2, <1>3 DEF Below, Enabled, ConfigType
  <1>5. nb_in_mask \in Nat
    BY <1>1 DEF ConfigType
  <1>6. CASE nb_in_mask % 2 = 1
    <2>1. /\ dst_ports' = [dst_ports EXCEPT ![p] = last_port, ![last_port] = p]
          /\ last_port' = last_port
          /\ last_port \in Below /\ Paired(Below \ {last_port})
      BY <1>1, <1>5, <1>6 DEF Alternate
    <2>2. ConfigType'
      BY <1>1, <1>2, <1>3, <2>1 DEF ConfigType
    <2>3. Below' = (Below \ {last_port}) \cup {p, last_port}
      BY <1>4, <2>1
    <2> DEFINE S == Below \ {last_port}
    <2>4. \A q \in S \cup {p, last_port} :
             dst_ports'[q] \in S \cup {p, last_port} /\ dst_ports'[dst_ports'[q]] = q
      <3>1. /\ dst_ports \in [PortIds -> PortIds] /\ S \in SUBSET PortIds
            /\ last_port \in PortIds /\ p \notin S /\ last_port \notin S
            /\ \A q \in S : dst_ports[q] \in S /\ dst_ports[dst_ports[q]] = q
        BY <1>1, <1>2, <1>4, <2>1 DEF ConfigType, Paired
      <3>2. dst_ports'[p] = last_port /\ dst_ports'[last_port] = p
        BY ONLY <1>2, <2>1, <3>1
      <3>3. \A q \in S : dst_ports'[q] = dst_ports[q]
        BY ONLY <2>1, <3>1
      <3> HIDE DEF S
      <3> QED
        BY ONLY <3>1, <3>2, <3>3
    <2>5. Paired(Below)'
      BY <2>3, <2>4 DEF Paired
    <2>6. nb_in_mask' % 2 = 0
      BY <1>3, <1>5, <1>6
    <2> QED
      BY <1>1, <1>3, <2>2, <2>5, <2>6
      DEF ConfigInv, WhenParsing, WhenChecking, WhenMask, WhenPairing, WhenAlternating, WhenAssigning,
          WhenLaunched, Launched, NoneAssigned
  <1>7. CASE nb_in_mask % 2 = 0
    <2>1. dst_ports' = dst_ports /\ last_port' = p /\ Paired(Below)
      BY <1>1, <1>5, <1>7 DEF Alternate
    <2>2. ConfigType'
      BY <1>1, <1>2, <1>3, <2>1 DEF ConfigType
    <2>3. last_port' \in Below' /\ Below' \ {last_port'} = Below
      BY <1>2, <1>4, <2>1
    <2>4. Paired(Below \ {last_port})'
      BY <2>1, <2>3 DEF Paired
    <2>5. nb_in_mask' % 2 = 1
      BY <1>3, <1>5, <1>7
    <2> QED
      BY <1>1, <1>3, <2>2, <2>3, <2>4, <2>5
      DEF ConfigInv, WhenParsing, WhenChecking, WhenMask, WhenPairing, WhenAlternating, WhenAssigning,
          WhenLaunched, Launched, NoneAssigned
  <1> QED
    BY <1>5, <1>6, <1>7

\* An odd port is its own partner.
LEMMA ConfigInvAlternated ==
    ASSUME ConfigInv, Alternated
    PROVE  ConfigInv'
  <1>1. /\ ConfigType /\ NoneAssigned
        /\ nb_in_mask % 2 = 0 => Paired(Below)
        /\ nb_in_mask % 2 = 1 => last_port \in Below /\ Paired(Below \ {last_port})
    BY DEF ConfigInv, WhenAlternating, Alternated
  <1>2. Below = Enabled
    BY NoneLeftBelow DEF Alternated
  <1>3. UNCHANGED <<cmd, mask, used, last_port, nb_in_mask, conf>> /\ at' = 0 /\ pc' = "lcores"
    BY DEF Alternated
  <1>4. \/ dst_ports' = dst_ports /\ Paired(Enabled)
        \/ /\ dst_ports' = [dst_ports EXCEPT ![last_port] = last_port]
           /\ last_port \in Enabled /\ Paired(Enabled \ {last_port})
    <2>1. nb_in_mask % 2 \in {0, 1}
      BY <1>1 DEF ConfigType
    <2> QED
      BY <1>1, <1>2, <2>1 DEF Alternated
  <1>5. ConfigType' /\ NoneAssigned'
    BY <1>1, <1>3, <1>4 DEF ConfigType, NoneAssigned
  <1>6. Paired(Enabled)'
    <2>1. Enabled' = Enabled /\ Enabled \subseteq PortIds
      BY <1>1, <1>3 DEF Enabled, ConfigType
    <2>2. CASE dst_ports' = dst_ports /\ Paired(Enabled)
      BY <2>1, <2>2 DEF Paired
    <2>3. CASE /\ dst_ports' = [dst_ports EXCEPT ![last_port] = last_port]
               /\ last_port \in Enabled /\ Paired(Enabled \ {last_port})
      <3>1. dst_ports'[last_port] = last_port
        BY <1>1, <2>3 DEF ConfigType
      <3>2. \A q \in Enabled \ {last_port} : dst_ports'[q] = dst_ports[q]
        BY <1>1, <2>1, <2>3 DEF ConfigType
      <3>3. \A q \in Enabled \ {last_port} :
               dst_ports'[q] \in Enabled \ {last_port} /\ dst_ports'[dst_ports'[q]] = q
        BY <2>3, <3>2 DEF Paired
      <3> QED
        BY <2>1, <3>1, <3>3 DEF Paired
    <2> QED
      BY <1>4, <2>2, <2>3
  <1>7. PolledAre(Below)'
    <2>1. Below' = {}
      BY <1>3, <1>5, NoneBelow DEF Below, Enabled, ConfigType
    <2> QED
      BY <1>5, <2>1 DEF PolledAre, NoneAssigned
  <1> QED
    BY <1>3, <1>5, <1>6, <1>7
    DEF ConfigInv, WhenParsing, WhenChecking, WhenMask, WhenPairing, WhenAlternating, WhenAssigning,
        WhenLaunched, Launched

\* The next port gets a place of its own in the list of a core.
LEMMA ConfigInvAssign ==
    ASSUME ConfigInv, NEW p, NEW c \in LcoreIds, Assign(p, c)
    PROVE  ConfigInv'
  <1>1. ConfigType /\ Paired(Enabled) /\ PolledAre(Below) /\ IsNext(p) /\ pc = "lcores"
    BY DEF ConfigInv, WhenAssigning, Assign
  <1>2. /\ p \in Enabled /\ p \in PortIds /\ p \in Nat
        /\ p \notin Below
        /\ {q \in Enabled : q < p + 1} = Below \cup {p}
    BY <1>1, NextBelow
  <1>3. UNCHANGED <<pc, cmd, mask, used, dst_ports, last_port, nb_in_mask>> /\ at' = p + 1
    BY DEF Assign
  <1>4. conf' = [conf EXCEPT ![c] = Append(conf[c], p)] /\ conf \in [LcoreIds -> Seq(PortIds)]
    BY <1>1 DEF Assign, ConfigType
  <1>5. ConfigType'
    BY <1>1, <1>2, <1>3, <1>4 DEF ConfigType
  <1>6. Below' = Below \cup {p}
    BY <1>2, <1>3 DEF Below, Enabled
  <1>7. \A d \in LcoreIds : d # c => conf'[d] = conf[d]
    BY <1>4
  <1>8. /\ DOMAIN conf'[c] = DOMAIN conf[c] \cup {Len(conf[c]) + 1}
        /\ conf'[c][Len(conf[c]) + 1] = p
        /\ \A i \in DOMAIN conf[c] : conf'[c][i] = conf[c][i] /\ i # Len(conf[c]) + 1
    <2>1. conf'[c] = Append(conf[c], p) /\ conf[c] \in Seq(PortIds)
      BY <1>4
    <2> QED
      BY <1>2, <2>1
  <1>9. \A d \in LcoreIds : \A i \in DOMAIN conf'[d] :
           \/ i \in DOMAIN conf[d] /\ conf'[d][i] = conf[d][i]
           \/ d = c /\ i = Len(conf[c]) + 1 /\ conf'[d][i] = p
    BY <1>7, <1>8
  <1>10. \A d \in LcoreIds : \A i \in DOMAIN conf[d] :
            i \in DOMAIN conf'[d] /\ conf'[d][i] = conf[d][i]
    BY <1>7, <1>8
  <1>11. PolledAre(Below)'
    <2>1. \A d \in LcoreIds : \A i \in DOMAIN conf'[d] : conf'[d][i] \in Below'
      BY <1>1, <1>6, <1>9 DEF PolledAre
    <2>2. \A q \in Below' : \E d \in LcoreIds : \E i \in DOMAIN conf'[d] : conf'[d][i] = q
      BY <1>1, <1>6, <1>8, <1>10 DEF PolledAre
    <2>3. \A d, e \in LcoreIds : \A i \in DOMAIN conf'[d], j \in DOMAIN conf'[e] :
             conf'[d][i] = conf'[e][j] => d = e /\ i = j
      BY <1>1, <1>2, <1>9 DEF PolledAre
    <2> QED
      BY <2>1, <2>2, <2>3 DEF PolledAre
  <1>12. Paired(Enabled)'
    BY <1>1, <1>3 DEF Paired, Enabled
  <1> QED
    BY <1>1, <1>3, <1>5, <1>11, <1>12
    DEF ConfigInv, WhenParsing, WhenChecking, WhenMask, WhenPairing, WhenAlternating, WhenAssigning,
        WhenLaunched, Launched

\* All enabled ports were assigned.
LEMMA ConfigInvLaunch ==
    ASSUME ConfigInv, Launch
    PROVE  ConfigInv'
  <1>1. ConfigType /\ Paired(Enabled) /\ PolledAre(Enabled)
    BY NoneLeftBelow DEF ConfigInv, WhenAssigning, Launch
  <1>2. UNCHANGED <<cmd, at, mask, used, dst_ports, last_port, nb_in_mask, conf>> /\ pc' = "run"
    BY DEF Launch
  <1>3. ConfigType' /\ Paired(Enabled)' /\ PolledAre(Enabled)'
    BY <1>1, <1>2 DEF ConfigType, Paired, PolledAre, Enabled
  <1> QED
    BY <1>2, <1>3
    DEF ConfigInv, WhenParsing, WhenChecking, WhenMask, WhenPairing, WhenAlternating, WhenAssigning,
        WhenLaunched, Launched

LEMMA ConfigInvNext ==
    ASSUME ConfigInv, ConfigNext
    PROVE  ConfigInv'
  <1>1. CASE RefuseArgs \/ RefusePair \/ RefuseMask \/ NoCore \/ InitFails
    BY <1>1, ConfigInvExit DEF RefuseArgs, RefusePair, RefuseMask, NoCore, InitFails
  <1> QED
    BY <1>1, ConfigInvParse, ConfigInvCheckPair, ConfigInvPairsChecked, ConfigInvCheckMask,
       ConfigInvSetPair, ConfigInvPairsSet, ConfigInvAlternate, ConfigInvAlternated,
       ConfigInvAssign, ConfigInvLaunch DEF ConfigNext

---------------------------------------------------------------------------
\* Running leaves the configuration alone: a step of a core, a device or a
\* signal changes no variable of it, but for the end of the program.
LEMMA RunningKeeps ==
    ASSUME ConfigInv,
           \/ UNCHANGED cvars
           \/ /\ pc = "run" /\ pc' \in {"closed", "crashed"}
              /\ UNCHANGED <<cmd, at, mask, used, dst_ports, last_port, nb_in_mask, rx_lcore, conf>>
    PROVE  ConfigInv'
  <1>1. CASE UNCHANGED cvars
    BY <1>1 DEF cvars, ConfigInv, ConfigType, WhenParsing, WhenChecking, WhenMask, WhenPairing,
                WhenAlternating, WhenAssigning, WhenLaunched, Launched, Checked, Apart, PortsOf,
                Paired, Below, PolledAre, NoneAssigned, Fresh, Enabled
  <1>2. CASE /\ pc = "run" /\ pc' \in {"closed", "crashed"}
             /\ UNCHANGED <<cmd, at, mask, used, dst_ports, last_port, nb_in_mask, rx_lcore, conf>>
    <2>1. ConfigType' /\ Paired(Enabled)' /\ PolledAre(Enabled)'
      BY <1>2 DEF ConfigInv, WhenLaunched, Launched, ConfigType, Paired, PolledAre, Enabled
    <2> QED
      BY <1>2, <2>1
      DEF ConfigInv, WhenParsing, WhenChecking, WhenMask, WhenPairing, WhenAlternating, WhenAssigning,
          WhenLaunched, Launched
  <1> QED
    BY <1>1, <1>2

LEMMA ConfigInvStep ==
    ASSUME ConfigInv, [Next]_vars
    PROVE  ConfigInv'
  <1>1. CASE Configure
    BY <1>1, ConfigInvNext DEF Configure
  <1>2. CASE UNCHANGED vars
    BY <1>2, RunningKeeps DEF vars
  <1>3. CASE Signal \/ \E p \in PortIds : Arrive(p) \/ Transmit(p)
    BY <1>3, RunningKeeps DEF Signal, Arrive, Transmit
  <1>4. CASE Close
    BY <1>4, RunningKeeps DEF Close
  <1>5. ASSUME NEW c \in LcoreIds, CoreStep(c) \/ Elapse(c)
        PROVE  ConfigInv'
    <2>1. CASE Leave(c) \/ Turn(c) \/ RxBurst(c) \/ Elapse(c) \/ ForwardBatch(c)
      BY <2>1, RunningKeeps DEF Leave, Turn, RxBurst, Elapse, ForwardBatch
    <2>2. ASSUME NEW verdict \in Verdicts, NEW d \in DstPort, ForwardXdp(c, verdict, d)
          PROVE  ConfigInv'
      BY <2>2, RunningKeeps DEF ForwardXdp
    <2>3. ASSUME NEW verdict \in Verdicts, NEW d \in DstPort, Crash(c, verdict, d)
          PROVE  ConfigInv'
      BY <2>3, RunningKeeps DEF Crash, InHand, Working
    <2> QED
      BY <1>5, <2>1, <2>2, <2>3 DEF CoreStep, Forward
  <1> QED
    BY <1>1, <1>2, <1>3, <1>4, <1>5 DEF Next

\* Once the cores are launched the enabled ports forward to each other in pairs
\* and each is polled by one core, for any ports, cores and command lines.
THEOREM ConfigurationSound == Spec => []ConfigSound
  <1>1. Init => ConfigInv
    BY ConfigInvInit DEF Init
  <1>2. ConfigInv /\ [Next]_vars => ConfigInv'
    BY ConfigInvStep
  <1>3. ConfigInv => ConfigSound
    BY DEF ConfigInv, WhenLaunched, ConfigSound, ForwardsInPairs, PolledOnce, Paired, PolledAre
  <1> QED
    BY <1>1, <1>2, <1>3, PTL DEF Spec


---------------------------------------------------------------------------
(* The forwarding. *)

Counters == [rx: Nat, tx: Nat, dropped: Nat, xdp_drop: Nat, xdp_pass: Nat]
Queues == [PortIds -> Seq(Nat)]

\* A core with a burst in hand is at one of its ports; a transmit queue holds no
\* more than its descriptors.
RunType ==
    /\ core \in [LcoreIds -> [i: Int, pkts: Seq(Nat)]]
    /\ rxq \in Queues /\ txq \in Queues /\ tx_buffer \in Queues /\ sent \in Queues
    /\ stats \in [PortIds -> Counters]
    /\ arrived \in Nat
    /\ freed \in SUBSET Nat /\ unhandled \in SUBSET Nat
    /\ \A p \in PortIds : Len(txq[p]) <= NbTxd
    /\ \A c \in LcoreIds :
          /\ core[c].i >= -1 /\ core[c].i <= Len(conf[c])
          /\ core[c].pkts # <<>> => core[c].i > 0

\* Before the cores are launched nothing has moved.
Idle ==
    /\ rxq = NoPackets /\ txq = NoPackets /\ tx_buffer = NoPackets /\ sent = NoPackets
    /\ \A c \in LcoreIds : core[c].i = 0 /\ core[c].pkts = <<>>
    /\ \A p \in PortIds : stats[p].rx = 0 /\ stats[p].tx = 0 /\ stats[p].dropped = 0
    /\ arrived = 0 /\ freed = {} /\ unhandled = {}

RunInv == ConfigInv /\ RunType /\ (~Launched => Idle)


\* How many of the buffered packets of p go to its transmit queue when the
\* buffers of S are flushed.
Took(S, buf, p) == IF p \in S THEN Accepted(p, buf) ELSE 0

LEMMA AcceptedRange ==
    ASSUME RunType, NEW buf \in Queues, NEW p \in PortIds
    PROVE  /\ Accepted(p, buf) \in Nat /\ Accepted(p, buf) <= Len(buf[p])
           /\ Len(txq[p]) + Accepted(p, buf) <= NbTxd
           /\ buf[p] \in Seq(Nat) /\ txq[p] \in Seq(Nat)
           /\ Len(buf[p]) \in Nat /\ Len(txq[p]) \in Nat
  <1>1. buf[p] \in Seq(Nat) /\ txq[p] \in Seq(Nat) /\ Len(txq[p]) <= NbTxd
    BY DEF RunType, Queues
  <1>2. Len(buf[p]) \in Nat /\ Len(txq[p]) \in Nat /\ NbTxd \in Nat
    BY <1>1, BurstAssumption
  <1>3. \A l, t, n \in Nat : t <= n =>
           LET a == IF l < n - t THEN l ELSE n - t IN a \in Nat /\ a <= l /\ t + a <= n
    OBVIOUS
  <1>4. LET a == Accepted(p, buf)
        IN  a \in Nat /\ a <= Len(buf[p]) /\ Len(txq[p]) + a <= NbTxd
    BY <1>1, <1>2, <1>3 DEF Accepted
  <1> QED
    BY <1>1, <1>2, <1>4

LEMMA FirstOf ==
    ASSUME NEW T, NEW s \in Seq(T), NEW n \in Nat, n <= Len(s)
    PROVE  /\ SubSeq(s, 1, n) \in Seq(T) /\ Len(SubSeq(s, 1, n)) = n
           /\ \A i \in 1..n : SubSeq(s, 1, n)[i] = s[i]
  OBVIOUS

LEMMA RestOf ==
    ASSUME NEW T, NEW s \in Seq(T), NEW n \in Nat, n <= Len(s)
    PROVE  /\ SubSeq(s, n + 1, Len(s)) \in Seq(T) /\ Len(SubSeq(s, n + 1, Len(s))) = Len(s) - n
           /\ \A i \in 1..(Len(s) - n) : SubSeq(s, n + 1, Len(s))[i] = s[n + i]
  OBVIOUS

LEMMA TailOf ==
    ASSUME NEW T, NEW s \in Seq(T), s # <<>>
    PROVE  /\ Tail(s) \in Seq(T) /\ Len(Tail(s)) = Len(s) - 1 /\ Len(s) \in Nat \ {0}
           /\ Head(s) = s[1] /\ Head(s) \in T
           /\ \A i \in 1..(Len(s) - 1) : Tail(s)[i] = s[i + 1]
           /\ Tail(s) # <<>> => Len(s) # 1
  <1>1. Len(s) \in Nat \ {0} /\ Head(s) = s[1] /\ 1 \in 1..Len(s) /\ s[1] \in T
    OBVIOUS
  <1>2. Tail(s) \in Seq(T) /\ Len(Tail(s)) = Len(s) - 1
    OBVIOUS
  <1>3. \A i \in 1..(Len(s) - 1) : Tail(s)[i] = s[i + 1]
    OBVIOUS
  <1>4. Tail(s) # <<>> => Len(s) # 1
    <2>1. \A t \in Seq(T) : Len(t) = 0 => t = <<>>
      OBVIOUS
    <2> QED
      BY <1>2, <2>1
  <1> QED
    BY <1>1, <1>2, <1>3, <1>4

\* A flush, port by port.
FlushedAt(S, buf, p) ==
    LET a == Took(S, buf, p)
    IN  /\ a \in Nat /\ a <= Len(buf[p]) /\ buf[p] \in Seq(Nat)
        /\ txq'[p] = txq[p] \o SubSeq(buf[p], 1, a) /\ txq'[p] \in Seq(Nat)
        /\ Len(txq'[p]) <= NbTxd
        /\ tx_buffer'[p] = IF p \in S THEN <<>> ELSE buf[p]
        /\ tx_buffer'[p] \in Seq(Nat)
        /\ stats'[p] \in Counters
        /\ stats'[p].rx = stats[p].rx
        /\ stats'[p].tx = stats[p].tx + a
        /\ stats'[p].dropped = stats[p].dropped + (IF p \in S THEN Len(buf[p]) - a ELSE 0)

LEMMA FlushFacts ==
    ASSUME RunType, NEW S \in SUBSET PortIds, NEW buf \in Queues, Flush(S, buf), CountFlush(S, buf),
           NEW p \in PortIds
    PROVE  FlushedAt(S, buf, p)
  <1> DEFINE a == Took(S, buf, p)
             b == buf[p]
             q == txq[p]
             s == stats[p]
  <1>1. /\ Accepted(p, buf) \in Nat /\ Accepted(p, buf) <= Len(b)
        /\ Len(q) + Accepted(p, buf) <= NbTxd
        /\ b \in Seq(Nat) /\ q \in Seq(Nat) /\ Len(b) \in Nat /\ Len(q) \in Nat
    BY AcceptedRange
  <1>2. Len(q) <= NbTxd /\ s \in Counters
    BY DEF RunType
  <1>3. /\ p \in S => a = Accepted(p, buf)
        /\ p \notin S => a = 0
    BY DEF Took
  <1>4. /\ p \in S => txq'[p] = q \o SubSeq(b, 1, a)
        /\ p \notin S => txq'[p] = q
        /\ tx_buffer'[p] = IF p \in S THEN <<>> ELSE b
    BY <1>3 DEF Flush
  <1>5. /\ p \in S => stats'[p] = [s EXCEPT !.tx = @ + a, !.dropped = @ + Len(b) - a]
        /\ p \notin S => stats'[p] = s
    BY <1>3 DEF CountFlush
  <1> HIDE DEF a, b, q, s, FlushedAt
  <1>6. a \in Nat /\ a <= Len(b) /\ Len(q) + a <= NbTxd
    BY <1>1, <1>2, <1>3
  <1>7. SubSeq(b, 1, a) \in Seq(Nat) /\ Len(SubSeq(b, 1, a)) = a
    BY <1>1, <1>6, FirstOf
  <1>8. txq'[p] = q \o SubSeq(b, 1, a)
    <2>1. CASE p \notin S
      <3>1. a = 0
        BY <1>3, <2>1
      <3>2. SubSeq(b, 1, 0) = <<>>
        BY <1>1
      <3>3. q \o <<>> = q
        BY <1>1
      <3> QED
        BY <1>4, <2>1, <3>1, <3>2, <3>3
    <2> QED
      BY <1>4, <2>1
  <1>9. q \o SubSeq(b, 1, a) \in Seq(Nat) /\ Len(q \o SubSeq(b, 1, a)) = Len(q) + a
    BY <1>1, <1>7
  <1>10. tx_buffer'[p] \in Seq(Nat)
    BY <1>1, <1>4
  <1>11. s.rx \in Nat /\ s.tx \in Nat /\ s.dropped \in Nat
         /\ s = [rx |-> s.rx, tx |-> s.tx, dropped |-> s.dropped, xdp_drop |-> s.xdp_drop, xdp_pass |-> s.xdp_pass]
         /\ s.xdp_drop \in Nat /\ s.xdp_pass \in Nat
    BY <1>2 DEF Counters
  <1>12. CASE p \in S
    <2>1. stats'[p] = [rx |-> s.rx, tx |-> s.tx + a, dropped |-> s.dropped + Len(b) - a,
                       xdp_drop |-> s.xdp_drop, xdp_pass |-> s.xdp_pass]
      BY <1>5, <1>11, <1>12
    <2>2. s.dropped + Len(b) - a = s.dropped + (Len(b) - a) /\ s.dropped + (Len(b) - a) \in Nat
          /\ s.tx + a \in Nat
      BY <1>1, <1>6, <1>11
    <2>3. stats'[p] \in Counters
      BY <1>11, <2>1, <2>2 DEF Counters
    <2> QED
      BY <1>1, <1>4, <1>6, <1>8, <1>9, <1>10, <1>12, <2>1, <2>2, <2>3 DEF a, b, q, s, FlushedAt
  <1>13. CASE p \notin S
    <2>1. stats'[p] = s /\ s.tx + 0 = s.tx /\ s.dropped + 0 = s.dropped /\ a = 0
      BY <1>3, <1>5, <1>11, <1>13
    <2> QED
      BY <1>1, <1>2, <1>4, <1>6, <1>8, <1>9, <1>10, <1>13, <2>1 DEF a, b, q, s, FlushedAt
  <1> QED
    BY <1>12, <1>13

\* Nothing is flushed: the buffers are what they are given to be.
LEMMA NoFlush ==
    ASSUME RunType, NEW buf \in Queues, tx_buffer' = buf, UNCHANGED <<txq, freed, stats>>
    PROVE  Flush({}, buf) /\ CountFlush({}, buf)
  <1>1. txq = [p \in PortIds |-> txq[p]] /\ buf = [p \in PortIds |-> buf[p]]
        /\ stats = [p \in PortIds |-> stats[p]]
    BY DEF RunType, Queues
  <1>2. UNION {ToSet(SubSeq(buf[p], Accepted(p, buf) + 1, Len(buf[p]))) : p \in {}} = {}
    OBVIOUS
  <1> QED
    BY <1>1, <1>2 DEF Flush, CountFlush

\* rte_eth_tx_buffer, with and without a flush.
LEMMA TxBufferFlushes ==
    ASSUME RunType, NEW d \in PortIds, NEW m \in Nat, TxBuffer(d, m)
    PROVE  \E S \in SUBSET PortIds, buf \in Queues :
              /\ buf[d] = Append(tx_buffer[d], m)
              /\ \A p \in PortIds : p # d => buf[p] = tx_buffer[p]
              /\ S \subseteq {d}
              /\ Flush(S, buf) /\ CountFlush(S, buf)
  <1> DEFINE buf == [tx_buffer EXCEPT ![d] = Append(@, m)]
  <1>1. /\ buf \in Queues /\ buf[d] = Append(tx_buffer[d], m)
        /\ \A p \in PortIds : p # d => buf[p] = tx_buffer[p]
    BY DEF RunType, Queues
  <1>2. \/ tx_buffer' = buf /\ UNCHANGED <<txq, freed, stats>>
        \/ Flush({d}, buf) /\ CountFlush({d}, buf)
    BY DEF TxBuffer
  <1> HIDE DEF buf
  <1>3. CASE tx_buffer' = buf /\ UNCHANGED <<txq, freed, stats>>
    <2>1. Flush({}, buf) /\ CountFlush({}, buf)
      BY <1>1, <1>3, NoFlush
    <2> QED
      BY <1>1, <2>1
  <1>4. CASE Flush({d}, buf) /\ CountFlush({d}, buf)
    BY <1>1, <1>4
  <1> QED
    BY <1>2, <1>3, <1>4

\* The drain at the beginning of a turn.
LEMMA TurnFlushes ==
    ASSUME ConfigInv, RunType, NEW c \in LcoreIds, Turn(c)
    PROVE  \E S \in SUBSET PortIds : Flush(S, tx_buffer) /\ CountFlush(S, tx_buffer)
  <1>1. CASE UNCHANGED <<due, txq, tx_buffer, freed, stats>>
    <2>1. tx_buffer \in Queues
      BY DEF RunType
    <2>2. Flush({}, tx_buffer) /\ CountFlush({}, tx_buffer)
      BY <1>1, <2>1, NoFlush
    <2> QED
      BY <2>2
  <1>2. CASE Flush(Drained(c), tx_buffer) /\ CountFlush(Drained(c), tx_buffer)
    <2>1. Drained(c) \subseteq PortIds
      BY DEF Drained, ConfigInv, ConfigType
    <2> QED
      BY <1>2, <2>1
  <1> QED
    BY <1>1, <1>2 DEF Turn


CoreRec == [i: Int, pkts: Seq(Nat)]

\* A core at a port.
LEMMA CoreFacts ==
    ASSUME ConfigInv, RunType, NEW c \in LcoreIds
    PROVE  /\ core[c] \in CoreRec /\ core[c].i \in Int /\ core[c].pkts \in Seq(Nat)
           /\ conf[c] \in Seq(PortIds) /\ Len(conf[c]) \in Nat
           /\ (Launched /\ core[c].i > 0) =>
                 /\ core[c].i \in DOMAIN conf[c] /\ core[c].i \in 1..Len(conf[c])
                 /\ Port(c) \in Enabled /\ Port(c) \in PortIds
                 /\ dst_ports[Port(c)] \in Enabled /\ dst_ports[Port(c)] \in PortIds
                 /\ AfterPort(c) \in 0..Len(conf[c])
  <1>1. core[c] \in CoreRec /\ core[c].i \in Int /\ core[c].pkts \in Seq(Nat)
        /\ core[c].i <= Len(conf[c])
    BY DEF RunType, CoreRec
  <1>2. conf[c] \in Seq(PortIds) /\ Len(conf[c]) \in Nat
    BY DEF ConfigInv, ConfigType
  <1>3. ASSUME Launched, core[c].i > 0
        PROVE  /\ core[c].i \in DOMAIN conf[c] /\ core[c].i \in 1..Len(conf[c])
               /\ Port(c) \in Enabled /\ Port(c) \in PortIds
               /\ dst_ports[Port(c)] \in Enabled /\ dst_ports[Port(c)] \in PortIds
               /\ AfterPort(c) \in 0..Len(conf[c])
    <2>1. core[c].i \in 1..Len(conf[c]) /\ DOMAIN conf[c] = 1..Len(conf[c])
      BY <1>1, <1>2, <1>3
    <2>2. Paired(Enabled) /\ PolledAre(Enabled)
      BY <1>3 DEF ConfigInv, WhenLaunched
    <2>3. Port(c) \in Enabled
      BY <2>1, <2>2 DEF PolledAre, Port
    <2>4. dst_ports[Port(c)] \in Enabled
      BY <2>2, <2>3 DEF Paired
    <2>5. Enabled \subseteq PortIds
      BY DEF ConfigInv, ConfigType, Enabled
    <2>6. AfterPort(c) \in 0..Len(conf[c])
      BY <1>2, <2>1 DEF AfterPort
    <2> QED
      BY <2>1, <2>3, <2>4, <2>5, <2>6
  <1> QED
    BY <1>1, <1>2, <1>3

\* Core c goes on to index n with the packets k in hand; the others do nothing.
CoreGoes(c, n, k) ==
    /\ core'[c].i = n /\ core'[c].pkts = k
    /\ \A e \in LcoreIds : e # c => core'[e] = core[e]
    /\ core' \in [LcoreIds -> CoreRec]

\* It does so to an index of its list, and not with packets in hand.
Goes(c, n, k) ==
    /\ CoreGoes(c, n, k)
    /\ n >= -1 /\ n <= Len(conf[c])
    /\ k # <<>> => n = core[c].i /\ n > 0

LEMMA CoreUpdate ==
    ASSUME RunType, NEW c \in LcoreIds, NEW n \in Int, NEW k \in Seq(Nat),
           core' = [core EXCEPT ![c] = [i |-> n, pkts |-> k]]
    PROVE  CoreGoes(c, n, k)
  BY DEF RunType, CoreGoes, CoreRec

\* Only the index is set.
LEMMA IndexUpdate ==
    ASSUME RunType, NEW c \in LcoreIds, NEW n \in Int, core[c].pkts = <<>>,
           core' = [core EXCEPT ![c].i = n]
    PROVE  CoreGoes(c, n, <<>>)
  <1>1. core[c] = [i |-> core[c].i, pkts |-> <<>>]
    BY DEF RunType
  <1>2. [core[c] EXCEPT !.i = n] = [i |-> n, pkts |-> <<>>]
    BY <1>1
  <1>3. core' = [core EXCEPT ![c] = [i |-> n, pkts |-> <<>>]]
    BY <1>2
  <1>4. <<>> \in Seq(Nat)
    OBVIOUS
  <1> QED
    BY <1>3, <1>4, CoreUpdate

LEMMA LeaveGoes ==
    ASSUME ConfigInv, RunType, NEW c \in LcoreIds, Leave(c)
    PROVE  Goes(c, -1, <<>>)
  <1>1. core[c].pkts = <<>> /\ Len(conf[c]) \in Nat
    <2>1. core[c].i = 0 /\ Len(conf[c]) \in Nat
      BY CoreFacts DEF Leave
    <2> QED
      BY <2>1 DEF RunType
  <1>2. core' = [core EXCEPT ![c].i = -1] /\ -1 \in Int
    BY DEF Leave, Gone
  <1>3. CoreGoes(c, -1, <<>>)
    BY <1>1, <1>2, IndexUpdate
  <1> QED
    BY <1>1, <1>3 DEF Goes

LEMMA TurnGoes ==
    ASSUME ConfigInv, RunType, NEW c \in LcoreIds, Turn(c)
    PROVE  Goes(c, 1, <<>>)
  <1>1. core[c].pkts = <<>> /\ conf[c] \in Seq(PortIds) /\ conf[c] # <<>>
    <2>1. core[c].i = 0 /\ conf[c] \in Seq(PortIds) /\ conf[c] # <<>>
      BY CoreFacts DEF Turn, Working
    <2> QED
      BY <2>1 DEF RunType
  <1>2. core' = [core EXCEPT ![c].i = 1] /\ 1 \in Int
    BY DEF Turn
  <1>3. CoreGoes(c, 1, <<>>)
    BY <1>1, <1>2, IndexUpdate
  <1>4. 1 <= Len(conf[c])
    BY <1>1
  <1> QED
    BY <1>3, <1>4 DEF Goes

\* A burst of n packets is taken from the receive queue q of the port.
LEMMA RxBurstGoes ==
    ASSUME ConfigInv, RunType, NEW c \in LcoreIds, RxBurst(c)
    PROVE  \E n \in Nat, j \in Int :
              LET q == rxq[Port(c)] IN
              /\ Launched /\ core[c].i > 0 /\ core[c].pkts = <<>>
              /\ n <= Len(q) /\ q \in Seq(Nat)
              /\ Goes(c, j, SubSeq(q, 1, n))
              /\ rxq' = [rxq EXCEPT ![Port(c)] = SubSeq(q, n + 1, Len(q))]
              /\ stats' = [stats EXCEPT ![Port(c)].rx = @ + n]
  <1> DEFINE q == rxq[Port(c)]
             n == IF Len(q) < MAX_PKT_BURST THEN Len(q) ELSE MAX_PKT_BURST
             j == IF n = 0 THEN AfterPort(c) ELSE core[c].i
             k == SubSeq(q, 1, n)
  <1>1. Launched /\ core[c].i > 0 /\ core[c].pkts = <<>>
    BY DEF RxBurst, Working, Launched
  <1>2. /\ Port(c) \in PortIds /\ core[c].i \in 1..Len(conf[c]) /\ AfterPort(c) \in 0..Len(conf[c])
        /\ Len(conf[c]) \in Nat
    BY <1>1, CoreFacts
  <1>3. q \in Seq(Nat) /\ Len(q) \in Nat
    BY <1>2 DEF RunType, Queues
  <1>4. /\ core' = [core EXCEPT ![c] = [i |-> j, pkts |-> k]]
        /\ rxq' = [rxq EXCEPT ![Port(c)] = SubSeq(q, n + 1, Len(q))]
        /\ stats' = [stats EXCEPT ![Port(c)].rx = @ + n]
    BY <1>2 DEF RxBurst, RunType, Queues
  <1>5. n \in Nat /\ n <= Len(q) /\ j \in Int /\ j >= -1 /\ j <= Len(conf[c])
    <2>1. n \in Nat /\ n <= Len(q)
      BY <1>3, BurstAssumption
    <2> QED
      BY <1>2, <2>1
  <1> HIDE DEF q
  <1>6. k \in Seq(Nat) /\ Len(k) = n
    BY <1>3, <1>5, FirstOf
  <1>7. k # <<>> => j = core[c].i /\ j > 0
    BY <1>1, <1>6
  <1> HIDE DEF n, k, j
  <1>8. CoreGoes(c, j, k)
    BY <1>4, <1>5, <1>6, CoreUpdate
  <1>9. Goes(c, j, k)
    BY <1>5, <1>7, <1>8 DEF Goes
  <1> QED
    BY <1>1, <1>3, <1>4, <1>5, <1>9 DEF q, k

\* The packet in hand is dealt with.
LEMMA DoneGoes ==
    ASSUME ConfigInv, RunType, NEW c \in LcoreIds, InHand(c), Done(c)
    PROVE  \E j \in Int :
              /\ Launched /\ core[c].i > 0 /\ core[c].pkts # <<>>
              /\ Head(core[c].pkts) \in Nat
              /\ Goes(c, j, Tail(core[c].pkts))
  <1> DEFINE k == core[c].pkts
             j == IF Len(k) = 1 THEN AfterPort(c) ELSE core[c].i
  <1>1. Launched /\ k # <<>>
    BY DEF InHand, Working, Launched
  <1>2. core[c].i > 0
    BY <1>1 DEF RunType
  <1>3. /\ core[c].i \in 1..Len(conf[c]) /\ AfterPort(c) \in 0..Len(conf[c])
        /\ Len(conf[c]) \in Nat /\ k \in Seq(Nat)
    BY <1>1, <1>2, CoreFacts
  <1>4. core' = [core EXCEPT ![c] = [i |-> j, pkts |-> Tail(k)]]
    BY DEF Done, RunType
  <1>5. j \in Int /\ j >= -1 /\ j <= Len(conf[c])
    BY <1>3
  <1>6. (Len(k) # 1 => j = core[c].i)
    OBVIOUS
  <1> HIDE DEF k, j
  <1>7. Tail(k) \in Seq(Nat) /\ Head(k) \in Nat /\ (Tail(k) # <<>> => Len(k) # 1)
    BY <1>1, <1>3, TailOf
  <1>8. CoreGoes(c, j, Tail(k))
    BY <1>4, <1>5, <1>7, CoreUpdate
  <1>9. Goes(c, j, Tail(k))
    BY <1>2, <1>5, <1>6, <1>7, <1>8 DEF Goes
  <1> QED
    BY <1>1, <1>2, <1>5, <1>7, <1>9 DEF k


---------------------------------------------------------------------------
\* The types are kept, what a core does first.
LEMMA GoesType ==
    ASSUME RunType, NEW c \in LcoreIds, NEW n, NEW k, Goes(c, n, k), UNCHANGED conf
    PROVE  /\ core' \in [LcoreIds -> CoreRec]
           /\ \A e \in LcoreIds :
                 /\ core'[e].i >= -1 /\ core'[e].i <= Len(conf'[e])
                 /\ core'[e].pkts # <<>> => core'[e].i > 0
  <1>1. core' \in [LcoreIds -> CoreRec]
    BY DEF Goes, CoreGoes
  <1>2. ASSUME NEW e \in LcoreIds
        PROVE  /\ core'[e].i >= -1 /\ core'[e].i <= Len(conf'[e])
               /\ core'[e].pkts # <<>> => core'[e].i > 0
    <2>1. CASE e = c
      BY <2>1 DEF Goes, CoreGoes
    <2>2. CASE e # c
      BY <1>2, <2>2 DEF Goes, CoreGoes, RunType
    <2> QED
      BY <2>1, <2>2
  <1> QED
    BY <1>1, <1>2

\* What a flush sets.
FlushedType ==
    /\ txq \in Queues /\ tx_buffer \in Queues /\ stats \in [PortIds -> Counters]
    /\ freed \in SUBSET Nat
    /\ \A p \in PortIds : Len(txq[p]) <= NbTxd

LEMMA FlushType ==
    ASSUME RunType, NEW S \in SUBSET PortIds, NEW buf \in Queues, Flush(S, buf), CountFlush(S, buf)
    PROVE  FlushedType'
  <1>1. ASSUME NEW p \in PortIds
        PROVE  /\ txq'[p] \in Seq(Nat) /\ Len(txq'[p]) <= NbTxd
               /\ tx_buffer'[p] \in Seq(Nat) /\ stats'[p] \in Counters
    BY <1>1, FlushFacts DEF FlushedAt
  <1>2. txq' \in Queues /\ tx_buffer' \in Queues /\ stats' \in [PortIds -> Counters]
    <2>1. txq' \in Queues
      BY <1>1 DEF Flush, Queues
    <2>2. tx_buffer' \in Queues
      BY <1>1 DEF Flush, Queues
    <2>3. stats' \in [PortIds -> Counters]
      BY <1>1 DEF CountFlush
    <2> QED
      BY <2>1, <2>2, <2>3
  <1>3. ASSUME NEW p \in S
        PROVE  ToSet(SubSeq(buf[p], Accepted(p, buf) + 1, Len(buf[p]))) \subseteq Nat
    <2>1. Accepted(p, buf) \in Nat /\ Accepted(p, buf) <= Len(buf[p]) /\ buf[p] \in Seq(Nat)
      BY <1>3, AcceptedRange
    <2>2. SubSeq(buf[p], Accepted(p, buf) + 1, Len(buf[p])) \in Seq(Nat)
      BY <2>1, RestOf
    <2> QED
      BY <2>2 DEF ToSet
  <1>4. freed' \in SUBSET Nat
    <2>1. freed \in SUBSET Nat
      BY DEF RunType
    <2> QED
      BY <1>3, <2>1 DEF Flush
  <1> QED
    BY <1>1, <1>2, <1>4 DEF FlushedType

\* A step of a core with its packets k, and the buffers after it.
CoreStepType(c, n, k) ==
    /\ Goes(c, n, k)
    /\ FlushedType'
    /\ rxq' \in Queues
    /\ unhandled' \in SUBSET Nat
    /\ UNCHANGED <<cvars, sent, arrived>>

LEMMA CoreStepRunType ==
    ASSUME RunType, NEW c \in LcoreIds, NEW n, NEW k, CoreStepType(c, n, k)
    PROVE  RunType'
  <1>1. Goes(c, n, k) /\ UNCHANGED conf
    BY DEF CoreStepType, cvars
  <1>2. /\ core' \in [LcoreIds -> CoreRec]
        /\ \A e \in LcoreIds :
              /\ core'[e].i >= -1 /\ core'[e].i <= Len(conf'[e])
              /\ core'[e].pkts # <<>> => core'[e].i > 0
    BY <1>1, GoesType
  <1>3. sent' = sent /\ arrived' = arrived /\ sent \in Queues /\ arrived \in Nat
    BY DEF CoreStepType, RunType
  <1> QED
    BY <1>2, <1>3 DEF RunType, CoreRec, CoreStepType, FlushedType


\* A step of a core happens while the cores run, before the program ends.
LEMMA FlushedTypeKept ==
    ASSUME RunType, UNCHANGED <<txq, tx_buffer, stats, freed>>
    PROVE  FlushedType'
  BY DEF RunType, FlushedType

LEMMA LeaveRunType ==
    ASSUME ConfigInv, RunType, NEW c \in LcoreIds, Leave(c)
    PROVE  RunType'
  <1>1. Goes(c, -1, <<>>)
    BY LeaveGoes
  <1>2. FlushedType'
    BY FlushedTypeKept DEF Leave
  <1>3. CoreStepType(c, -1, <<>>)
    BY <1>1, <1>2 DEF Leave, CoreStepType, RunType
  <1> QED
    BY <1>3, CoreStepRunType

LEMMA TurnRunType ==
    ASSUME ConfigInv, RunType, NEW c \in LcoreIds, Turn(c)
    PROVE  RunType'
  <1>1. Goes(c, 1, <<>>)
    BY TurnGoes
  <1>2. PICK S \in SUBSET PortIds : Flush(S, tx_buffer) /\ CountFlush(S, tx_buffer)
    BY TurnFlushes
  <1>3. tx_buffer \in Queues
    BY DEF RunType
  <1>4. FlushedType'
    BY <1>2, <1>3, FlushType
  <1>5. CoreStepType(c, 1, <<>>)
    BY <1>1, <1>4 DEF Turn, CoreStepType, RunType
  <1> QED
    BY <1>5, CoreStepRunType

\* A counter of port p is set.
LEMMA CounterType ==
    ASSUME NEW p \in PortIds, stats \in [PortIds -> Counters],
           \/ \E n \in Nat : stats' = [stats EXCEPT ![p].rx = @ + n]
           \/ stats' = [stats EXCEPT ![p].xdp_drop = @ + 1]
           \/ stats' = [stats EXCEPT ![p].xdp_pass = @ + 1]
    PROVE  /\ stats' \in [PortIds -> Counters]
           /\ \A q \in PortIds : stats'[q].tx = stats[q].tx /\ stats'[q].dropped = stats[q].dropped
  <1> DEFINE s == stats[p]
  <1>1. s \in Counters
    OBVIOUS
  <1>2. PICK t : stats' = [stats EXCEPT ![p] = t]
                 /\ \/ \E n \in Nat : t = [s EXCEPT !.rx = @ + n]
                    \/ t = [s EXCEPT !.xdp_drop = @ + 1]
                    \/ t = [s EXCEPT !.xdp_pass = @ + 1]
    OBVIOUS
  <1> HIDE DEF s
  <1>3. /\ s = [rx |-> s.rx, tx |-> s.tx, dropped |-> s.dropped, xdp_drop |-> s.xdp_drop, xdp_pass |-> s.xdp_pass]
        /\ s.rx \in Nat /\ s.tx \in Nat /\ s.dropped \in Nat /\ s.xdp_drop \in Nat /\ s.xdp_pass \in Nat
    BY <1>1 DEF Counters
  <1>4. t \in Counters /\ t.tx = s.tx /\ t.dropped = s.dropped
    <2>1. CASE \E n \in Nat : t = [s EXCEPT !.rx = @ + n]
      <3>1. PICK n \in Nat : t = [s EXCEPT !.rx = @ + n]
        BY <2>1
      <3>2. t = [rx |-> s.rx + n, tx |-> s.tx, dropped |-> s.dropped, xdp_drop |-> s.xdp_drop, xdp_pass |-> s.xdp_pass]
        BY <1>3, <3>1
      <3> QED
        BY <1>3, <3>2 DEF Counters
    <2>2. CASE t = [s EXCEPT !.xdp_drop = @ + 1]
      <3>1. t = [rx |-> s.rx, tx |-> s.tx, dropped |-> s.dropped, xdp_drop |-> s.xdp_drop + 1, xdp_pass |-> s.xdp_pass]
        BY <1>3, <2>2
      <3> QED
        BY <1>3, <3>1 DEF Counters
    <2>3. CASE t = [s EXCEPT !.xdp_pass = @ + 1]
      <3>1. t = [rx |-> s.rx, tx |-> s.tx, dropped |-> s.dropped, xdp_drop |-> s.xdp_drop, xdp_pass |-> s.xdp_pass + 1]
        BY <1>3, <2>3
      <3> QED
        BY <1>3, <3>1 DEF Counters
    <2> QED
      BY <1>2, <2>1, <2>2, <2>3
  <1> QED
    BY <1>2, <1>4 DEF s

\* The receive counter, and the others.
LEMMA RxCounter ==
    ASSUME NEW p \in PortIds, stats \in [PortIds -> Counters], NEW n \in Nat,
           stats' = [stats EXCEPT ![p].rx = @ + n]
    PROVE  /\ stats'[p].rx = stats[p].rx + n
           /\ \A q \in PortIds : q # p => stats'[q] = stats[q]
  <1>1. stats[p] \in Counters /\ stats'[p] = [stats[p] EXCEPT !.rx = @ + n]
    OBVIOUS
  <1>2. [stats[p] EXCEPT !.rx = @ + n].rx = stats[p].rx + n
    BY <1>1 DEF Counters
  <1> QED
    BY <1>1, <1>2

LEMMA RxBurstRunType ==
    ASSUME ConfigInv, RunType, NEW c \in LcoreIds, RxBurst(c)
    PROVE  RunType'
  <1> DEFINE q == rxq[Port(c)]
  <1>1. PICK n \in Nat, j \in Int :
              /\ Launched /\ core[c].i > 0 /\ core[c].pkts = <<>>
              /\ n <= Len(q) /\ q \in Seq(Nat)
              /\ Goes(c, j, SubSeq(q, 1, n))
              /\ rxq' = [rxq EXCEPT ![Port(c)] = SubSeq(q, n + 1, Len(q))]
              /\ stats' = [stats EXCEPT ![Port(c)].rx = @ + n]
    BY RxBurstGoes
  <1>2. Port(c) \in PortIds
    BY <1>1, CoreFacts
  <1> HIDE DEF q
  <1>3. SubSeq(q, n + 1, Len(q)) \in Seq(Nat)
    BY <1>1, RestOf
  <1>4. rxq' \in Queues
    BY <1>1, <1>2, <1>3 DEF RunType, Queues
  <1>5. stats \in [PortIds -> Counters]
    BY DEF RunType
  <1>6. stats' \in [PortIds -> Counters]
    BY <1>1, <1>2, <1>5, CounterType
  <1>7. FlushedType'
    BY <1>6 DEF RxBurst, RunType, FlushedType
  <1>8. CoreStepType(c, j, SubSeq(q, 1, n))
    BY <1>1, <1>4, <1>7 DEF RxBurst, RunType, CoreStepType
  <1> QED
    BY <1>8, CoreStepRunType

\* The head of the burst of core c goes to the buffer of port d, and the buffers
\* of S are flushed when they hold buf.
Sends(c, d, S, buf) ==
    /\ S \in SUBSET {d} /\ buf \in Queues
    /\ buf[d] = Append(tx_buffer[d], Head(core[c].pkts))
    /\ \A p \in PortIds : p # d => buf[p] = tx_buffer[p]
    /\ Flush(S, buf) /\ CountFlush(S, buf)

LEMMA SendsType ==
    ASSUME ConfigInv, RunType, NEW c \in LcoreIds, NEW d \in PortIds,
           InHand(c), Done(c), TxBuffer(d, Head(core[c].pkts)),
           UNCHANGED <<cvars, rxq, arrived, sent, unhandled>>
    PROVE  RunType' /\ \E S, buf : Sends(c, d, S, buf)
  <1> DEFINE m == Head(core[c].pkts)
  <1>1. PICK j \in Int : m \in Nat /\ Goes(c, j, Tail(core[c].pkts))
    BY DoneGoes
  <1>2. PICK S \in SUBSET PortIds, buf \in Queues :
              /\ buf[d] = Append(tx_buffer[d], m)
              /\ \A p \in PortIds : p # d => buf[p] = tx_buffer[p]
              /\ S \subseteq {d}
              /\ Flush(S, buf) /\ CountFlush(S, buf)
    BY <1>1, TxBufferFlushes
  <1>3. FlushedType'
    BY <1>2, FlushType
  <1>4. CoreStepType(c, j, Tail(core[c].pkts))
    BY <1>1, <1>3 DEF RunType, CoreStepType
  <1>5. RunType'
    BY <1>4, CoreStepRunType
  <1>6. Sends(c, d, S, buf)
    BY <1>2 DEF Sends
  <1> QED
    BY <1>5, <1>6


\* The program did not send the head of the burst of core c.
Leaves(c) ==
    /\ unhandled' = unhandled \cup {Head(core[c].pkts)}
    /\ UNCHANGED <<txq, tx_buffer, freed>>

\* What becomes of the packet at the head of a burst.
Forwards(c) ==
    /\ InHand(c) /\ Done(c)
    /\ UNCHANGED <<cvars, rxq, arrived, sent>>
    /\ \/ /\ unhandled' = unhandled
          /\ \E d \in Enabled : \E S, buf :
                Sends(c, d, S, buf) /\ (cmd.batch => d = dst_ports[Port(c)])
       \/ Leaves(c) /\ ~cmd.batch

LEMMA ForwardBatchForwards ==
    ASSUME ConfigInv, RunType, NEW c \in LcoreIds, ForwardBatch(c)
    PROVE  RunType' /\ Forwards(c)
  <1> DEFINE d == dst_ports[Port(c)]
  <1>1. Launched /\ core[c].i > 0
    BY DoneGoes DEF ForwardBatch
  <1>2. d \in Enabled /\ d \in PortIds
    BY <1>1, CoreFacts
  <1> HIDE DEF d
  <1>3. InHand(c) /\ Done(c) /\ TxBuffer(d, Head(core[c].pkts))
        /\ UNCHANGED <<cvars, rxq, arrived, sent, unhandled>>
    BY DEF ForwardBatch, d
  <1>4. RunType' /\ \E S, buf : Sends(c, d, S, buf)
    BY <1>2, <1>3, SendsType
  <1> QED
    BY <1>2, <1>3, <1>4 DEF Forwards, d

LEMMA ForwardXdpForwards ==
    ASSUME ConfigInv, RunType, NEW c \in LcoreIds, NEW verdict, NEW d, ForwardXdp(c, verdict, d)
    PROVE  RunType' /\ Forwards(c)
  <1>1. InHand(c) /\ Done(c) /\ ~cmd.batch /\ UNCHANGED <<cvars, rxq, arrived, sent>>
    BY DEF ForwardXdp
  <1>2. CASE Send(c, d)
    <2>1. d \in Enabled /\ d \in PortIds
      BY <1>2 DEF Send, Enabled, ConfigInv, ConfigType
    <2>2. TxBuffer(d, Head(core[c].pkts)) /\ unhandled' = unhandled
      BY <1>2 DEF Send
    <2>3. RunType' /\ \E S, buf : Sends(c, d, S, buf)
      BY <1>1, <2>1, <2>2, SendsType
    <2> QED
      BY <1>1, <2>1, <2>2, <2>3 DEF Forwards
  <1>3. CASE /\ \/ UNCHANGED stats
                \/ d \in PortIds /\ stats' = [stats EXCEPT ![d].xdp_drop = @ + 1]
                \/ d \in PortIds /\ stats' = [stats EXCEPT ![d].xdp_pass = @ + 1]
             /\ Unhandle(c)
    <2>1. Leaves(c)
      BY <1>3 DEF Unhandle, Leaves
    <2>2. stats \in [PortIds -> Counters]
      BY DEF RunType
    <2>3. stats' \in [PortIds -> Counters]
      BY <1>3, <2>2, CounterType
    <2>4. FlushedType'
      BY <2>1, <2>3 DEF Leaves, RunType, FlushedType
    <2>5. PICK j \in Int : Head(core[c].pkts) \in Nat /\ Goes(c, j, Tail(core[c].pkts))
      BY <1>1, DoneGoes
    <2>6. CoreStepType(c, j, Tail(core[c].pkts))
      BY <1>1, <2>1, <2>4, <2>5 DEF RunType, Leaves, CoreStepType
    <2>7. RunType'
      BY <2>6, CoreStepRunType
    <2> QED
      BY <1>1, <2>1, <2>7 DEF Forwards
  <1> QED
    BY <1>2, <1>3 DEF ForwardXdp

LEMMA ArriveRunType ==
    ASSUME ConfigInv, RunType, NEW p \in PortIds, Arrive(p)
    PROVE  RunType'
  <1>1. arrived + 1 \in Nat /\ rxq[p] \in Seq(Nat) /\ arrived' \in Nat
    BY DEF RunType, Queues, Arrive
  <1>2. Append(rxq[p], arrived + 1) \in Seq(Nat)
    BY <1>1
  <1>3. rxq' \in Queues
    BY <1>2 DEF Arrive, RunType, Queues
  <1> QED
    BY <1>1, <1>3 DEF Arrive, RunType, cvars

\* The device takes the first packet of its queue.
LEMMA TransmitMoves ==
    ASSUME RunType, NEW p \in PortIds, Transmit(p)
    PROVE  /\ txq[p] \in Seq(Nat) /\ txq[p] # <<>> /\ sent[p] \in Seq(Nat)
           /\ txq'[p] = Tail(txq[p]) /\ sent'[p] = Append(sent[p], Head(txq[p]))
           /\ \A q \in PortIds : q # p => txq'[q] = txq[q] /\ sent'[q] = sent[q]
  BY DEF RunType, Queues, Transmit

LEMMA TransmitRunType ==
    ASSUME ConfigInv, RunType, NEW p \in PortIds, Transmit(p)
    PROVE  RunType'
  <1>1. /\ txq[p] \in Seq(Nat) /\ txq[p] # <<>> /\ sent[p] \in Seq(Nat)
        /\ txq'[p] = Tail(txq[p]) /\ sent'[p] = Append(sent[p], Head(txq[p]))
        /\ \A q \in PortIds : q # p => txq'[q] = txq[q] /\ sent'[q] = sent[q]
    BY TransmitMoves
  <1>2. Tail(txq[p]) \in Seq(Nat) /\ Head(txq[p]) \in Nat /\ Len(Tail(txq[p])) = Len(txq[p]) - 1
        /\ Len(txq[p]) \in Nat
    BY <1>1, TailOf
  <1>3. Append(sent[p], Head(txq[p])) \in Seq(Nat)
    BY <1>1, <1>2
  <1>4. sent' \in Queues /\ txq' \in Queues
    BY <1>2, <1>3 DEF Transmit, RunType, Queues
  <1>5. ASSUME NEW q \in PortIds PROVE Len(txq'[q]) <= NbTxd
    <2>1. Len(txq[q]) <= NbTxd /\ Len(txq[p]) <= NbTxd /\ NbTxd \in Nat
      BY <1>5, BurstAssumption DEF RunType
    <2>2. \A l, n \in Nat : l <= n => l - 1 <= n
      OBVIOUS
    <2> QED
      BY <1>1, <1>2, <1>5, <2>1, <2>2
  <1> QED
    BY <1>4, <1>5 DEF Transmit, RunType, cvars

LEMMA RunInvInit ==
    ASSUME Init
    PROVE  RunInv
  <1>1. ConfigInv
    BY ConfigInvInit DEF Init
  <1>2. NoPackets \in Queues
    BY DEF NoPackets, Queues
  <1>3. ZeroStats \in Counters /\ ZeroStats.rx = 0 /\ ZeroStats.tx = 0 /\ ZeroStats.dropped = 0
    BY DEF ZeroStats, Counters
  <1>4. Idle
    BY <1>3 DEF Init, Idle
  <1>5. \A p \in PortIds : Len(txq[p]) <= NbTxd
    <2>1. \A p \in PortIds : txq[p] = <<>>
      BY DEF Init, NoPackets
    <2>2. Len(<<>>) = 0 /\ NbTxd \in Nat
      BY BurstAssumption
    <2> QED
      BY <2>1, <2>2
  <1>6. \A c \in LcoreIds : core[c].i = 0 /\ core[c].pkts = <<>> /\ Len(conf[c]) \in Nat
    BY <1>1 DEF Init, ConfigInv, ConfigType
  <1>7. core \in [LcoreIds -> [i: Int, pkts: Seq(Nat)]]
    <2>1. [i |-> 0, pkts |-> <<>>] \in [i: Int, pkts: Seq(Nat)]
      OBVIOUS
    <2> QED
      BY <2>1 DEF Init
  <1>8. stats \in [PortIds -> Counters] /\ arrived = 0 /\ freed = {} /\ unhandled = {}
    BY <1>3 DEF Init
  <1>9. RunType
    BY <1>2, <1>5, <1>6, <1>7, <1>8 DEF Init, RunType
  <1> QED
    BY <1>1, <1>4, <1>9 DEF RunInv


\* main() is done with the configuration when the cores run.
LEMMA ConfigNextBefore ==
    ASSUME ConfigNext
    PROVE  ~Launched
  BY DEF ConfigNext, Parse, RefuseArgs, CheckPair, RefusePair, PairsChecked, CheckMask, RefuseMask,
         SetPair, PairsSet, Alternate, Alternated, Assign, NoCore, Launch, InitFails, Launched

LEMMA ConfigureKeeps ==
    ASSUME RunInv, Configure
    PROVE  RunType' /\ Idle'
  <1>1. ~Launched
    BY ConfigNextBefore DEF Configure
  <1>2. Idle /\ RunType /\ ConfigInv
    BY <1>1 DEF RunInv
  <1>3. Idle'
    BY <1>2 DEF Idle, Configure, NoPackets
  <1>4. ConfigInv'
    BY <1>2, ConfigInvNext DEF Configure
  <1>5. ASSUME NEW c \in LcoreIds
        PROVE  core'[c].i >= -1 /\ core'[c].i <= Len(conf'[c])
    <2>1. core'[c].i = 0
      BY <1>2, <1>5 DEF Idle, Configure
    <2>2. Len(conf'[c]) \in Nat
      BY <1>4, <1>5 DEF ConfigInv, ConfigType
    <2> QED
      BY <2>1, <2>2
  <1>6. UNCHANGED <<core, rxq, txq, tx_buffer, stats, arrived, sent, freed, unhandled>>
    BY DEF Configure
  <1>7. RunType'
    BY <1>2, <1>5, <1>6 DEF RunType
  <1> QED
    BY <1>3, <1>7

\* Nothing moves.
Still == UNCHANGED <<core, rxq, txq, tx_buffer, stats, arrived, sent, freed, unhandled>>

LEMMA StillKeeps ==
    ASSUME RunType, Still, UNCHANGED conf
    PROVE  RunType'
  BY DEF RunType, Still

\* The steps of the program, by what they do.
LEMMA StepKinds ==
    ASSUME RunInv, [Next]_vars
    PROVE  \/ Configure
           \/ UNCHANGED cvars /\ Still
           \/ /\ pc = "run" /\ pc' \in {"closed", "crashed"} /\ Still
              /\ UNCHANGED <<cmd, at, mask, used, dst_ports, last_port, nb_in_mask, rx_lcore, conf>>
           \/ \E p \in PortIds : Arrive(p) \/ Transmit(p)
           \/ \E c \in LcoreIds : Leave(c) \/ Turn(c) \/ RxBurst(c) \/ (Forwards(c) /\ RunType')
  <1>1. ConfigInv /\ RunType
    BY DEF RunInv
  <1>2. CASE UNCHANGED vars \/ Signal
    BY <1>2 DEF vars, Signal, Still
  <1>3. CASE Close
    BY <1>3 DEF Close, Still
  <1>4. ASSUME NEW c \in LcoreIds, Elapse(c)
        PROVE  UNCHANGED cvars /\ Still
    BY <1>4 DEF Elapse, Still
  <1>5. ASSUME NEW c \in LcoreIds, Forward(c)
        PROVE  \/ Forwards(c) /\ RunType'
               \/ /\ pc = "run" /\ pc' \in {"closed", "crashed"} /\ Still
                  /\ UNCHANGED <<cmd, at, mask, used, dst_ports, last_port, nb_in_mask, rx_lcore, conf>>
    <2>1. CASE ForwardBatch(c)
      BY <1>1, <1>5, <2>1, ForwardBatchForwards
    <2>2. ASSUME NEW verdict \in Verdicts, NEW d \in DstPort, ForwardXdp(c, verdict, d)
          PROVE  Forwards(c) /\ RunType'
      BY <1>1, <1>5, <2>2, ForwardXdpForwards
    <2>3. ASSUME NEW verdict \in Verdicts, NEW d \in DstPort, Crash(c, verdict, d)
          PROVE  /\ pc = "run" /\ pc' \in {"closed", "crashed"} /\ Still
                 /\ UNCHANGED <<cmd, at, mask, used, dst_ports, last_port, nb_in_mask, rx_lcore, conf>>
      BY <2>3 DEF Crash, InHand, Working, Still
    <2> QED
      BY <1>5, <2>1, <2>2, <2>3 DEF Forward
  <1> QED
    BY <1>2, <1>3, <1>4, <1>5 DEF Next, CoreStep

LEMMA RunInvStep ==
    ASSUME RunInv, [Next]_vars
    PROVE  RunInv'
  <1>1. ConfigInv /\ RunType
    BY DEF RunInv
  <1>2. ConfigInv'
    BY <1>1, ConfigInvStep
  <1>3. CASE Configure
    BY <1>2, <1>3, ConfigureKeeps DEF RunInv
  <1>4. CASE UNCHANGED cvars /\ Still
    <2>1. RunType'
      BY <1>1, <1>4, StillKeeps DEF cvars
    <2>2. ~Launched' => Idle'
      BY <1>4 DEF RunInv, Idle, Still, Launched, cvars
    <2> QED
      BY <1>2, <2>1, <2>2 DEF RunInv
  <1>5. CASE /\ pc = "run" /\ pc' \in {"closed", "crashed"} /\ Still
             /\ UNCHANGED <<cmd, at, mask, used, dst_ports, last_port, nb_in_mask, rx_lcore, conf>>
    <2>1. RunType'
      BY <1>1, <1>5, StillKeeps
    <2>2. Launched'
      BY <1>5 DEF Launched
    <2> QED
      BY <1>2, <2>1, <2>2 DEF RunInv
  <1>6. ASSUME NEW p \in PortIds, Arrive(p) \/ Transmit(p)
        PROVE  RunInv'
    <2>1. RunType'
      BY <1>1, <1>6, ArriveRunType, TransmitRunType
    <2>2. Launched'
      BY <1>6 DEF Arrive, Transmit, Launched, cvars
    <2> QED
      BY <1>2, <2>1, <2>2 DEF RunInv
  <1>7. ASSUME NEW c \in LcoreIds, Leave(c) \/ Turn(c) \/ RxBurst(c) \/ (Forwards(c) /\ RunType')
        PROVE  RunInv'
    <2>1. RunType'
      BY <1>1, <1>7, LeaveRunType, TurnRunType, RxBurstRunType
    <2>2. Launched'
      BY <1>7 DEF Leave, Turn, RxBurst, Forwards, InHand, Working, Launched, cvars
    <2> QED
      BY <1>2, <2>1, <2>2 DEF RunInv
  <1> QED
    BY <1>3, <1>4, <1>5, <1>6, <1>7, StepKinds


---------------------------------------------------------------------------
\* The packets in hand of port p are those of the core that polls it, while the
\* core is at the place of p in its list.
BurstRule(p) ==
    \A c \in LcoreIds : \A k \in DOMAIN conf[c] :
        conf[c][k] = p => Burst(p) = IF core[c].i = k THEN core[c].pkts ELSE <<>>

LEMMA BurstOf ==
    RunInv /\ Launched => \A p \in Enabled : BurstRule(p)
  <1> SUFFICES ASSUME RunInv, Launched, NEW p \in Enabled, NEW c \in LcoreIds, NEW k \in DOMAIN conf[c],
                      conf[c][k] = p
               PROVE  Burst(p) = IF core[c].i = k THEN core[c].pkts ELSE <<>>
    BY DEF BurstRule
  <1>1. ConfigInv /\ RunType /\ PolledAre(Enabled)
    BY DEF RunInv, ConfigInv, WhenLaunched
  <1>2. conf[c] \in Seq(PortIds) /\ core[c].i \in Int /\ core[c].i <= Len(conf[c])
    BY <1>1 DEF ConfigInv, ConfigType, RunType
  <1>3. \A e \in LcoreIds : p \in ToSet(conf[e]) => e = c
    BY <1>1 DEF PolledAre, ToSet
  <1>4. p \in ToSet(conf[c])
    BY DEF ToSet
  <1>5. Poller(p) = c
    BY <1>3, <1>4 DEF Poller
  <1>6. core[c].i > 0 /\ Port(c) = p <=> core[c].i = k
    <2>1. core[c].i > 0 => core[c].i \in DOMAIN conf[c]
      BY <1>2
    <2>2. k > 0
      BY <1>2
    <2>3. \A j \in DOMAIN conf[c] : conf[c][j] = p => j = k
      BY <1>1 DEF PolledAre
    <2> QED
      BY <2>1, <2>2, <2>3 DEF Port
  <1> QED
    BY <1>5, <1>6 DEF Burst

LEMMA BurstOfNext ==
    (RunInv /\ Launched)' => \A p \in Enabled' : BurstRule(p)'
  <1>1. (RunInv /\ Launched => \A p \in Enabled : BurstRule(p))'
    BY BurstOf, PTL
  <1> QED
    BY <1>1

\* A step of core c sees to the packets in hand of the port it is at only.
LEMMA BurstGoes ==
    ASSUME RunInv, RunInv', Launched, UNCHANGED cvars,
           NEW c \in LcoreIds, NEW n, NEW k, Goes(c, n, k), NEW p \in Enabled
    PROVE  /\ (core[c].i > 0 /\ p = Port(c)) => Burst(p) = core[c].pkts /\ Burst(p)' = k
           /\ ~(core[c].i > 0 /\ p = Port(c)) => Burst(p)' = Burst(p)
  <1>1. ConfigInv /\ RunType /\ PolledAre(Enabled)
    BY DEF RunInv, ConfigInv, WhenLaunched
  <1>2. PICK e \in LcoreIds : \E j \in DOMAIN conf[e] : conf[e][j] = p
    BY <1>1 DEF PolledAre
  <1>p. PICK j \in DOMAIN conf[e] : conf[e][j] = p
    BY <1>2
  <1>3. Burst(p) = IF core[e].i = j THEN core[e].pkts ELSE <<>>
    BY <1>2, <1>p, BurstOf DEF BurstRule
  <1>4. Burst(p)' = IF core'[e].i = j THEN core'[e].pkts ELSE <<>>
    <2>1. Launched' /\ Enabled' = Enabled /\ conf' = conf
      BY DEF Launched, Enabled, cvars
    <2>2. BurstRule(p)'
      BY <2>1, BurstOfNext
    <2> QED
      BY <1>2, <1>p, <2>1, <2>2 DEF BurstRule
  <1>5. core[c].i \in Int /\ (core[c].i > 0 => core[c].i \in DOMAIN conf[c] /\ Port(c) = conf[c][core[c].i])
    BY <1>1, CoreFacts DEF Port
  <1>6. CASE e # c
    <2>1. core'[e] = core[e]
      BY <1>6 DEF Goes, CoreGoes
    <2>2. ~(core[c].i > 0 /\ p = Port(c))
      BY <1>1, <1>2, <1>p, <1>5, <1>6 DEF PolledAre
    <2> QED
      BY <1>3, <1>4, <2>1, <2>2
  <1>7. CASE e = c
    <2>1. core'[c].i = n /\ core'[c].pkts = k /\ (k # <<>> => n = core[c].i)
      BY DEF Goes, CoreGoes
    <2>2. j > 0
      <3>1. conf[e] \in Seq(PortIds)
        BY <1>1 DEF ConfigInv, ConfigType
      <3> QED
        BY <1>2, <1>p, <3>1
    <2>3. core[c].i > 0 /\ p = Port(c) <=> core[c].i = j
      BY <1>1, <1>2, <1>p, <1>5, <1>7, <2>2 DEF PolledAre
    <2>4. CASE core[c].i = j
      <3>1. Burst(p) = core[c].pkts
        BY <1>3, <1>7, <2>4
      <3>2. Burst(p)' = k
        BY <1>4, <1>7, <2>1, <2>4
      <3> QED
        BY <2>3, <2>4, <3>1, <3>2
    <2>5. CASE core[c].i # j
      <3>1. Burst(p) = <<>>
        BY <1>3, <1>7, <2>5
      <3>2. Burst(p)' = <<>>
        BY <1>4, <1>7, <2>1, <2>5
      <3> QED
        BY <2>3, <2>5, <3>1, <3>2
    <2> QED
      BY <2>4, <2>5
  <1> QED
    BY <1>6, <1>7

LEMMA BurstStill ==
    ASSUME NEW p, UNCHANGED <<core, conf>>
    PROVE  Burst(p)' = Burst(p)
  BY DEF Burst, Poller, Port

\* No packet is in hand when the cores begin.
LEMMA BurstBegins ==
    ASSUME RunInv', Idle', Launched', NEW p \in Enabled'
    PROVE  Burst(p)' = <<>>
  <1>1. (ConfigInv /\ RunType)' /\ PolledAre(Enabled)'
    BY DEF RunInv, ConfigInv, WhenLaunched
  <1>2. PICK e \in LcoreIds : \E j \in DOMAIN conf'[e] : conf'[e][j] = p
    BY <1>1 DEF PolledAre
  <1>p. PICK j \in DOMAIN conf'[e] : conf'[e][j] = p
    BY <1>2
  <1>3. BurstRule(p)'
    BY BurstOfNext
  <1>4. core'[e].pkts = <<>>
    BY <1>2, <1>p DEF Idle
  <1> QED
    BY <1>2, <1>p, <1>3, <1>4 DEF BurstRule

LEMMA BurstType ==
    RunInv /\ Launched => \A p \in Enabled : Burst(p) \in Seq(Nat)
  <1> SUFFICES ASSUME RunInv, Launched, NEW p \in Enabled
               PROVE  Burst(p) \in Seq(Nat)
    OBVIOUS
  <1>1. RunType /\ PolledAre(Enabled)
    BY DEF RunInv, ConfigInv, WhenLaunched
  <1>2. PICK e \in LcoreIds : \E j \in DOMAIN conf[e] : conf[e][j] = p
    BY <1>1 DEF PolledAre
  <1>p. PICK j \in DOMAIN conf[e] : conf[e][j] = p
    BY <1>2
  <1>3. Burst(p) = IF core[e].i = j THEN core[e].pkts ELSE <<>>
    BY <1>2, <1>p, BurstOf DEF BurstRule
  <1>4. core[e].pkts \in Seq(Nat) /\ <<>> \in Seq(Nat)
    BY <1>1, <1>2, <1>p DEF RunType
  <1> QED
    BY <1>3, <1>4


---------------------------------------------------------------------------
(* What a port received, and what its partner did with it. *)

\* What went into the transmit buffer of port d.
Given(d) == stats[d].tx + stats[d].dropped + Len(tx_buffer[d])

PairAt(p, d) == stats[p].rx = Given(d) + Len(Burst(p))
PairInv == Launched /\ cmd.batch => \A p \in Enabled : PairAt(p, dst_ports[p])

\* A flush moves packets from the buffer to one of the counters.
LEMMA GivenFlush ==
    ASSUME RunType, NEW S \in SUBSET PortIds, NEW buf \in Queues, Flush(S, buf), CountFlush(S, buf),
           NEW p \in PortIds
    PROVE  /\ Given(p)' = stats[p].tx + stats[p].dropped + Len(buf[p])
           /\ stats'[p].rx = stats[p].rx
  <1> DEFINE a == Took(S, buf, p)
  <1> HIDE DEF a
  <1>1. /\ a \in Nat /\ a <= Len(buf[p]) /\ buf[p] \in Seq(Nat)
        /\ tx_buffer'[p] = IF p \in S THEN <<>> ELSE buf[p]
        /\ stats'[p].rx = stats[p].rx
        /\ stats'[p].tx = stats[p].tx + a
        /\ stats'[p].dropped = stats[p].dropped + (IF p \in S THEN Len(buf[p]) - a ELSE 0)
    <2>1. FlushedAt(S, buf, p)
      BY FlushFacts
    <2> QED
      BY <2>1 DEF a, FlushedAt
  <1>2. stats[p].tx \in Nat /\ stats[p].dropped \in Nat /\ Len(buf[p]) \in Nat /\ Len(<<>>) = 0
    BY <1>1 DEF RunType, Counters
  <1>3. p \notin S => a = 0
    BY DEF Took, a
  <1>4. \A x, y, l, b \in Nat : /\ (x + b) + (y + (l - b)) + 0 = x + y + l
                                /\ (x + 0) + (y + 0) + l = x + y + l
    OBVIOUS
  <1>5. Given(p)' = stats'[p].tx + stats'[p].dropped + Len(tx_buffer'[p])
    BY DEF Given
  <1>6. CASE p \in S
    <2>1. /\ Len(tx_buffer'[p]) = 0 /\ stats'[p].tx = stats[p].tx + a
          /\ stats'[p].dropped = stats[p].dropped + (Len(buf[p]) - a) /\ a \in Nat
      BY <1>1, <1>2, <1>6
    <2> QED
      BY ONLY <1>1, <1>2, <1>4, <1>5, <2>1, SMTT(30)
  <1>7. CASE p \notin S
    <2>1. /\ tx_buffer'[p] = buf[p] /\ stats'[p].tx = stats[p].tx + 0
          /\ stats'[p].dropped = stats[p].dropped + 0
      BY <1>1, <1>3, <1>7
    <2> QED
      BY ONLY <1>1, <1>2, <1>4, <1>5, <2>1
  <1> QED
    BY <1>6, <1>7

LEMMA GivenSends ==
    ASSUME RunType, NEW c \in LcoreIds, NEW d \in PortIds, NEW S, NEW buf, Sends(c, d, S, buf),
           Head(core[c].pkts) \in Nat, NEW p \in PortIds
    PROVE  /\ p = d => Given(p)' = Given(p) + 1
           /\ p # d => Given(p)' = Given(p)
           /\ stats'[p].rx = stats[p].rx
           /\ Given(p) \in Nat
  <1>1. S \in SUBSET PortIds /\ buf \in Queues /\ Flush(S, buf) /\ CountFlush(S, buf)
    BY DEF Sends
  <1>2. /\ Given(p)' = stats[p].tx + stats[p].dropped + Len(buf[p])
        /\ stats'[p].rx = stats[p].rx
    BY <1>1, GivenFlush
  <1>3. stats[p].tx \in Nat /\ stats[p].dropped \in Nat /\ tx_buffer[p] \in Seq(Nat)
        /\ Len(tx_buffer[p]) \in Nat
    <2>1. stats[p] \in Counters /\ tx_buffer[p] \in Seq(Nat)
      BY DEF RunType, Queues
    <2> QED
      BY <2>1 DEF Counters
  <1>4. p = d => Len(buf[p]) = Len(tx_buffer[p]) + 1
    BY <1>3 DEF Sends
  <1>5. p # d => Len(buf[p]) = Len(tx_buffer[p])
    BY DEF Sends
  <1> QED
    <2>1. Given(p) = stats[p].tx + stats[p].dropped + Len(tx_buffer[p])
      BY DEF Given
    <2>2. \A x, y, l \in Nat : x + y + (l + 1) = (x + y + l) + 1 /\ x + y + l \in Nat
      OBVIOUS
    <2>3. ASSUME p = d PROVE Given(p)' = Given(p) + 1
      <3>1. Given(p)' = stats[p].tx + stats[p].dropped + (Len(tx_buffer[p]) + 1)
        BY <1>2, <1>4, <2>3
      <3>2. PICK x \in Nat : x = stats[p].tx
        BY <1>3
      <3>3. PICK y \in Nat : y = stats[p].dropped
        BY <1>3
      <3>4. PICK l \in Nat : l = Len(tx_buffer[p])
        BY <1>3
      <3>5. Given(p)' = x + y + (l + 1) /\ Given(p) = x + y + l
        BY <2>1, <3>1, <3>2, <3>3, <3>4
      <3> QED
        BY ONLY <3>5, x \in Nat, y \in Nat, l \in Nat
    <2> QED
      BY <1>2, <1>3, <1>5, <2>1, <2>2, <2>3

\* The tx and dropped counters and the buffers alone.
LEMMA GivenKept ==
    ASSUME NEW p \in PortIds, tx_buffer'[p] = tx_buffer[p],
           stats'[p].tx = stats[p].tx, stats'[p].dropped = stats[p].dropped
    PROVE  Given(p)' = Given(p)
  BY DEF Given

\* What a step has to show of port p, with partner d.
LEMMA PairKept ==
    ASSUME NEW p, NEW d, PairAt(p, d),
           stats[p].rx \in Nat, Given(d) \in Nat, Len(Burst(p)) \in Nat,
           Len(Burst(p)') \in Nat, NEW x \in Nat, NEW y \in Nat,
           stats'[p].rx = stats[p].rx + x, Given(d)' = Given(d) + y,
           Len(Burst(p)') + y = Len(Burst(p)) + x
    PROVE  PairAt(p, d)'
  <1>1. \A r, g, b, c, u, v \in Nat : r = g + b /\ c + v = b + u => r + u = g + v + c
    OBVIOUS
  <1>2. stats[p].rx = Given(d) + Len(Burst(p))
    BY DEF PairAt
  <1>3. stats'[p].rx = Given(d)' + Len(Burst(p)')
    BY ONLY <1>1, <1>2, stats[p].rx \in Nat, Given(d) \in Nat, Len(Burst(p)) \in Nat,
           Len(Burst(p)') \in Nat, x \in Nat, y \in Nat,
           stats'[p].rx = stats[p].rx + x, Given(d)' = Given(d) + y,
           Len(Burst(p)') + y = Len(Burst(p)) + x
  <1> QED
    BY <1>3 DEF PairAt


LEMMA PairTypes ==
    ASSUME RunInv, Launched, NEW p \in Enabled
    PROVE  /\ p \in PortIds /\ dst_ports[p] \in PortIds /\ dst_ports[p] \in Enabled
           /\ stats[p].rx \in Nat /\ Given(dst_ports[p]) \in Nat /\ Len(Burst(p)) \in Nat
  <1>1. ConfigInv /\ RunType /\ Paired(Enabled) /\ Enabled \subseteq PortIds
    BY DEF RunInv, ConfigInv, WhenLaunched, ConfigType, Enabled
  <1>2. PICK d \in PortIds : d = dst_ports[p] /\ d \in Enabled
    BY <1>1 DEF Paired
  <1>3. p \in PortIds /\ stats[p] \in Counters /\ stats[d] \in Counters /\ tx_buffer[d] \in Seq(Nat)
    BY <1>1 DEF RunType, Queues
  <1>4. Given(d) \in Nat
    <2>1. stats[d].tx \in Nat /\ stats[d].dropped \in Nat /\ Len(tx_buffer[d]) \in Nat
      BY <1>3 DEF Counters
    <2> QED
      BY <2>1 DEF Given
  <1>5. Burst(p) \in Seq(Nat)
    BY BurstType
  <1> QED
    BY <1>2, <1>3, <1>4, <1>5 DEF Counters

LEMMA BurstTypeNext ==
    (RunInv /\ Launched)' => \A p \in Enabled' : Len(Burst(p)') \in Nat
  <1>1. (RunInv /\ Launched => \A p \in Enabled : Burst(p) \in Seq(Nat))'
    BY BurstType, PTL
  <1>2. (RunInv /\ Launched)' => \A p \in Enabled' : Burst(p)' \in Seq(Nat)
    BY <1>1
  <1> QED
    BY <1>2

LEMMA SameConfig ==
    ASSUME \/ UNCHANGED cvars
           \/ /\ pc = "run" /\ pc' \in {"closed", "crashed"}
              /\ UNCHANGED <<cmd, at, mask, used, dst_ports, last_port, nb_in_mask, rx_lcore, conf>>
    PROVE  /\ Launched' <=> Launched
           /\ Enabled' = Enabled /\ dst_ports' = dst_ports /\ cmd' = cmd /\ conf' = conf
  BY DEF cvars, Launched, Enabled

\* Each port by itself.
LEMMA PairInvFrom ==
    ASSUME PairInv, UNCHANGED cvars,
           ASSUME Launched, cmd.batch, NEW p \in Enabled, NEW d, d = dst_ports[p], PairAt(p, d)
           PROVE  PairAt(p, d)'
    PROVE  PairInv'
  <1>1. /\ Launched' <=> Launched
        /\ Enabled' = Enabled /\ dst_ports' = dst_ports /\ cmd' = cmd
    BY SameConfig
  <1> SUFFICES ASSUME Launched', cmd'.batch, NEW p \in Enabled', NEW d, d = dst_ports'[p]
               PROVE  PairAt(p, d)'
    BY DEF PairInv, PairAt, Given
  <1>2. Launched /\ cmd.batch /\ p \in Enabled /\ d = dst_ports[p] /\ PairAt(p, d)
    BY <1>1 DEF PairInv
  <1> QED
    BY <1>2

LEMMA PairInvRxBurst ==
    ASSUME RunInv, RunInv', PairInv, NEW c \in LcoreIds, RxBurst(c)
    PROVE  PairInv'
  <1>1. UNCHANGED <<cvars, tx_buffer>> /\ ConfigInv /\ RunType
    BY DEF RxBurst, RunInv
  <1> DEFINE r == Port(c)
             q == rxq[r]
  <1>2. PICK n \in Nat, j \in Int :
              /\ Launched /\ core[c].i > 0 /\ core[c].pkts = <<>>
              /\ n <= Len(q) /\ q \in Seq(Nat)
              /\ Goes(c, j, SubSeq(q, 1, n))
              /\ stats' = [stats EXCEPT ![r].rx = @ + n]
    BY <1>1, RxBurstGoes
  <1>3. r \in PortIds /\ stats \in [PortIds -> Counters]
    BY <1>1, <1>2, CoreFacts DEF RunType
  <1>4. /\ stats'[r].rx = stats[r].rx + n
        /\ \A p \in PortIds : p # r => stats'[p] = stats[p]
    BY <1>2, <1>3, RxCounter
  <1>5. \A p \in PortIds : stats'[p].tx = stats[p].tx /\ stats'[p].dropped = stats[p].dropped
    BY <1>2, <1>3, CounterType
  <1>6. Len(SubSeq(q, 1, n)) = n
    BY <1>2, FirstOf
  <1> HIDE DEF q
  <1>7. ASSUME Launched, cmd.batch, NEW p \in Enabled, NEW d, d = dst_ports[p], PairAt(p, d)
        PROVE  PairAt(p, d)'
    <2>1. /\ p \in PortIds /\ d \in PortIds
          /\ stats[p].rx \in Nat /\ Given(d) \in Nat /\ Len(Burst(p)) \in Nat
      BY <1>7, PairTypes
    <2>2. Given(d)' = Given(d) + 0
      <3>1. Given(d)' = Given(d)
        BY <1>1, <1>5, <2>1, GivenKept
      <3> QED
        BY <2>1, <3>1
    <2>3. Len(Burst(p)') \in Nat
      BY <1>1, <1>7, BurstTypeNext, SameConfig
    <2>4. CASE p = r
      <3>1. Burst(p) = <<>> /\ Burst(p)' = SubSeq(q, 1, n)
        BY <1>1, <1>2, <1>7, <2>4, BurstGoes
      <3>2. Len(Burst(p)') + 0 = Len(Burst(p)) + n
        BY <1>6, <3>1
      <3>3. stats'[p].rx = stats[p].rx + n
        BY <1>4, <2>4
      <3> QED
        BY <1>7, <2>1, <2>2, <2>3, <3>2, <3>3, PairKept
    <2>5. CASE p # r
      <3>1. Burst(p)' = Burst(p)
        BY <1>1, <1>2, <1>7, <2>5, BurstGoes
      <3>2. Len(Burst(p)') + 0 = Len(Burst(p)) + 0
        BY <3>1
      <3>3. stats'[p].rx = stats[p].rx + 0
        BY <1>4, <2>1, <2>5
      <3> QED
        BY <1>7, <2>1, <2>2, <2>3, <3>2, <3>3, PairKept
    <2> QED
      BY <2>4, <2>5
  <1> QED
    BY <1>1, <1>7, PairInvFrom

LEMMA PairInvForward ==
    ASSUME RunInv, RunInv', PairInv, NEW c \in LcoreIds, Forwards(c)
    PROVE  PairInv'
  <1>1. UNCHANGED cvars /\ ConfigInv /\ RunType /\ InHand(c) /\ Done(c)
    BY DEF Forwards, RunInv
  <1> DEFINE k == core[c].pkts
             r == Port(c)
  <1>2. PICK j \in Int : /\ Launched /\ core[c].i > 0 /\ k # <<>>
                         /\ Head(k) \in Nat /\ Goes(c, j, Tail(k))
    BY <1>1, DoneGoes
  <1>3. k \in Seq(Nat) /\ r \in PortIds /\ r \in Enabled /\ dst_ports[r] \in PortIds
    BY <1>1, <1>2, CoreFacts
  <1>4. Len(Tail(k)) + 1 = Len(k) + 0
    <2>1. Len(Tail(k)) = Len(k) - 1 /\ Len(k) \in Nat \ {0}
      BY <1>2, <1>3, TailOf
    <2> QED
      BY ONLY <2>1
  <1>5. ASSUME Launched, cmd.batch, NEW p \in Enabled, NEW d, d = dst_ports[p], PairAt(p, d)
        PROVE  PairAt(p, d)'
    <2>1. /\ p \in PortIds /\ d \in PortIds
          /\ stats[p].rx \in Nat /\ Given(d) \in Nat /\ Len(Burst(p)) \in Nat
      BY <1>5, PairTypes
    <2>2. Len(Burst(p)') \in Nat
      BY <1>1, <1>5, BurstTypeNext, SameConfig
    <2>3. PICK e, S, buf : e \in PortIds /\ e = dst_ports[r] /\ Sends(c, e, S, buf)
      BY <1>3, <1>5 DEF Forwards
    <2>4. stats'[p].rx = stats[p].rx
      BY <1>1, <1>2, <2>1, <2>3, GivenSends
    <2>5. /\ d = e => Given(d)' = Given(d) + 1
          /\ d # e => Given(d)' = Given(d)
      BY <1>1, <1>2, <2>1, <2>3, GivenSends
    <2>6. stats'[p].rx = stats[p].rx + 0
      BY <2>1, <2>4
    <2>7. CASE p = r
      <3>1. Burst(p) = k /\ Burst(p)' = Tail(k)
        BY <1>1, <1>2, <1>5, <2>7, BurstGoes
      <3>2. Given(d)' = Given(d) + 1
        BY <1>5, <2>3, <2>5, <2>7
      <3>3. Len(Burst(p)') + 1 = Len(Burst(p)) + 0
        BY <1>4, <3>1
      <3> QED
        BY <1>5, <2>1, <2>2, <2>6, <3>2, <3>3, PairKept
    <2>8. CASE p # r
      <3>1. Burst(p)' = Burst(p)
        BY <1>1, <1>2, <1>5, <2>8, BurstGoes
      <3>2. Paired(Enabled)
        BY <1>5 DEF RunInv, ConfigInv, WhenLaunched
      <3>3. d # e
        BY <1>3, <1>5, <2>3, <2>8, <3>2 DEF Paired
      <3>4. Given(d)' = Given(d) + 0
        BY <2>1, <2>5, <3>3
      <3>5. Len(Burst(p)') + 0 = Len(Burst(p)) + 0
        BY <3>1
      <3> QED
        BY <1>5, <2>1, <2>2, <2>6, <3>4, <3>5, PairKept
    <2> QED
      BY <2>7, <2>8
  <1> QED
    BY <1>1, <1>5, PairInvFrom


LEMMA PairInvTurn ==
    ASSUME RunInv, RunInv', PairInv, NEW c \in LcoreIds, Turn(c)
    PROVE  PairInv'
  <1>1. UNCHANGED cvars /\ ConfigInv /\ RunType /\ tx_buffer \in Queues /\ core[c].i = 0
    BY DEF Turn, RunInv, RunType
  <1>2. Goes(c, 1, <<>>)
    BY <1>1, TurnGoes
  <1>3. PICK S \in SUBSET PortIds : Flush(S, tx_buffer) /\ CountFlush(S, tx_buffer)
    BY <1>1, TurnFlushes
  <1>4. ASSUME Launched, cmd.batch, NEW p \in Enabled, NEW d, d = dst_ports[p], PairAt(p, d)
        PROVE  PairAt(p, d)'
    <2>1. p \in PortIds /\ d \in PortIds
      BY <1>4, PairTypes
    <2>2. stats'[p].rx = stats[p].rx
      BY <1>1, <1>3, <2>1, GivenFlush
    <2>3. Given(d)' = stats[d].tx + stats[d].dropped + Len(tx_buffer[d])
      BY <1>1, <1>3, <2>1, GivenFlush
    <2>4. ~(core[c].i > 0)
      BY <1>1
    <2>5. Burst(p)' = Burst(p)
      BY <1>1, <1>2, <1>4, <2>4, BurstGoes
    <2> QED
      BY <1>4, <2>2, <2>3, <2>5 DEF PairAt, Given
  <1> QED
    BY <1>1, <1>4, PairInvFrom

LEMMA PairInvLeave ==
    ASSUME RunInv, RunInv', PairInv, NEW c \in LcoreIds, Leave(c)
    PROVE  PairInv'
  <1>1. UNCHANGED <<cvars, stats, tx_buffer>> /\ ConfigInv /\ RunType /\ core[c].i = 0
    BY DEF Leave, RunInv
  <1>2. Goes(c, -1, <<>>)
    BY <1>1, LeaveGoes
  <1>3. ASSUME Launched, cmd.batch, NEW p \in Enabled, NEW d, d = dst_ports[p], PairAt(p, d)
        PROVE  PairAt(p, d)'
    <2>1. ~(core[c].i > 0)
      BY <1>1
    <2>2. Burst(p)' = Burst(p)
      BY <1>1, <1>2, <1>3, <2>1, BurstGoes
    <2> QED
      BY <1>1, <1>3, <2>2 DEF PairAt, Given
  <1> QED
    BY <1>1, <1>3, PairInvFrom

LEMMA PairInvStep ==
    ASSUME RunInv, PairInv, [Next]_vars
    PROVE  PairInv'
  <1>1. RunInv'
    BY RunInvStep
  <1>2. CASE Configure
    <2> SUFFICES ASSUME Launched', NEW p \in Enabled', NEW d, d = dst_ports'[p]
                 PROVE  PairAt(p, d)'
      BY DEF PairInv, PairAt, Given
    <2>1. Idle' /\ RunType'
      BY <1>2, ConfigureKeeps
    <2>2. p \in PortIds /\ d \in PortIds
      BY <1>1 DEF RunInv, ConfigInv, ConfigType, Enabled
    <2>3. Burst(p)' = <<>>
      BY <1>1, <2>1, BurstBegins
    <2>4. stats'[p].rx = 0 /\ stats'[d].tx = 0 /\ stats'[d].dropped = 0 /\ tx_buffer'[d] = <<>>
      BY <2>1, <2>2 DEF Idle, NoPackets
    <2>5. Len(<<>>) = 0
      OBVIOUS
    <2> QED
      BY <2>3, <2>4, <2>5 DEF PairAt, Given
  <1>3. ASSUME UNCHANGED <<core, stats, tx_buffer>>,
               \/ UNCHANGED cvars
               \/ /\ pc = "run" /\ pc' \in {"closed", "crashed"}
                  /\ UNCHANGED <<cmd, at, mask, used, dst_ports, last_port, nb_in_mask, rx_lcore, conf>>
        PROVE  PairInv'
    <2>1. /\ Launched' <=> Launched
          /\ Enabled' = Enabled /\ dst_ports' = dst_ports /\ cmd' = cmd /\ conf' = conf
      BY <1>3, SameConfig
    <2>2. ASSUME NEW p PROVE Burst(p)' = Burst(p)
      BY <1>3, <2>1, BurstStill
    <2> QED
      BY <1>3, <2>1, <2>2 DEF PairInv, PairAt, Given
  <1>4. ASSUME NEW p \in PortIds, Arrive(p) \/ Transmit(p)
        PROVE  PairInv'
    BY <1>3, <1>4 DEF Arrive, Transmit
  <1>5. ASSUME NEW c \in LcoreIds, Leave(c) \/ Turn(c) \/ RxBurst(c) \/ (Forwards(c) /\ RunType')
        PROVE  PairInv'
    BY <1>1, <1>5, PairInvLeave, PairInvTurn, PairInvRxBurst, PairInvForward
  <1>6. CASE Still
             /\ \/ UNCHANGED cvars
                \/ /\ pc = "run" /\ pc' \in {"closed", "crashed"}
                   /\ UNCHANGED <<cmd, at, mask, used, dst_ports, last_port, nb_in_mask, rx_lcore, conf>>
    BY <1>3, <1>6 DEF Still
  <1> QED
    BY <1>2, <1>4, <1>5, <1>6, StepKinds

\* In the batch build what a port received is exactly what its partner sent,
\* dropped, has in its buffer, and what the polling core has in hand: however many
\* ports and cores there are, whatever the pairing, the burst and the queues.
THEOREM ReceivedIsSent == Spec => []PairExact
  <1>1. Init => RunInv /\ PairInv
    <2> SUFFICES ASSUME Init PROVE RunInv /\ PairInv
      OBVIOUS
    <2>1. ~Launched
      BY DEF Init, ConfigInit, Launched
    <2> QED
      BY <2>1, RunInvInit DEF PairInv
  <1>2. RunInv /\ PairInv /\ [Next]_vars => (RunInv /\ PairInv)'
    BY RunInvStep, PairInvStep
  <1>3. RunInv /\ PairInv => PairExact
    BY DEF PairInv, PairExact, Running, Launched, PairAt, Given
  <1> QED
    BY <1>1, <1>2, <1>3, PTL DEF Spec


---------------------------------------------------------------------------
(* The packets on their way from a port to its partner, piece by piece. *)

Ascending(s) == \A i, j \in 1..Len(s) : i < j => s[i] < s[j]
Before(s, t) == \A x \in ToSet(s), y \in ToSet(t) : x < y

\* The five sequences of L one after the other, of packets up to m.
Ordered(L, m) ==
    /\ \A a \in 1..5 : L[a] \in Seq(Nat) /\ Ascending(L[a]) /\ \A x \in ToSet(L[a]) : x <= m
    /\ \A a, b \in 1..5 : a < b => Before(L[a], L[b])

LEMMA ToSetMember ==
    ASSUME NEW T, NEW s \in Seq(T)
    PROVE  /\ \A i \in 1..Len(s) : s[i] \in ToSet(s)
           /\ \A x \in ToSet(s) : \E i \in 1..Len(s) : s[i] = x
           /\ ToSet(s) \subseteq T
  BY DEF ToSet

\* The first n of t are moved to the end of s.
Moved(s, t, n) == s \o SubSeq(t, 1, n)
Kept(t, n) == SubSeq(t, n + 1, Len(t))

LEMMA MovedFacts ==
    ASSUME NEW s \in Seq(Nat), NEW t \in Seq(Nat), NEW n \in Nat, n <= Len(t)
    PROVE  /\ Moved(s, t, n) \in Seq(Nat) /\ Kept(t, n) \in Seq(Nat)
           /\ Len(Moved(s, t, n)) = Len(s) + n /\ Len(Kept(t, n)) = Len(t) - n
           /\ \A i \in 1..Len(s) : Moved(s, t, n)[i] = s[i]
           /\ \A i \in 1..n : Moved(s, t, n)[Len(s) + i] = t[i]
           /\ \A i \in 1..(Len(t) - n) : Kept(t, n)[i] = t[n + i]
  <1>1. SubSeq(t, 1, n) \in Seq(Nat) /\ Len(SubSeq(t, 1, n)) = n /\ \A i \in 1..n : SubSeq(t, 1, n)[i] = t[i]
    BY FirstOf
  <1>2. /\ Kept(t, n) \in Seq(Nat) /\ Len(Kept(t, n)) = Len(t) - n
        /\ \A i \in 1..(Len(t) - n) : Kept(t, n)[i] = t[n + i]
    BY RestOf DEF Kept
  <1>3. \A u \in Seq(Nat) : /\ s \o u \in Seq(Nat) /\ Len(s \o u) = Len(s) + Len(u)
                            /\ \A i \in 1..Len(s) : (s \o u)[i] = s[i]
                            /\ \A i \in 1..Len(u) : (s \o u)[Len(s) + i] = u[i]
    OBVIOUS
  <1> QED
    BY <1>1, <1>2, <1>3 DEF Moved

\* What was moved was in one of the two, what is left was in t, and comes after.
LEMMA MovedSets ==
    ASSUME NEW s \in Seq(Nat), NEW t \in Seq(Nat), NEW n \in Nat, n <= Len(t)
    PROVE  /\ \A x \in ToSet(Moved(s, t, n)) : x \in ToSet(s) \/ \E i \in 1..n : x = t[i] /\ x \in ToSet(t)
           /\ \A x \in ToSet(Kept(t, n)) : \E i \in (n + 1)..Len(t) : x = t[i] /\ x \in ToSet(t)
           /\ ToSet(s) \subseteq ToSet(Moved(s, t, n))
           /\ \A i \in 1..n : t[i] \in ToSet(Moved(s, t, n))
           /\ \A i \in (n + 1)..Len(t) : t[i] \in ToSet(Kept(t, n))
  <1> DEFINE u == Moved(s, t, n)
             v == Kept(t, n)
  <1> HIDE DEF u, v
  <1>0. u \in Seq(Nat) /\ v \in Seq(Nat)
    BY MovedFacts DEF u, v
  <1>1. /\ Len(u) = Len(s) + n /\ Len(v) = Len(t) - n
        /\ \A i \in 1..Len(s) : u[i] = s[i]
        /\ \A i \in 1..n : u[Len(s) + i] = t[i]
        /\ \A i \in 1..(Len(t) - n) : v[i] = t[n + i]
    BY MovedFacts, SMTT(30) DEF u, v
  <1>2. /\ \A i \in 1..Len(u) : u[i] \in ToSet(u)
        /\ \A x \in ToSet(u) : \E i \in 1..Len(u) : u[i] = x
        /\ \A i \in 1..Len(v) : v[i] \in ToSet(v)
        /\ \A x \in ToSet(v) : \E i \in 1..Len(v) : v[i] = x
        /\ \A i \in 1..Len(s) : s[i] \in ToSet(s)
        /\ \A x \in ToSet(s) : \E i \in 1..Len(s) : s[i] = x
        /\ \A i \in 1..Len(t) : t[i] \in ToSet(t)
    BY <1>0, ToSetMember
  <1>3. Len(s) \in Nat /\ Len(t) \in Nat
    OBVIOUS
  <1>4. ASSUME NEW x \in ToSet(u)
        PROVE  x \in ToSet(s) \/ \E i \in 1..n : x = t[i] /\ x \in ToSet(t)
    <2>1. PICK i \in 1..Len(u) : u[i] = x
      BY <1>2, <1>4
    <2>2. CASE i <= Len(s)
      <3>1. i \in 1..Len(s)
        BY <1>3, <2>1, <2>2
      <3>2. x = s[i]
        BY <1>1, <2>1, <3>1
      <3> QED
        BY <1>2, <3>1, <3>2
    <2>3. CASE i > Len(s)
      <3>1. i - Len(s) \in 1..n /\ i - Len(s) \in 1..Len(t) /\ Len(s) + (i - Len(s)) = i
        BY <1>1, <1>3, <2>1, <2>3
      <3>2. x = t[i - Len(s)]
        BY <1>1, <2>1, <3>1
      <3> QED
        BY <1>2, <3>1, <3>2
    <2>4. i <= Len(s) \/ i > Len(s)
      BY <1>3, <2>1
    <2> QED
      BY <2>2, <2>3, <2>4
  <1>5. ASSUME NEW x \in ToSet(v)
        PROVE  \E i \in (n + 1)..Len(t) : x = t[i] /\ x \in ToSet(t)
    <2>1. PICK i \in 1..Len(v) : v[i] = x
      BY <1>2, <1>5
    <2>2. n + i \in (n + 1)..Len(t) /\ n + i \in 1..Len(t) /\ i \in 1..(Len(t) - n)
      BY <1>1, <1>3, <2>1
    <2>3. x = t[n + i]
      BY <1>1, <2>1, <2>2
    <2> QED
      BY <1>2, <2>2, <2>3
  <1>6. ToSet(s) \subseteq ToSet(u)
    <2>1. ASSUME NEW x \in ToSet(s) PROVE x \in ToSet(u)
      <3>1. PICK i \in 1..Len(s) : s[i] = x
        BY <1>2, <2>1
      <3>2. i \in 1..Len(u) /\ u[i] = x
        BY <1>1, <1>3, <3>1
      <3> QED
        BY <1>2, <3>2
    <2> QED
      BY <2>1
  <1>7. ASSUME NEW i \in 1..n PROVE t[i] \in ToSet(u)
    <2>1. Len(s) + i \in 1..Len(u) /\ u[Len(s) + i] = t[i]
      BY <1>1, <1>3, <1>7
    <2> QED
      BY <1>2, <2>1
  <1>8. ASSUME NEW i \in (n + 1)..Len(t) PROVE t[i] \in ToSet(v)
    <2>1. i - n \in 1..Len(v) /\ i - n \in 1..(Len(t) - n) /\ n + (i - n) = i
      BY <1>1, <1>3, <1>8
    <2>2. v[i - n] = t[i]
      BY <1>1, <2>1
    <2> QED
      BY <1>2, <2>1, <2>2
  <1> QED
    BY <1>4, <1>5, <1>6, <1>7, <1>8 DEF u, v

LEMMA MovedAscending ==
    ASSUME NEW s \in Seq(Nat), NEW t \in Seq(Nat), NEW n \in Nat, n <= Len(t),
           Ascending(s), Ascending(t), Before(s, t)
    PROVE  Ascending(Moved(s, t, n)) /\ Ascending(Kept(t, n)) /\ Before(Moved(s, t, n), Kept(t, n))
  <1> DEFINE u == Moved(s, t, n)
             v == Kept(t, n)
  <1> HIDE DEF u, v
  <1>1. /\ Len(u) = Len(s) + n /\ Len(v) = Len(t) - n
        /\ \A i \in 1..Len(s) : u[i] = s[i]
        /\ \A i \in 1..n : u[Len(s) + i] = t[i]
        /\ \A i \in 1..(Len(t) - n) : v[i] = t[n + i]
    BY MovedFacts, SMTT(30) DEF u, v
  <1>2. Len(s) \in Nat /\ Len(t) \in Nat
    OBVIOUS
  <1>3. ASSUME NEW i \in 1..Len(u), NEW j \in 1..Len(u), i < j PROVE u[i] < u[j]
    <2>1. CASE j <= Len(s)
      <3>1. i \in 1..Len(s) /\ j \in 1..Len(s)
        BY <1>1, <1>2, <1>3, <2>1
      <3>2. u[i] = s[i] /\ u[j] = s[j]
        BY <1>1, <3>1
      <3> QED
        BY <1>3, <3>1, <3>2 DEF Ascending
    <2>2. CASE i > Len(s)
      <3>1. i - Len(s) \in 1..n /\ j - Len(s) \in 1..n /\ i - Len(s) < j - Len(s)
            /\ Len(s) + (i - Len(s)) = i /\ Len(s) + (j - Len(s)) = j
        BY <1>1, <1>2, <1>3, <2>2
      <3>2. i - Len(s) \in 1..Len(t) /\ j - Len(s) \in 1..Len(t)
        BY <1>2, <3>1
      <3>3. u[i] = t[i - Len(s)] /\ u[j] = t[j - Len(s)]
        BY <1>1, <3>1
      <3> QED
        BY <3>1, <3>2, <3>3 DEF Ascending
    <2>3. CASE i <= Len(s) /\ j > Len(s)
      <3>1. i \in 1..Len(s) /\ j - Len(s) \in 1..n /\ Len(s) + (j - Len(s)) = j /\ j - Len(s) \in 1..Len(t)
        BY <1>1, <1>2, <1>3, <2>3
      <3>2. u[i] = s[i] /\ u[j] = t[j - Len(s)]
        BY <1>1, <3>1
      <3>3. s[i] \in ToSet(s) /\ t[j - Len(s)] \in ToSet(t)
        BY <3>1, ToSetMember
      <3> QED
        BY <3>2, <3>3 DEF Before
    <2> QED
      BY <1>1, <1>2, <1>3, <2>1, <2>2, <2>3
  <1>4. ASSUME NEW i \in 1..Len(v), NEW j \in 1..Len(v), i < j PROVE v[i] < v[j]
    <2>1. n + i \in 1..Len(t) /\ n + j \in 1..Len(t) /\ n + i < n + j
      BY <1>1, <1>2, <1>4
    <2>2. v[i] = t[n + i] /\ v[j] = t[n + j]
      BY <1>1, <1>4
    <2> QED
      BY <2>1, <2>2 DEF Ascending
  <1>5. ASSUME NEW x \in ToSet(u), NEW y \in ToSet(v) PROVE x < y
    <2>1. PICK j \in (n + 1)..Len(t) : y = t[j] /\ y \in ToSet(t)
      BY <1>5, MovedSets DEF v
    <2>2. x \in ToSet(s) \/ \E i \in 1..n : x = t[i]
      BY <1>5, MovedSets DEF u
    <2>3. CASE x \in ToSet(s)
      BY <2>1, <2>3 DEF Before
    <2>4. CASE \E i \in 1..n : x = t[i]
      <3>1. PICK i \in 1..n : x = t[i]
        BY <2>4
      <3>2. i \in 1..Len(t) /\ j \in 1..Len(t) /\ i < j
        BY <1>2, <2>1, <3>1
      <3> QED
        BY <2>1, <3>1, <3>2 DEF Ascending
    <2> QED
      BY <2>2, <2>3, <2>4
  <1> QED
    BY <1>3, <1>4, <1>5 DEF Ascending, Before, u, v


\* K is L, with the first n of piece j + 1 moved to the end of piece j.
MovesTo(L, K, j, n) ==
    /\ n \in Nat /\ n <= Len(L[j + 1])
    /\ K[j] = Moved(L[j], L[j + 1], n)
    /\ K[j + 1] = Kept(L[j + 1], n)
    /\ \A a \in 1..5 : a # j /\ a # j + 1 => K[a] = L[a]

LEMMA OrderedMove ==
    ASSUME NEW L, NEW K, NEW m, NEW j \in 1..4, NEW n, MovesTo(L, K, j, n), Ordered(L, m)
    PROVE  Ordered(K, m)
  <1> DEFINE s == L[j]
             t == L[j + 1]
  <1>1. j \in 1..5 /\ j + 1 \in 1..5 /\ j < j + 1
    OBVIOUS
  <1>2. /\ s \in Seq(Nat) /\ t \in Seq(Nat) /\ Ascending(s) /\ Ascending(t) /\ Before(s, t)
        /\ n \in Nat /\ n <= Len(t)
    BY <1>1 DEF Ordered, MovesTo
  <1>3. K[j] = Moved(s, t, n) /\ K[j + 1] = Kept(t, n)
    BY DEF MovesTo
  <1>4. \A a \in 1..5 : a # j /\ a # j + 1 => K[a] = L[a]
    BY DEF MovesTo
  <1>5. \A a \in 1..5 : L[a] \in Seq(Nat) /\ Ascending(L[a]) /\ \A x \in ToSet(L[a]) : x <= m
    BY DEF Ordered
  <1>6. \A a, b \in 1..5 : a < b => Before(L[a], L[b])
    BY DEF Ordered
  <1> HIDE DEF s, t
  <1>7. Ascending(K[j]) /\ Ascending(K[j + 1]) /\ Before(K[j], K[j + 1])
    BY <1>2, <1>3, MovedAscending
  <1>8. K[j] \in Seq(Nat) /\ K[j + 1] \in Seq(Nat)
    BY <1>2, <1>3, MovedFacts
  <1>9. /\ \A x \in ToSet(K[j]) : x \in ToSet(L[j]) \/ x \in ToSet(L[j + 1])
        /\ \A x \in ToSet(K[j + 1]) : x \in ToSet(L[j + 1])
    <2>1. \A x \in ToSet(K[j]) : x \in ToSet(s) \/ x \in ToSet(t)
      BY <1>2, <1>3, MovedSets
    <2>2. \A x \in ToSet(K[j + 1]) : x \in ToSet(t)
      BY <1>2, <1>3, MovedSets
    <2> QED
      BY <2>1, <2>2 DEF s, t
  <1>10. ASSUME NEW a \in 1..5
         PROVE  /\ K[a] \in Seq(Nat) /\ Ascending(K[a])
                /\ \A x \in ToSet(K[a]) :
                      (a # j /\ a # j + 1 /\ x \in ToSet(L[a]))
                      \/ ((a = j \/ a = j + 1) /\ (x \in ToSet(L[j]) \/ x \in ToSet(L[j + 1])))
    <2>1. CASE a = j
      BY <1>7, <1>8, <1>9, <2>1
    <2>2. CASE a = j + 1
      BY <1>7, <1>8, <1>9, <2>2
    <2>3. CASE a # j /\ a # j + 1
      BY <1>4, <1>5, <1>10, <2>3
    <2> QED
      BY <2>1, <2>2, <2>3
  <1>11. ASSUME NEW a \in 1..5, NEW x \in ToSet(K[a]) PROVE x <= m
    BY <1>1, <1>5, <1>10, <1>11
  <1>12. ASSUME NEW a \in 1..5, NEW b \in 1..5, a < b, NEW x \in ToSet(K[a]), NEW y \in ToSet(K[b])
         PROVE  x < y
    <2>1. CASE a = j /\ b = j + 1
      BY <1>7, <1>12, <2>1 DEF Before
    <2>2. CASE a = j /\ b # j + 1
      <3>1. y \in ToSet(L[b]) /\ j < b /\ j + 1 < b
        BY <1>4, <1>12, <2>2
      <3>2. x \in ToSet(L[j]) \/ x \in ToSet(L[j + 1])
        BY <1>9, <1>12, <2>2
      <3> QED
        BY <1>1, <1>6, <1>12, <3>1, <3>2 DEF Before
    <2>3. CASE a = j + 1
      <3>1. y \in ToSet(L[b]) /\ j + 1 < b
        BY <1>4, <1>12, <2>3
      <3>2. x \in ToSet(L[j + 1])
        BY <1>9, <1>12, <2>3
      <3> QED
        BY <1>1, <1>6, <1>12, <3>1, <3>2 DEF Before
    <2>4. CASE a # j /\ a # j + 1
      <3>1. x \in ToSet(L[a])
        BY <1>4, <1>12, <2>4
      <3>2. CASE b # j /\ b # j + 1
        BY <1>4, <1>6, <1>12, <3>1, <3>2 DEF Before
      <3>3. CASE b = j
        <4>1. (y \in ToSet(L[j]) \/ y \in ToSet(L[j + 1])) /\ a < j /\ a < j + 1
          BY <1>9, <1>12, <3>3
        <4> QED
          BY <1>1, <1>6, <1>12, <3>1, <4>1 DEF Before
      <3>4. CASE b = j + 1
        <4>1. y \in ToSet(L[j + 1]) /\ a < j + 1
          BY <1>9, <1>12, <3>4
        <4> QED
          BY <1>1, <1>6, <1>12, <3>1, <4>1 DEF Before
      <3> QED
        BY <3>2, <3>3, <3>4
    <2> QED
      BY <2>1, <2>2, <2>3, <2>4
  <1> QED
    BY <1>10, <1>11, <1>12 DEF Ordered, Before

\* Without one of the pieces.
LEMMA OrderedDrop ==
    ASSUME NEW L, NEW K, NEW m, NEW j \in 1..5, Ordered(L, m), K[j] = <<>>,
           \A a \in 1..5 : a # j => K[a] = L[a]
    PROVE  Ordered(K, m)
  <1>1. <<>> \in Seq(Nat) /\ Ascending(<<>>) /\ ToSet(<<>>) = {}
    BY DEF Ascending, ToSet
  <1>2. ASSUME NEW a \in 1..5
        PROVE  K[a] \in Seq(Nat) /\ Ascending(K[a]) /\ ToSet(K[a]) \subseteq ToSet(L[a])
    <2>1. CASE a = j
      BY <1>1, <2>1
    <2>2. CASE a # j
      BY <1>2, <2>2 DEF Ordered
    <2> QED
      BY <2>1, <2>2
  <1> QED
    BY <1>2 DEF Ordered, Before

\* A packet arrives at the end.
LEMMA OrderedAppend ==
    ASSUME NEW L, NEW K, NEW m \in Nat, Ordered(L, m), K[5] = Append(L[5], m + 1),
           \A a \in 1..4 : K[a] = L[a]
    PROVE  Ordered(K, m + 1)
  <1> DEFINE s == L[5]
             u == Append(s, m + 1)
  <1>1. s \in Seq(Nat) /\ Ascending(s) /\ (\A x \in ToSet(s) : x <= m) /\ Len(s) \in Nat
    BY DEF Ordered
  <1> HIDE DEF s
  <1>2. /\ u \in Seq(Nat) /\ Len(u) = Len(s) + 1 /\ u[Len(s) + 1] = m + 1
        /\ \A i \in 1..Len(s) : u[i] = s[i]
    BY <1>1
  <1> HIDE DEF u
  <1>3. \A x \in ToSet(u) : x \in ToSet(s) \/ x = m + 1
    <2>1. ASSUME NEW x \in ToSet(u) PROVE x \in ToSet(s) \/ x = m + 1
      <3>1. PICK i \in 1..Len(u) : u[i] = x
        BY <1>2, <2>1, ToSetMember
      <3>2. CASE i \in 1..Len(s)
        BY <1>1, <1>2, <3>1, <3>2, ToSetMember
      <3>3. CASE i = Len(s) + 1
        BY <1>2, <3>1, <3>3
      <3> QED
        BY <1>1, <1>2, <3>1, <3>2, <3>3
    <2> QED
      BY <2>1
  <1>4. ASSUME NEW i \in 1..Len(u), NEW j \in 1..Len(u), i < j PROVE u[i] < u[j]
    <2>1. i \in 1..Len(s)
      BY <1>1, <1>2, <1>4
    <2>2. u[i] = s[i] /\ s[i] \in ToSet(s) /\ s[i] <= m /\ s[i] \in Nat
      BY <1>1, <1>2, <2>1, ToSetMember
    <2>3. CASE j \in 1..Len(s)
      BY <1>1, <1>2, <1>4, <2>1, <2>3 DEF Ascending
    <2>4. CASE j = Len(s) + 1
      BY <1>2, <2>2, <2>4
    <2>5. j \in 1..Len(s) \/ j = Len(s) + 1
      <3>1. Len(s) \in Nat /\ j \in 1..(Len(s) + 1)
        BY <1>1, <1>2, <1>4
      <3> QED
        BY ONLY <3>1
    <2> QED
      BY <2>3, <2>4, <2>5
  <1>5. K[5] \in Seq(Nat) /\ Ascending(K[5]) /\ \A x \in ToSet(K[5]) : x \in ToSet(L[5]) \/ x = m + 1
    BY <1>2, <1>3, <1>4 DEF Ascending, s, u
  <1>6. ASSUME NEW a \in 1..5 PROVE \A x \in ToSet(L[a]) : x \in Nat /\ x <= m
    BY <1>6, ToSetMember DEF Ordered
  <1>7. ASSUME NEW a \in 1..5
        PROVE  K[a] \in Seq(Nat) /\ Ascending(K[a]) /\ \A x \in ToSet(K[a]) : x <= m + 1
    <2>1. CASE a = 5
      <3>1. ASSUME NEW x \in ToSet(K[5]) PROVE x <= m + 1
        <4>1. x \in ToSet(L[5]) \/ x = m + 1
          BY <1>5, <3>1
        <4>2. x \in ToSet(L[5]) => x \in Nat /\ x <= m
          BY <1>6
        <4> QED
          BY <4>1, <4>2
      <3> QED
        BY <1>5, <2>1, <3>1
    <2>2. CASE a # 5
      <3>1. a \in 1..4 /\ K[a] = L[a]
        BY <1>7, <2>2
      <3>2. K[a] \in Seq(Nat) /\ Ascending(K[a])
        BY <1>7, <3>1 DEF Ordered
      <3> QED
        BY <1>6, <3>1, <3>2
    <2> QED
      BY <2>1, <2>2
  <1>8. ASSUME NEW a \in 1..5, NEW b \in 1..5, a < b, NEW x \in ToSet(K[a]), NEW y \in ToSet(K[b])
        PROVE  x < y
    <2>1. a \in 1..4 /\ x \in ToSet(L[a]) /\ x \in Nat /\ x <= m
      BY <1>6, <1>8
    <2>2. CASE y \in ToSet(L[b])
      BY <1>8, <2>1, <2>2 DEF Ordered, Before
    <2>3. CASE y = m + 1
      BY <2>1, <2>3
    <2>4. y \in ToSet(L[b]) \/ y = m + 1
      <3>1. CASE b = 5
        BY <1>5, <1>8, <3>1
      <3>2. CASE b # 5
        <4>1. b \in 1..4
          BY <1>8, <3>2
        <4> QED
          BY <1>8, <4>1
      <3> QED
        BY <3>1, <3>2
    <2> QED
      BY <2>2, <2>3, <2>4
  <1> QED
    BY <1>7, <1>8 DEF Ordered, Before


LEMMA Five ==
    \A i \in 1..5 : i = 1 \/ i = 2 \/ i = 3 \/ i = 4 \/ i = 5
  OBVIOUS

\* A move between neighbours of five pieces.
LEMMA OrderedMoves ==
    ASSUME NEW a, NEW b, NEW c, NEW d, NEW e, NEW m, Ordered(<<a, b, c, d, e>>, m), NEW n \in Nat
    PROVE  /\ n <= Len(b) => Ordered(<<Moved(a, b, n), Kept(b, n), c, d, e>>, m)
           /\ n <= Len(c) => Ordered(<<a, Moved(b, c, n), Kept(c, n), d, e>>, m)
           /\ n <= Len(d) => Ordered(<<a, b, Moved(c, d, n), Kept(d, n), e>>, m)
           /\ n <= Len(e) => Ordered(<<a, b, c, Moved(d, e, n), Kept(e, n)>>, m)
  <1> DEFINE L == <<a, b, c, d, e>>
  <1>1. ASSUME n <= Len(b) PROVE Ordered(<<Moved(a, b, n), Kept(b, n), c, d, e>>, m)
    <2>1. MovesTo(L, <<Moved(a, b, n), Kept(b, n), c, d, e>>, 1, n)
      BY <1>1, Five DEF MovesTo
    <2> QED
      BY <2>1, OrderedMove
  <1>2. ASSUME n <= Len(c) PROVE Ordered(<<a, Moved(b, c, n), Kept(c, n), d, e>>, m)
    <2>1. MovesTo(L, <<a, Moved(b, c, n), Kept(c, n), d, e>>, 2, n)
      BY <1>2, Five DEF MovesTo
    <2> QED
      BY <2>1, OrderedMove
  <1>3. ASSUME n <= Len(d) PROVE Ordered(<<a, b, Moved(c, d, n), Kept(d, n), e>>, m)
    <2>1. MovesTo(L, <<a, b, Moved(c, d, n), Kept(d, n), e>>, 3, n)
      BY <1>3, Five DEF MovesTo
    <2> QED
      BY <2>1, OrderedMove
  <1>4. ASSUME n <= Len(e) PROVE Ordered(<<a, b, c, Moved(d, e, n), Kept(e, n)>>, m)
    <2>1. MovesTo(L, <<a, b, c, Moved(d, e, n), Kept(e, n)>>, 4, n)
      BY <1>4, Five DEF MovesTo
    <2> QED
      BY <2>1, OrderedMove
  <1> QED
    BY <1>1, <1>2, <1>3, <1>4

LEMMA OrderedPieces ==
    ASSUME NEW a, NEW b, NEW c, NEW d, NEW e, NEW m, Ordered(<<a, b, c, d, e>>, m)
    PROVE  a \in Seq(Nat) /\ b \in Seq(Nat) /\ c \in Seq(Nat) /\ d \in Seq(Nat) /\ e \in Seq(Nat)
  <1>1. \A i \in 1..5 : <<a, b, c, d, e>>[i] \in Seq(Nat)
    BY DEF Ordered
  <1> QED
    BY <1>1

LEMMA SameSeq ==
    ASSUME NEW u \in Seq(Nat), NEW v \in Seq(Nat), Len(u) = Len(v), \A i \in 1..Len(u) : u[i] = v[i]
    PROVE  u = v
  <1>1. u = [i \in 1..Len(u) |-> u[i]] /\ v = [i \in 1..Len(v) |-> v[i]]
    OBVIOUS
  <1> QED
    BY <1>1

LEMMA MovedOne ==
    ASSUME NEW s \in Seq(Nat), NEW t \in Seq(Nat), t # <<>>
    PROVE  Append(s, Head(t)) = Moved(s, t, 1) /\ Tail(t) = Kept(t, 1) /\ 1 <= Len(t)
  <1>1. Len(t) \in Nat \ {0} /\ Head(t) = t[1] /\ Tail(t) \in Seq(Nat) /\ Len(Tail(t)) = Len(t) - 1
        /\ \A i \in 1..(Len(t) - 1) : Tail(t)[i] = t[i + 1]
    BY TailOf
  <1>2. 1 <= Len(t) /\ 1 \in Nat
    BY <1>1
  <1>3. /\ SubSeq(t, 1, 1) \in Seq(Nat) /\ Len(SubSeq(t, 1, 1)) = 1
        /\ \A i \in 1..1 : SubSeq(t, 1, 1)[i] = t[i]
    BY <1>2, FirstOf
  <1>4. SubSeq(t, 1, 1) = <<Head(t)>>
    <2>1. <<Head(t)>> \in Seq(Nat) /\ Len(<<Head(t)>>) = 1 /\ <<Head(t)>>[1] = t[1]
      BY <1>1, <1>2
    <2>2. SubSeq(t, 1, 1)[1] = t[1]
      BY <1>3
    <2>3. \A i \in 1..1 : i = 1
      OBVIOUS
    <2> QED
      BY <1>3, <2>1, <2>2, <2>3, SameSeq
  <1>5. s \o <<Head(t)>> = Append(s, Head(t))
    BY <1>1
  <1>6. /\ Kept(t, 1) \in Seq(Nat) /\ Len(Kept(t, 1)) = Len(t) - 1
        /\ \A i \in 1..(Len(t) - 1) : Kept(t, 1)[i] = t[1 + i]
    BY <1>2, MovedFacts
  <1>7. Tail(t) = Kept(t, 1)
    <2>2. \A i \in 1..(Len(t) - 1) : Tail(t)[i] = Kept(t, 1)[i]
      <3>1. ASSUME NEW i \in 1..(Len(t) - 1) PROVE Tail(t)[i] = Kept(t, 1)[i]
        <4>1. 1 + i = i + 1
          BY <1>1, <3>1
        <4> QED
          BY <1>1, <1>6, <3>1, <4>1
      <3> QED
        BY <3>1
    <2> QED
      BY <1>1, <1>6, <2>2, SameSeq
  <1> QED
    BY <1>2, <1>4, <1>5, <1>7 DEF Moved

LEMMA MovedNone ==
    ASSUME NEW s \in Seq(Nat), NEW t \in Seq(Nat)
    PROVE  Moved(s, t, 0) = s /\ Kept(t, 0) = t
  <1>1. SubSeq(t, 1, 0) = <<>> /\ s \o <<>> = s /\ SubSeq(t, 0 + 1, Len(t)) = t
    OBVIOUS
  <1> QED
    BY <1>1 DEF Moved, Kept

LEMMA OrderedFlush ==
    ASSUME NEW S, NEW buf, NEW p, FlushedAt(S, buf, p), NEW m, NEW s, NEW d, NEW e,
           Ordered(<<s, txq[p], buf[p], d, e>>, m)
    PROVE  Ordered(<<s, txq'[p], tx_buffer'[p], d, e>>, m)
  <1> DEFINE a == Took(S, buf, p)
             b == buf[p]
             q == txq[p]
  <1> HIDE DEF a, b, q
  <1>1. /\ a \in Nat /\ a <= Len(b) /\ b \in Seq(Nat)
        /\ txq'[p] = Moved(q, b, a)
        /\ tx_buffer'[p] = IF p \in S THEN <<>> ELSE b
    BY DEF FlushedAt, Moved, a, b, q
  <1>2. Ordered(<<s, q, b, d, e>>, m)
    BY DEF b, q
  <1>3. Ordered(<<s, Moved(q, b, a), Kept(b, a), d, e>>, m)
    BY <1>1, <1>2, OrderedMoves
  <1>4. CASE p \in S
    <2> DEFINE L == <<s, Moved(q, b, a), Kept(b, a), d, e>>
               K == <<s, Moved(q, b, a), <<>>, d, e>>
    <2>1. K[3] = <<>> /\ 3 \in 1..5
      OBVIOUS
    <2>2. \A i \in 1..5 : i # 3 => K[i] = L[i]
      BY Five
    <2> HIDE DEF K, L
    <2>3. Ordered(L, m)
      BY <1>3 DEF L
    <2>4. Ordered(K, m)
      BY <2>1, <2>2, <2>3, OrderedDrop
    <2> QED
      BY <1>1, <1>4, <2>4 DEF K
  <1>5. CASE p \notin S
    <2>1. a = 0
      BY <1>5 DEF a, Took
    <2>2. q \in Seq(Nat)
      BY <1>2, OrderedPieces
    <2>3. Moved(q, b, a) = q /\ Kept(b, a) = b
      BY <1>1, <2>1, <2>2, MovedNone
    <2> QED
      BY <1>1, <1>3, <1>5, <2>3
  <1> QED
    BY <1>4, <1>5

LEMMA OrderedMore ==
    ASSUME NEW L, NEW m \in Nat, Ordered(L, m)
    PROVE  Ordered(L, m + 1)
  <1>1. ASSUME NEW a \in 1..5, NEW x \in ToSet(L[a]) PROVE x <= m + 1
    <2>1. L[a] \in Seq(Nat) /\ x <= m
      BY <1>1 DEF Ordered
    <2>2. x \in Nat
      BY <1>1, <2>1, ToSetMember
    <2> QED
      BY <2>1, <2>2
  <1> QED
    BY <1>1 DEF Ordered


\* Pieces in order make a line in order.
LEMMA ConcatOrdered ==
    ASSUME NEW s \in Seq(Nat), NEW t \in Seq(Nat), Ascending(s), Ascending(t), Before(s, t)
    PROVE  /\ s \o t \in Seq(Nat) /\ Ascending(s \o t)
           /\ \A x \in ToSet(s \o t) : x \in ToSet(s) \/ x \in ToSet(t)
  <1>1. SubSeq(t, 1, Len(t)) = t /\ Len(t) \in Nat /\ Len(t) <= Len(t)
    OBVIOUS
  <1>2. Moved(s, t, Len(t)) = s \o t
    BY <1>1 DEF Moved
  <1>3. Ascending(Moved(s, t, Len(t)))
    BY <1>1, MovedAscending
  <1>4. Moved(s, t, Len(t)) \in Seq(Nat)
    BY <1>1, MovedFacts
  <1>5. \A x \in ToSet(Moved(s, t, Len(t))) : x \in ToSet(s) \/ x \in ToSet(t)
    BY <1>1, MovedSets
  <1> QED
    BY <1>2, <1>3, <1>4, <1>5

LEMMA OrderedSorted ==
    ASSUME NEW a, NEW b, NEW c, NEW d, NEW e, NEW m, Ordered(<<a, b, c, d, e>>, m)
    PROVE  IsSorted(a \o b \o c \o d \o e, <)
  <1>1. a \in Seq(Nat) /\ b \in Seq(Nat) /\ c \in Seq(Nat) /\ d \in Seq(Nat) /\ e \in Seq(Nat)
    BY OrderedPieces
  <1>2. \A i \in 1..5 : Ascending(<<a, b, c, d, e>>[i])
    BY DEF Ordered
  <1>3. Ascending(a) /\ Ascending(b) /\ Ascending(c) /\ Ascending(d) /\ Ascending(e)
    BY <1>2
  <1>4. \A i, j \in 1..5 : i < j => Before(<<a, b, c, d, e>>[i], <<a, b, c, d, e>>[j])
    BY DEF Ordered
  <1>5. /\ Before(a, b) /\ Before(a, c) /\ Before(a, d) /\ Before(a, e)
        /\ Before(b, c) /\ Before(b, d) /\ Before(b, e)
        /\ Before(c, d) /\ Before(c, e) /\ Before(d, e)
    <2>1. Before(a, b) /\ Before(a, c) /\ Before(a, d) /\ Before(a, e)
      BY <1>4
    <2>2. Before(b, c) /\ Before(b, d) /\ Before(b, e)
      BY <1>4
    <2>3. Before(c, d) /\ Before(c, e) /\ Before(d, e)
      BY <1>4
    <2> QED
      BY <2>1, <2>2, <2>3
  <1> DEFINE u == a \o b
             v == u \o c
             w == v \o d
             z == w \o e
  <1>6. u \in Seq(Nat) /\ Ascending(u) /\ \A x \in ToSet(u) : x \in ToSet(a) \/ x \in ToSet(b)
    BY <1>1, <1>3, <1>5, ConcatOrdered
  <1> HIDE DEF u
  <1>7. Before(u, c) /\ Before(u, d) /\ Before(u, e)
    BY <1>5, <1>6 DEF Before
  <1>8. v \in Seq(Nat) /\ Ascending(v) /\ \A x \in ToSet(v) : x \in ToSet(u) \/ x \in ToSet(c)
    BY <1>1, <1>3, <1>6, <1>7, ConcatOrdered
  <1> HIDE DEF v
  <1>9. Before(v, d) /\ Before(v, e)
    BY <1>5, <1>7, <1>8 DEF Before
  <1>10. w \in Seq(Nat) /\ Ascending(w) /\ \A x \in ToSet(w) : x \in ToSet(v) \/ x \in ToSet(d)
    BY <1>1, <1>3, <1>8, <1>9, ConcatOrdered
  <1> HIDE DEF w
  <1>11. Before(w, e)
    BY <1>5, <1>9, <1>10 DEF Before
  <1>12. Ascending(z)
    BY <1>1, <1>3, <1>10, <1>11, ConcatOrdered
  <1>13. z = a \o b \o c \o d \o e
    BY DEF u, v, w
  <1>14. IsSorted(z, <)
    BY <1>12 DEF IsSorted, Ascending
  <1> QED
    BY <1>13, <1>14

\* The way from port p to port d.
OrderAt(p, d) == Ordered(<<sent[d], txq[d], tx_buffer[d], Burst(p), rxq[p]>>, arrived)
OrderInv == Launched /\ cmd.batch => \A p \in Enabled : OrderAt(p, dst_ports[p])

LEMMA OrderInvFrom ==
    ASSUME OrderInv, UNCHANGED cvars,
           ASSUME Launched, cmd.batch, NEW p \in Enabled, NEW d, d = dst_ports[p], OrderAt(p, d)
           PROVE  OrderAt(p, d)'
    PROVE  OrderInv'
  <1>1. /\ Launched' <=> Launched
        /\ Enabled' = Enabled /\ dst_ports' = dst_ports /\ cmd' = cmd
    BY SameConfig
  <1> SUFFICES ASSUME Launched', cmd'.batch, NEW p \in Enabled', NEW d, d = dst_ports'[p]
               PROVE  OrderAt(p, d)'
    BY DEF OrderInv, OrderAt
  <1>2. Launched /\ cmd.batch /\ p \in Enabled /\ d = dst_ports[p] /\ OrderAt(p, d)
    BY <1>1 DEF OrderInv
  <1> QED
    BY <1>2

LEMMA OrderInvArrive ==
    ASSUME RunInv, OrderInv, NEW r \in PortIds, Arrive(r)
    PROVE  OrderInv'
  <1>1. /\ UNCHANGED <<cvars, core, txq, tx_buffer, sent>> /\ arrived' = arrived + 1 /\ arrived \in Nat
        /\ UNCHANGED conf /\ rxq \in Queues
        /\ rxq' = [rxq EXCEPT ![r] = Append(rxq[r], arrived + 1)]
    BY DEF Arrive, RunInv, RunType, cvars
  <1>2. ASSUME Launched, cmd.batch, NEW p \in Enabled, NEW d, d = dst_ports[p], OrderAt(p, d)
        PROVE  OrderAt(p, d)'
    <2>1. Burst(p)' = Burst(p) /\ p \in PortIds
      BY <1>1, <1>2, BurstStill, PairTypes
    <2> DEFINE L == <<sent[d], txq[d], tx_buffer[d], Burst(p), rxq[p]>>
               K == <<sent[d], txq[d], tx_buffer[d], Burst(p), rxq'[p]>>
    <2>2. Ordered(L, arrived)
      BY <1>2 DEF OrderAt
    <2>3. OrderAt(p, d)' = Ordered(K, arrived + 1)
      BY <1>1, <2>1 DEF OrderAt
    <2>4. CASE p = r
      <3>1. rxq'[p] = Append(rxq[p], arrived + 1)
        BY <1>1, <2>1, <2>4 DEF Queues
      <3>2. K[5] = Append(L[5], arrived + 1)
        BY <3>1
      <3>3. \A i \in 1..4 : K[i] = L[i]
        <4>1. \A i \in 1..4 : i = 1 \/ i = 2 \/ i = 3 \/ i = 4
          OBVIOUS
        <4> QED
          BY <4>1
      <3> HIDE DEF K, L
      <3>4. Ordered(K, arrived + 1)
        BY <1>1, <2>2, <3>2, <3>3, OrderedAppend
      <3> QED
        BY <2>3, <3>4
    <2>5. CASE p # r
      <3>1. rxq'[p] = rxq[p]
        BY <1>1, <2>1, <2>5 DEF Queues
      <3>2. K = L
        BY <3>1
      <3> HIDE DEF K, L
      <3>3. Ordered(K, arrived + 1)
        BY <1>1, <2>2, <3>2, OrderedMore
      <3> QED
        BY <2>3, <3>3
    <2> QED
      BY <2>4, <2>5
  <1> QED
    BY <1>1, <1>2, OrderInvFrom

LEMMA OrderInvTransmit ==
    ASSUME RunInv, OrderInv, NEW r \in PortIds, Transmit(r)
    PROVE  OrderInv'
  <1>1. UNCHANGED <<cvars, core, tx_buffer, rxq, arrived>> /\ UNCHANGED conf /\ RunType
    BY DEF Transmit, RunInv, cvars
  <1>2. /\ txq[r] \in Seq(Nat) /\ txq[r] # <<>> /\ sent[r] \in Seq(Nat)
        /\ txq'[r] = Tail(txq[r]) /\ sent'[r] = Append(sent[r], Head(txq[r]))
        /\ \A q \in PortIds : q # r => txq'[q] = txq[q] /\ sent'[q] = sent[q]
    BY <1>1, TransmitMoves
  <1>3. ASSUME Launched, cmd.batch, NEW p \in Enabled, NEW d, d = dst_ports[p], OrderAt(p, d)
        PROVE  OrderAt(p, d)'
    <2>1. Burst(p)' = Burst(p) /\ d \in PortIds
      BY <1>1, <1>3, BurstStill, PairTypes
    <2>2. Ordered(<<sent[d], txq[d], tx_buffer[d], Burst(p), rxq[p]>>, arrived)
      BY <1>3 DEF OrderAt
    <2>3. OrderAt(p, d)' = Ordered(<<sent'[d], txq'[d], tx_buffer[d], Burst(p), rxq[p]>>, arrived)
      BY <1>1, <2>1 DEF OrderAt
    <2>4. CASE d = r
      <3>1. sent'[d] = Moved(sent[d], txq[d], 1) /\ txq'[d] = Kept(txq[d], 1) /\ 1 <= Len(txq[d])
        BY <1>2, <2>4, MovedOne
      <3>2. 1 \in Nat
        OBVIOUS
      <3>3. Ordered(<<Moved(sent[d], txq[d], 1), Kept(txq[d], 1), tx_buffer[d], Burst(p), rxq[p]>>, arrived)
        BY <2>2, <3>1, <3>2, OrderedMoves
      <3> QED
        BY <2>3, <3>1, <3>3
    <2>5. CASE d # r
      BY <1>2, <2>1, <2>2, <2>3, <2>5
    <2> QED
      BY <2>4, <2>5
  <1> QED
    BY <1>1, <1>3, OrderInvFrom


LEMMA OrderInvRxBurst ==
    ASSUME RunInv, RunInv', OrderInv, NEW c \in LcoreIds, RxBurst(c)
    PROVE  OrderInv'
  <1>1. UNCHANGED <<cvars, tx_buffer, txq, sent, arrived>> /\ ConfigInv /\ RunType /\ rxq \in Queues
    BY DEF RxBurst, RunInv, RunType
  <1> DEFINE r == Port(c)
             q == rxq[r]
  <1>2. PICK n \in Nat, j \in Int :
              /\ Launched /\ core[c].i > 0 /\ core[c].pkts = <<>>
              /\ n <= Len(q) /\ q \in Seq(Nat)
              /\ Goes(c, j, SubSeq(q, 1, n))
              /\ rxq' = [rxq EXCEPT ![r] = SubSeq(q, n + 1, Len(q))]
    BY <1>1, RxBurstGoes
  <1>3. SubSeq(q, 1, n) = Moved(<<>>, q, n) /\ SubSeq(q, n + 1, Len(q)) = Kept(q, n)
    <2>1. SubSeq(q, 1, n) \in Seq(Nat)
      BY <1>2, FirstOf
    <2>2. <<>> \o SubSeq(q, 1, n) = SubSeq(q, 1, n)
      BY <2>1
    <2> QED
      BY <2>2 DEF Moved, Kept
  <1>4. ASSUME Launched, cmd.batch, NEW p \in Enabled, NEW d, d = dst_ports[p], OrderAt(p, d)
        PROVE  OrderAt(p, d)'
    <2>1. p \in PortIds /\ d \in PortIds
      BY <1>4, PairTypes
    <2>2. Ordered(<<sent[d], txq[d], tx_buffer[d], Burst(p), rxq[p]>>, arrived)
      BY <1>4 DEF OrderAt
    <2>3. OrderAt(p, d)' = Ordered(<<sent[d], txq[d], tx_buffer[d], Burst(p)', rxq'[p]>>, arrived)
      BY <1>1 DEF OrderAt
    <2>4. CASE p = r
      <3>1. Burst(p) = <<>> /\ Burst(p)' = Moved(<<>>, q, n)
        BY <1>1, <1>2, <1>3, <1>4, <2>4, BurstGoes
      <3>2. rxq'[p] = Kept(q, n) /\ rxq[p] = q
        BY <1>1, <1>2, <1>3, <2>1, <2>4 DEF Queues
      <3> HIDE DEF q, r
      <3>3. Ordered(<<sent[d], txq[d], tx_buffer[d], <<>>, q>>, arrived)
        BY <2>2, <3>1, <3>2
      <3>4. Ordered(<<sent[d], txq[d], tx_buffer[d], Moved(<<>>, q, n), Kept(q, n)>>, arrived)
        BY <1>2, <3>3, OrderedMoves
      <3> QED
        BY <2>3, <3>1, <3>2, <3>4
    <2>5. CASE p # r
      <3>1. Burst(p)' = Burst(p)
        BY <1>1, <1>2, <1>4, <2>5, BurstGoes
      <3>2. rxq'[p] = rxq[p]
        BY <1>1, <1>2, <2>1, <2>5 DEF Queues
      <3> QED
        BY <2>2, <2>3, <3>1, <3>2
    <2> QED
      BY <2>4, <2>5
  <1> QED
    BY <1>1, <1>4, OrderInvFrom

LEMMA OrderInvTurn ==
    ASSUME RunInv, RunInv', OrderInv, NEW c \in LcoreIds, Turn(c)
    PROVE  OrderInv'
  <1>1. /\ UNCHANGED <<cvars, rxq, sent, arrived>> /\ ConfigInv /\ RunType
        /\ tx_buffer \in Queues /\ core[c].i = 0
    BY DEF Turn, RunInv, RunType
  <1>2. Goes(c, 1, <<>>)
    BY <1>1, TurnGoes
  <1>3. PICK S \in SUBSET PortIds : Flush(S, tx_buffer) /\ CountFlush(S, tx_buffer)
    BY <1>1, TurnFlushes
  <1>4. ASSUME Launched, cmd.batch, NEW p \in Enabled, NEW d, d = dst_ports[p], OrderAt(p, d)
        PROVE  OrderAt(p, d)'
    <2>1. d \in PortIds
      BY <1>4, PairTypes
    <2>2. FlushedAt(S, tx_buffer, d)
      BY <1>1, <1>3, <2>1, FlushFacts
    <2>3. ~(core[c].i > 0)
      BY <1>1
    <2>4. Burst(p)' = Burst(p)
      BY <1>1, <1>2, <1>4, <2>3, BurstGoes
    <2>5. Ordered(<<sent[d], txq[d], tx_buffer[d], Burst(p), rxq[p]>>, arrived)
      BY <1>4 DEF OrderAt
    <2>6. Ordered(<<sent[d], txq'[d], tx_buffer'[d], Burst(p), rxq[p]>>, arrived)
      BY <2>2, <2>5, OrderedFlush
    <2> QED
      BY <1>1, <2>4, <2>6 DEF OrderAt
  <1> QED
    BY <1>1, <1>4, OrderInvFrom

LEMMA OrderInvLeave ==
    ASSUME RunInv, RunInv', OrderInv, NEW c \in LcoreIds, Leave(c)
    PROVE  OrderInv'
  <1>1. /\ UNCHANGED <<cvars, rxq, sent, arrived, txq, tx_buffer>> /\ ConfigInv /\ RunType
        /\ core[c].i = 0
    BY DEF Leave, RunInv
  <1>2. Goes(c, -1, <<>>)
    BY <1>1, LeaveGoes
  <1>3. ASSUME Launched, cmd.batch, NEW p \in Enabled, NEW d, d = dst_ports[p], OrderAt(p, d)
        PROVE  OrderAt(p, d)'
    <2>1. ~(core[c].i > 0)
      BY <1>1
    <2>2. Burst(p)' = Burst(p)
      BY <1>1, <1>2, <1>3, <2>1, BurstGoes
    <2> QED
      BY <1>1, <1>3, <2>2 DEF OrderAt
  <1> QED
    BY <1>1, <1>3, OrderInvFrom

LEMMA OrderInvForward ==
    ASSUME RunInv, RunInv', OrderInv, NEW c \in LcoreIds, Forwards(c)
    PROVE  OrderInv'
  <1>1. UNCHANGED <<cvars, rxq, sent, arrived>> /\ ConfigInv /\ RunType /\ InHand(c) /\ Done(c)
    BY DEF Forwards, RunInv
  <1> DEFINE k == core[c].pkts
             r == Port(c)
  <1>2. PICK j \in Int : /\ Launched /\ core[c].i > 0 /\ k # <<>>
                         /\ Head(k) \in Nat /\ Goes(c, j, Tail(k))
    BY <1>1, DoneGoes
  <1>3. k \in Seq(Nat) /\ r \in PortIds /\ r \in Enabled /\ dst_ports[r] \in PortIds
    BY <1>1, <1>2, CoreFacts
  <1>4. ASSUME Launched, cmd.batch, NEW p \in Enabled, NEW d, d = dst_ports[p], OrderAt(p, d)
        PROVE  OrderAt(p, d)'
    <2>1. d \in PortIds
      BY <1>4, PairTypes
    <2>2. PICK e, S, buf : e \in PortIds /\ e = dst_ports[r] /\ Sends(c, e, S, buf)
      BY <1>3, <1>4 DEF Forwards
    <2>3. S \in SUBSET PortIds /\ buf \in Queues /\ Flush(S, buf) /\ CountFlush(S, buf)
      BY <2>2 DEF Sends
    <2>4. FlushedAt(S, buf, d)
      BY <1>1, <2>1, <2>3, FlushFacts
    <2>5. Ordered(<<sent[d], txq[d], tx_buffer[d], Burst(p), rxq[p]>>, arrived)
      BY <1>4 DEF OrderAt
    <2>6. Ordered(<<sent[d], txq[d], buf[d], Burst(p)', rxq[p]>>, arrived)
      <3>1. CASE p = r
        <4>1. Burst(p) = k /\ Burst(p)' = Tail(k)
          BY <1>1, <1>2, <1>4, <3>1, BurstGoes
        <4>2. buf[d] = Append(tx_buffer[d], Head(k))
          BY <1>4, <2>2, <3>1 DEF Sends
        <4>3. tx_buffer[d] \in Seq(Nat)
          BY <2>5, OrderedPieces
        <4> HIDE DEF k, r
        <4>4. buf[d] = Moved(tx_buffer[d], k, 1) /\ Tail(k) = Kept(k, 1) /\ 1 <= Len(k) /\ 1 \in Nat
          BY <1>2, <1>3, <4>2, <4>3, MovedOne
        <4>5. Ordered(<<sent[d], txq[d], tx_buffer[d], k, rxq[p]>>, arrived)
          BY <2>5, <4>1
        <4>6. Ordered(<<sent[d], txq[d], Moved(tx_buffer[d], k, 1), Kept(k, 1), rxq[p]>>, arrived)
          BY <4>4, <4>5, OrderedMoves
        <4> QED
          BY <4>1, <4>4, <4>6
      <3>2. CASE p # r
        <4>1. Burst(p)' = Burst(p)
          BY <1>1, <1>2, <1>4, <3>2, BurstGoes
        <4>2. Paired(Enabled)
          BY <1>4 DEF RunInv, ConfigInv, WhenLaunched
        <4>3. d # e
          BY <1>3, <1>4, <2>2, <3>2, <4>2 DEF Paired
        <4>4. buf[d] = tx_buffer[d]
          BY <2>1, <2>2, <4>3 DEF Sends
        <4> QED
          BY <2>5, <4>1, <4>4
      <3> QED
        BY <3>1, <3>2
    <2>7. Ordered(<<sent[d], txq'[d], tx_buffer'[d], Burst(p)', rxq[p]>>, arrived)
      BY <2>4, <2>6, OrderedFlush
    <2> QED
      BY <1>1, <2>7 DEF OrderAt
  <1> QED
    BY <1>1, <1>4, OrderInvFrom

LEMMA OrderInvStep ==
    ASSUME RunInv, OrderInv, [Next]_vars
    PROVE  OrderInv'
  <1>1. RunInv'
    BY RunInvStep
  <1>2. CASE Configure
    <2> SUFFICES ASSUME Launched', NEW p \in Enabled', NEW d, d = dst_ports'[p]
                 PROVE  OrderAt(p, d)'
      BY DEF OrderInv, OrderAt
    <2>1. Idle' /\ RunType'
      BY <1>2, ConfigureKeeps
    <2>2. p \in PortIds /\ d \in PortIds
      BY <1>1 DEF RunInv, ConfigInv, ConfigType, Enabled
    <2>3. Burst(p)' = <<>>
      BY <1>1, <2>1, BurstBegins
    <2>4. sent'[d] = <<>> /\ txq'[d] = <<>> /\ tx_buffer'[d] = <<>> /\ rxq'[p] = <<>>
      BY <2>1, <2>2 DEF Idle, NoPackets
    <2> DEFINE K == << <<>>, <<>>, <<>>, <<>>, <<>> >>
    <2>5. \A i \in 1..5 : K[i] = <<>>
      BY Five
    <2> HIDE DEF K
    <2>6. <<>> \in Seq(Nat) /\ Ascending(<<>>) /\ ToSet(<<>>) = {}
      BY DEF Ascending, ToSet
    <2>7. Ordered(K, arrived')
      BY <2>5, <2>6 DEF Ordered, Before
    <2> QED
      BY <2>3, <2>4, <2>7 DEF OrderAt, K
  <1>3. CASE Still
             /\ \/ UNCHANGED cvars
                \/ /\ pc = "run" /\ pc' \in {"closed", "crashed"}
                   /\ UNCHANGED <<cmd, at, mask, used, dst_ports, last_port, nb_in_mask, rx_lcore, conf>>
    <2>1. /\ Launched' <=> Launched
          /\ Enabled' = Enabled /\ dst_ports' = dst_ports /\ cmd' = cmd /\ conf' = conf
      BY <1>3, SameConfig
    <2>2. UNCHANGED <<core, rxq, txq, tx_buffer, sent, arrived>>
      BY <1>3 DEF Still
    <2>3. ASSUME NEW p PROVE Burst(p)' = Burst(p)
      BY <2>1, <2>2, BurstStill
    <2> QED
      BY <2>1, <2>2, <2>3 DEF OrderInv, OrderAt
  <1>4. ASSUME NEW p \in PortIds, Arrive(p) \/ Transmit(p)
        PROVE  OrderInv'
    BY <1>4, OrderInvArrive, OrderInvTransmit
  <1>5. ASSUME NEW c \in LcoreIds, Leave(c) \/ Turn(c) \/ RxBurst(c) \/ (Forwards(c) /\ RunType')
        PROVE  OrderInv'
    BY <1>1, <1>5, OrderInvLeave, OrderInvTurn, OrderInvRxBurst, OrderInvForward
  <1> QED
    BY <1>2, <1>3, <1>4, <1>5, StepKinds

\* In the batch build no packet is doubled, and none overtakes another that came in
\* at the same port, on the way to the wire of the partner, however many ports and
\* cores there are and wherever drains and full queues cut packets out.
THEOREM NoOvertaking == Spec => []InOrder
  <1>1. Init => RunInv /\ OrderInv
    <2> SUFFICES ASSUME Init PROVE RunInv /\ OrderInv
      OBVIOUS
    <2>1. ~Launched
      BY DEF Init, ConfigInit, Launched
    <2> QED
      BY <2>1, RunInvInit DEF OrderInv
  <1>2. RunInv /\ OrderInv /\ [Next]_vars => (RunInv /\ OrderInv)'
    BY RunInvStep, OrderInvStep
  <1>3. RunInv /\ OrderInv => InOrder
    <2> SUFFICES ASSUME OrderInv, Running, cmd.batch, NEW p \in Enabled, NEW d, d = dst_ports[p]
                 PROVE  IsSorted(sent[d] \o txq[d] \o tx_buffer[d] \o Burst(p) \o rxq[p], <)
      BY DEF InOrder
    <2>1. Ordered(<<sent[d], txq[d], tx_buffer[d], Burst(p), rxq[p]>>, arrived)
      BY DEF OrderInv, OrderAt, Running, Launched
    <2> QED
      BY <2>1, OrderedSorted
  <1> QED
    BY <1>1, <1>2, <1>3, PTL DEF Spec


---------------------------------------------------------------------------
(* Where the packets are. *)

\* What every place holds.
AllPlaces ==
    ({"rxq", "tx_buffer", "txq", "sent"} \X PortIds) \cup ({"core"} \X LcoreIds)
    \cup {<<"freed">>, <<"unhandled">>}

Boxes(r, k, b, t, s, f, u) ==
    [x \in AllPlaces |->
        IF x[1] = "rxq" THEN ToSet(r[x[2]])
        ELSE IF x[1] = "core" THEN ToSet(k[x[2]].pkts)
        ELSE IF x[1] = "tx_buffer" THEN ToSet(b[x[2]])
        ELSE IF x[1] = "txq" THEN ToSet(t[x[2]])
        ELSE IF x[1] = "sent" THEN ToSet(s[x[2]])
        ELSE IF x[1] = "freed" THEN f ELSE u]

\* H holds the packets of F, each at one place.
Exact(F, H) ==
    /\ \A x \in AllPlaces : H[x] \subseteq F
    /\ \A m \in F : \E b \in AllPlaces : \A x \in AllPlaces : m \in H[x] <=> x = b

Distinct(s) == \A i, j \in 1..Len(s) : s[i] = s[j] => i = j

\* No queue of r, k, b, t and s holds a packet twice.
NoDoubles(r, k, b, t, s) ==
    /\ \A p \in PortIds : Distinct(r[p]) /\ Distinct(b[p]) /\ Distinct(t[p]) /\ Distinct(s[p])
    /\ \A c \in LcoreIds : Distinct(k[c].pkts)

MbufInv ==
    /\ NoDoubles(rxq, core, tx_buffer, txq, sent)
    /\ Exact(1..arrived, Boxes(rxq, core, tx_buffer, txq, sent, freed, unhandled))
    /\ cmd.batch => unhandled = {}

LEMMA PlaceKinds ==
    ASSUME NEW x \in AllPlaces
    PROVE  \/ \E p \in PortIds : x = <<"rxq", p>>
           \/ \E p \in PortIds : x = <<"tx_buffer", p>>
           \/ \E p \in PortIds : x = <<"txq", p>>
           \/ \E p \in PortIds : x = <<"sent", p>>
           \/ \E c \in LcoreIds : x = <<"core", c>>
           \/ x = <<"freed">>
           \/ x = <<"unhandled">>
  BY DEF AllPlaces

LEMMA PlacesAre ==
    /\ \A p \in PortIds : /\ <<"rxq", p>> \in AllPlaces /\ <<"tx_buffer", p>> \in AllPlaces
                          /\ <<"txq", p>> \in AllPlaces /\ <<"sent", p>> \in AllPlaces
    /\ \A c \in LcoreIds : <<"core", c>> \in AllPlaces
    /\ <<"freed">> \in AllPlaces /\ <<"unhandled">> \in AllPlaces
  BY DEF AllPlaces

LEMMA BoxAt ==
    ASSUME NEW r, NEW k, NEW b, NEW t, NEW s, NEW f, NEW u, NEW H, H = Boxes(r, k, b, t, s, f, u)
    PROVE  /\ \A p \in PortIds : /\ H[<<"rxq", p>>] = ToSet(r[p])
                                 /\ H[<<"tx_buffer", p>>] = ToSet(b[p])
                                 /\ H[<<"txq", p>>] = ToSet(t[p])
                                 /\ H[<<"sent", p>>] = ToSet(s[p])
           /\ \A c \in LcoreIds : H[<<"core", c>>] = ToSet(k[c].pkts)
           /\ H[<<"freed">>] = f /\ H[<<"unhandled">>] = u
  <1>1. ASSUME NEW p \in PortIds
        PROVE  /\ H[<<"rxq", p>>] = ToSet(r[p])
               /\ H[<<"tx_buffer", p>>] = ToSet(b[p])
               /\ H[<<"txq", p>>] = ToSet(t[p])
               /\ H[<<"sent", p>>] = ToSet(s[p])
    BY <1>1, PlacesAre DEF Boxes
  <1>2. ASSUME NEW c \in LcoreIds PROVE H[<<"core", c>>] = ToSet(k[c].pkts)
    BY <1>2, PlacesAre DEF Boxes
  <1>3. H[<<"freed">>] = f /\ H[<<"unhandled">>] = u
    BY PlacesAre DEF Boxes
  <1> QED
    BY <1>1, <1>2, <1>3

\* G is H with the packets X moved from place a to place b.
Carried(H, G, X, a, b) ==
    /\ a \in AllPlaces /\ b \in AllPlaces /\ a # b /\ X \subseteq H[a]
    /\ G[a] = H[a] \ X
    /\ G[b] = H[b] \cup X
    /\ \A x \in AllPlaces : x # a /\ x # b => G[x] = H[x]

LEMMA CarriedExact ==
    ASSUME NEW F, NEW H, NEW G, NEW X, NEW a, NEW b, Exact(F, H), Carried(H, G, X, a, b)
    PROVE  Exact(F, G)
  <1>1. ASSUME NEW x \in AllPlaces PROVE G[x] \subseteq F
    <2>1. H[x] \subseteq F /\ H[a] \subseteq F
      BY <1>1 DEF Exact, Carried
    <2> QED
      BY <1>1, <2>1 DEF Carried
  <1>2. ASSUME NEW m \in F
        PROVE  \E e \in AllPlaces : \A x \in AllPlaces : m \in G[x] <=> x = e
    <2>1. PICK e \in AllPlaces : \A x \in AllPlaces : m \in H[x] <=> x = e
      BY <1>2 DEF Exact
    <2>2. CASE m \in X
      <3>1. e = a
        BY <2>1, <2>2 DEF Carried
      <3>2. \A x \in AllPlaces : m \in G[x] <=> x = b
        BY <2>1, <2>2, <3>1 DEF Carried
      <3> QED
        BY <3>2 DEF Carried
    <2>3. CASE m \notin X
      <3>1. \A x \in AllPlaces : m \in G[x] <=> x = e
        BY <2>1, <2>3 DEF Carried
      <3> QED
        BY <3>1
    <2> QED
      BY <2>2, <2>3
  <1> QED
    BY <1>1, <1>2 DEF Exact

\* Two places have nothing in common.
LEMMA ExactApart ==
    ASSUME NEW F, NEW H, Exact(F, H), NEW a \in AllPlaces, NEW b \in AllPlaces, a # b
    PROVE  H[a] \cap H[b] = {}
  <1>1. ASSUME NEW m \in H[a], m \in H[b] PROVE FALSE
    BY <1>1 DEF Exact
  <1> QED
    BY <1>1

\* The packets at the front of a queue are moved to the end of another.
Foremost(t, n) == {t[i] : i \in 1..n}

LEMMA MovedDistinct ==
    ASSUME NEW s \in Seq(Nat), NEW t \in Seq(Nat), NEW n \in Nat, n <= Len(t),
           Distinct(s), Distinct(t), ToSet(s) \cap ToSet(t) = {}
    PROVE  /\ Distinct(Moved(s, t, n)) /\ Distinct(Kept(t, n))
           /\ ToSet(Moved(s, t, n)) = ToSet(s) \cup Foremost(t, n)
           /\ ToSet(Kept(t, n)) = ToSet(t) \ Foremost(t, n)
           /\ Foremost(t, n) \subseteq ToSet(t)
  <1> DEFINE u == Moved(s, t, n)
             v == Kept(t, n)
  <1> HIDE DEF u, v
  <1>1. /\ Len(u) = Len(s) + n /\ Len(v) = Len(t) - n
        /\ \A i \in 1..Len(s) : u[i] = s[i]
        /\ \A i \in 1..n : u[Len(s) + i] = t[i]
        /\ \A i \in 1..(Len(t) - n) : v[i] = t[n + i]
    BY MovedFacts, SMTT(30) DEF u, v
  <1>2. Len(s) \in Nat /\ Len(t) \in Nat
    OBVIOUS
  <1>3. /\ \A i \in 1..Len(s) : s[i] \in ToSet(s)
        /\ \A i \in 1..Len(t) : t[i] \in ToSet(t)
        /\ \A x \in ToSet(t) : \E i \in 1..Len(t) : t[i] = x
    BY ToSetMember
  <1>4. /\ \A x \in ToSet(u) : x \in ToSet(s) \/ \E i \in 1..n : x = t[i] /\ x \in ToSet(t)
        /\ ToSet(s) \subseteq ToSet(u)
        /\ \A i \in 1..n : t[i] \in ToSet(u)
    BY MovedSets DEF u
  <1>5. /\ \A x \in ToSet(v) : \E i \in (n + 1)..Len(t) : x = t[i] /\ x \in ToSet(t)
        /\ \A i \in (n + 1)..Len(t) : t[i] \in ToSet(v)
    BY MovedSets DEF v
  <1>6. Foremost(t, n) \subseteq ToSet(t)
    <2>1. 1..n \subseteq 1..Len(t)
      BY <1>2
    <2> QED
      BY <1>3, <2>1 DEF Foremost
  <1>7. ToSet(u) = ToSet(s) \cup Foremost(t, n)
    BY <1>4 DEF Foremost
  <1>8. ToSet(v) = ToSet(t) \ Foremost(t, n)
    <2>1. ASSUME NEW x \in ToSet(v) PROVE x \in ToSet(t) /\ x \notin Foremost(t, n)
      <3>1. PICK i \in (n + 1)..Len(t) : x = t[i] /\ x \in ToSet(t)
        BY <1>5, <2>1
      <3>2. ASSUME NEW j \in 1..n, x = t[j] PROVE FALSE
        <4>1. i \in 1..Len(t) /\ j \in 1..Len(t) /\ i # j
          BY <1>2, <3>1, <3>2
        <4> QED
          BY <3>1, <3>2, <4>1 DEF Distinct
      <3> QED
        BY <3>1, <3>2 DEF Foremost
    <2>2. ASSUME NEW x \in ToSet(t), x \notin Foremost(t, n) PROVE x \in ToSet(v)
      <3>1. PICK i \in 1..Len(t) : t[i] = x
        BY <1>3, <2>2
      <3>2. i \notin 1..n
        BY <2>2, <3>1 DEF Foremost
      <3>3. i \in (n + 1)..Len(t)
        BY <1>2, <3>1, <3>2
      <3> QED
        BY <1>5, <3>1, <3>3
    <2> QED
      BY <2>1, <2>2
  <1>9. ASSUME NEW i \in 1..Len(u), NEW j \in 1..Len(u), u[i] = u[j] PROVE i = j
    <2>1. ASSUME NEW h \in 1..Len(u)
          PROVE  \/ h \in 1..Len(s) /\ u[h] = s[h] /\ u[h] \in ToSet(s)
                 \/ h - Len(s) \in 1..Len(t) /\ u[h] = t[h - Len(s)] /\ u[h] \in ToSet(t)
      <3>1. CASE h \in 1..Len(s)
        BY <1>1, <1>3, <3>1
      <3>2. CASE h \notin 1..Len(s)
        <4>1. h - Len(s) \in 1..n /\ h - Len(s) \in 1..Len(t) /\ Len(s) + (h - Len(s)) = h
          BY <1>1, <1>2, <2>1, <3>2
        <4>2. u[h] = t[h - Len(s)]
          BY <1>1, <4>1
        <4> QED
          BY <1>3, <4>1, <4>2
      <3> QED
        BY <3>1, <3>2
    <2>2. CASE i \in 1..Len(s) /\ u[i] = s[i] /\ u[i] \in ToSet(s)
      <3>1. j \in 1..Len(s) /\ u[j] = s[j]
        BY <1>9, <2>1, <2>2
      <3> QED
        BY <1>9, <2>2, <3>1 DEF Distinct
    <2>3. CASE i - Len(s) \in 1..Len(t) /\ u[i] = t[i - Len(s)] /\ u[i] \in ToSet(t)
      <3>1. j - Len(s) \in 1..Len(t) /\ u[j] = t[j - Len(s)]
        BY <1>9, <2>1, <2>3
      <3>2. i - Len(s) = j - Len(s)
        BY <1>9, <2>3, <3>1 DEF Distinct
      <3> QED
        BY <1>1, <1>2, <1>9, <3>2
    <2> QED
      BY <1>9, <2>1, <2>2, <2>3
  <1>10. ASSUME NEW i \in 1..Len(v), NEW j \in 1..Len(v), v[i] = v[j] PROVE i = j
    <2>1. n + i \in 1..Len(t) /\ n + j \in 1..Len(t)
      BY <1>1, <1>2, <1>10
    <2>2. v[i] = t[n + i] /\ v[j] = t[n + j]
      BY <1>1, <1>10
    <2>3. n + i = n + j
      BY <1>10, <2>1, <2>2 DEF Distinct
    <2> QED
      BY <1>1, <1>2, <1>10, <2>3
  <1>11. Distinct(u) /\ Distinct(v)
    BY <1>9, <1>10 DEF Distinct
  <1> QED
    BY <1>6, <1>7, <1>8, <1>11 DEF u, v


\* G is H with the buffers of S flushed: T[q] of the buffer of port q goes to its
\* transmit queue, the rest is freed.
Spread(S, T, H, G) ==
    /\ S \subseteq PortIds
    /\ \A q \in PortIds : T[q] \subseteq H[<<"tx_buffer", q>>]
    /\ \A q \in PortIds : G[<<"tx_buffer", q>>] = IF q \in S THEN {} ELSE H[<<"tx_buffer", q>>]
    /\ \A q \in PortIds : G[<<"txq", q>>] = IF q \in S THEN H[<<"txq", q>>] \cup T[q] ELSE H[<<"txq", q>>]
    /\ \A m : m \in G[<<"freed">>] <=>
                 m \in H[<<"freed">>] \/ \E q \in S : m \in H[<<"tx_buffer", q>>] /\ m \notin T[q]
    /\ \A q \in PortIds : G[<<"rxq", q>>] = H[<<"rxq", q>>] /\ G[<<"sent", q>>] = H[<<"sent", q>>]
    /\ \A c \in LcoreIds : G[<<"core", c>>] = H[<<"core", c>>]
    /\ G[<<"unhandled">>] = H[<<"unhandled">>]

LEMMA SpreadExact ==
    ASSUME NEW S, NEW T, NEW F, NEW H, NEW G, Spread(S, T, H, G), Exact(F, H)
    PROVE  Exact(F, G)
  <1>1. ASSUME NEW x \in AllPlaces PROVE G[x] \subseteq F
    <2>1. \A y \in AllPlaces : H[y] \subseteq F
      BY DEF Exact
    <2>2. ASSUME NEW p \in PortIds
          PROVE  /\ G[<<"txq", p>>] \subseteq F /\ G[<<"tx_buffer", p>>] \subseteq F
                 /\ G[<<"rxq", p>>] \subseteq F /\ G[<<"sent", p>>] \subseteq F
      <3>1. /\ H[<<"txq", p>>] \subseteq F /\ H[<<"tx_buffer", p>>] \subseteq F
            /\ H[<<"rxq", p>>] \subseteq F /\ H[<<"sent", p>>] \subseteq F
        BY <2>1, <2>2, PlacesAre
      <3> QED
        BY <2>2, <3>1 DEF Spread
    <2>3. G[<<"freed">>] \subseteq F
      <3>1. ASSUME NEW m \in G[<<"freed">>] PROVE m \in F
        <4>1. m \in H[<<"freed">>] \/ \E q \in PortIds : m \in H[<<"tx_buffer", q>>]
          BY <3>1 DEF Spread
        <4> QED
          BY <2>1, <4>1, PlacesAre
      <3> QED
        BY <3>1
    <2>4. /\ \A c \in LcoreIds : G[<<"core", c>>] \subseteq F
          /\ G[<<"unhandled">>] \subseteq F
      <3>1. /\ \A c \in LcoreIds : H[<<"core", c>>] \subseteq F
            /\ H[<<"unhandled">>] \subseteq F
        BY <2>1, PlacesAre
      <3> QED
        BY <3>1 DEF Spread
    <2>5. \/ \E p \in PortIds : x = <<"rxq", p>> \/ x = <<"tx_buffer", p>> \/ x = <<"txq", p>> \/ x = <<"sent", p>>
          \/ \E c \in LcoreIds : x = <<"core", c>>
          \/ x = <<"freed">> \/ x = <<"unhandled">>
      BY <1>1, PlaceKinds
    <2> QED
      BY <2>2, <2>3, <2>4, <2>5
  <1>2. ASSUME NEW m \in F
        PROVE  \E b \in AllPlaces : \A x \in AllPlaces : m \in G[x] <=> x = b
    <2>1. PICK e \in AllPlaces : \A x \in AllPlaces : m \in H[x] <=> x = e
      BY <1>2 DEF Exact
    <2>2. CASE \E p \in S : e = <<"tx_buffer", p>> /\ m \in T[p]
      <3>1. PICK p \in S : e = <<"tx_buffer", p>> /\ m \in T[p]
        BY <2>2
      <3>2. p \in PortIds /\ <<"txq", p>> \in AllPlaces
        BY <3>1, PlacesAre DEF Spread
      <3>3. \A q \in PortIds : m \in T[q] => q = p
        BY <2>1, <3>1, PlacesAre DEF Spread
      <3>4. ASSUME NEW x \in AllPlaces PROVE m \in G[x] <=> x = <<"txq", p>>
        <4>1. ASSUME NEW q \in PortIds
              PROVE  /\ m \notin G[<<"tx_buffer", q>>] /\ m \notin G[<<"rxq", q>>] /\ m \notin G[<<"sent", q>>]
                     /\ m \in G[<<"txq", q>>] <=> q = p
          <5>1. /\ m \notin H[<<"rxq", q>>] /\ m \notin H[<<"sent", q>>] /\ m \notin H[<<"txq", q>>]
                /\ m \in H[<<"tx_buffer", q>>] <=> q = p
            BY <2>1, <3>1, <4>1, PlacesAre
          <5> QED
            BY <3>1, <3>3, <4>1, <5>1 DEF Spread
        <4>2. ASSUME NEW c \in LcoreIds PROVE m \notin G[<<"core", c>>]
          BY <2>1, <3>1, <4>2, PlacesAre DEF Spread
        <4>3. m \notin G[<<"unhandled">>] /\ m \notin G[<<"freed">>]
          <5>1. m \notin H[<<"freed">>] /\ m \notin H[<<"unhandled">>]
            BY <2>1, <3>1, PlacesAre
          <5>2. \A q \in S : m \in H[<<"tx_buffer", q>>] => q = p
            BY <2>1, <3>1, PlacesAre, ZenonT(60) DEF Spread
          <5> QED
            BY <3>1, <5>1, <5>2 DEF Spread
        <4>4. CASE \E q \in PortIds : x = <<"txq", q>>
          <5>1. PICK q \in PortIds : x = <<"txq", q>>
            BY <4>4
          <5>2. x = <<"txq", p>> <=> q = p
            BY <5>1
          <5> QED
            BY <4>1, <5>1, <5>2
        <4>5. CASE ~\E q \in PortIds : x = <<"txq", q>>
          <5>1. x # <<"txq", p>>
            BY <3>2, <4>5
          <5> QED
            BY <3>4, <4>1, <4>2, <4>3, <4>5, <5>1, PlaceKinds
        <4> QED
          BY <4>4, <4>5
      <3> QED
        BY <3>2, <3>4
    <2>3. CASE \E p \in S : e = <<"tx_buffer", p>> /\ m \notin T[p]
      <3>1. PICK p \in S : e = <<"tx_buffer", p>> /\ m \notin T[p]
        BY <2>3
      <3>2. p \in PortIds /\ <<"freed">> \in AllPlaces
        BY <3>1, PlacesAre DEF Spread
      <3>3. \A q \in PortIds : m \notin T[q]
        BY <2>1, <3>1, PlacesAre DEF Spread
      <3>4. ASSUME NEW x \in AllPlaces PROVE m \in G[x] <=> x = <<"freed">>
        <4>1. ASSUME NEW q \in PortIds
              PROVE  /\ m \notin G[<<"tx_buffer", q>>] /\ m \notin G[<<"rxq", q>>] /\ m \notin G[<<"sent", q>>]
                     /\ m \notin G[<<"txq", q>>]
          <5>1. /\ m \notin H[<<"rxq", q>>] /\ m \notin H[<<"sent", q>>] /\ m \notin H[<<"txq", q>>]
                /\ m \in H[<<"tx_buffer", q>>] <=> q = p
            BY <2>1, <3>1, <4>1, PlacesAre
          <5> QED
            BY <3>1, <3>3, <4>1, <5>1 DEF Spread
        <4>2. ASSUME NEW c \in LcoreIds PROVE m \notin G[<<"core", c>>]
          BY <2>1, <3>1, <4>2, PlacesAre DEF Spread
        <4>3. m \notin G[<<"unhandled">>] /\ m \in G[<<"freed">>]
          <5>1. m \notin H[<<"unhandled">>] /\ m \in H[<<"tx_buffer", p>>]
            BY <2>1, <3>1, PlacesAre
          <5> QED
            BY <3>1, <5>1 DEF Spread
        <4> QED
          BY <3>4, <4>1, <4>2, <4>3, PlaceKinds
      <3> QED
        BY <3>2, <3>4
    <2>4. CASE ~\E p \in S : e = <<"tx_buffer", p>>
      <3>1. \A q \in S : m \notin H[<<"tx_buffer", q>>] /\ m \notin T[q]
        BY <2>1, <2>4, PlacesAre DEF Spread
      <3>2. ASSUME NEW x \in AllPlaces PROVE m \in G[x] <=> m \in H[x]
        <4>1. ASSUME NEW q \in PortIds
              PROVE  /\ m \in G[<<"tx_buffer", q>>] <=> m \in H[<<"tx_buffer", q>>]
                     /\ m \in G[<<"txq", q>>] <=> m \in H[<<"txq", q>>]
          BY <3>1, <4>1 DEF Spread
        <4>2. m \in G[<<"freed">>] <=> m \in H[<<"freed">>]
          BY <3>1 DEF Spread
        <4>3. CASE \/ \E p \in PortIds : x = <<"rxq", p>> \/ x = <<"sent", p>>
                   \/ \E c \in LcoreIds : x = <<"core", c>>
                   \/ x = <<"unhandled">>
          BY <4>3 DEF Spread
        <4> QED
          BY <3>2, <4>1, <4>2, <4>3, PlaceKinds
      <3> QED
        BY <2>1, <3>2
    <2> QED
      BY <2>2, <2>3, <2>4
  <1> QED
    BY <1>1, <1>2 DEF Exact


LEMMA NoneIn ==
    /\ <<>> \in Seq(Nat) /\ ToSet(<<>>) = {} /\ Distinct(<<>>)
  BY DEF ToSet, Distinct

\* A flush of one port: what it takes from the buffer, and what it leaves.
LEMMA FlushOne ==
    ASSUME RunType, NEW S \in SUBSET PortIds, NEW buf \in Queues, Flush(S, buf), CountFlush(S, buf),
           NEW p \in PortIds, Distinct(txq[p]), Distinct(buf[p]), ToSet(txq[p]) \cap ToSet(buf[p]) = {}
    PROVE  LET X == Foremost(buf[p], Accepted(p, buf)) IN
           /\ X \subseteq ToSet(buf[p])
           /\ ToSet(txq'[p]) = IF p \in S THEN ToSet(txq[p]) \cup X ELSE ToSet(txq[p])
           /\ ToSet(tx_buffer'[p]) = IF p \in S THEN {} ELSE ToSet(buf[p])
           /\ Distinct(txq'[p]) /\ Distinct(tx_buffer'[p])
           /\ ToSet(SubSeq(buf[p], Accepted(p, buf) + 1, Len(buf[p]))) = ToSet(buf[p]) \ X
  <1> DEFINE a == Accepted(p, buf)
             b == buf[p]
             q == txq[p]
  <1>1. a \in Nat /\ a <= Len(b) /\ b \in Seq(Nat) /\ q \in Seq(Nat)
    BY AcceptedRange
  <1>2. /\ p \in S => txq'[p] = Moved(q, b, a) /\ tx_buffer'[p] = <<>>
        /\ p \notin S => txq'[p] = q /\ tx_buffer'[p] = b
    BY DEF Flush, Moved
  <1>3. SubSeq(b, a + 1, Len(b)) = Kept(b, a)
    BY DEF Kept
  <1> HIDE DEF a, b, q
  <1>4. /\ Distinct(Moved(q, b, a))
        /\ ToSet(Moved(q, b, a)) = ToSet(q) \cup Foremost(b, a)
        /\ ToSet(Kept(b, a)) = ToSet(b) \ Foremost(b, a)
        /\ Foremost(b, a) \subseteq ToSet(b)
    <2>1. Distinct(q) /\ Distinct(b) /\ ToSet(q) \cap ToSet(b) = {}
      BY DEF q, b
    <2> QED
      BY <1>1, <2>1, MovedDistinct
  <1>5. ToSet(SubSeq(b, a + 1, Len(b))) = ToSet(b) \ Foremost(b, a)
    BY <1>3, <1>4
  <1>6. CASE p \in S
    <2>1. txq'[p] = Moved(q, b, a) /\ tx_buffer'[p] = <<>>
      BY <1>2, <1>6
    <2> QED
      BY <1>4, <1>5, <1>6, <2>1, NoneIn DEF a, b, q
  <1>7. CASE p \notin S
    <2>1. txq'[p] = q /\ tx_buffer'[p] = b
      BY <1>2, <1>7
    <2> QED
      BY <1>4, <1>5, <1>7, <2>1 DEF a, b, q
  <1> QED
    BY <1>6, <1>7

LEMMA FlushExact ==
    ASSUME RunType, NEW S \in SUBSET PortIds, NEW buf \in Queues, Flush(S, buf), CountFlush(S, buf),
           NEW r, NEW k, NEW s, NEW u, NEW F,
           NoDoubles(r, k, buf, txq, s), Exact(F, Boxes(r, k, buf, txq, s, freed, u))
    PROVE  /\ NoDoubles(r, k, tx_buffer', txq', s)
           /\ Exact(F, Boxes(r, k, tx_buffer', txq', s, freed', u))
  <1> DEFINE H == Boxes(r, k, buf, txq, s, freed, u)
             G == Boxes(r, k, tx_buffer', txq', s, freed', u)
             T == [p \in PortIds |-> Foremost(buf[p], Accepted(p, buf))]
  <1> HIDE DEF H, G
  <1>1. Exact(F, H)
    BY DEF H
  <1>2. /\ \A p \in PortIds : /\ H[<<"rxq", p>>] = ToSet(r[p])
                              /\ H[<<"tx_buffer", p>>] = ToSet(buf[p])
                              /\ H[<<"txq", p>>] = ToSet(txq[p])
                              /\ H[<<"sent", p>>] = ToSet(s[p])
        /\ \A c \in LcoreIds : H[<<"core", c>>] = ToSet(k[c].pkts)
        /\ H[<<"freed">>] = freed /\ H[<<"unhandled">>] = u
    BY BoxAt DEF H
  <1>3. /\ \A p \in PortIds : /\ G[<<"rxq", p>>] = ToSet(r[p])
                              /\ G[<<"tx_buffer", p>>] = ToSet(tx_buffer'[p])
                              /\ G[<<"txq", p>>] = ToSet(txq'[p])
                              /\ G[<<"sent", p>>] = ToSet(s[p])
        /\ \A c \in LcoreIds : G[<<"core", c>>] = ToSet(k[c].pkts)
        /\ G[<<"freed">>] = freed' /\ G[<<"unhandled">>] = u
    BY BoxAt DEF G
  <1>4. ASSUME NEW p \in PortIds
        PROVE  Distinct(txq[p]) /\ Distinct(buf[p]) /\ ToSet(txq[p]) \cap ToSet(buf[p]) = {}
    <2>1. <<"txq", p>> \in AllPlaces /\ <<"tx_buffer", p>> \in AllPlaces /\ <<"txq", p>> # <<"tx_buffer", p>>
      BY <1>4, PlacesAre
    <2>2. H[<<"txq", p>>] \cap H[<<"tx_buffer", p>>] = {}
      BY <1>1, <2>1, ExactApart
    <2> QED
      BY <1>2, <1>4, <2>2 DEF NoDoubles
  <1>5. ASSUME NEW p \in PortIds
        PROVE  /\ T[p] \subseteq ToSet(buf[p])
               /\ ToSet(txq'[p]) = IF p \in S THEN ToSet(txq[p]) \cup T[p] ELSE ToSet(txq[p])
               /\ ToSet(tx_buffer'[p]) = IF p \in S THEN {} ELSE ToSet(buf[p])
               /\ Distinct(txq'[p]) /\ Distinct(tx_buffer'[p])
               /\ ToSet(SubSeq(buf[p], Accepted(p, buf) + 1, Len(buf[p]))) = ToSet(buf[p]) \ T[p]
    BY <1>4, <1>5, FlushOne
  <1> HIDE DEF T
  <1>6. NoDoubles(r, k, tx_buffer', txq', s)
    BY <1>5 DEF NoDoubles
  <1>7. \A m : m \in freed' <=> m \in freed \/ \E q \in S : m \in ToSet(buf[q]) /\ m \notin T[q]
    <2>1. freed' = freed \cup UNION {ToSet(SubSeq(buf[p], Accepted(p, buf) + 1, Len(buf[p]))) : p \in S}
      BY DEF Flush
    <2>2. \A p \in S : ToSet(SubSeq(buf[p], Accepted(p, buf) + 1, Len(buf[p]))) = ToSet(buf[p]) \ T[p]
      BY <1>5
    <2> QED
      BY <2>1, <2>2
  <1>8. Spread(S, T, H, G)
    <2>1. ASSUME NEW q \in PortIds
          PROVE  /\ T[q] \subseteq H[<<"tx_buffer", q>>]
                 /\ G[<<"tx_buffer", q>>] = IF q \in S THEN {} ELSE H[<<"tx_buffer", q>>]
                 /\ G[<<"txq", q>>] = IF q \in S THEN H[<<"txq", q>>] \cup T[q] ELSE H[<<"txq", q>>]
      <3>1. /\ H[<<"tx_buffer", q>>] = ToSet(buf[q]) /\ H[<<"txq", q>>] = ToSet(txq[q])
            /\ G[<<"tx_buffer", q>>] = ToSet(tx_buffer'[q]) /\ G[<<"txq", q>>] = ToSet(txq'[q])
        BY <1>2, <1>3, <2>1
      <3>2. /\ T[q] \subseteq ToSet(buf[q])
            /\ ToSet(txq'[q]) = IF q \in S THEN ToSet(txq[q]) \cup T[q] ELSE ToSet(txq[q])
            /\ ToSet(tx_buffer'[q]) = IF q \in S THEN {} ELSE ToSet(buf[q])
        BY <1>5, <2>1
      <3> QED
        BY ONLY <3>1, <3>2
    <2>2. /\ \A q \in PortIds : G[<<"rxq", q>>] = H[<<"rxq", q>>] /\ G[<<"sent", q>>] = H[<<"sent", q>>]
          /\ \A c \in LcoreIds : G[<<"core", c>>] = H[<<"core", c>>]
          /\ G[<<"unhandled">>] = H[<<"unhandled">>]
      BY <1>2, <1>3
    <2>3. \A q \in S : H[<<"tx_buffer", q>>] = ToSet(buf[q])
      BY <1>2
    <2>4. \A m : m \in G[<<"freed">>] <=>
                   m \in H[<<"freed">>] \/ \E q \in S : m \in H[<<"tx_buffer", q>>] /\ m \notin T[q]
      BY <1>2, <1>3, <1>7, <2>3
    <2> QED
      BY <2>1, <2>2, <2>4 DEF Spread
  <1>9. Exact(F, G)
    BY <1>1, <1>8, SpreadExact
  <1> QED
    BY <1>6, <1>9 DEF G


\* G and H agree at place x, unless it is a or b.
Agree(H, G, a, b, x) == x # a /\ x # b => G[x] = H[x]

LEMMA AgreeElsewhere ==
    ASSUME NEW H, NEW G, NEW a, NEW b,
           \A p \in PortIds : /\ Agree(H, G, a, b, <<"rxq", p>>) /\ Agree(H, G, a, b, <<"tx_buffer", p>>)
                              /\ Agree(H, G, a, b, <<"txq", p>>) /\ Agree(H, G, a, b, <<"sent", p>>),
           \A c \in LcoreIds : Agree(H, G, a, b, <<"core", c>>),
           Agree(H, G, a, b, <<"freed">>), Agree(H, G, a, b, <<"unhandled">>)
    PROVE  \A x \in AllPlaces : x # a /\ x # b => G[x] = H[x]
  <1>1. ASSUME NEW x \in AllPlaces PROVE Agree(H, G, a, b, x)
    BY <1>1, PlaceKinds
  <1> QED
    BY <1>1 DEF Agree

Held == Boxes(rxq, core, tx_buffer, txq, sent, freed, unhandled)

LEMMA HeldNow ==
    /\ \A p \in PortIds : /\ Held[<<"rxq", p>>] = ToSet(rxq[p])
                          /\ Held[<<"tx_buffer", p>>] = ToSet(tx_buffer[p])
                          /\ Held[<<"txq", p>>] = ToSet(txq[p])
                          /\ Held[<<"sent", p>>] = ToSet(sent[p])
    /\ \A c \in LcoreIds : Held[<<"core", c>>] = ToSet(core[c].pkts)
    /\ Held[<<"freed">>] = freed /\ Held[<<"unhandled">>] = unhandled
  BY BoxAt DEF Held

LEMMA HeldNext ==
    /\ \A p \in PortIds : /\ Held'[<<"rxq", p>>] = ToSet(rxq'[p])
                          /\ Held'[<<"tx_buffer", p>>] = ToSet(tx_buffer'[p])
                          /\ Held'[<<"txq", p>>] = ToSet(txq'[p])
                          /\ Held'[<<"sent", p>>] = ToSet(sent'[p])
    /\ \A c \in LcoreIds : Held'[<<"core", c>>] = ToSet(core'[c].pkts)
    /\ Held'[<<"freed">>] = freed' /\ Held'[<<"unhandled">>] = unhandled'
  BY BoxAt DEF Held

LEMMA ExactArrive ==
    ASSUME NEW N \in Nat, NEW H, NEW G, Exact(1..N, H), NEW a \in AllPlaces,
           G[a] = H[a] \cup {N + 1}, \A x \in AllPlaces : x # a => G[x] = H[x]
    PROVE  Exact(1..(N + 1), G)
  <1>1. 1..(N + 1) = (1..N) \cup {N + 1} /\ N + 1 \notin 1..N
    OBVIOUS
  <1>2. \A x \in AllPlaces : H[x] \subseteq 1..N
    BY DEF Exact
  <1>3. ASSUME NEW x \in AllPlaces PROVE G[x] \subseteq 1..(N + 1)
    BY <1>1, <1>2, <1>3
  <1>4. ASSUME NEW m \in 1..(N + 1)
        PROVE  \E b \in AllPlaces : \A x \in AllPlaces : m \in G[x] <=> x = b
    <2>1. CASE m = N + 1
      <3>1. \A x \in AllPlaces : m \in G[x] <=> x = a
        BY <1>1, <1>2, <2>1
      <3> QED
        BY <3>1
    <2>2. CASE m \in 1..N
      <3>1. PICK b \in AllPlaces : \A x \in AllPlaces : m \in H[x] <=> x = b
        BY <2>2 DEF Exact
      <3>2. \A x \in AllPlaces : m \in G[x] <=> m \in H[x]
        BY <1>1, <2>2
      <3> QED
        BY <3>1, <3>2
    <2> QED
      BY <1>1, <1>4, <2>1, <2>2
  <1> QED
    BY <1>3, <1>4 DEF Exact

LEMMA AppendDistinct ==
    ASSUME NEW s \in Seq(Nat), NEW m \in Nat, Distinct(s), m \notin ToSet(s)
    PROVE  Distinct(Append(s, m)) /\ ToSet(Append(s, m)) = ToSet(s) \cup {m}
  <1> DEFINE u == Append(s, m)
  <1>1. /\ u \in Seq(Nat) /\ Len(u) = Len(s) + 1 /\ u[Len(s) + 1] = m
        /\ \A i \in 1..Len(s) : u[i] = s[i]
    OBVIOUS
  <1> HIDE DEF u
  <1>2. Len(s) \in Nat
    OBVIOUS
  <1>3. \A i \in 1..Len(s) : s[i] \in ToSet(s)
    BY ToSetMember
  <1>4. \A i \in 1..(Len(s) + 1) : i \in 1..Len(s) \/ i = Len(s) + 1
    BY <1>2
  <1>5. Len(s) + 1 \in 1..Len(u) /\ 1..Len(s) \subseteq 1..Len(u)
    BY <1>1, <1>2
  <1>6. Distinct(u)
    BY <1>1, <1>3, <1>4 DEF Distinct
  <1>7. ToSet(u) = ToSet(s) \cup {m}
    <2>1. ASSUME NEW x \in ToSet(u) PROVE x \in ToSet(s) \cup {m}
      <3>1. PICK i \in 1..Len(u) : u[i] = x
        BY <1>1, <2>1, ToSetMember
      <3> QED
        BY <1>1, <1>3, <1>4, <3>1
    <2>2. ASSUME NEW x \in ToSet(s) PROVE x \in ToSet(u)
      <3>1. PICK i \in 1..Len(s) : s[i] = x
        BY <2>2, ToSetMember
      <3>2. i \in 1..Len(u) /\ u[i] = x
        BY <1>1, <1>5, <3>1
      <3> QED
        BY <1>1, <3>2, ToSetMember
    <2>3. m \in ToSet(u)
      BY <1>1, <1>5, ToSetMember
    <2> QED
      BY <2>1, <2>2, <2>3
  <1> QED
    BY <1>6, <1>7 DEF u

LEMMA MbufArrive ==
    ASSUME RunInv, MbufInv, NEW r \in PortIds, Arrive(r)
    PROVE  MbufInv'
  <1>1. /\ UNCHANGED <<cvars, core, txq, tx_buffer, sent, freed, unhandled>>
        /\ arrived' = arrived + 1 /\ arrived \in Nat /\ rxq \in Queues /\ rxq[r] \in Seq(Nat)
        /\ rxq' = [rxq EXCEPT ![r] = Append(rxq[r], arrived + 1)]
    BY DEF Arrive, RunInv, RunType, Queues
  <1>2. /\ rxq'[r] = Append(rxq[r], arrived + 1)
        /\ \A p \in PortIds : p # r => rxq'[p] = rxq[p]
    BY <1>1 DEF Queues
  <1>3. NoDoubles(rxq, core, tx_buffer, txq, sent) /\ Exact(1..arrived, Held)
    BY DEF MbufInv, Held
  <1>4. <<"rxq", r>> \in AllPlaces
    BY PlacesAre
  <1>5. ToSet(rxq[r]) \subseteq 1..arrived
    BY <1>3, <1>4, HeldNow DEF Exact
  <1>6. arrived + 1 \notin ToSet(rxq[r]) /\ arrived + 1 \in Nat
    <2>1. arrived + 1 \notin 1..arrived /\ arrived + 1 \in Nat
      BY <1>1
    <2> QED
      BY <1>5, <2>1
  <1>7. Distinct(rxq[r])
    BY <1>3 DEF NoDoubles
  <1>8. Distinct(rxq'[r]) /\ ToSet(rxq'[r]) = ToSet(rxq[r]) \cup {arrived + 1}
    BY <1>1, <1>2, <1>6, <1>7, AppendDistinct
  <1>9. NoDoubles(rxq', core', tx_buffer', txq', sent')
    BY <1>1, <1>2, <1>3, <1>8 DEF NoDoubles
  <1>10. Held'[<<"rxq", r>>] = Held[<<"rxq", r>>] \cup {arrived + 1}
    BY <1>8, HeldNow, HeldNext
  <1>11. \A x \in AllPlaces : x # <<"rxq", r>> => Held'[x] = Held[x]
    <2> DEFINE a == <<"rxq", r>>
    <2>1. \A p \in PortIds : Agree(Held, Held', a, a, <<"rxq", p>>)
      <3>1. ASSUME NEW p \in PortIds, <<"rxq", p>> # a PROVE Held'[<<"rxq", p>>] = Held[<<"rxq", p>>]
        <4>1. rxq'[p] = rxq[p]
          BY <1>2, <3>1
        <4> QED
          BY <3>1, <4>1, HeldNow, HeldNext
      <3> QED
        BY <3>1 DEF Agree
    <2>2. \A p \in PortIds : /\ Agree(Held, Held', a, a, <<"tx_buffer", p>>)
                             /\ Agree(Held, Held', a, a, <<"txq", p>>) /\ Agree(Held, Held', a, a, <<"sent", p>>)
      BY <1>1, HeldNow, HeldNext DEF Agree
    <2>3. /\ \A c \in LcoreIds : Agree(Held, Held', a, a, <<"core", c>>)
          /\ Agree(Held, Held', a, a, <<"freed">>) /\ Agree(Held, Held', a, a, <<"unhandled">>)
      BY <1>1, HeldNow, HeldNext DEF Agree
    <2> HIDE DEF a
    <2>4. \A x \in AllPlaces : x # a /\ x # a => Held'[x] = Held[x]
      BY <2>1, <2>2, <2>3, AgreeElsewhere
    <2> QED
      BY <2>4 DEF a
  <1>12. Exact(1..(arrived + 1), Held')
    BY <1>1, <1>3, <1>4, <1>10, <1>11, ExactArrive, ZenonT(60)
  <1>13. cmd'.batch => unhandled' = {}
    BY <1>1 DEF MbufInv, cvars
  <1> QED
    BY <1>1, <1>9, <1>12, <1>13 DEF MbufInv, Held


LEMMA MbufTransmit ==
    ASSUME RunInv, MbufInv, NEW r \in PortIds, Transmit(r)
    PROVE  MbufInv'
  <1>1. UNCHANGED <<cvars, core, rxq, tx_buffer, arrived, freed, unhandled>> /\ RunType
    BY DEF Transmit, RunInv
  <1>2. /\ txq[r] \in Seq(Nat) /\ txq[r] # <<>> /\ sent[r] \in Seq(Nat)
        /\ txq'[r] = Tail(txq[r]) /\ sent'[r] = Append(sent[r], Head(txq[r]))
        /\ \A q \in PortIds : q # r => txq'[q] = txq[q] /\ sent'[q] = sent[q]
    BY <1>1, TransmitMoves
  <1>3. NoDoubles(rxq, core, tx_buffer, txq, sent) /\ Exact(1..arrived, Held)
    BY DEF MbufInv, Held
  <1> DEFINE a == <<"txq", r>>
             b == <<"sent", r>>
             X == Foremost(txq[r], 1)
  <1>4. a \in AllPlaces /\ b \in AllPlaces /\ a # b
    BY PlacesAre
  <1>5. ToSet(sent[r]) \cap ToSet(txq[r]) = {}
    <2>1. Held[a] \cap Held[b] = {}
      BY <1>3, <1>4, ExactApart
    <2> QED
      BY <2>1, HeldNow
  <1>6. sent'[r] = Moved(sent[r], txq[r], 1) /\ txq'[r] = Kept(txq[r], 1) /\ 1 <= Len(txq[r]) /\ 1 \in Nat
    BY <1>2, MovedOne
  <1>7. Distinct(sent[r]) /\ Distinct(txq[r])
    BY <1>3 DEF NoDoubles
  <1>8. /\ Distinct(sent'[r]) /\ Distinct(txq'[r])
        /\ ToSet(sent'[r]) = ToSet(sent[r]) \cup X /\ ToSet(txq'[r]) = ToSet(txq[r]) \ X
        /\ X \subseteq ToSet(txq[r])
    <2> DEFINE t == txq[r]
               u == sent[r]
    <2>1. /\ t \in Seq(Nat) /\ u \in Seq(Nat) /\ Distinct(u) /\ Distinct(t)
          /\ ToSet(u) \cap ToSet(t) = {} /\ 1 <= Len(t) /\ 1 \in Nat
      BY <1>2, <1>5, <1>6, <1>7
    <2>2. sent'[r] = Moved(u, t, 1) /\ txq'[r] = Kept(t, 1) /\ X = Foremost(t, 1)
      BY <1>6
    <2> HIDE DEF t, u, X
    <2>3. /\ Distinct(Moved(u, t, 1)) /\ Distinct(Kept(t, 1))
          /\ ToSet(Moved(u, t, 1)) = ToSet(u) \cup Foremost(t, 1)
          /\ ToSet(Kept(t, 1)) = ToSet(t) \ Foremost(t, 1)
          /\ Foremost(t, 1) \subseteq ToSet(t)
      BY <2>1, MovedDistinct
    <2> QED
      BY <2>2, <2>3 DEF t, u
  <1> HIDE DEF X
  <1>9. NoDoubles(rxq', core', tx_buffer', txq', sent')
    BY <1>1, <1>2, <1>3, <1>8 DEF NoDoubles
  <1>10. X \subseteq Held[a] /\ Held'[a] = Held[a] \ X /\ Held'[b] = Held[b] \cup X
    BY <1>8, HeldNow, HeldNext
  <1>11. \A x \in AllPlaces : x # a /\ x # b => Held'[x] = Held[x]
    <2>1. \A p \in PortIds : Agree(Held, Held', a, b, <<"txq", p>>) /\ Agree(Held, Held', a, b, <<"sent", p>>)
      <3>1. ASSUME NEW p \in PortIds, <<"txq", p>> # a PROVE Held'[<<"txq", p>>] = Held[<<"txq", p>>]
        <4>1. txq'[p] = txq[p]
          BY <1>2, <3>1
        <4> QED
          BY <3>1, <4>1, HeldNow, HeldNext
      <3>2. ASSUME NEW p \in PortIds, <<"sent", p>> # b PROVE Held'[<<"sent", p>>] = Held[<<"sent", p>>]
        <4>1. sent'[p] = sent[p]
          BY <1>2, <3>2
        <4> QED
          BY <3>2, <4>1, HeldNow, HeldNext
      <3> QED
        BY <3>1, <3>2 DEF Agree
    <2>2. \A p \in PortIds : Agree(Held, Held', a, b, <<"tx_buffer", p>>) /\ Agree(Held, Held', a, b, <<"rxq", p>>)
      BY <1>1, HeldNow, HeldNext DEF Agree
    <2>3. /\ \A c \in LcoreIds : Agree(Held, Held', a, b, <<"core", c>>)
          /\ Agree(Held, Held', a, b, <<"freed">>) /\ Agree(Held, Held', a, b, <<"unhandled">>)
      BY <1>1, HeldNow, HeldNext DEF Agree
    <2> HIDE DEF a, b
    <2> QED
      BY <2>1, <2>2, <2>3, AgreeElsewhere
  <1> HIDE DEF a, b
  <1>12. Carried(Held, Held', X, a, b)
    BY <1>4, <1>10, <1>11 DEF Carried
  <1>13. Exact(1..arrived, Held')
    BY <1>3, <1>12, CarriedExact
  <1>14. cmd'.batch => unhandled' = {}
    BY <1>1 DEF MbufInv, cvars
  <1> QED
    BY <1>1, <1>9, <1>13, <1>14 DEF MbufInv, Held

LEMMA MbufRxBurst ==
    ASSUME RunInv, MbufInv, NEW c \in LcoreIds, RxBurst(c)
    PROVE  MbufInv'
  <1>1. /\ UNCHANGED <<cvars, tx_buffer, txq, sent, arrived, freed, unhandled>>
        /\ ConfigInv /\ RunType /\ rxq \in Queues
    BY DEF RxBurst, RunInv, RunType
  <1>2. PICK n \in Nat, j \in Int :
              LET q == rxq[Port(c)] IN
              /\ Launched /\ core[c].i > 0 /\ core[c].pkts = <<>>
              /\ n <= Len(q) /\ q \in Seq(Nat)
              /\ Goes(c, j, SubSeq(q, 1, n))
              /\ rxq' = [rxq EXCEPT ![Port(c)] = SubSeq(q, n + 1, Len(q))]
    BY <1>1, RxBurstGoes
  <1>3. PICK r \in PortIds : r = Port(c)
    BY <1>1, <1>2, CoreFacts
  <1> DEFINE q == rxq[r]
  <1>4. /\ n <= Len(q) /\ q \in Seq(Nat)
        /\ core[c].pkts = <<>> /\ core'[c].pkts = SubSeq(q, 1, n)
        /\ \A e \in LcoreIds : e # c => core'[e] = core[e]
        /\ rxq'[r] = SubSeq(q, n + 1, Len(q))
        /\ \A p \in PortIds : p # r => rxq'[p] = rxq[p]
    BY <1>1, <1>2, <1>3 DEF Goes, CoreGoes, Queues
  <1> HIDE DEF q
  <1>5. SubSeq(q, 1, n) = Moved(<<>>, q, n) /\ SubSeq(q, n + 1, Len(q)) = Kept(q, n)
    <2>1. SubSeq(q, 1, n) \in Seq(Nat)
      BY <1>4, FirstOf
    <2>2. <<>> \o SubSeq(q, 1, n) = SubSeq(q, 1, n)
      BY <2>1
    <2> QED
      BY <2>2 DEF Moved, Kept
  <1>6. NoDoubles(rxq, core, tx_buffer, txq, sent) /\ Exact(1..arrived, Held)
    BY DEF MbufInv, Held
  <1> DEFINE a == <<"rxq", r>>
             b == <<"core", c>>
             X == Foremost(q, n)
  <1>7. a \in AllPlaces /\ b \in AllPlaces /\ a # b
    BY PlacesAre
  <1>8. Distinct(q)
    BY <1>6 DEF NoDoubles, q
  <1>9. /\ Distinct(core'[c].pkts) /\ Distinct(rxq'[r])
        /\ ToSet(core'[c].pkts) = {} \cup X /\ ToSet(rxq'[r]) = ToSet(q) \ X
        /\ X \subseteq ToSet(q)
    <2>1. {} \cap ToSet(q) = {}
      OBVIOUS
    <2>2. /\ Distinct(Moved(<<>>, q, n)) /\ Distinct(Kept(q, n))
          /\ ToSet(Moved(<<>>, q, n)) = ToSet(<<>>) \cup Foremost(q, n)
          /\ ToSet(Kept(q, n)) = ToSet(q) \ Foremost(q, n)
          /\ Foremost(q, n) \subseteq ToSet(q)
      <3>1. <<>> \in Seq(Nat) /\ Distinct(<<>>) /\ ToSet(<<>>) \cap ToSet(q) = {}
        BY <2>1, NoneIn
      <3> QED
        BY <1>4, <1>8, <3>1, MovedDistinct
    <2> QED
      BY <1>4, <1>5, <2>2, NoneIn
  <1> HIDE DEF X
  <1>10. NoDoubles(rxq', core', tx_buffer', txq', sent')
    BY <1>1, <1>4, <1>6, <1>9 DEF NoDoubles
  <1>11. X \subseteq Held[a] /\ Held'[a] = Held[a] \ X /\ Held'[b] = Held[b] \cup X
    <2>1. Held[a] = ToSet(q) /\ Held[b] = {} /\ Held'[a] = ToSet(rxq'[r]) /\ Held'[b] = ToSet(core'[c].pkts)
      BY <1>4, HeldNow, HeldNext, NoneIn DEF q
    <2> QED
      BY <1>9, <2>1
  <1>12. \A x \in AllPlaces : x # a /\ x # b => Held'[x] = Held[x]
    <2>1. \A p \in PortIds : Agree(Held, Held', a, b, <<"rxq", p>>)
      <3>1. ASSUME NEW p \in PortIds, <<"rxq", p>> # a PROVE Held'[<<"rxq", p>>] = Held[<<"rxq", p>>]
        <4>1. rxq'[p] = rxq[p]
          BY <1>4, <3>1
        <4> QED
          BY <3>1, <4>1, HeldNow, HeldNext
      <3> QED
        BY <3>1 DEF Agree
    <2>2. \A e \in LcoreIds : Agree(Held, Held', a, b, <<"core", e>>)
      <3>1. ASSUME NEW e \in LcoreIds, <<"core", e>> # b PROVE Held'[<<"core", e>>] = Held[<<"core", e>>]
        <4>1. core'[e] = core[e]
          BY <1>4, <3>1
        <4> QED
          BY <3>1, <4>1, HeldNow, HeldNext
      <3> QED
        BY <3>1 DEF Agree
    <2>3. /\ \A p \in PortIds : /\ Agree(Held, Held', a, b, <<"tx_buffer", p>>)
                                /\ Agree(Held, Held', a, b, <<"txq", p>>) /\ Agree(Held, Held', a, b, <<"sent", p>>)
          /\ Agree(Held, Held', a, b, <<"freed">>) /\ Agree(Held, Held', a, b, <<"unhandled">>)
      BY <1>1, HeldNow, HeldNext DEF Agree
    <2> HIDE DEF a, b
    <2> QED
      BY <2>1, <2>2, <2>3, AgreeElsewhere
  <1> HIDE DEF a, b
  <1>13. Carried(Held, Held', X, a, b)
    BY <1>7, <1>11, <1>12 DEF Carried
  <1>14. Exact(1..arrived, Held')
    BY <1>6, <1>13, CarriedExact
  <1>15. cmd'.batch => unhandled' = {}
    BY <1>1 DEF MbufInv, cvars
  <1> QED
    BY <1>1, <1>10, <1>14, <1>15 DEF MbufInv, Held


LEMMA ExactSame ==
    ASSUME NEW F, NEW H, NEW G, Exact(F, H), \A x \in AllPlaces : G[x] = H[x]
    PROVE  Exact(F, G)
  BY DEF Exact

\* The cores hold the same packets.
LEMMA SamePackets ==
    ASSUME MbufInv, NEW k, \A e \in LcoreIds : k[e].pkts = core[e].pkts
    PROVE  /\ NoDoubles(rxq, k, tx_buffer, txq, sent)
           /\ Exact(1..arrived, Boxes(rxq, k, tx_buffer, txq, sent, freed, unhandled))
  <1> DEFINE G == Boxes(rxq, k, tx_buffer, txq, sent, freed, unhandled)
  <1> HIDE DEF G
  <1>1. NoDoubles(rxq, k, tx_buffer, txq, sent) /\ Exact(1..arrived, Held)
    BY DEF MbufInv, NoDoubles, Held
  <1>2. /\ \A p \in PortIds : /\ G[<<"rxq", p>>] = ToSet(rxq[p])
                              /\ G[<<"tx_buffer", p>>] = ToSet(tx_buffer[p])
                              /\ G[<<"txq", p>>] = ToSet(txq[p])
                              /\ G[<<"sent", p>>] = ToSet(sent[p])
        /\ \A e \in LcoreIds : G[<<"core", e>>] = ToSet(k[e].pkts)
        /\ G[<<"freed">>] = freed /\ G[<<"unhandled">>] = unhandled
    BY BoxAt DEF G
  <1>3. ASSUME NEW x \in AllPlaces PROVE G[x] = Held[x]
    BY <1>2, <1>3, HeldNow, PlaceKinds, ZenonT(60)
  <1>4. Exact(1..arrived, G)
    BY <1>1, <1>3, ExactSame
  <1> QED
    BY <1>1, <1>4 DEF G

LEMMA MbufLeave ==
    ASSUME RunInv, MbufInv, NEW c \in LcoreIds, Leave(c)
    PROVE  MbufInv'
  <1>1. /\ UNCHANGED <<cvars, rxq, sent, arrived, txq, tx_buffer, freed, unhandled>>
        /\ ConfigInv /\ RunType /\ core[c].i = 0
    BY DEF Leave, RunInv
  <1>2. Goes(c, -1, <<>>)
    BY <1>1, LeaveGoes
  <1>3. core[c].pkts = <<>>
    BY <1>1 DEF RunType
  <1>4. \A e \in LcoreIds : core'[e].pkts = core[e].pkts
    BY <1>2, <1>3 DEF Goes, CoreGoes
  <1>5. /\ NoDoubles(rxq, core', tx_buffer, txq, sent)
        /\ Exact(1..arrived, Boxes(rxq, core', tx_buffer, txq, sent, freed, unhandled))
    BY <1>4, SamePackets
  <1> QED
    BY <1>1, <1>5 DEF MbufInv, cvars

LEMMA MbufTurn ==
    ASSUME RunInv, MbufInv, NEW c \in LcoreIds, Turn(c)
    PROVE  MbufInv'
  <1>1. /\ UNCHANGED <<cvars, rxq, sent, arrived, unhandled>>
        /\ ConfigInv /\ RunType /\ core[c].i = 0 /\ tx_buffer \in Queues
    BY DEF Turn, RunInv, RunType
  <1>2. Goes(c, 1, <<>>)
    BY <1>1, TurnGoes
  <1>3. core[c].pkts = <<>>
    BY <1>1 DEF RunType
  <1>4. \A e \in LcoreIds : core'[e].pkts = core[e].pkts
    BY <1>2, <1>3 DEF Goes, CoreGoes
  <1>5. /\ NoDoubles(rxq, core', tx_buffer, txq, sent)
        /\ Exact(1..arrived, Boxes(rxq, core', tx_buffer, txq, sent, freed, unhandled))
    BY <1>4, SamePackets
  <1>6. PICK S \in SUBSET PortIds : Flush(S, tx_buffer) /\ CountFlush(S, tx_buffer)
    BY <1>1, TurnFlushes
  <1>7. /\ NoDoubles(rxq, core', tx_buffer', txq', sent)
        /\ Exact(1..arrived, Boxes(rxq, core', tx_buffer', txq', sent, freed', unhandled))
    BY <1>1, <1>5, <1>6, FlushExact
  <1> QED
    BY <1>1, <1>7 DEF MbufInv, cvars

\* The head of a burst, and the rest.
LEMMA HeadTaken ==
    ASSUME NEW t \in Seq(Nat), t # <<>>, Distinct(t), NEW s \in Seq(Nat), Distinct(s),
           ToSet(s) \cap ToSet(t) = {}
    PROVE  /\ Distinct(Append(s, Head(t))) /\ Distinct(Tail(t))
           /\ ToSet(Append(s, Head(t))) = ToSet(s) \cup {Head(t)}
           /\ ToSet(Tail(t)) = ToSet(t) \ {Head(t)}
           /\ {Head(t)} \subseteq ToSet(t)
  <1>1. Append(s, Head(t)) = Moved(s, t, 1) /\ Tail(t) = Kept(t, 1) /\ 1 <= Len(t) /\ 1 \in Nat
    BY MovedOne
  <1>2. /\ Distinct(Moved(s, t, 1)) /\ Distinct(Kept(t, 1))
        /\ ToSet(Moved(s, t, 1)) = ToSet(s) \cup Foremost(t, 1)
        /\ ToSet(Kept(t, 1)) = ToSet(t) \ Foremost(t, 1)
        /\ Foremost(t, 1) \subseteq ToSet(t)
    BY <1>1, MovedDistinct
  <1>3. Foremost(t, 1) = {Head(t)}
    <2>1. Head(t) = t[1] /\ \A i \in 1..1 : i = 1
      BY TailOf
    <2>2. 1 \in 1..1
      OBVIOUS
    <2> QED
      BY <2>1, <2>2 DEF Foremost
  <1> QED
    BY <1>1, <1>2, <1>3

LEMMA MbufSend ==
    ASSUME RunInv, MbufInv, NEW c \in LcoreIds, InHand(c), Done(c), NEW d \in PortIds,
           NEW S, NEW buf, Sends(c, d, S, buf),
           UNCHANGED <<cvars, rxq, arrived, sent, unhandled>>
    PROVE  MbufInv'
  <1>1. ConfigInv /\ RunType
    BY DEF RunInv
  <1> DEFINE k == core[c].pkts
             m == Head(k)
  <1>2. PICK j \in Int : /\ k # <<>> /\ Goes(c, j, Tail(k))
    BY <1>1, DoneGoes
  <1>3. k \in Seq(Nat) /\ tx_buffer[d] \in Seq(Nat)
    BY <1>1, CoreFacts DEF RunType, Queues
  <1>4. /\ S \in SUBSET PortIds /\ buf \in Queues /\ Flush(S, buf) /\ CountFlush(S, buf)
        /\ buf[d] = Append(tx_buffer[d], m)
        /\ \A p \in PortIds : p # d => buf[p] = tx_buffer[p]
    BY DEF Sends
  <1>5. /\ core'[c].pkts = Tail(k)
        /\ \A e \in LcoreIds : e # c => core'[e] = core[e]
    BY <1>2 DEF Goes, CoreGoes
  <1>6. NoDoubles(rxq, core, tx_buffer, txq, sent) /\ Exact(1..arrived, Held)
    BY DEF MbufInv, Held
  <1> DEFINE a == <<"core", c>>
             b == <<"tx_buffer", d>>
             G == Boxes(rxq, core', buf, txq, sent, freed, unhandled)
  <1> HIDE DEF G
  <1>7. a \in AllPlaces /\ b \in AllPlaces /\ a # b
    BY PlacesAre
  <1>8. /\ \A p \in PortIds : /\ G[<<"rxq", p>>] = ToSet(rxq[p])
                              /\ G[<<"tx_buffer", p>>] = ToSet(buf[p])
                              /\ G[<<"txq", p>>] = ToSet(txq[p])
                              /\ G[<<"sent", p>>] = ToSet(sent[p])
        /\ \A e \in LcoreIds : G[<<"core", e>>] = ToSet(core'[e].pkts)
        /\ G[<<"freed">>] = freed /\ G[<<"unhandled">>] = unhandled
    BY BoxAt DEF G
  <1>9. ToSet(tx_buffer[d]) \cap ToSet(k) = {}
    <2>1. Held[a] \cap Held[b] = {}
      BY <1>6, <1>7, ExactApart
    <2> QED
      BY <2>1, HeldNow
  <1>10. Distinct(k) /\ Distinct(tx_buffer[d])
    BY <1>6 DEF NoDoubles
  <1> HIDE DEF k
  <1>11. /\ Distinct(buf[d]) /\ Distinct(Tail(k))
         /\ ToSet(buf[d]) = ToSet(tx_buffer[d]) \cup {m}
         /\ ToSet(Tail(k)) = ToSet(k) \ {m} /\ {m} \subseteq ToSet(k)
    <2>1. /\ Distinct(Append(tx_buffer[d], m)) /\ Distinct(Tail(k))
          /\ ToSet(Append(tx_buffer[d], m)) = ToSet(tx_buffer[d]) \cup {m}
          /\ ToSet(Tail(k)) = ToSet(k) \ {m} /\ {m} \subseteq ToSet(k)
      BY <1>2, <1>3, <1>9, <1>10, HeadTaken
    <2> QED
      BY <1>4, <2>1
  <1> HIDE DEF m
  <1>12. NoDoubles(rxq, core', buf, txq, sent)
    BY <1>4, <1>5, <1>6, <1>11 DEF NoDoubles
  <1>13. {m} \subseteq Held[a] /\ G[a] = Held[a] \ {m} /\ G[b] = Held[b] \cup {m}
    <2>1. Held[a] = ToSet(k) /\ Held[b] = ToSet(tx_buffer[d]) /\ G[a] = ToSet(Tail(k)) /\ G[b] = ToSet(buf[d])
      BY <1>5, <1>8, HeldNow DEF k
    <2> QED
      BY <1>11, <2>1
  <1>14. \A x \in AllPlaces : x # a /\ x # b => G[x] = Held[x]
    <2>1. \A p \in PortIds : Agree(Held, G, a, b, <<"tx_buffer", p>>)
      <3>1. ASSUME NEW p \in PortIds, <<"tx_buffer", p>> # b PROVE G[<<"tx_buffer", p>>] = Held[<<"tx_buffer", p>>]
        <4>1. buf[p] = tx_buffer[p]
          BY <1>4, <3>1
        <4> QED
          BY <1>8, <3>1, <4>1, HeldNow
      <3> QED
        BY <3>1 DEF Agree
    <2>2. \A e \in LcoreIds : Agree(Held, G, a, b, <<"core", e>>)
      <3>1. ASSUME NEW e \in LcoreIds, <<"core", e>> # a PROVE G[<<"core", e>>] = Held[<<"core", e>>]
        <4>1. core'[e] = core[e]
          BY <1>5, <3>1
        <4> QED
          BY <1>8, <3>1, <4>1, HeldNow
      <3> QED
        BY <3>1 DEF Agree
    <2>3. /\ \A p \in PortIds : /\ Agree(Held, G, a, b, <<"rxq", p>>)
                                /\ Agree(Held, G, a, b, <<"txq", p>>) /\ Agree(Held, G, a, b, <<"sent", p>>)
          /\ Agree(Held, G, a, b, <<"freed">>) /\ Agree(Held, G, a, b, <<"unhandled">>)
      BY <1>8, HeldNow DEF Agree
    <2> HIDE DEF a, b
    <2> QED
      BY <2>1, <2>2, <2>3, AgreeElsewhere
  <1> HIDE DEF a, b
  <1>15. Carried(Held, G, {m}, a, b)
    BY <1>7, <1>13, <1>14 DEF Carried
  <1>16. Exact(1..arrived, G)
    BY <1>6, <1>15, CarriedExact
  <1>17. /\ NoDoubles(rxq, core', tx_buffer', txq', sent)
         /\ Exact(1..arrived, Boxes(rxq, core', tx_buffer', txq', sent, freed', unhandled))
    BY <1>1, <1>4, <1>12, <1>16, FlushExact DEF G
  <1> QED
    BY <1>17 DEF MbufInv, cvars


LEMMA MbufLeft ==
    ASSUME RunInv, MbufInv, NEW c \in LcoreIds, InHand(c), Done(c), Leaves(c), ~cmd.batch,
           UNCHANGED <<cvars, rxq, arrived, sent>>
    PROVE  MbufInv'
  <1>1. ConfigInv /\ RunType /\ UNCHANGED <<txq, tx_buffer, freed>>
    BY DEF RunInv, Leaves
  <1> DEFINE k == core[c].pkts
             m == Head(k)
  <1>2. PICK j \in Int : /\ k # <<>> /\ Goes(c, j, Tail(k))
    BY <1>1, DoneGoes
  <1>3. k \in Seq(Nat)
    BY <1>1, CoreFacts
  <1>4. unhandled' = unhandled \cup {m}
    BY DEF Leaves
  <1>5. /\ core'[c].pkts = Tail(k)
        /\ \A e \in LcoreIds : e # c => core'[e] = core[e]
    BY <1>2 DEF Goes, CoreGoes
  <1>6. NoDoubles(rxq, core, tx_buffer, txq, sent) /\ Exact(1..arrived, Held)
    BY DEF MbufInv, Held
  <1> DEFINE a == <<"core", c>>
             b == <<"unhandled">>
  <1>7. a \in AllPlaces /\ b \in AllPlaces /\ a # b
    BY PlacesAre
  <1>8. Distinct(k)
    BY <1>6 DEF NoDoubles
  <1> HIDE DEF k
  <1>9. Distinct(Tail(k)) /\ ToSet(Tail(k)) = ToSet(k) \ {m} /\ {m} \subseteq ToSet(k)
    <2>1. <<>> \in Seq(Nat) /\ Distinct(<<>>) /\ ToSet(<<>>) \cap ToSet(k) = {}
      BY NoneIn
    <2> QED
      BY <1>2, <1>3, <1>8, <2>1, HeadTaken
  <1> HIDE DEF m
  <1>10. NoDoubles(rxq', core', tx_buffer', txq', sent')
    BY <1>1, <1>5, <1>6, <1>9 DEF NoDoubles
  <1>11. {m} \subseteq Held[a] /\ Held'[a] = Held[a] \ {m} /\ Held'[b] = Held[b] \cup {m}
    <2>1. Held[a] = ToSet(k) /\ Held[b] = unhandled /\ Held'[a] = ToSet(Tail(k)) /\ Held'[b] = unhandled'
      BY <1>5, HeldNow, HeldNext DEF k
    <2> QED
      BY <1>4, <1>9, <2>1
  <1>12. \A x \in AllPlaces : x # a /\ x # b => Held'[x] = Held[x]
    <2>1. \A e \in LcoreIds : Agree(Held, Held', a, b, <<"core", e>>)
      <3>1. ASSUME NEW e \in LcoreIds, <<"core", e>> # a PROVE Held'[<<"core", e>>] = Held[<<"core", e>>]
        <4>1. core'[e] = core[e]
          BY <1>5, <3>1
        <4> QED
          BY <3>1, <4>1, HeldNow, HeldNext
      <3> QED
        BY <3>1 DEF Agree
    <2>2. /\ \A p \in PortIds : /\ Agree(Held, Held', a, b, <<"rxq", p>>) /\ Agree(Held, Held', a, b, <<"tx_buffer", p>>)
                                /\ Agree(Held, Held', a, b, <<"txq", p>>) /\ Agree(Held, Held', a, b, <<"sent", p>>)
          /\ Agree(Held, Held', a, b, <<"freed">>)
      BY <1>1, HeldNow, HeldNext DEF Agree
    <2>3. Agree(Held, Held', a, b, <<"unhandled">>)
      BY DEF Agree
    <2> HIDE DEF a, b
    <2> QED
      BY <2>1, <2>2, <2>3, AgreeElsewhere
  <1> HIDE DEF a, b
  <1>13. Carried(Held, Held', {m}, a, b)
    BY <1>7, <1>11, <1>12 DEF Carried
  <1>14. Exact(1..arrived, Held')
    BY <1>6, <1>13, CarriedExact
  <1> QED
    BY <1>10, <1>14 DEF MbufInv, Held, cvars

\* There are no packets, and so each is in one place.
LEMMA MbufIdle ==
    Idle => MbufInv
  <1> SUFFICES ASSUME Idle PROVE MbufInv
    OBVIOUS
  <1>1. /\ \A p \in PortIds : rxq[p] = <<>> /\ tx_buffer[p] = <<>> /\ txq[p] = <<>> /\ sent[p] = <<>>
        /\ \A c \in LcoreIds : core[c].pkts = <<>>
        /\ arrived = 0 /\ freed = {} /\ unhandled = {}
    BY DEF Idle, NoPackets
  <1>2. NoDoubles(rxq, core, tx_buffer, txq, sent)
    BY <1>1, NoneIn DEF NoDoubles
  <1>3. 1..arrived = {}
    BY <1>1
  <1>4. ASSUME NEW x \in AllPlaces PROVE Held[x] = {}
    BY <1>1, <1>4, HeldNow, NoneIn, PlaceKinds
  <1>5. Exact(1..arrived, Held)
    BY <1>3, <1>4 DEF Exact
  <1> QED
    BY <1>1, <1>2, <1>5 DEF MbufInv, Held

LEMMA MbufStep ==
    ASSUME RunInv, MbufInv, [Next]_vars
    PROVE  MbufInv'
  <1>1. CASE Configure
    <2>1. Idle'
      BY <1>1, ConfigureKeeps
    <2>2. (Idle => MbufInv)'
      BY MbufIdle, PTL
    <2> QED
      BY <2>1, <2>2
  <1>2. CASE Still
             /\ \/ UNCHANGED cvars
                \/ /\ pc = "run" /\ pc' \in {"closed", "crashed"}
                   /\ UNCHANGED <<cmd, at, mask, used, dst_ports, last_port, nb_in_mask, rx_lcore, conf>>
    BY <1>2 DEF Still, MbufInv, cvars
  <1>3. ASSUME NEW p \in PortIds, Arrive(p) \/ Transmit(p)
        PROVE  MbufInv'
    BY <1>3, MbufArrive, MbufTransmit
  <1>4. ASSUME NEW c \in LcoreIds, Forwards(c)
        PROVE  MbufInv'
    <2>1. /\ InHand(c) /\ Done(c)
          /\ UNCHANGED <<cvars, rxq, arrived, sent>>
      BY <1>4 DEF Forwards
    <2>2. CASE unhandled' = unhandled /\ \E d \in Enabled : \E S, buf : Sends(c, d, S, buf)
      <3>1. PICK d, S, buf : d \in PortIds /\ Sends(c, d, S, buf)
        BY <2>2 DEF RunInv, ConfigInv, ConfigType, Enabled
      <3> QED
        BY <1>4, <2>1, <2>2, <3>1, MbufSend
    <2>3. CASE Leaves(c) /\ ~cmd.batch
      BY <1>4, <2>1, <2>3, MbufLeft
    <2> QED
      BY <1>4, <2>2, <2>3 DEF Forwards
  <1>5. ASSUME NEW c \in LcoreIds, Leave(c) \/ Turn(c) \/ RxBurst(c) \/ (Forwards(c) /\ RunType')
        PROVE  MbufInv'
    BY <1>4, <1>5, MbufLeave, MbufTurn, MbufRxBurst
  <1> QED
    BY <1>1, <1>2, <1>3, <1>5, StepKinds

\* In the batch build, for any ports, cores and queues, and in the other on one core,
\* whatever dst_port holds, every packet that arrived is in exactly one place; in the
\* batch build none is left behind.
THEOREM MbufsKept == Spec => []MbufsAccounted
  <1>1. Init => RunInv /\ MbufInv
    <2> SUFFICES ASSUME Init PROVE RunInv /\ MbufInv
      OBVIOUS
    <2>1. RunInv /\ ~Launched
      BY RunInvInit DEF Init, ConfigInit, Launched
    <2> QED
      BY <2>1, MbufIdle DEF RunInv
  <1>2. RunInv /\ MbufInv /\ [Next]_vars => (RunInv /\ MbufInv)'
    BY RunInvStep, MbufStep
  <1>3. RunInv /\ MbufInv => MbufsAccounted
    <2> SUFFICES ASSUME MbufInv, NEW m \in 1..arrived
                 PROVE  Cardinality(Places(m)) = 1
      BY DEF MbufsAccounted, MbufInv
    <2>1. PICK b \in AllPlaces : \A x \in AllPlaces : m \in Held[x] <=> x = b
      BY DEF MbufInv, Exact, Held
    <2>2. ASSUME NEW x PROVE x \in Places(m) <=> x \in AllPlaces /\ m \in Held[x]
      <3>1. x \in Places(m) <=>
               \/ \E p \in PortIds : x = <<"rxq", p>> /\ m \in ToSet(rxq[p])
               \/ \E c \in LcoreIds : x = <<"core", c>> /\ m \in ToSet(core[c].pkts)
               \/ \E p \in PortIds : x = <<"tx_buffer", p>> /\ m \in ToSet(tx_buffer[p])
               \/ \E p \in PortIds : x = <<"txq", p>> /\ m \in ToSet(txq[p])
               \/ \E p \in PortIds : x = <<"sent", p>> /\ m \in ToSet(sent[p])
               \/ m \in freed /\ x = <<"freed">>
               \/ m \in unhandled /\ x = <<"unhandled">>
        BY DEF Places
      <3>2. x \in Places(m) => x \in AllPlaces /\ m \in Held[x]
        BY <3>1, HeldNow, PlacesAre
      <3>3. ASSUME x \in AllPlaces, m \in Held[x] PROVE x \in Places(m)
        BY <3>1, <3>3, HeldNow, PlaceKinds
      <3> QED
        BY <3>2, <3>3
    <2>3. Places(m) = {b}
      BY <2>1, <2>2
    <2> QED
      BY <2>3, FS_Singleton
  <1> QED
    BY <1>1, <1>2, <1>3, PTL DEF Spec
===========================================================================
