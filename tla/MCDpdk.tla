----------------------------- MODULE MCDpdk -----------------------------
(***************************************************************************)
(* A small instance of Dpdk: three ports, of which any may be enabled, two *)
(* cores and both builds.  Port number 3 stands for the numbers that are   *)
(* no port.                                                                *)
(***************************************************************************)
EXTENDS Dpdk

Cmd(m, prs, q, cores, b) == [mask |-> m, pairs |-> prs, queues |-> q, lcores |-> cores, batch |-> b]

\* Commands main() accepts: one port, two ports on one core and on two, three
\* ports, of which one is its own partner, and a port map.
Accepting ==
    {Cmd({0}, None, 1, {1}, FALSE), Cmd({1}, None, 1, {1}, TRUE),
     Cmd({0, 2}, None, 2, {1}, FALSE), Cmd({0, 2}, None, 2, {1}, TRUE),
     Cmd({0, 1}, None, 1, {0, 1}, TRUE), Cmd({0, 1, 2}, None, 2, {0, 1}, TRUE),
     Cmd({0, 1, 2}, <<<<0, 2>>>>, 2, {1}, TRUE)}

\* One that names a port twice.
Twice == Cmd({0, 1, 2}, <<<<2, 1>>, <<1, 0>>>>, 2, {0, 1}, TRUE)

\* Any mask with any of these maps, which mostly are refused.
Maps == {<<>>, <<<<0, 1>>>>, <<<<1, 1>>>>, <<<<0, 3>>>>}
Trying ==
    {Cmd(m, prs, q, {0}, TRUE) : m \in {{}, {0, 3}, {0, 1}, {1, 2}, {0, 1, 2}, None}, prs \in Maps \cup {None}, q \in {0, 1}}

MCCommands == Accepting \cup Trying \cup {Twice}
=========================================================================
