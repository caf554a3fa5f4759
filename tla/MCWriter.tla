------------------------------ MODULE MCWriter ------------------------------
(* Constants of the writer's TLC instances.                                 *)
EXTENDS WriterProps

CONSTANTS k1, k1b, k2, k3, k4, n1, n2, n3, pk

\* k1 is the derived id of n1 and k1b another spelling of it ("!ABCD..." for
\* "!abcd..."); k2 belongs to n2; k3 is not hexadecimal; k4 has so many digits
\* that its number, n3, is beyond 64 bits.
MCKeys == {k1, k1b, k2, k3, k4}
MCNums == {n1, n2, n3}
MCHuge == {n3}
MCNumOf == [k \in MCKeys |-> CASE k \in {k1, k1b} -> n1
                               [] k = k2 -> n2
                               [] k = k4 -> n3
                               [] OTHER -> NoNum]
MCKeyOf == [n \in MCNums |-> CASE n = n1 -> k1 [] n = n2 -> k2 [] n = n3 -> k4]

\* A gateway's row that an earlier version left, without its time columns.
LegacyRow == [key |-> k2, num |-> n2, gateway |-> TRUE, first |-> 0, last |-> 0]
MCInitialNodes == {LegacyRow}

\* Local time one unit behind UTC.
WestOfUtc == -1

\* An envelope of packet i from n1 that nothing but its packet row depends on.
Plain(i, gw, rxt) ==
  [port |-> "OTHER", id |-> i, from |-> n1, gateway |-> gw, rx |-> rxt,
   usable |-> TRUE, user |-> k1, key |-> NoKey, reply |-> TRUE]

NodeInfo(i, gw, k, key) ==
  [Plain(i, gw, 1) EXCEPT !.port = "NODEINFO", !.user = k, !.key = key]

MapReport(i, gw, n) ==
  [Plain(i, gw, 1) EXCEPT !.port = "MAP_REPORT", !.from = n]

Position(i, gw, n) == [Plain(i, gw, 1) EXCEPT !.port = "POSITION", !.from = n]

Traceroute(i, gw) == [Plain(i, gw, 1) EXCEPT !.port = "TRACEROUTE"]

Unusable(e) == [e EXCEPT !.usable = FALSE]

\* Two copies of one packet, a gateway that never names itself, a traceroute.
CopyEnvelopes ==
  {Plain(1, n2, 1), [Plain(1, n2, 2) EXCEPT !.from = n2],
   Plain(1, NoGateway, 1), Traceroute(1, n2)}

\* The same beside another packet.
FilingEnvelopes == CopyEnvelopes \cup {Plain(2, n2, 1)}

\* A gateway that announces itself, is heard and is relayed.
NodeEnvelopes ==
  {NodeInfo(1, n1, k1, NoKey), MapReport(0, n1, n1), Position(1, n1, n1),
   Unusable(MapReport(1, n2, n1))}

\* One of each kind, for the refinement.
MixedEnvelopes ==
  {NodeInfo(1, n1, k1, pk), MapReport(0, n1, n1), Position(1, n1, n1),
   Traceroute(1, n2), Plain(1, NoGateway, 1)}

\* NODEINFO as nodes with odd ids and keys send it.
OddEnvelopes ==
  {NodeInfo(1, n1, k1, pk), NodeInfo(1, n1, k1b, pk), NodeInfo(1, n1, k3, pk),
   NodeInfo(1, n1, k3, NoKey), NodeInfo(1, n1, k4, NoKey), NodeInfo(1, n1, k4, pk),
   Plain(1, BadGateway, 1), Plain(1, n3, 1), MapReport(0, n1, n1),
   Unusable(NodeInfo(1, n1, k1, NoKey))}

\* All that writes node rows.
AllNodeEnvelopes == NodeEnvelopes \cup OddEnvelopes
=============================================================================
