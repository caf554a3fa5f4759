------------------------------ MODULE MCReads ------------------------------
(* Constants of the web process's TLC instance.                             *)
EXTENDS Reads

CONSTANTS k1, k2, k3, k4, n1, n2, n3, n4, pk1

\* n4 is 0xFFFFFFFF, which stands in a route for each hop that is not known.
MCKeys == {k1, k2, k3, k4}
MCNums == {n1, n2, n3, n4}
MCNumOf ==
  [k \in MCKeys |-> CASE k = k1 -> n1 [] k = k2 -> n2 [] k = k3 -> n3 [] OTHER -> n4]
MCKeyOf == [n \in MCNums |-> CHOOSE k \in MCKeys : MCNumOf[k] = n]

\* Both are known from before, as gateways.
MCInitialNodes ==
  {[key |-> k, num |-> MCNumOf[k], gateway |-> TRUE, first |-> 1, last |-> 1] : k \in {k1, k2}}

\* 1 is a traceroute from n1 to n3, 2 an answer from n3 to n1, 3 one that does
\* not decode; 4 reports neighbors of n1, 5 is a node info of n1.
MCPortOf == [i \in 1..5 |-> CASE i <= 3 -> "TRACEROUTE" [] i = 4 -> "NEIGHBORINFO"
                              [] OTHER -> "NODEINFO"]
MCToOf == [i \in 1..5 |-> IF i = 2 THEN n1 ELSE n3]
MCChannelOf == [i \in 1..5 |-> CASE i = 1 -> "LongFast" [] i = 4 -> "null" [] OTHER -> "longfast"]
MCLower == [c \in {"LongFast", "longfast", "null"} |-> IF c = "LongFast" THEN "longfast" ELSE c]

\* n2 adds itself to 1 before uplinking; it has 2 with both ends, n1 without and
\* with two unknown hops.
MCRouteOf ==
  [i \in 1..5 |-> [n \in MCNums |->
     CASE i = 1 -> <<n2>>
       [] i = 2 /\ n = n2 -> <<n3, n2, n1>>
       [] i = 2 /\ n # n2 -> <<n2, n4, n4>>
       [] i = 3 -> Garbled
       [] OTHER -> <<>>]]
MCBackOf ==
  [i \in 1..5 |-> [n \in MCNums |->
     CASE i = 2 -> Reverse(MCRouteOf[i][n])
       [] i = 3 -> Garbled
       [] OTHER -> <<>>]]
MCNeighborsOf == [i \in 1..5 |-> IF i = 4 THEN {n2, n3} ELSE {}]

Packet(i, from, gw) ==
  [port |-> IF MCPortOf[i] = "NEIGHBORINFO" THEN "OTHER" ELSE MCPortOf[i],
   id |-> i, from |-> from, gateway |-> gw, rx |-> 1, usable |-> i # 3, user |-> k1,
   key |-> IF i = 5 THEN pk1 ELSE NoKey, reply |-> i = 2]

MCEnvelopes ==
  {Packet(1, n1, n2), Packet(1, n1, n3), Packet(2, n3, n2), Packet(2, n3, n1),
   Packet(3, n1, n2), Packet(4, n1, n2), Packet(5, n1, n3)}

Filter(period, length, channel, from) ==
  [period |-> period, length |-> length, channel |-> channel, from |-> from, to |-> Unset]

\* No filter; the last hour of n1; a channel's last day; one packet's sightings.
NoFilter == Filter(Unset, Unset, Unset, Unset)
MCCounts ==
  {[filter |-> f, id |-> Unset] :
     f \in {NoFilter, Filter("hour", 1, Unset, n1), Filter("day", 1, "LongFast", Unset)}}
    \cup {[filter |-> NoFilter, id |-> 1]}

\* Behind UTC, on it and ahead of it.
MCOffsets == {-1, 0, 1}

ASSUME InstanceIsTypical == NodeInfosNameSender
=============================================================================
