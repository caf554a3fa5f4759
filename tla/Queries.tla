------------------------------ MODULE Queries ------------------------------
(***************************************************************************)
(* What the web process makes of the database: the queries of              *)
(* meshview/store.py, and the answers that the handlers of                 *)
(* meshview/web_api/api.py and the traceroute graph of meshview/web.py     *)
(* compute from the rows they have read.                                   *)
(*                                                                         *)
(* Columns that all copies of a packet agree on are functions of its id.   *)
(* The unit of time is the hour.                                           *)
(***************************************************************************)
EXTENDS Archive, SequencesExt

CONSTANTS
  PortOf, ToOf, ChannelOf,  \* columns of packet, by id
  NoChannel,                \* the NULL of packet.channel
  Lower,                    \* LOWER(channel)
  RouteOf, BackOf,   \* route and route_back by id and gateway
  NeighborsOf,       \* the neighbors a NEIGHBORINFO packet reports
  Garbled,           \* a payload that does not decode: decode_payload gives None
  Unset,             \* a parameter that the request leaves out
  Day,               \* hours of a day
  EdgeWindow,        \* the hours of traceroutes that /api/edges looks back
  EdgeLimit          \* the limit of get_packets

Routes == [Nums -> Seq(Nums) \cup {Garbled}]

ASSUME QueryAssumption ==
  /\ ToOf \in [PacketIds -> Nums]
  /\ DOMAIN PortOf = PacketIds
  /\ \A i \in PacketIds : ChannelOf[i] \in DOMAIN Lower
  /\ Lower[NoChannel] = NoChannel
  /\ DOMAIN RouteOf = PacketIds /\ DOMAIN BackOf = PacketIds
  /\ \A i \in PacketIds : RouteOf[i] \in Routes /\ BackOf[i] \in Routes
  /\ \A i \in PacketIds, n \in Nums : RouteOf[i][n] = Garbled <=> BackOf[i][n] = Garbled
  /\ \A i \in PacketIds : NeighborsOf[i] \in SUBSET Nums \cup {Garbled}
  /\ {Day, EdgeWindow, EdgeLimit} \subseteq Nat \ {0}

-----------------------------------------------------------------------------
(* Counting.  A filter leaves fields Unset.                                 *)

Hours(period, length) == length * (IF period = "hour" THEN 1 ELSE Day)

GetPacket(i) == {p \in packet : p.id = i}

GetPacketsSeen(i) == {s \in seen : s.id = i}

Selects(f, p) ==
  /\ f.channel # Unset => Lower[ChannelOf[p.id]] = Lower[f.channel]
  /\ f.from # Unset => p.from = f.from
  /\ f.to # Unset => ToOf[p.id] = f.to

Unfiltered(f) == \A x \in DOMAIN f : f[x] = Unset

\* A count with any filter is of a day unless it says otherwise.
Start(f) ==
  now - Hours(IF f.period = Unset THEN "day" ELSE f.period,
              IF f.length = Unset THEN 1 ELSE f.length)

TotalPackets(f) ==
  Cardinality({p \in packet : Unfiltered(f) \/ (p.at >= Start(f) /\ Selects(f, p))})

\* (mutant) from_node and to_node are compared with the gateway.
TotalSeenByGateway(f, i) ==
  Cardinality(
    IF i # Unset THEN GetPacketsSeen(i) ELSE
    {s \in seen :
       Unfiltered(f) \/ \E p \in GetPacket(s.id) :
         p.at >= Start(f) /\ Selects([f EXCEPT !.from = Unset], p)
           /\ (f.from # Unset => s.gw = f.from)})

TotalSeen(f, i) ==
  Cardinality(
    IF i # Unset THEN GetPacketsSeen(i) ELSE
    {s \in seen :
       Unfiltered(f) \/ \E p \in GetPacket(s.id) : p.at >= Start(f) /\ Selects(f, p)})

Period(type, t) == IF type = "hour" THEN t ELSE t \div Day

\* GROUP BY the hour or day that a packet was imported in.
PacketStats(type, length, f, port) ==
  LET found == {p \in packet : /\ p.at >= now - Hours(type, length)
                               /\ Selects(f, p)
                               /\ port # Unset => PortOf[p.id] = port}
  IN  [k \in {Period(type, p.at) : p \in found} |->
         Cardinality({p \in found : Period(type, p.at) = k})]

\* utcnow() carries no zone and timestamp() takes it for local time, which is
\* `offset' ahead of UTC.
ChannelsInPeriod(type, length, offset) ==
  {ChannelOf[p.id] : p \in {q \in packet : q.at >= now - offset - Hours(type, length)}}
    \ {NoChannel}

-----------------------------------------------------------------------------
(* Nodes.                                                                   *)

GetNodes(n, days) ==
  {r \in node : /\ n # Unset => r.num = n
                /\ days # Unset => r.last > now - days * Day
                /\ r.last # NoTime}

Newest(rows) == CHOOSE t \in {r.at : r \in rows} : \A r \in rows : r.at <= t

\* (mutant) A node's row counts the packets it has heard.
TopHeard(type, length) ==
  {[node |-> r,
    sent |-> Cardinality({p \in packet : p.from = r.num /\ p.at >= Newest(packet) - Hours(type, length)}),
    seen |-> Cardinality({s \in seen : s.at >= Newest(seen) - Hours(type, length) /\ s.gw = r.num})]
   : r \in node}

\* The windows of packets and of sightings end with the newest of each.
TopNodes(type, length) ==
  {[node |-> r,
    sent |-> Cardinality({p \in packet : /\ p.at >= Newest(packet) - Hours(type, length)
                                         /\ p.from = r.num}),
    seen |-> Cardinality({s \in seen : /\ s.at >= Newest(seen) - Hours(type, length)
                                       /\ \E p \in GetPacket(s.id) : p.from = r.num})]
   : r \in node}

-----------------------------------------------------------------------------
(* Traceroutes.                                                             *)

\* (mutant) Only the replies.
GetReplies(i) == {t \in trace : t.id = i /\ t.done}

GetTraceroute(i) == {t \in trace : t.id = i}

GetTraceroutes(since) == {t \in trace : t.at > since}

Undecodable(rows) == \E t \in rows : RouteOf[t.id][t.gw] = Garbled

Steps(path) == {<<path[i], path[i + 1]>> : i \in 1..Len(path) - 1}

EdgePath(t, p) ==
  <<p.from>> \o RouteOf[t.id][t.gw] \o <<IF t.done THEN ToOf[t.id] ELSE t.gw>>

\* (mutant) Traceroutes of the whole retention period.
LongTracerouteRows ==
  {[row |-> t, packet |-> GetPacket(t.id)] : t \in GetTraceroutes(now - Keep - EdgeWindow)}

\* The joined packet of a row, or None, goes with it.
TracerouteRows ==
  {[row |-> t, packet |-> GetPacket(t.id)] : t \in GetTraceroutes(now - EdgeWindow)}

NeighborPackets ==
  LET found == {p \in packet : PortOf[p.id] = "NEIGHBORINFO"}
      newest == SetToSortSeq(found, LAMBDA a, b : a.at > b.at)
  IN  {newest[i] : i \in DOMAIN newest \cap 1..EdgeLimit}

\* Neither an undecodable payload nor a missing packet is caught: the request
\* fails as a whole.
EdgesFail(joined) == \E j \in joined : j.packet = {} \/ Undecodable({j.row})

NeighborsFail(packets) == \E p \in packets : NeighborsOf[p.id] = Garbled

TraceEdges(joined) == UNION {UNION {Steps(EdgePath(j.row, p)) : p \in j.packet} : j \in joined}

NeighborEdges(packets) == UNION {{<<n, p.from>> : n \in NeighborsOf[p.id]} : p \in packets}

\* (mutant) A neighbor's report replaces what a traceroute showed.
EdgeTypesLast(joined, packets) ==
  [e \in TraceEdges(joined) \cup NeighborEdges(packets) |->
     IF e \in NeighborEdges(packets) THEN "neighbor" ELSE "traceroute"]

\* A pair that is listed stays what it is.
EdgeTypes(joined, packets) ==
  [e \in TraceEdges(joined) \cup NeighborEdges(packets) |->
     IF e \in TraceEdges(joined) THEN "traceroute" ELSE "neighbor"]

-----------------------------------------------------------------------------
(* What the traceroute pages make of the rows of packet p.                  *)

WithEnds(path, a, b) ==
  LET begun == IF path # <<>> /\ Head(path) = a THEN path ELSE <<a>> \o path
  IN  IF Last(begun) = b THEN begun ELSE Append(begun, b)

WinningForward(rows, p) ==
  {WithEnds(RouteOf[t.id][t.gw], p.from, ToOf[p.id]) :
     t \in {u \in rows : u.done /\ RouteOf[u.id][u.gw] # <<>>}}

WinningReverse(rows, p) ==
  {WithEnds(BackOf[t.id][t.gw], ToOf[p.id], p.from) :
     t \in {u \in rows : u.done /\ BackOf[u.id][u.gw] # <<>>}}

\* (mutant) The gateway is put at the end in any case.
GraphPathDoubled(t, p) ==
  <<p.from>> \o RouteOf[t.id][t.gw] \o <<IF t.done THEN ToOf[p.id] ELSE t.gw>>

\* A gateway may have added itself to the list before uplinking.
GraphPath(t, p) ==
  LET path == <<p.from>> \o RouteOf[t.id][t.gw] IN
  CASE t.done -> Append(path, ToOf[p.id])
    [] ~t.done /\ Last(path) # t.gw -> Append(path, t.gw)
    [] OTHER -> path

\* Of the replies only the first is drawn.
Drawn(rows) ==
  LET replies == {t \in rows : t.done}
  IN  (rows \ replies) \cup
        (IF replies = {} THEN {}
         ELSE {CHOOSE t \in replies : \A u \in replies : t.at <= u.at})

GraphPaths(rows, p) == {GraphPath(t, p) : t \in Drawn(rows)}

\* The nodes looked up before the graph is drawn.
LookedUp(rows, p) ==
  {p.from, ToOf[p.id]} \cup {t.gw : t \in rows} \cup UNION {ToSet(RouteOf[t.id][t.gw]) : t \in rows}
=============================================================================
