------------------------------- MODULE Reads -------------------------------
(***************************************************************************)
(* The web process over a database that goes on changing: its handlers     *)
(* read in several sessions, and the writer commits, cleans up and the     *)
(* clock runs on between them.  Requests only read, so one at a time       *)
(* stands for any number; the writer is module Archive, whose envelopes    *)
(* are filed within one unit of the clock.                                 *)
(***************************************************************************)
EXTENDS Queries

CONSTANTS
  Counts,       \* what /api/stats/count is asked for: a filter, a packet_id
  Lengths,      \* window lengths asked for
  Offsets,      \* hours that local time may be ahead of UTC
  MaxFilings    \* bound: envelopes filed

ASSUME ReadsAssumption ==
  /\ \A c \in Counts : DOMAIN c.filter = {"period", "length", "channel", "from", "to"}
  /\ Lengths \subseteq Nat \ {0} /\ Offsets \subseteq Int /\ MaxFilings \in Nat
  /\ Keep \in Nat /\ IsFiniteSet(PacketIds)
  /\ \A e \in Envelopes : e.id # 0 => (e.port = "TRACEROUTE" <=> PortOf[e.id] = "TRACEROUTE")

-----------------------------------------------------------------------------
(* What the nodes of the mesh deliver, as far as an answer needs it.        *)

\* Node infos decode, and name the node they come from.
NodeInfosNameSender ==
  \A e \in Envelopes : e.id # 0 /\ PortOf[e.id] = "NODEINFO" =>
    e.port = "NODEINFO" /\ e.usable /\ NumOf[e.user] = e.from

-----------------------------------------------------------------------------
VARIABLES
  req,      \* the request that is served
  filed,    \* (history) the hours in which a row of each packet was made
  filings

vars == <<now, tables, req, filed, filings>>

NoRequest == [kind |-> "none", arg |-> Unset, got |-> <<>>, since |-> {}]

Init ==
  /\ ArchiveInit
  /\ req = NoRequest /\ filed = [i \in PacketIds |-> {}] /\ filings = 0

-----------------------------------------------------------------------------
(* The writer.                                                              *)

\* A request whose last read is over computes its answer without a further await.
Between == Len(req.got) < 2

\* Bound: at most one thing happens while a request is served.
Note(what) ==
  /\ req.since = {}
  /\ req' = IF req = NoRequest THEN req ELSE [req EXCEPT !.since = {what}]

\* What an envelope writes carries the hour it is filed in; a traceroute adds a
\* row each time.
Stamped(e) ==
  /\ \A r \in (packet' \ packet) \cup (seen' \ seen) \cup (trace' \ trace) : r.at = now
  /\ e.port = "TRACEROUTE" =>
       [id |-> e.id, gw |-> e.gateway, done |-> e.reply, at |-> now] \in trace'
  /\ e.usable =>
       /\ e.port = "NODEINFO" => /\ \A r \in node' : r.key = e.user => r.last = now
                                 /\ \A k \in pubkey' : k.key = e.key => k.last = now
       /\ e.port = "POSITION" => \A r \in node' : r.num = e.from => r.last = now

File(e) ==
  /\ Between /\ filings < MaxFilings /\ filings' = filings + 1
  /\ FileEnvelope(e) /\ Stamped(e)
  /\ filed' = IF Ids(packet') = Ids(packet) THEN filed
              ELSE [filed EXCEPT ![e.id] = @ \cup {now}]
  /\ Note("filed")

CleanUp ==
  /\ Between /\ Prune /\ UNCHANGED <<filed, filings>> /\ Note("pruned")

Tick ==
  /\ Between /\ TimePasses /\ UNCHANGED <<filed, filings>> /\ Note("ticked")

-----------------------------------------------------------------------------
(* The handlers: the first session, the second, and the answer.             *)

Got(rows) == req' = [req EXCEPT !.got = Append(@, rows)]

Ask(kind, arg, rows) ==
  /\ req = NoRequest
  /\ req' = [kind |-> kind, arg |-> arg, got |-> <<rows>>, since |-> {}]

CountPackets(c) == Ask("count", c, TotalPackets(c.filter))

CountSeen ==
  /\ req.kind = "count" /\ Between
  /\ Got(TotalSeen(req.arg.filter, req.arg.id))

ReadTraceroutes == Ask("edges", Unset, TracerouteRows)

ReadNeighbors ==
  /\ req.kind = "edges" /\ Between /\ ~EdgesFail(req.got[1])
  /\ Got(NeighborPackets)

\* Of the JSON answer and of the graph alike.
ReadTraceroute(i) == Ask("trace", i, GetTraceroute(i))

ReadPacket ==
  /\ req.kind = "trace" /\ Between
  /\ Got(GetPacket(req.arg))

Answer ==
  /\ \/ ~Between
     \/ req.kind = "edges" /\ EdgesFail(req.got[1])
  /\ req' = NoRequest

Handle ==
  /\ \/ \E c \in Counts : CountPackets(c)
     \/ \E i \in PacketIds : ReadTraceroute(i)
     \/ ReadTraceroutes \/ CountSeen \/ ReadNeighbors \/ ReadPacket \/ Answer
  /\ UNCHANGED <<now, tables, filed, filings>>

Next == (\E e \in Envelopes : File(e)) \/ CleanUp \/ Tick \/ Handle

Spec == Init /\ [][Next]_vars

-----------------------------------------------------------------------------
(* Properties.                                                              *)

Answered(kind) == req.kind = kind /\ Len(req.got) = 2

\* Packets that came again after the cleanup had taken their row: a sighting of
\* them that it left behind is not renewed.
FiledAgain == {i \in PacketIds : \E s, t \in filed[i] : s # t}

\* The two totals of /api/stats/count match though they are counted in two
\* sessions: unless the clock or the cleanup came between, no packet is counted
\* without a sighting, but for one that was filed again, and with a filter no
\* sighting without its packet ("match EXACT SAME FILTERS as
\* get_total_packet_count").
CountsMatch ==
  Answered("count") /\ req.arg.id = Unset =>
    /\ req.since \subseteq {"filed"} => req.got[2] + Cardinality(FiledAgain) >= req.got[1]
    /\ req.since = {} /\ ~Unfiltered(req.arg.filter) /\ req.got[1] = 0 => req.got[2] = 0

EdgesFailed ==
  req.kind = "edges" /\ (EdgesFail(req.got[1]) \/ (Answered("edges") /\ NeighborsFail(req.got[2])))

\* With payloads that decode, /api/edges fails only for a traceroute that came
\* so late after its packet that a cleanup took the packet away from under it:
\* rows with import times of their own are pruned by one cutoff.
EdgesFailLate ==
  EdgesFailed /\ req.since = {} =>
    \/ \E j \in req.got[1] : \/ Undecodable({j.row})
                             \/ \A t \in filed[j.row.id] : j.row.at - t > Keep - EdgeWindow
    \/ Answered("edges") /\ \E p \in req.got[2] : NeighborsOf[p.id] = Garbled

NoLoop(steps) == {s \in steps : s[1] # s[2]}

\* What /api/edges lists as the traceroutes' are the edges of the paths the graph
\* page makes of the same rows, whatever neighbors reported besides: the two build
\* a row's path each in its own way.
EdgesAgreeWithGraph ==
  Answered("edges") /\ ~EdgesFailed =>
    LET types == EdgeTypes(req.got[1], req.got[2])
        drawn == UNION {Steps(GraphPath(j.row, CHOOSE p \in j.packet : TRUE)) : j \in req.got[1]}
    IN  NoLoop({e \in DOMAIN types : types[e] = "traceroute"}) = NoLoop(drawn)

\* A traceroute packet is shown without rows only if it was filed between the
\* two reads: it is filed with its row, and not pruned after it.
TraceHasRows ==
  Answered("trace") /\ req.got[1] = {} /\ "filed" \notin req.since =>
    \A p \in req.got[2] : PortOf[p.id] # "TRACEROUTE"

Shown == Answered("trace") /\ req.got[2] # {} /\ ~Undecodable(req.got[1])
ShownPacket == CHOOSE p \in req.got[2] : TRUE

\* A step of a node to itself is drawn only where the recorded one has it.
AddsNoLoop(path, recorded) ==
  \A s \in Steps(path) : s[1] = s[2] => s \in Steps(recorded)

\* The graph's paths begin at the sender, each with all of its nodes looked up; of
\* the replies one is drawn, if there is any, and it ends at the addressee; and the
\* gateway is not put behind itself, though "some nodes add them self to the list
\* before uplinking".
GraphIsSound ==
  Shown =>
    LET p == ShownPacket
        rows == req.got[1]
        replies == {t \in Drawn(rows) : t.done}
    IN  /\ \A path \in GraphPaths(rows, p) :
             Head(path) = p.from /\ ToSet(path) \subseteq LookedUp(rows, p)
        /\ (\E t \in rows : t.done) => \E t \in replies : replies = {t}
        /\ \A t \in replies : Last(GraphPath(t, p)) = ToOf[p.id]
        /\ \A t \in Drawn(rows) \ replies :
             AddsNoLoop(GraphPath(t, p), <<p.from>> \o RouteOf[t.id][t.gw])

\* The winning paths lead from one end to the other, and no end is put beside
\* itself, whether or not the recorded routes hold the ends.
WinningPathsAreSound ==
  Shown =>
    LET p == ShownPacket
        rows == req.got[1]
    IN  /\ \A w \in WinningForward(rows, p) :
             /\ Head(w) = p.from /\ Last(w) = ToOf[p.id]
             /\ \E t \in rows : t.done /\ AddsNoLoop(w, RouteOf[t.id][t.gw])
        /\ \A w \in WinningReverse(rows, p) :
             /\ Head(w) = ToOf[p.id] /\ Last(w) = p.from
             /\ \E t \in rows : t.done /\ AddsNoLoop(w, BackOf[t.id][t.gw])

\* The reply that the graph draws is, edge by edge, a winning path of the JSON
\* answer, whose ends are put to it by other code.
GraphShowsWinner ==
  Shown =>
    \A t \in Drawn(req.got[1]) :
      t.done /\ RouteOf[t.id][t.gw] # <<>> =>
        \E w \in WinningForward(req.got[1], ShownPacket) :
          NoLoop(Steps(w)) = NoLoop(Steps(GraphPath(t, ShownPacket)))

\* The traceroute pages draw paths that can be, for any recorded routes, and both of
\* them the same of the same rows.
PathsAreSound == GraphIsSound /\ WinningPathsAreSound /\ GraphShowsWinner

\* /api/stats/top shows a node with fewer sightings than packets only while the
\* newest sighting is younger than the newest packet, as each window ends with
\* its own table's newest row, or for a packet that was filed again.
TopSeenCoversSent ==
  \A l \in Lengths : \A r \in TopNodes("hour", l) :
    r.sent > r.seen => \/ \E p \in packet : p.from = r.node.num /\ p.id \in FiledAgain
                       \/ Newest(seen) > Newest(packet)

\* Wherever local time is not behind UTC, the channels offered for a period have
\* every packet of the period that names one in the statistics of some channel.
ChannelsCoverStats ==
  \A l \in Lengths, o \in Offsets, p \in packet :
    o >= 0 /\ p.at >= now - l /\ ChannelOf[p.id] # NoChannel =>
      \E c \in ChannelsInPeriod("hour", l, o) :
        Period("hour", p.at) \in
          DOMAIN PacketStats("hour", l, [channel |-> c, from |-> Unset, to |-> Unset], Unset)

\* A window of so many days falls into at most one calendar day more.
StatsSpan ==
  \A l \in Lengths :
    Cardinality(DOMAIN PacketStats("day", l, [channel |-> Unset, from |-> Unset, to |-> Unset],
                                   Unset)) <= l + 1

\* The sender of a node info within the active days is among the nodes listed,
\* whatever was pruned since.
InformedIsActive ==
  \A l \in Lengths, p \in packet :
    PortOf[p.id] = "NODEINFO" /\ p.at > now - l * Day =>
      \E r \in GetNodes(p.from, l) : r.num = p.from

\* The windows of time that different queries take, each from a clock and a column
\* of its own, fit together as far as the code makes them.
WindowsAgree ==
  TopSeenCoversSent /\ ChannelsCoverStats /\ StatsSpan /\ InformedIsActive

=============================================================================
