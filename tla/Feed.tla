-------------------------------- MODULE Feed --------------------------------
(***************************************************************************)
(* A live page and the API behind it: the page (firehose.html, chat.html,  *)
(* map.html) asks /api/packets at every tick of a timer for what is newer  *)
(* than its cursor, whether or not the last answer has come.  Requests are *)
(* served and answers handled in any order; any of them may be lost, and    *)
(* any may be answered with an error.                                      *)
(*                                                                         *)
(* Packet k is the k-th the writer committed, and k is its import time.    *)
(***************************************************************************)
EXTENDS Naturals, SequencesExt

CONSTANTS
  Pages,       \* the pages looked at: "firehose", "chat", "map"
  Slow,        \* those whose answers may take longer than the timer's period
  Limit,       \* the page's limit parameter
  Capacity,    \* packets the firehose keeps in its table
  Slots,       \* requests that may be under way at once
  NoCursor,    \* the page's cursor is null
  Bursts,      \* more than Limit packets may come between two polls
  MaxPackets,  \* bound: packets committed
  MaxFails     \* bound: requests that fail

ASSUME FeedAssumption ==
  /\ Pages \subseteq {"firehose", "chat", "map"} /\ Slow \subseteq Pages
  /\ Bursts \in BOOLEAN
  /\ {Limit, Capacity, MaxPackets, MaxFails} \subseteq Nat /\ Limit # 0
  /\ NoCursor \notin Nat

VARIABLES
  page,      \* the page that is open
  log,       \* packets committed; TRUE for a text that is only a sequence number
  fetches,   \* the requests under way, by slot
  cursor,    \* lastImportTimeUs, lastTime, lastImportTime
  list,      \* packet_list, chat-log: the rows from the top
  rendered,  \* every packet the page has put into its list, or blinked on the map
  paused,    \* updatesPaused; the map is hidden
  due,       \* history: packets committed while the page was to show what comes
  fails

pageVars == <<cursor, list, rendered>>
vars == <<page, log, fetches, pageVars, paused, due, fails>>

Idle == [at |-> "idle", first |-> FALSE]
Asked(since, first) == [at |-> "server", since |-> since, first |-> first]
Answered(packets, first) == [at |-> "page", packets |-> packets, first |-> first]
Refused(first) == [at |-> "error", first |-> first]

Packets == 1..MaxPackets

\* The page has been opened and its first request is on the way.
Init ==
  /\ page \in Pages /\ log = <<>> /\ cursor = NoCursor /\ list = <<>> /\ rendered = {}
  /\ \E i \in Slots : fetches = [j \in Slots |-> IF j = i THEN Asked(NoCursor, TRUE) ELSE Idle]
  /\ paused = FALSE /\ due = {} /\ fails = 0

-----------------------------------------------------------------------------
(* The writer and the API.                                                  *)

Unseen == CASE page = "map" -> Cardinality(due \ rendered)
            [] page # "map" /\ cursor = NoCursor -> Len(log)
            [] OTHER -> Len(log) - cursor

FirstIsOut == \E i \in Slots : fetches[i].first

\* The map is to show what comes after the API has served its first request, be
\* the answer still on its way.
Watches ==
  page = "map" => ~paused /\ \A i \in Slots : ~(fetches[i].first /\ fetches[i].at = "server")

Arrive ==
  /\ Len(log) < MaxPackets
  /\ Bursts \/ Unseen < Limit
  /\ \E numbered \in (IF page = "chat" THEN BOOLEAN ELSE {FALSE}) :
       /\ log' = Append(log, numbered)
       /\ due' = IF ~numbered /\ Watches THEN due \cup {Len(log')} ELSE due
  /\ UNCHANGED <<page, fetches, pageVars, paused, fails>>

Newer(since) == {k \in DOMAIN log : since = NoCursor \/ k > since}

\* ORDER BY import_time_us DESC LIMIT, then the texts that are only numbers go.
Select(since) ==
  {k \in Newer(since) :
     Cardinality({j \in Newer(since) : j > k}) < Limit /\ ~log[k]}

Serve(i) ==
  /\ fetches[i].at = "server"
  /\ fetches' = [fetches EXCEPT ![i] = Answered(Select(@.since), @.first)]
  /\ UNCHANGED <<page, log, pageVars, paused, due, fails>>

\* The API's catch-all: {"error": ...} with status 500.
Refuse(i) ==
  /\ fetches[i].at = "server" /\ fails < MaxFails
  /\ fails' = fails + 1
  /\ fetches' = [fetches EXCEPT ![i] = Refused(@.first)]
  /\ UNCHANGED <<page, log, pageVars, paused, due>>

-----------------------------------------------------------------------------
(* The page.                                                                *)

\* (mutant) Polls go on from the cursor of the first answer only.
MayPollFromCursor == ~paused /\ cursor # NoCursor

\* The chat awaits its first fetch before it sets the timer; the firehose tests
\* updatesPaused; the map asks nothing while its cursor is null.
MayPoll ==
  /\ ~paused
  /\ page = "chat" => ~FirstIsOut
  /\ page = "map" => cursor # NoCursor

Poll(i) ==
  /\ fetches[i] = Idle /\ MayPoll
  /\ page \in Slow \/ \A j \in Slots : fetches[j] = Idle
  /\ fetches' = [fetches EXCEPT ![i] = Asked(cursor, FALSE)]
  /\ UNCHANGED <<page, log, pageVars, paused, due, fails>>

NewestFirst(S) ==
  CHOOSE s \in [1..Cardinality(S) -> S] : \A a, b \in DOMAIN s : a < b => s[a] > s[b]
Newest(S) == CHOOSE k \in S : \A j \in S : j <= k

\* The firehose puts every packet of an answer on top and keeps Capacity rows.
FirehoseShows(P) ==
  /\ P # {}
  /\ LET rows == NewestFirst(P) \o list IN
     list' = IF Len(rows) > Capacity THEN SubSeq(rows, 1, Capacity) ELSE rows
  /\ cursor' = Newest(P) /\ rendered' = rendered \cup P

\* (mutant) The chat renders what it has rendered.
ChatRepeats(P) ==
  /\ P # {}
  /\ list' = NewestFirst(P) \o list
  /\ cursor' = Newest(P) /\ rendered' = rendered \cup P

\* (mutant) The chat's cursor is the time of the answer, not of its packets.
ChatSkips(P) ==
  /\ P # {}
  /\ list' = NewestFirst(P \ rendered) \o list
  /\ cursor' = Len(log) /\ rendered' = rendered \cup P

\* The chat passes over packets it has rendered.
ChatShows(P) ==
  /\ P # {}
  /\ list' = NewestFirst(P \ rendered) \o list
  /\ cursor' = Newest(P) /\ rendered' = rendered \cup P

\* The map's first request sets the cursor to the newest packet, or to 0, and
\* shows nothing; a poll's answer never sets it back.
MapShows(P, first) ==
  /\ IF first
       THEN cursor' = (IF P = {} THEN 0 ELSE Newest(P)) /\ UNCHANGED rendered
       ELSE P # {} /\ cursor' = Newest(P \cup {cursor}) /\ rendered' = rendered \cup P
  /\ UNCHANGED list

Handle(i) ==
  /\ fetches[i].at = "page"
  /\ LET P == fetches[i].packets IN
     \/ P = {} /\ ~(page = "map" /\ fetches[i].first) /\ UNCHANGED pageVars
     \/ page = "map" /\ MapShows(P, fetches[i].first)
     \/ page = "firehose" /\ FirehoseShows(P)
     \/ page = "chat" /\ ChatShows(P)
  /\ fetches' = [fetches EXCEPT ![i] = Idle]
  /\ UNCHANGED <<page, log, paused, due, fails>>

\* An error has no packets: the lists and a poll of the map leave it, but the
\* map's first request, which does not look at the status, takes it for a log
\* without a packet.
HandleError(i) ==
  /\ fetches[i].at = "error"
  /\ cursor' = IF page = "map" /\ fetches[i].first THEN 0 ELSE cursor
  /\ fetches' = [fetches EXCEPT ![i] = Idle]
  /\ UNCHANGED <<page, log, list, rendered, paused, due, fails>>

\* No connection, or an answer lost: every page logs it and goes on.
Fail(i) ==
  /\ fetches[i] # Idle /\ fails < MaxFails
  /\ fails' = fails + 1
  /\ fetches' = [fetches EXCEPT ![i] = Idle]
  /\ UNCHANGED <<page, log, pageVars, paused, due>>

\* The firehose's pause button.
TogglePause ==
  /\ page = "firehose" /\ paused' = ~paused
  /\ UNCHANGED <<page, log, fetches, pageVars, due, fails>>

\* visibilitychange: the timer stops, and a shown map begins from the newest packet.
HideMap ==
  /\ page = "map" /\ ~paused /\ paused' = TRUE /\ due' = {}
  /\ UNCHANGED <<page, log, fetches, pageVars, fails>>

ShowMap(i) ==
  /\ page = "map" /\ paused /\ paused' = FALSE
  /\ fetches[i] = Idle /\ fetches' = [fetches EXCEPT ![i] = Asked(NoCursor, TRUE)]
  /\ UNCHANGED <<page, log, pageVars, due, fails>>

Next ==
  \/ Arrive \/ TogglePause \/ HideMap \/ \E i \in Slots : ShowMap(i)
  \/ \E i \in Slots : Serve(i) \/ Refuse(i) \/ Poll(i) \/ Handle(i) \/ HandleError(i) \/ Fail(i)

Spec == Init /\ [][Next]_vars

\* The timer ticks, the server answers and the page handles what it gets.
Fairness ==
  /\ WF_vars(\E i \in Slots : Poll(i))
  /\ \A i \in Slots : WF_vars(Serve(i) \/ Handle(i) \/ HandleError(i))

FairSpec == Spec /\ Fairness

-----------------------------------------------------------------------------
(* Properties.                                                              *)

\* The list is in the order of import, the newest packet on top, and no packet is
\* in it twice, though the timer does not wait for answers and two of them may
\* hold the same packets (chat.html keeps renderedPacketIds for it).
NewestOnTop == \A a, b \in DOMAIN list : a < b => list[a] > list[b]

\* "latest_import_time is returned ... for incremental polling": no packet lies
\* between two that were shown without being shown too, but for texts that are
\* only numbers.
NoGap ==
  page # "map" => \A a, b \in rendered : \A k \in a..b : log[k] \/ k \in rendered

\* The answer to the map's one request for the newest packet is lost: it polls
\* nothing until it is hidden and shown again.
Blind == page = "map" /\ cursor = NoCursor /\ ~FirstIsOut

\* What the writer commits, an open page shows in the end unless it is paused,
\* hidden or has lost its first answer, though polls are lost or answered with an
\* error, answers overtake each other and packets come before the first is handled.
CommittedIsShown ==
  \A k \in Packets : k \in due ~> k \in rendered \/ paused \/ Blind
=============================================================================
