------------------------------- MODULE MeshDB -------------------------------
(***************************************************************************)
(* The database of meshview as its writer process sees it: the committed   *)
(* rows of the tables of meshview/models.py, the writes a session has made *)
(* and not yet committed, the constraints the schema checks, and the clock *)
(* whose readings the rows carry.                                          *)
(*                                                                         *)
(* A table is a set of rows, a row a record of the columns some property   *)
(* tells apart.  Names, positions, payloads, signal levels and hop counts  *)
(* are left out; the autoincrement keys of traceroute and node_public_key  *)
(* are left out too, so two rows that agree on every other column are one. *)
(***************************************************************************)
EXTENDS Integers, Sequences

CONSTANTS
  Keys,          \* node.id, the text "!xxxxxxxx" a node calls itself
  Nums,          \* node numbers, as packets carry them or as ids spell them
  Huge,          \* those an id spells and BigInteger does not hold
  PacketIds,     \* the non-zero packet ids
  RxTimes,       \* rx_time as a gateway reports it
  PublicKeys,    \* public keys found in NODEINFO payloads
  NoNum, NoKey,  \* the NULL of node.node_id, the empty user.public_key
  NumOf,         \* int(user.id[1:], 16), NoNum when user.id is not hexadecimal
  KeyOf,         \* f"!{node_id:08x}"
  MaxTime,       \* bound on the clock
  EnforceFK,     \* foreign keys checked: PostgreSQL does, SQLite does not
  InitialNodes   \* node rows left by earlier versions of the program

NoTime == 0      \* NULL in a time column
Times == 1..MaxTime
TimesOrNull == 0..MaxTime

NodeRows   == [key: Keys, num: Nums \cup {NoNum}, gateway: BOOLEAN,
               first: TimesOrNull, last: TimesOrNull]
PacketRows == [id: PacketIds, from: Nums, at: Times]
SeenRows   == [id: PacketIds, gw: Nums, rx: RxTimes, at: Times]
TraceRows  == [id: PacketIds, gw: Nums, done: BOOLEAN, at: Times]
KeyRows    == [num: Nums \cup {NoNum}, key: PublicKeys,
               first: Times, last: Times]

ASSUME NumAssumption ==
  /\ NoNum \notin Nums /\ Huge \subseteq Nums
  /\ NoKey \notin PublicKeys
  /\ NumOf \in [Keys -> Nums \cup {NoNum}]
  /\ KeyOf \in [Nums -> Keys]
  /\ \A n \in Nums : NumOf[KeyOf[n]] = n

ASSUME TimeAssumption == MaxTime \in Nat \ {0}

ASSUME FKAssumption == EnforceFK \in BOOLEAN

\* The rows an upgraded database starts with obey the node table's keys; their
\* first_seen_us and last_seen_us may still be NULL.
ASSUME InitialAssumption ==
  /\ InitialNodes \subseteq NodeRows
  /\ \A r \in InitialNodes : r.num = NumOf[r.key] /\ r.num \notin Huge
                           /\ r.first <= 1 /\ r.last <= 1
  /\ \A r, s \in InitialNodes :
        r.key = s.key \/ (r.num = s.num /\ r.num # NoNum) => r = s

VARIABLES
  now,      \* the wall clock, in units of the retention period
  node, packet, seen, trace, pubkey   \* the committed rows of each table

tables == <<node, packet, seen, trace, pubkey>>

-----------------------------------------------------------------------------
(* Rows a session has written and not committed; a row replaces the         *)
(* committed row that has its primary key.                                  *)

Staging == [node: SUBSET NodeRows, packet: SUBSET PacketRows,
            seen: SUBSET SeenRows, trace: SUBSET TraceRows,
            pubkey: SUBSET KeyRows]

NothingStaged == [node |-> {}, packet |-> {}, seen |-> {}, trace |-> {},
                  pubkey |-> {}]

OverlayNodes(rows, new) ==
  new \cup {r \in rows : \A s \in new : s.key # r.key}

OverlayKeys(rows, new) ==
  new \cup {r \in rows : \A s \in new :
                <<s.num, s.key, s.first>> # <<r.num, r.key, r.first>>}

\* What a statement of the session reads: its own flushed writes included.
NodeView(staged) == OverlayNodes(node, staged.node)

SameSighting(s, t) == s.id = t.id /\ s.gw = t.gw /\ s.rx = t.rx

\* node.node_id is UNIQUE, and NULLs do not collide.
NumberClash(rows) ==
  \E r, s \in rows : r.key # s.key /\ r.num = s.num /\ r.num # NoNum

Ids(rows) == {r.id : r \in rows}

\* The schema accepts the staged rows: what a flush or a commit checks.
Committable(staged) ==
  /\ \A r \in staged.node : r.num \notin Huge
  /\ ~NumberClash(NodeView(staged))
  /\ \A k \in staged.pubkey : k.num # NoNum
  /\ \A s \in staged.seen : \A t \in seen : ~SameSighting(s, t)
  /\ EnforceFK => Ids(staged.seen) \cup Ids(staged.trace)
                    \subseteq Ids(packet \cup staged.packet)

\* COMMIT of a session that only inserts and updates.
ApplyStaged(staged) ==
  /\ node'   = NodeView(staged)
  /\ packet' = packet \cup staged.packet
  /\ seen'   = seen \cup staged.seen
  /\ trace'  = trace \cup staged.trace
  /\ pubkey' = OverlayKeys(pubkey, staged.pubkey)

\* last_seen_us = now_us, and first_seen_us where it was NULL.
Touched(r, t) ==
  [r EXCEPT !.last = t, !.first = IF r.first = NoTime THEN t ELSE r.first]

NewNode(k, n, t) ==
  [key |-> k, num |-> n, gateway |-> FALSE, first |-> t, last |-> t]

FlaggedNums == {r.num : r \in {q \in node : q.gateway}}

-----------------------------------------------------------------------------
DBInit ==
  /\ now = 1
  /\ node = InitialNodes
  /\ packet = {} /\ seen = {} /\ trace = {} /\ pubkey = {}

DBTypeOK ==
  /\ now \in Times
  /\ node \subseteq NodeRows
  /\ packet \subseteq PacketRows
  /\ seen \subseteq SeenRows
  /\ trace \subseteq TraceRows
  /\ pubkey \subseteq KeyRows
=============================================================================
