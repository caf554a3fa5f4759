------------------------------ MODULE Archive ------------------------------
(***************************************************************************)
(* What the database promises to whoever reads it, the writer's tasks, its *)
(* lock, its cache and its crashes left out: an envelope is filed whole or *)
(* not at all, expired rows are pruned by one cutoff together, and nothing *)
(* else ever changes a row.  Module Writer is shown to implement it.        *)
(***************************************************************************)
EXTENDS Envelope

CONSTANT Keep     \* the retention period

Past == 1..now    \* the instants a row written now may carry

ArchiveInit == DBInit

\* The node e is about is known as k: made when absent, touched when there.
Upsert(rows, k, t) ==
  LET found == {r \in rows : r.key = k}
  IN  OverlayNodes(rows,
        IF found = {} THEN {NewNode(k, NumOf[k], t)}
        ELSE {Touched(r, t) : r \in found})

TouchNum(rows, n, t) ==
  OverlayNodes(rows, {Touched(r, t) : r \in {q \in rows : q.num = n}})

\* A MAP_REPORT is filed in a transaction of its own, before its packet.
FileMapReport(e) ==
  /\ e.port = "MAP_REPORT" /\ e.usable
  /\ \E t \in Past :
       node' = IF \E r \in node : r.num = e.from THEN TouchNum(node, e.from, t)
               ELSE Upsert(node, KeyOf[e.from], t)
  /\ UNCHANGED <<now, packet, seen, trace, pubkey>>

\* Whether the gateway's row is flagged depends on what the writer remembers.
Flagged(rows, e, yes) ==
  OverlayNodes(rows, {[r EXCEPT !.gateway = TRUE] :
                        r \in {q \in rows : yes /\ q.num = e.gateway}})

FileSighting(e) ==
  /\ \E t \in Past :
       packet' = packet \cup
         (IF e.id \in Ids(packet) THEN {}
          ELSE {[id |-> e.id, from |-> e.from, at |-> t]})
  /\ \E t \in Past :
       LET s == [id |-> e.id, gw |-> e.gateway, rx |-> e.rx, at |-> t]
           r == [id |-> e.id, gw |-> e.gateway, done |-> e.reply, at |-> t]
       IN  /\ seen' = seen \cup
                (IF \E old \in seen : SameSighting(old, s) THEN {} ELSE {s})
           /\ trace' = trace \cup (IF e.port = "TRACEROUTE" THEN {r} ELSE {})

FileNode(e) ==
  \E yes \in BOOLEAN, t \in Past :
    LET rows == Flagged(node, e, yes) IN
    node' = CASE e.port = "NODEINFO" /\ e.usable -> Upsert(rows, e.user, t)
              [] e.port = "POSITION" /\ e.usable -> TouchNum(rows, e.from, t)
              [] OTHER -> rows

FileKey(e) ==
  IF e.port = "NODEINFO" /\ e.usable /\ e.key # NoKey
  THEN \E t \in Past :
         LET owner == NumOf[e.user]
             found == {k \in pubkey : k.num = owner /\ k.key = e.key}
         IN  pubkey' = OverlayKeys(pubkey,
               IF found # {} THEN {[k EXCEPT !.last = t] : k \in found}
               ELSE {[num |-> owner, key |-> e.key, first |-> t, last |-> t]})
  ELSE UNCHANGED pubkey

\* Packet, sighting, traceroute, node and key are filed in one transaction, unless
\* one of them has a number that its column does not hold.
FileEnvelope(e) ==
  /\ e.id # 0 /\ e.gateway \in Nums \ Huge
  /\ e.port = "NODEINFO" /\ e.usable => NumOf[e.user] \notin Huge
  /\ FileSighting(e) /\ FileNode(e) /\ FileKey(e)
  /\ UNCHANGED now

\* Every table is pruned by one cutoff, and the retention period is honoured.
Prune ==
  \E c \in Past :
    /\ c <= now - Keep
    /\ packet' = {p \in packet : p.at >= c}
    /\ seen'   = {s \in seen : s.at >= c}
    /\ trace'  = {t \in trace : t.at >= c}
    /\ node'   = {r \in node : r.last = NoTime \/ r.last >= c}
    /\ UNCHANGED <<now, pubkey>>

TimePasses == now < MaxTime /\ now' = now + 1 /\ UNCHANGED tables

ArchiveNext ==
  \/ \E e \in Envelopes : FileMapReport(e) \/ FileEnvelope(e)
  \/ Prune \/ TimePasses

ArchiveSpec == ArchiveInit /\ [][ArchiveNext]_<<now, tables>>
=============================================================================
