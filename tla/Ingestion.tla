----------------------------- MODULE Ingestion -----------------------------
(***************************************************************************)
(* The ingestion task of the writer process: load_database_from_mqtt in    *)
(* startdb.py takes one envelope after another from the MQTT stream, and   *)
(* runs process_envelope of meshview/mqtt_store.py on it under db_lock.    *)
(* One action is what the task does from one await to the next; `phase'    *)
(* names the await it is parked at.                                        *)
(***************************************************************************)
EXTENDS Envelope, DbLock

CONSTANT NoEnvelope     \* the task holds no envelope

ASSUME NoEnvelopeAssumption == NoEnvelope \notin Envelopes

VARIABLES
  phase,    \* the await the task is parked at
  env,      \* the envelope being processed
  staged,   \* what its database session has written and not committed
  cache     \* MQTT_GATEWAY_CACHE

ingestVars == <<phase, env, staged, cache>>

\* Phases in which process_envelope runs, hence db_lock is held.
InEnvelope == {"map", "mapCommit", "packet", "insert", "gateway", "seen",
               "nodeinfo", "nodekey", "position", "commit"}

IngestTypeOK ==
  /\ phase \in InEnvelope \cup {"stream", "lock"}
  /\ env \in Envelopes \cup {NoEnvelope}
  /\ env = NoEnvelope <=> phase = "stream"
  /\ staged \in Staging
  /\ cache \subseteq Nums \cup {NoNum}

IngestReset ==
  /\ phase' = "stream" /\ env' = NoEnvelope /\ staged' = NothingStaged

IngestInit ==
  /\ phase = "stream" /\ env = NoEnvelope /\ staged = NothingStaged
  /\ cache = FlaggedNums

-----------------------------------------------------------------------------
\* The stream yields e; the task asks for db_lock.
Receive(e) ==
  /\ phase = "stream"
  /\ env' = e /\ phase' = "lock" /\ Request(Ingest)
  /\ UNCHANGED <<tables, staged, cache>>

\* process_envelope is entered; a MAP_REPORT opens a session of its own first.
EnterEnvelope ==
  /\ phase = "lock" /\ Holds(Ingest)
  /\ phase' = IF env.port = "MAP_REPORT" THEN "map" ELSE "packet"
  /\ UNCHANGED <<tables, env, staged, cache, queue>>

\* (mutant) The report is merged as a fresh Node, whatever the table holds.
StageFreshReport ==
  /\ phase = "map"
  /\ staged' = [staged EXCEPT !.node =
       IF env.usable THEN {NewNode(KeyOf[env.from], env.from, now)} ELSE {}]
  /\ phase' = "mapCommit"
  /\ UNCHANGED <<tables, env, cache, queue>>

\* (mutant) The node is looked up by the id the report would give it.
StageReportById ==
  /\ phase = "map"
  /\ LET found == {r \in node : r.key = KeyOf[env.from]}
     IN  staged' = [staged EXCEPT !.node =
           IF ~env.usable THEN {}
           ELSE IF found # {} THEN {Touched(r, now) : r \in found}
           ELSE {NewNode(KeyOf[env.from], env.from, now)}]
  /\ phase' = "mapCommit"
  /\ UNCHANGED <<tables, env, cache, queue>>

\* The node is looked up by number, and updated or made under its derived id.
\* An unusable report raises inside the try block, which swallows it.
StageMapReport ==
  /\ phase = "map"
  /\ LET found == {r \in node : r.num = env.from}
     IN  staged' = [staged EXCEPT !.node =
           IF ~env.usable THEN {}
           ELSE IF found # {} THEN {Touched(r, now) : r \in found}
           ELSE {NewNode(KeyOf[env.from], env.from, now)}]
  /\ phase' = "mapCommit"
  /\ UNCHANGED <<tables, env, cache, queue>>

CommitMapReport ==
  /\ phase = "mapCommit" /\ Committable(staged)
  /\ ApplyStaged(staged)
  /\ staged' = NothingStaged /\ phase' = "packet"
  /\ UNCHANGED <<env, cache, queue>>

\* `if not env.packet.id: return', and the task releases the lock.
SkipUnnumbered ==
  /\ phase = "packet" /\ env.id = 0
  /\ IngestReset /\ Release
  /\ UNCHANGED <<tables, cache>>

\* (mutant) The packet is merged: a stored copy is written over.
FindPacketMerging ==
  /\ phase = "packet" /\ env.id # 0
  /\ phase' = "gateway"
  /\ staged' = [staged EXCEPT !.packet =
       {[id |-> env.id, from |-> env.from, at |-> now]}]
  /\ UNCHANGED <<tables, env, cache, queue>>

\* (mutant) A packet that is already stored is taken for a duplicate.
FindPacketOnce ==
  /\ phase = "packet" /\ env.id # 0
  /\ IF env.id \in Ids(packet)
     THEN IngestReset /\ Release
     ELSE /\ phase' = "insert"
          /\ staged' = [staged EXCEPT !.packet =
               {[id |-> env.id, from |-> env.from, at |-> now]}]
          /\ UNCHANGED <<env, queue>>
  /\ UNCHANGED <<tables, cache>>

\* (mutant) The packet keeps the time its gateway received it.
FindPacketByRxTime ==
  /\ phase = "packet" /\ env.id # 0
  /\ IF env.id \in Ids(packet)
     THEN phase' = "gateway" /\ UNCHANGED staged
     ELSE /\ phase' = "insert"
          /\ staged' = [staged EXCEPT !.packet =
               {[id |-> env.id, from |-> env.from, at |-> env.rx]}]
  /\ UNCHANGED <<tables, env, cache, queue>>

\* The packet row is made when the lookup finds none.
FindPacket ==
  /\ phase = "packet" /\ env.id # 0
  /\ IF env.id \in Ids(packet)
     THEN phase' = "gateway" /\ UNCHANGED staged
     ELSE /\ phase' = "insert"
          /\ staged' = [staged EXCEPT !.packet =
               {[id |-> env.id, from |-> env.from, at |-> now]}]
  /\ UNCHANGED <<tables, env, cache, queue>>

\* INSERT ... ON CONFLICT DO NOTHING.
InsertPacket ==
  /\ phase = "insert"
  /\ staged' = [staged EXCEPT !.packet = {p \in @ : p.id \notin Ids(packet)}]
  /\ phase' = "gateway"
  /\ UNCHANGED <<tables, env, cache, queue>>

\* (mutant) The early return commits what the session holds.
SkipUngatewayedCommitting ==
  /\ phase = "gateway" /\ env.gateway = NoGateway
  /\ ApplyStaged(staged)
  /\ IngestReset /\ Release
  /\ UNCHANGED cache

\* (mutant) The early return keeps the lock.
SkipUngatewayedLocked ==
  /\ phase = "gateway" /\ env.gateway = NoGateway
  /\ IngestReset
  /\ UNCHANGED <<tables, cache, queue>>

\* Without a gateway process_envelope returns, and closing the session rolls
\* its packet back.
SkipUngatewayed ==
  /\ phase = "gateway" /\ env.gateway = NoGateway
  /\ IngestReset /\ Release
  /\ UNCHANGED <<tables, cache>>

\* The first packet of a gateway since start: remembered, and its row flagged.
MarkGateway ==
  /\ phase = "gateway" /\ env.gateway \in Nums \ Huge
  /\ cache' = cache \cup {env.gateway}
  /\ staged' = [staged EXCEPT !.node =
       IF env.gateway \in cache THEN {}
       ELSE {[r EXCEPT !.gateway = TRUE] :
               r \in {q \in node : q.num = env.gateway}}]
  /\ phase' = "seen"
  /\ UNCHANGED <<tables, env, queue>>

\* The sighting is looked up and added when new; a traceroute is always added.
RecordSeen ==
  LET s == [id |-> env.id, gw |-> env.gateway, rx |-> env.rx, at |-> now]
      t == [id |-> env.id, gw |-> env.gateway, done |-> env.reply, at |-> now]
  IN
  /\ phase = "seen"
  /\ staged' = [staged EXCEPT
       !.seen  = IF \E old \in seen : SameSighting(old, s) THEN {} ELSE {s},
       !.trace = IF env.port = "TRACEROUTE" THEN {t} ELSE {}]
  /\ phase' = CASE env.port = "NODEINFO" /\ env.usable -> "nodeinfo"
                [] env.port = "POSITION" /\ env.usable -> "position"
                [] OTHER -> "commit"
  /\ UNCHANGED <<tables, env, cache, queue>>

\* (mutant) An empty public key is recorded like any other.
RecordNodeInfoAnyKey ==
  LET found == {r \in NodeView(staged) : r.key = env.user}
      mine  == IF found = {} THEN {NewNode(env.user, NumOf[env.user], now)}
               ELSE {[Touched(r, now) EXCEPT !.num = NumOf[env.user]] :
                       r \in found}
  IN
  /\ phase = "nodeinfo"
  /\ staged' = [staged EXCEPT !.node = OverlayNodes(@, mine)]
  /\ phase' = "nodekey"
  /\ UNCHANGED <<tables, env, cache, queue>>

\* The node is looked up by the id it calls itself, which may spell the same
\* number as the id of another row.
RecordNodeInfo ==
  LET found == {r \in NodeView(staged) : r.key = env.user}
      mine  == IF found = {} THEN {NewNode(env.user, NumOf[env.user], now)}
               ELSE {[Touched(r, now) EXCEPT !.num = NumOf[env.user]] :
                       r \in found}
  IN
  /\ phase = "nodeinfo"
  /\ staged' = [staged EXCEPT !.node = OverlayNodes(@, mine)]
  /\ phase' = IF env.key = NoKey THEN "commit" ELSE "nodekey"
  /\ UNCHANGED <<tables, env, cache, queue>>

\* (mutant) The key is added without looking it up.
RecordPublicKeyAgain ==
  /\ phase = "nodekey"
  /\ staged' = [staged EXCEPT !.pubkey =
       {[num |-> NumOf[env.user], key |-> env.key,
         first |-> now, last |-> now]}]
  /\ phase' = "commit"
  /\ UNCHANGED <<tables, env, cache, queue>>

\* The query flushes the staged node; should the flush fail, the handler only
\* prints, and the commit of the broken session raises.
RecordPublicKey ==
  LET owner == NumOf[env.user]
      found == {k \in pubkey : k.num = owner /\ k.key = env.key}
  IN
  /\ phase = "nodekey"
  /\ staged' = [staged EXCEPT !.pubkey =
       IF found # {} THEN {[k EXCEPT !.last = now] : k \in found}
       ELSE {[num |-> owner, key |-> env.key, first |-> now, last |-> now]}]
  /\ phase' = "commit"
  /\ UNCHANGED <<tables, env, cache, queue>>

RecordPosition ==
  LET found == {r \in NodeView(staged) : r.num = env.from}
  IN
  /\ phase = "position"
  /\ staged' = [staged EXCEPT !.node =
                  OverlayNodes(@, {Touched(r, now) : r \in found})]
  /\ phase' = "commit"
  /\ UNCHANGED <<tables, env, cache, queue>>

CommitEnvelope ==
  /\ phase = "commit" /\ Committable(staged)
  /\ ApplyStaged(staged)
  /\ IngestReset /\ Release
  /\ UNCHANGED cache

\* process_envelope raises: the gateway id is not hexadecimal, it is too large for
\* the first statement that binds it, or the database refuses a commit.  Nobody
\* catches it; what it does to the process is in module Writer.
EnvelopeRaises ==
  \/ phase = "gateway" /\ env.gateway \in Huge \cup {BadGateway}
  \/ phase \in {"mapCommit", "commit"} /\ ~Committable(staged)

ProcessEnvelope ==
  \/ EnterEnvelope \/ StageMapReport \/ CommitMapReport
  \/ SkipUnnumbered \/ FindPacket \/ InsertPacket
  \/ SkipUngatewayed \/ MarkGateway \/ RecordSeen
  \/ RecordNodeInfo \/ RecordPublicKey \/ RecordPosition \/ CommitEnvelope
=============================================================================
