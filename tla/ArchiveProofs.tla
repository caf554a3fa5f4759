---------------------------- MODULE ArchiveProofs ---------------------------
(***************************************************************************)
(* The writer implements the archive, and what that rests on: packets and  *)
(* sightings are filed together and never rewritten, and whatever a session *)
(* has staged is one part after another of the filing of its envelope.     *)
(* db_lock is what the arguments turn on: a lookup made before an await is *)
(* still true at the commit because the cleanup is not in its session.     *)
(***************************************************************************)
EXTENDS WriterProofs

BeforePacket == {"stream", "lock", "map", "packet"}
PacketKnown == {"insert", "gateway", "seen", "nodeinfo", "nodekey",
                "position", "commit"}
SightingKnown == {"nodeinfo", "nodekey", "position", "commit"}

\* packet.id and (packet_id, node_id, rx_time) are keys of the committed rows.
LogKeys ==
  /\ \A p, q \in packet : p.id = q.id => p = q
  /\ \A s, t \in seen : SameSighting(s, t) => s = t

\* Nothing of a packet is written before its lookup, and then only rows of the
\* envelope's packet: a packet row when there is none, one sighting.
StagedLogs ==
  /\ phase \in BeforePacket \cup {"mapCommit"} =>
        staged.packet = {} /\ staged.seen = {} /\ staged.trace = {}
  /\ \A p \in staged.packet : p.id = env.id /\ p.id \notin Ids(packet)
  /\ \A p, q \in staged.packet : p = q
  /\ \A s \in staged.seen \cup staged.trace : s.id = env.id
  /\ \A s, t \in staged.seen : s = t

\* Past the lookup there is a packet row, past the next one a sighting of it.
AtHand ==
  /\ phase \in PacketKnown => env.id \in Ids(packet \cup staged.packet)
  /\ phase \in SightingKnown => \E s \in seen \cup staged.seen : s.id = env.id

FilingInv == LogKeys /\ StagedLogs /\ AtHand

-----------------------------------------------------------------------------
LEMMA FilingInvInit == Init => FilingInv
BY DEF Init, DBInit, IngestInit, FilingInv, LogKeys, StagedLogs, AtHand,
   NothingStaged, PacketKnown, SightingKnown, Ids

\* Steps that change no table, no envelope and no staged log keep it, as long as
\* they do not claim a lookup that was not made.
LEMMA FilingFrame ==
  ASSUME FilingInv, staged \in Staging, staged' \in Staging,
         UNCHANGED <<tables, env>>,
         staged'.packet = staged.packet, staged'.seen = staged.seen,
         staged'.trace = staged.trace,
         phase' \in BeforePacket \cup {"mapCommit"} =>
            phase \in BeforePacket \cup {"mapCommit"},
         phase' \in PacketKnown => phase \in PacketKnown,
         phase' \in SightingKnown => phase \in SightingKnown
  PROVE  FilingInv'
<1>1. LogKeys'
  BY DEF FilingInv, LogKeys, tables, SameSighting
<1>2. StagedLogs'
  BY DEF FilingInv, StagedLogs, tables, Ids
<1>3. AtHand'
  BY DEF FilingInv, AtHand, tables, Ids
<1> QED BY <1>1, <1>2, <1>3 DEF FilingInv

\* The session ends: what it had not committed is gone.
LEMMA FilingReset ==
  ASSUME LogKeys', IngestReset
  PROVE  FilingInv'
BY DEF IngestReset, NothingStaged, FilingInv, StagedLogs, AtHand, PacketKnown,
   SightingKnown

LEMMA FilingIngest ==
  ASSUME TypeInv, TypeInv', FilingInv, IngestStep
  PROVE  FilingInv'
<1>1. staged \in Staging /\ staged' \in Staging
  BY DEF TypeInv, TypeOK, IngestTypeOK
<1> USE DEF BeforePacket, PacketKnown, SightingKnown
<1>2. CASE EnterEnvelope
  BY <1>1, <1>2, FilingFrame DEF EnterEnvelope
<1>3. CASE StageMapReport
  BY <1>1, <1>3, FilingFrame DEF StageMapReport, Staging
<1>4. CASE CommitMapReport
  <2>1. staged.packet = {} /\ staged.seen = {} /\ staged.trace = {}
    BY <1>4 DEF CommitMapReport, FilingInv, StagedLogs
  <2>2. packet' = packet /\ seen' = seen
    BY <1>4, <2>1 DEF CommitMapReport, ApplyStaged
  <2>3. LogKeys'
    BY <2>2 DEF FilingInv, LogKeys, SameSighting
  <2>4. StagedLogs' /\ AtHand'
    BY <1>4 DEF CommitMapReport, StagedLogs, AtHand, NothingStaged
  <2> QED BY <2>3, <2>4 DEF FilingInv
<1>5. CASE SkipUnnumbered \/ SkipUngatewayed
  <2>1. LogKeys' /\ IngestReset
    BY <1>5 DEF SkipUnnumbered, SkipUngatewayed, tables, FilingInv, LogKeys,
       SameSighting
  <2> QED BY <2>1, FilingReset
<1>6. CASE FindPacket
  <2>1. staged.packet = {} /\ staged.seen = {} /\ staged.trace = {}
    BY <1>6 DEF FindPacket, FilingInv, StagedLogs
  <2>2. CASE env.id \in Ids(packet)
    <3>1. LogKeys' /\ StagedLogs'
      BY <1>6, <2>1, <2>2 DEF FindPacket, tables, FilingInv, LogKeys,
         StagedLogs, SameSighting
    <3>2. AtHand'
      BY <1>6, <2>2 DEF FindPacket, tables, AtHand, Ids
    <3> QED BY <3>1, <3>2 DEF FilingInv
  <2>3. CASE env.id \notin Ids(packet)
    <3> DEFINE p == [id |-> env.id, from |-> env.from, at |-> now]
    <3>1. staged'.packet = {p} /\ staged'.seen = {} /\ staged'.trace = {}
          /\ phase' = "insert" /\ UNCHANGED <<tables, env>>
      BY <1>1, <1>6, <2>1, <2>3 DEF FindPacket, Staging
    <3>2. LogKeys'
      BY <3>1 DEF tables, FilingInv, LogKeys, SameSighting
    <3>3. StagedLogs'
      BY <2>3, <3>1 DEF tables, StagedLogs, Ids
    <3>4. AtHand'
      BY <3>1 DEF AtHand, Ids
    <3> QED BY <3>2, <3>3, <3>4 DEF FilingInv
  <2> QED BY <2>2, <2>3
<1>7. CASE InsertPacket
  <2>1. staged'.packet = staged.packet
    BY <1>1, <1>7 DEF InsertPacket, FilingInv, StagedLogs, Staging
  <2> QED
    BY <1>1, <1>7, <2>1, FilingFrame DEF InsertPacket, Staging
<1>8. CASE MarkGateway
  BY <1>1, <1>8, FilingFrame DEF MarkGateway, Staging
<1>9. CASE RecordSeen
  <2> DEFINE s == [id |-> env.id, gw |-> env.gateway, rx |-> env.rx,
                   at |-> now]
             t == [id |-> env.id, gw |-> env.gateway, done |-> env.reply,
                   at |-> now]
             news == IF \E old \in seen : SameSighting(old, s) THEN {} ELSE {s}
             newt == IF env.port = "TRACEROUTE" THEN {t} ELSE {}
  <2>1. /\ staged'.packet = staged.packet /\ staged'.seen = news
        /\ staged'.trace = newt /\ UNCHANGED <<tables, env>>
        /\ phase' \in SightingKnown /\ phase \in PacketKnown
    BY <1>1, <1>9 DEF RecordSeen, Staging
  <2>2. LogKeys'
    BY <2>1 DEF tables, FilingInv, LogKeys, SameSighting
  <2>3. StagedLogs'
    BY <2>1 DEF tables, FilingInv, StagedLogs, Ids
  <2>4. AtHand'
    <3>1. \E x \in seen \cup news : x.id = env.id
      <4>1. s.id = env.id
        OBVIOUS
      <4> HIDE DEF s
      <4>2. CASE \E old \in seen : SameSighting(old, s)
        BY <4>1, <4>2 DEF SameSighting
      <4>3. CASE ~\E old \in seen : SameSighting(old, s)
        BY <4>1, <4>3
      <4> QED BY <4>2, <4>3
    <3> QED BY <2>1, <3>1 DEF tables, FilingInv, AtHand, Ids
  <2> QED BY <2>2, <2>3, <2>4 DEF FilingInv
<1>10. CASE RecordNodeInfo \/ RecordPublicKey \/ RecordPosition
  BY <1>1, <1>10, FilingFrame
  DEF RecordNodeInfo, RecordPublicKey, RecordPosition, Staging
<1>11. CASE CommitEnvelope
  <2>1. packet' = packet \cup staged.packet /\ seen' = seen \cup staged.seen
    BY <1>11 DEF CommitEnvelope, ApplyStaged
  <2>2. \A a \in staged.seen : \A b \in seen : ~SameSighting(a, b)
    BY <1>11 DEF CommitEnvelope, Committable
  <2>3. LogKeys'
    BY <2>1, <2>2 DEF FilingInv, LogKeys, StagedLogs, SameSighting, Ids
  <2> QED BY <1>11, <2>3, FilingReset DEF CommitEnvelope
<1> QED
  BY <1>2, <1>3, <1>4, <1>5, <1>6, <1>7, <1>8, <1>9, <1>10, <1>11
  DEF IngestStep, ProcessEnvelope

\* A sweep commits while no envelope is in its session, so it takes nothing from
\* under one; every other step leaves the logs and the session alone.
LEMMA FilingOthers ==
  ASSUME TypeInv, FilingInv, [Next]_vars, ~IngestStep
  PROVE  FilingInv'
<1> USE DEF BeforePacket, PacketKnown, SightingKnown
<1>1. CASE CleanupStep /\ CommitSweep
  <2>1. phase \notin InEnvelope
    BY <1>1, TasksAssumption DEF CommitSweep, TypeInv, SessionUnderLock, InSweep,
       Holds, TasksAssumption
  <2>2. UNCHANGED ingestVars /\ packet' \subseteq packet /\ seen' \subseteq seen
    BY <1>1 DEF CleanupStep, CommitSweep
  <2>3. phase \in {"stream", "lock"}
    BY <2>1 DEF TypeInv, TypeOK, IngestTypeOK
  <2>4. staged.packet = {} /\ staged.seen = {} /\ staged.trace = {}
    BY <2>3 DEF FilingInv, StagedLogs
  <2>5. LogKeys'
    BY <2>2 DEF FilingInv, LogKeys, SameSighting
  <2>6. StagedLogs' /\ AtHand'
    BY <2>2, <2>3, <2>4 DEF ingestVars, StagedLogs, AtHand
  <2> QED BY <2>5, <2>6 DEF FilingInv
<1>2. CASE Deliver
  <2>1. phase = "stream" /\ phase' = "lock" /\ UNCHANGED <<tables, staged>>
    BY <1>2 DEF Deliver, Receive
  <2>2. staged.packet = {} /\ staged.seen = {} /\ staged.trace = {}
    BY <2>1 DEF FilingInv, StagedLogs
  <2> QED
    BY <2>1, <2>2 DEF tables, FilingInv, LogKeys, StagedLogs, AtHand,
       SameSighting
<1>3. CASE IngestDies \/ Crash
  <2>1. IngestReset /\ UNCHANGED tables
    BY <1>3 DEF IngestDies, Crash, Halt
  <2>2. LogKeys'
    BY <2>1 DEF tables, FilingInv, LogKeys, SameSighting
  <2> QED BY <2>1, <2>2, FilingReset
<1>4. CASE UNCHANGED <<tables, phase, env, staged>>
  BY <1>4 DEF tables, FilingInv, LogKeys, StagedLogs, AtHand, SameSighting, Ids
<1>5. ASSUME ~(CleanupStep /\ CommitSweep), ~Deliver, ~(IngestDies \/ Crash)
      PROVE  UNCHANGED <<tables, phase, env, staged>>
  BY <1>5 DEF Next, vars, Wake, StartSweep, CleanupStep, SweepStep, EnterSweep,
     DeletePackets, DeleteSightings, DeleteTraceroutes, DeleteNodes,
     FinishSweep, AbortSweep, Restart, Tick, ingestVars
<1> QED BY <1>1, <1>2, <1>3, <1>4, <1>5

LEMMA FilingInvHolds == Spec => [](TypeInv /\ FilingInv)
<1>1. TypeInv /\ TypeInv' /\ FilingInv /\ [Next]_vars => FilingInv'
  BY FilingIngest, FilingOthers
<1> QED BY <1>1, FilingInvInit, TypeInvHolds, PTL DEF Spec

-----------------------------------------------------------------------------
\* The three logs change in the commit of an envelope and in that of a sweep.
LEMMA LogSteps ==
  ASSUME FilingInv, [Next]_vars
  PROVE  \/ CommitEnvelope
         \/ packet' \subseteq packet /\ seen' \subseteq seen
            /\ trace' \subseteq trace
<1>1. CASE IngestStep
  <2>1. CASE CommitMapReport
    BY <2>1 DEF CommitMapReport, ApplyStaged, FilingInv, StagedLogs,
       BeforePacket
  <2>2. CASE ~CommitMapReport /\ ~CommitEnvelope
    <3>1. UNCHANGED tables
      BY <1>1, <2>2 DEF IngestStep, ProcessEnvelope, EnterEnvelope,
         StageMapReport, SkipUnnumbered, FindPacket, InsertPacket,
         SkipUngatewayed, MarkGateway, RecordSeen, RecordNodeInfo,
         RecordPublicKey, RecordPosition
    <3> QED BY <3>1 DEF tables
  <2> QED BY <2>1, <2>2
<1>2. CASE ~IngestStep /\ ~CommitSweep
  <2>1. UNCHANGED tables
    BY <1>2 DEF Next, vars, Deliver, Receive, IngestDies, Wake, StartSweep,
       CleanupStep, SweepStep, EnterSweep, DeletePackets, DeleteSightings,
       DeleteTraceroutes, DeleteNodes, FinishSweep, AbortSweep, Crash,
       Restart, Tick, Halt
  <2> QED BY <2>1 DEF tables
<1>3. CASE CommitSweep
  BY <1>3 DEF CommitSweep
<1> QED BY <1>1, <1>2, <1>3

\* A packet heard again leaves the stored copy and its sightings as they were.
THEOREM WriterKeepsFirstCopy == Spec => FirstCopyWins
<1> DEFINE Same == /\ \A p \in packet, q \in packet' : p.id = q.id => p = q
                   /\ \A s \in seen, t \in seen' : SameSighting(s, t) => s = t
<1>1. ASSUME FilingInv, [Next]_vars PROVE [Same]_vars
  <2>1. CASE CommitEnvelope
    <3>1. packet' = packet \cup staged.packet /\ seen' = seen \cup staged.seen
      BY <2>1 DEF CommitEnvelope, ApplyStaged
    <3>2. \A a \in staged.seen : \A b \in seen : ~SameSighting(a, b)
      BY <2>1 DEF CommitEnvelope, Committable
    <3> QED
      BY <1>1, <3>1, <3>2 DEF FilingInv, LogKeys, StagedLogs, SameSighting, Ids
  <2>2. CASE packet' \subseteq packet /\ seen' \subseteq seen
    BY <1>1, <2>2 DEF FilingInv, LogKeys
  <2> QED BY <1>1, <2>1, <2>2, LogSteps
<1> QED BY <1>1, FilingInvHolds, PTL DEF Spec, FirstCopyWins

\* A packet is filed with the sighting that brought it, and a sighting or a
\* traceroute never without its packet in the table.
THEOREM WriterFilesAtomically == Spec => AtomicFiling
<1> DEFINE Whole ==
      /\ \A p \in packet' \ packet : \E s \in seen' : s.id = p.id
      /\ Ids((seen' \ seen) \cup (trace' \ trace)) \subseteq Ids(packet')
<1>1. ASSUME FilingInv, [Next]_vars PROVE [Whole]_vars
  <2>1. CASE CommitEnvelope
    <3>1. packet' = packet \cup staged.packet /\ seen' = seen \cup staged.seen
          /\ trace' = trace \cup staged.trace
      BY <2>1 DEF CommitEnvelope, ApplyStaged
    <3>2. env.id \in Ids(packet') /\ \E s \in seen' : s.id = env.id
      BY <1>1, <2>1, <3>1
      DEF CommitEnvelope, FilingInv, AtHand, PacketKnown, SightingKnown
    <3> QED
      BY <1>1, <3>1, <3>2 DEF FilingInv, StagedLogs, Ids
  <2>2. CASE packet' \subseteq packet /\ seen' \subseteq seen
             /\ trace' \subseteq trace
    BY <2>2 DEF Ids
  <2> QED BY <1>1, <2>1, <2>2, LogSteps
<1> QED BY <1>1, FilingInvHolds, PTL DEF Spec, AtomicFiling

-----------------------------------------------------------------------------
(* The order of the packets, and the sightings they keep.                   *)

\* A packet carries the reading of the clock at its lookup, so none that was
\* committed before is younger.
OrderInv ==
  /\ \A p \in packet \cup staged.packet : p.at <= now
  /\ \A p \in staged.packet, q \in packet : q.at <= p.at

\* Packets are made by the lookup and filed by the commit; no other step adds
\* one to the table or to the session.
LEMMA PacketSteps ==
  ASSUME TypeInv, TypeInv', FilingInv, [Next]_vars, ~FindPacket, ~CommitEnvelope
  PROVE  packet' \subseteq packet /\ staged'.packet \subseteq staged.packet
<1>1. packet' \subseteq packet
  BY LogSteps
<1>2. staged \in Staging /\ staged' \in Staging
  BY DEF TypeInv, TypeOK, IngestTypeOK
<1>3. staged' = NothingStaged \/ staged'.packet \subseteq staged.packet
  <2>1. CASE IngestStep
    BY <1>2, <2>1 DEF IngestStep, ProcessEnvelope, EnterEnvelope, StageMapReport,
       CommitMapReport, SkipUnnumbered, InsertPacket, SkipUngatewayed,
       MarkGateway, RecordSeen, RecordNodeInfo, RecordPublicKey, RecordPosition,
       IngestReset, Staging
  <2>2. CASE ~IngestStep
    BY <2>2 DEF Next, vars, Deliver, Receive, IngestDies, Wake, StartSweep,
       CleanupStep, Crash, Restart, Tick, Halt, IngestReset, ingestVars
  <2> QED BY <2>1, <2>2
<1> QED BY <1>1, <1>3 DEF NothingStaged

\* The clock never moves back.
LEMMA ClockMovesOn ==
  ASSUME TypeInv, [Next]_vars
  PROVE  now \in Int /\ now' \in Int /\ now <= now'
BY TimeAssumption
DEF TimeAssumption, TypeInv, TypeOK, DBTypeOK, Times, Next, vars, Deliver,
    IngestStep, IngestDies, Wake, CleanupStep, Crash, Restart, Tick, Halt

LEMMA OrderInvInit == Init => OrderInv
BY DEF Init, DBInit, IngestInit, NothingStaged, OrderInv

LEMMA OrderInvNext ==
  ASSUME TypeInv, TypeInv', FilingInv, OrderInv, [Next]_vars
  PROVE  OrderInv'
<1>1. /\ packet \subseteq PacketRows /\ staged \in Staging
      /\ staged' \in Staging
  BY DEF TypeInv, TypeOK, DBTypeOK, IngestTypeOK
<1>2. \A p \in packet \cup staged.packet : p.at \in Int
  BY <1>1 DEF Staging, PacketRows, Times
<1>3. now \in Int /\ now' \in Int /\ now <= now'
  BY ClockMovesOn
<1>4. CASE FindPacket
  <2>1. packet' = packet /\ now' = now
    BY <1>4 DEF FindPacket, tables, Next, vars, Deliver, Receive, IngestStep,
       IngestDies, Wake, CleanupStep, Crash, Restart, Tick, Halt, IngestReset,
       ingestVars
  <2>2. \A p \in staged'.packet : p \in staged.packet \/ p.at = now
    BY <1>1, <1>4 DEF FindPacket, Staging
  <2> QED BY <1>2, <1>3, <2>1, <2>2 DEF OrderInv
<1>5. CASE CommitEnvelope
  <2>1. packet' = packet \cup staged.packet /\ staged'.packet = {}
    BY <1>5 DEF CommitEnvelope, ApplyStaged, IngestReset, NothingStaged
  <2> QED BY <1>2, <1>3, <2>1 DEF OrderInv
<1>6. CASE ~FindPacket /\ ~CommitEnvelope
  BY <1>2, <1>3, <1>6, PacketSteps DEF OrderInv
<1> QED BY <1>4, <1>5, <1>6

LEMMA OrderInvHolds == Spec => []OrderInv
<1>1. TypeInv /\ TypeInv' /\ FilingInv /\ OrderInv /\ [Next]_vars => OrderInv'
  BY OrderInvNext
<1> QED BY <1>1, OrderInvInit, FilingInvHolds, PTL DEF Spec

\* As long as the clock is never set back, packets are committed in the order of
\* their import_time_us: the newest row a live page has seen is no younger than any
\* row that comes later.
THEOREM WriterCommitsInOrder == Spec => CommitsInOrder
<1> DEFINE Ordered == \A p \in packet' \ packet : \A q \in packet : q.at <= p.at
<1>1. ASSUME FilingInv, OrderInv, [Next]_vars PROVE [Ordered]_vars
  <2>1. CASE CommitEnvelope
    BY <1>1, <2>1 DEF CommitEnvelope, ApplyStaged, OrderInv
  <2>2. CASE packet' \subseteq packet
    BY <2>2
  <2> QED BY <1>1, <2>1, <2>2, LogSteps
<1> QED BY <1>1, FilingInvHolds, OrderInvHolds, PTL DEF Spec, CommitsInOrder

-----------------------------------------------------------------------------
\* Where foreign keys are checked, no sighting and no traceroute outlives its
\* packet, and past the lookup of the sighting the envelope's packet has one that
\* is no older.  A sweep that got past its packets found none that was expired:
\* deleting a packet would orphan the sighting that came with it.
SightedInv ==
  /\ PacketIsSighted
  /\ Ids(seen) \cup Ids(trace) \subseteq Ids(packet)
  /\ phase \in SightingKnown =>
       \A p \in packet \cup staged.packet : p.id = env.id =>
         \E s \in seen \cup staged.seen : s.id = p.id /\ p.at <= s.at
  /\ doomed.packet = {}

LEMMA SightedInvInit == Init => SightedInv
BY DEF Init, DBInit, IngestInit, CleanupInit, NothingStaged, NothingDoomed,
   SightedInv, PacketIsSighted, Ids, SightingKnown

\* Steps that leave the logs, the session and what the sweep deleted alone.
LEMMA SightedFrame ==
  ASSUME SightedInv, UNCHANGED <<tables, env, doomed>>,
         staged'.packet = staged.packet, staged'.seen = staged.seen,
         phase' \in SightingKnown => phase \in SightingKnown
  PROVE  SightedInv'
BY DEF SightedInv, PacketIsSighted, tables, Ids

\* The session ends without a commit.
LEMMA SightedReset ==
  ASSUME SightedInv, UNCHANGED tables, IngestReset,
         doomed' = doomed \/ doomed' = NothingDoomed
  PROVE  SightedInv'
BY DEF SightedInv, PacketIsSighted, tables, Ids, IngestReset, NothingDoomed,
   SightingKnown

LEMMA SightedIngest ==
  ASSUME EnforceFK, TypeInv, TypeInv', FilingInv, OrderInv, SightedInv, IngestStep
  PROVE  SightedInv'
<1>1. /\ staged \in Staging /\ staged' \in Staging /\ UNCHANGED doomed
      /\ packet \subseteq PacketRows /\ now \in Int
  BY DEF TypeInv, TypeOK, IngestTypeOK, DBTypeOK, IngestStep, cleanupVars, Times
<1>2. CASE EnterEnvelope \/ StageMapReport \/ MarkGateway \/ RecordNodeInfo
           \/ RecordPublicKey \/ RecordPosition
  BY <1>1, <1>2, SightedFrame
  DEF EnterEnvelope, StageMapReport, MarkGateway, RecordNodeInfo,
      RecordPublicKey, RecordPosition, Staging, SightingKnown
<1>3. CASE InsertPacket
  <2>1. staged'.packet = staged.packet
    BY <1>1, <1>3 DEF InsertPacket, FilingInv, StagedLogs, Staging
  <2> QED BY <1>1, <1>3, <2>1, SightedFrame DEF InsertPacket, Staging, SightingKnown
<1>4. CASE SkipUnnumbered \/ SkipUngatewayed
  BY <1>1, <1>4, SightedReset DEF SkipUnnumbered, SkipUngatewayed
<1>5. CASE FindPacket
  <2>1. UNCHANGED tables /\ phase' \in {"gateway", "insert"}
    BY <1>5 DEF FindPacket
  <2> QED BY <1>1, <2>1 DEF SightedInv, PacketIsSighted, tables, Ids, SightingKnown
<1>6. CASE CommitMapReport
  <2>1. staged.packet = {} /\ staged.seen = {} /\ staged.trace = {}
    BY <1>6 DEF CommitMapReport, FilingInv, StagedLogs
  <2>2. UNCHANGED <<packet, seen, trace>> /\ phase' = "packet"
    BY <1>6, <2>1 DEF CommitMapReport, ApplyStaged
  <2> QED BY <1>1, <2>2 DEF SightedInv, PacketIsSighted, Ids, SightingKnown
<1>7. CASE RecordSeen
  <2> DEFINE s == [id |-> env.id, gw |-> env.gateway, rx |-> env.rx,
                   at |-> now]
             news == IF \E old \in seen : SameSighting(old, s) THEN {} ELSE {s}
  <2>1. UNCHANGED <<tables, env>> /\ staged'.packet = staged.packet
        /\ staged'.seen = news /\ phase \in PacketKnown
    BY <1>1, <1>7 DEF RecordSeen, Staging, PacketKnown
  <2>2. ASSUME NEW p \in packet \cup staged.packet, p.id = env.id
        PROVE  \E t \in seen \cup news : t.id = p.id /\ p.at <= t.at
    <3>1. CASE p \in packet
      BY <3>1 DEF SightedInv, PacketIsSighted
    <3>2. CASE p \in staged.packet
      <4>1. env.id \notin Ids(packet)
        BY <3>2 DEF FilingInv, StagedLogs
      <4>2. \A old \in seen : old.id # env.id
        BY <4>1 DEF SightedInv, Ids
      <4>3. s.id = env.id /\ s.at = now
        OBVIOUS
      <4>4. news = {s}
        <5> HIDE DEF s
        <5> QED BY <4>2, <4>3 DEF SameSighting
      <4>5. p.at <= now
        BY <3>2 DEF OrderInv
      <4> HIDE DEF s, news
      <4> QED BY <2>2, <4>3, <4>4, <4>5
    <3> QED BY <3>1, <3>2
  <2> HIDE DEF s, news
  <2> QED BY <1>1, <2>1, <2>2 DEF SightedInv, PacketIsSighted, tables, Ids
<1>8. CASE CommitEnvelope
  <2>1. /\ packet' = packet \cup staged.packet /\ seen' = seen \cup staged.seen
        /\ trace' = trace \cup staged.trace /\ phase' = "stream"
        /\ phase \in SightingKnown
    BY <1>8 DEF CommitEnvelope, ApplyStaged, IngestReset, SightingKnown
  <2>2. Ids(staged.seen) \cup Ids(staged.trace) \subseteq Ids(packet')
    BY <1>8, <2>1 DEF CommitEnvelope, Committable
  <2>3. Ids(seen') \cup Ids(trace') \subseteq Ids(packet')
    <3>1. \A r \in seen \cup trace : r.id \in Ids(packet)
      BY DEF SightedInv, Ids
    <3>2. \A r \in seen \cup trace : r.id \in Ids(packet')
      BY <2>1, <3>1 DEF Ids
    <3>3. \A r \in staged.seen \cup staged.trace : r.id \in Ids(packet')
      BY <2>2 DEF Ids
    <3>4. \A r \in seen' \cup trace' : r.id \in Ids(packet')
      BY <2>1, <3>2, <3>3
    <3> QED BY <3>4 DEF Ids
  <2>4. \A p \in staged.packet : p.id = env.id
    BY DEF FilingInv, StagedLogs
  <2>5. PacketIsSighted'
    BY <2>1, <2>4 DEF SightedInv, PacketIsSighted
  <2> QED BY <1>1, <2>1, <2>3, <2>5 DEF SightedInv, SightingKnown
<1> QED
  BY <1>2, <1>3, <1>4, <1>5, <1>6, <1>7, <1>8 DEF IngestStep, ProcessEnvelope

LEMMA SightedOthers ==
  ASSUME EnforceFK, TypeInv, SweepInv, RetentionInv, FilingInv, SightedInv,
         [Next]_vars, ~IngestStep
  PROVE  SightedInv'
<1>1. /\ packet \subseteq PacketRows /\ seen \subseteq SeenRows
      /\ cutoff \in Int /\ doomed.seen \subseteq SeenRows
      /\ doomed \in [packet: SUBSET PacketRows, seen: SUBSET SeenRows,
                     trace: SUBSET TraceRows, node: SUBSET NodeRows]
  BY DEF TypeInv, TypeOK, DBTypeOK, CleanupTypeOK
<1>2. CASE CleanupStep
  <2>1. UNCHANGED ingestVars
    BY <1>2 DEF CleanupStep
  <2>2. CASE CommitSweep
    <3>1. packet' = packet /\ seen' = seen \ doomed.seen /\ trace' \subseteq trace
          /\ doomed'.packet = {}
      BY <2>2 DEF CommitSweep, SightedInv, NothingDoomed
    <3>2. \A p \in packet : p.at >= cutoff
      BY <2>2 DEF CommitSweep, SweepInv, SightedInv
    <3>3. \A s \in doomed.seen : s.at < cutoff
      BY DEF RetentionInv, DoomedAreOlder
    <3>4. \A p \in packet : p.at \in Int
      BY <1>1 DEF PacketRows, Times
    <3>5. \A s \in seen : s.at \in Int
      BY <1>1 DEF SeenRows, Times
    <3>6. PacketIsSighted'
      <4> SUFFICES ASSUME NEW p \in packet
                   PROVE  \E s \in seen' : s.id = p.id /\ p.at <= s.at
        BY <3>1 DEF PacketIsSighted
      <4>1. PICK s \in seen : s.id = p.id /\ p.at <= s.at
        BY DEF SightedInv, PacketIsSighted
      <4>2. s \notin doomed.seen
        BY <1>1, <3>2, <3>3, <3>4, <3>5, <4>1
      <4> QED BY <3>1, <4>1, <4>2
    <3>7. phase \notin InEnvelope
      BY <2>2, TasksAssumption
      DEF CommitSweep, TypeInv, SessionUnderLock, InSweep, Holds, TasksAssumption
    <3>8. phase' \notin SightingKnown
      BY <2>1, <3>7 DEF ingestVars, InEnvelope, SightingKnown
    <3> QED BY <3>1, <3>6, <3>8 DEF SightedInv, Ids
  <2>3. CASE DeletePackets
    <3>1. ~Orphans(Older(packet)) /\ doomed'.packet = Older(packet)
      BY <1>1, <2>3 DEF DeletePackets
    <3>2. \A p \in packet : p.id \in Ids(seen)
      BY DEF SightedInv, PacketIsSighted, Ids
    <3>3. Older(packet) = {}
      BY <3>1, <3>2 DEF Orphans, Older, Ids
    <3> QED
      BY <2>1, <2>3, <3>1, <3>3
      DEF DeletePackets, SightedInv, PacketIsSighted, tables, ingestVars, Ids
  <2>4. CASE ~CommitSweep /\ ~DeletePackets
    <3>1. UNCHANGED tables /\ doomed'.packet = {}
      BY <1>1, <1>2, <2>4
      DEF CleanupStep, SweepStep, EnterSweep, DeleteSightings, DeleteTraceroutes,
          DeleteNodes, FinishSweep, AbortSweep, CleanupReset, NothingDoomed,
          SightedInv
    <3> QED
      BY <2>1, <3>1 DEF SightedInv, PacketIsSighted, tables, ingestVars, Ids
  <2> QED BY <2>2, <2>3, <2>4
<1>3. CASE IngestDies \/ Crash
  BY <1>3, SightedReset DEF IngestDies, Crash, Halt, CleanupReset
<1>4. CASE Deliver
  <2>1. UNCHANGED <<tables, doomed>> /\ phase' = "lock"
    BY <1>4 DEF Deliver, Receive, cleanupVars
  <2> QED BY <2>1 DEF SightedInv, PacketIsSighted, tables, Ids, SightingKnown
<1>5. CASE Wake \/ Restart \/ Tick \/ UNCHANGED vars
  BY <1>5, SightedFrame DEF Wake, StartSweep, Restart, Tick, vars, ingestVars,
     cleanupVars
<1> QED BY <1>2, <1>3, <1>4, <1>5 DEF Next

\* Where foreign keys are checked, as PostgreSQL does, a packet never outlives
\* its sightings, though cleanup deletes the two tables by their own times.
THEOREM WriterKeepsPacketsSighted == EnforceFK /\ Spec => []PacketIsSighted
<1> SUFFICES ASSUME EnforceFK PROVE Spec => []PacketIsSighted
  OBVIOUS
<1>1. TypeInv /\ TypeInv' /\ SweepInv /\ RetentionInv /\ FilingInv /\ OrderInv
      /\ SightedInv /\ [Next]_vars => SightedInv'
  BY SightedIngest, SightedOthers
<1>2. SightedInv => PacketIsSighted
  BY DEF SightedInv
<1> QED
  BY <1>1, <1>2, SightedInvInit, SweepInvHolds, RetentionInvHolds, FilingInvHolds,
     OrderInvHolds, PTL DEF Spec

-----------------------------------------------------------------------------
(* What the session is about to write, and what can make it raise.          *)

\* The lookups a session has made still hold at its commit, and so do the
\* deletes of a sweep: this is what db_lock is for.
THEOREM WriterStagesCurrent == Spec => []StagedIsCurrent
<1>1. ASSUME TypeInv, NodeInv, KnownInv, FilingInv, SweepInv
      PROVE  StagedIsCurrent
  <2>1. node \subseteq NodeRows /\ staged.node \subseteq NodeRows
    BY <1>1 DEF TypeInv, TypeOK, DBTypeOK, IngestTypeOK, Staging
  <2>2. \A r \in staged.node : \A c \in node : r.key = c.key =>
          /\ r.num = c.num /\ c.last <= r.last /\ (c.gateway => r.gateway)
          /\ c.first \in {NoTime, r.first}
    BY <1>1, <2>1 DEF NodeInv, Sound, Continues, Follows, NodeRows
  <2>3. \A r \in staged.node :
          r.gateway \/ r.first < r.last => r.key \in {c.key : c \in node}
    <3> SUFFICES ASSUME NEW r \in staged.node, r.gateway \/ r.first < r.last
                 PROVE  Known(r)
      BY DEF Known
    <3>1. r.first \in Int /\ r.last \in Int /\ r.gateway \in BOOLEAN
      BY <2>1 DEF NodeRows, TimesOrNull
    <3>2. ~Fresh(r)
      BY <3>1 DEF Fresh
    <3> QED BY <1>1, <3>2 DEF KnownInv
  <2>4. phase \in InEnvelope /\ staged.seen # {} =>
          env.id \in Ids(packet \cup staged.packet)
    BY <1>1 DEF FilingInv, StagedLogs, AtHand, BeforePacket, PacketKnown, InEnvelope
  <2>5. Ids(staged.packet) \cap Ids(packet) = {}
    BY <1>1 DEF FilingInv, StagedLogs, Ids
  <2>6. sweep \in InSweep => doomed.packet \subseteq packet /\ doomed.node \subseteq node
    BY <1>1 DEF SweepInv
  <2> QED BY <2>2, <2>3, <2>4, <2>5, <2>6 DEF StagedIsCurrent
<1> QED
  BY <1>1, NodeInvHolds, KnownInvHolds, FilingInvHolds, SweepInvHolds, PTL

\* Of what ids, numbers and constraints can do, process_envelope raises over a
\* gateway that is no number or one too large, and over a NODEINFO that misnames
\* its sender, and over nothing else: no report, no sighting and no foreign key
\* ends the process.
THEOREM WriterRaisesOnBadInput == Spec => []OnlyBadInputRaises
<1>1. ASSUME TypeInv, NodeInv, KnownInv, FilingInv
      PROVE  OnlyBadInputRaises
  <2> DEFINE Misnamed ==
        /\ env.port = "NODEINFO"
        /\ \/ NumOf[env.user] \in Huge
           \/ \E r \in node : r.key # env.user /\ r.num = NumOf[env.user]
           \/ NumOf[env.user] = NoNum /\ env.key # NoKey
  <2> SUFFICES ASSUME phase \in {"mapCommit", "commit"}, ~Committable(staged)
               PROVE  Misnamed
    BY DEF OnlyBadInputRaises, EnvelopeRaises
  <2>1. \A r \in node \cup staged.node : r.num = NumOf[r.key]
    BY <1>1 DEF NodeInv, Sound
  <2>2. CASE NumberClash(NodeView(staged))
    <3>1. PICK r \in NodeView(staged), s \in NodeView(staged) :
            r.key # s.key /\ r.num = s.num /\ r.num # NoNum
      BY <2>2 DEF NumberClash
    <3>2. r \in node \cup staged.node /\ s \in node \cup staged.node
      BY DEF NodeView, OverlayNodes
    <3>3. \A x \in node : Known(x)
      BY DEF Known
    <3>4. (Known(r) \/ Fresh(r)) /\ (Known(s) \/ Fresh(s))
      BY <1>1, <3>2, <3>3 DEF KnownInv
    <3>5. ASSUME NEW a, NEW b, a.key # b.key, a.num = b.num, a.num # NoNum,
                 a.num = NumOf[a.key], b.num = NumOf[b.key], Fresh(a),
                 Known(b) \/ Fresh(b)
          PROVE  Misnamed
      <4>1. Known(b)
        BY <3>5 DEF Fresh
      <4>2. PICK c \in node : c.key = b.key /\ c.num = b.num
        BY <2>1, <3>5, <4>1 DEF Known
      <4>3. CASE phase = "mapCommit"
        <5>1. a.key = KeyOf[env.from] /\ \A d \in node : d.num # env.from
          BY <3>5, <4>3 DEF Fresh
        <5>2. env.from \in Nums
          BY <1>1, <4>3, EnvelopeAssumption DEF TypeInv, TypeOK, IngestTypeOK,
             EnvelopeAssumption, EnvelopeType
        <5>3. a.num = env.from
          BY <3>5, <5>1, <5>2, NumAssumption DEF NumAssumption
        <5> QED BY <3>5, <4>2, <5>1, <5>3
      <4>4. CASE phase = "commit"
        BY <3>5, <4>2, <4>4 DEF Fresh
      <4> QED BY <4>3, <4>4
    <3>6. ~(Known(r) /\ Known(s))
      BY <1>1, <2>1, <3>1, <3>2 DEF Known, KnownInv, NumbersFit, NumberClash
    <3>7. r.num = NumOf[r.key] /\ s.num = NumOf[s.key] /\ s.num # NoNum
          /\ s.key # r.key /\ s.num = r.num
      BY <2>1, <3>1, <3>2
    <3> QED BY <3>1, <3>4, <3>5, <3>6, <3>7
  <2>3. CASE \E k \in staged.pubkey : k.num = NoNum
    BY <1>1, <2>3 DEF KnownInv
  <2>4. \A s \in staged.seen : \A t \in seen : ~SameSighting(s, t)
    BY <1>1 DEF KnownInv
  <2>5. Ids(staged.seen) \cup Ids(staged.trace) \subseteq Ids(packet \cup staged.packet)
    <3>1. CASE phase = "mapCommit"
      BY <1>1, <3>1 DEF FilingInv, StagedLogs, Ids
    <3>2. CASE phase = "commit"
      <4>1. env.id \in Ids(packet \cup staged.packet)
        BY <1>1, <3>2 DEF FilingInv, AtHand, PacketKnown
      <4>2. \A s \in staged.seen \cup staged.trace : s.id = env.id
        BY <1>1 DEF FilingInv, StagedLogs
      <4> QED BY <4>1, <4>2 DEF Ids
    <3> QED BY <3>1, <3>2
  <2>6. CASE \E r \in staged.node : r.num \in Huge
    <3>1. PICK r \in staged.node : r.num \in Huge
      BY <2>6
    <3>2. r.num = NumOf[r.key]
      BY <2>1
    <3>3. ~Known(r)
      BY <1>1, <2>1, <3>1, <3>2 DEF Known, KnownInv, NumbersFit
    <3>4. Fresh(r)
      BY <1>1, <3>3 DEF KnownInv
    <3>5. CASE phase = "mapCommit"
      <4>1. env.from \in Nums \ Huge
        BY <1>1, <3>5, EnvelopeAssumption DEF TypeInv, TypeOK, IngestTypeOK,
           EnvelopeAssumption, EnvelopeType
      <4>2. r.num = env.from
        BY <3>2, <3>4, <3>5, <4>1, NumAssumption DEF Fresh, NumAssumption
      <4> QED BY <3>1, <4>1, <4>2
    <3>6. CASE phase = "commit"
      BY <3>1, <3>2, <3>4, <3>6 DEF Fresh
    <3> QED BY <3>5, <3>6
  <2> QED BY <2>2, <2>3, <2>4, <2>5, <2>6 DEF Committable
<1> QED BY <1>1, NodeInvHolds, KnownInvHolds, FilingInvHolds, PTL

-----------------------------------------------------------------------------
(* The writer implements the archive.                                       *)

\* The archive's operators are those of the writer's database.
LEMMA ArchiveUpserts ==
  ASSUME NEW rows, NEW k, NEW t
  PROVE  A!Upsert(rows, k, t) =
           LET found == {r \in rows : r.key = k}
           IN  OverlayNodes(rows, IF found = {} THEN {NewNode(k, NumOf[k], t)}
                                  ELSE {Touched(r, t) : r \in found})
BY DEF A!Upsert, A!OverlayNodes, OverlayNodes, A!NewNode, NewNode, A!Touched,
   Touched, A!NoTime, NoTime

LEMMA ArchiveTouches ==
  ASSUME NEW rows, NEW n, NEW t
  PROVE  A!TouchNum(rows, n, t) =
           OverlayNodes(rows, {Touched(r, t) : r \in {q \in rows : q.num = n}})
BY DEF A!TouchNum, A!OverlayNodes, OverlayNodes, A!Touched, Touched, A!NoTime,
   NoTime

\* Laying nothing over a table leaves it as it is.
LEMMA OverlayNothing == ASSUME NEW rows PROVE OverlayNodes(rows, {}) = rows
BY DEF OverlayNodes

LEMMA OverlayMember ==
  ASSUME NEW rows, NEW new, NEW x
  PROVE  x \in OverlayNodes(rows, new) <=>
           x \in new \/ (x \in rows /\ \A s \in new : s.key # x.key)
BY DEF OverlayNodes

\* A table written over twice is written over once, by the later rows first.
LEMMA OverlayTwice ==
  ASSUME NEW rows, NEW a, NEW b
  PROVE  OverlayNodes(rows, OverlayNodes(a, b)) =
           OverlayNodes(OverlayNodes(rows, a), b)
<1> DEFINE ab == OverlayNodes(a, b)
           L == OverlayNodes(rows, ab)
           R == OverlayNodes(OverlayNodes(rows, a), b)
<1>1. ASSUME NEW x PROVE x \in L <=> x \in R
  <2>1. \A y : y \in ab <=> y \in b \/ (y \in a /\ \A s \in b : s.key # y.key)
    BY OverlayMember
  <2>2. (\A s \in ab : s.key # x.key) <=>
          (\A s \in a : s.key # x.key) /\ (\A s \in b : s.key # x.key)
    <3> HIDE DEF ab
    <3>1. ASSUME \A s \in ab : s.key # x.key, NEW s \in a PROVE s.key # x.key
      <4>1. CASE \A u \in b : u.key # s.key
        BY <2>1, <3>1, <4>1
      <4>2. CASE \E u \in b : u.key = s.key
        BY <2>1, <3>1, <4>2
      <4> QED BY <4>1, <4>2
    <3> QED BY <2>1, <3>1
  <2>3. x \in L <=> x \in ab \/ (x \in rows /\ \A s \in ab : s.key # x.key)
    BY OverlayMember
  <2>4. x \in OverlayNodes(rows, a) <=>
          x \in a \/ (x \in rows /\ \A s \in a : s.key # x.key)
    BY OverlayMember
  <2>5. x \in R <=> x \in b
          \/ (x \in OverlayNodes(rows, a) /\ \A s \in b : s.key # x.key)
    BY OverlayMember
  <2> HIDE DEF ab, L, R
  <2> QED BY <2>1, <2>2, <2>3, <2>4, <2>5
<1> HIDE DEF L, R
<1>2. L = R
  BY <1>1
<1> QED BY <1>2 DEF L, R

LEMMA ArchiveFlags ==
  ASSUME NEW rows, NEW e
  PROVE  /\ A!Flagged(rows, e, FALSE) = rows
         /\ A!Flagged(rows, e, TRUE) =
              OverlayNodes(rows, {[r EXCEPT !.gateway = TRUE] :
                                    r \in {q \in rows : q.num = e.gateway}})
<1>1. {q \in rows : FALSE /\ q.num = e.gateway} = {}
  OBVIOUS
<1>2. {q \in rows : TRUE /\ q.num = e.gateway} = {q \in rows : q.num = e.gateway}
  OBVIOUS
<1>3. {[r EXCEPT !.gateway = TRUE] : r \in {q \in rows : FALSE /\ q.num = e.gateway}} = {}
  BY <1>1
<1>4. \A new : A!OverlayNodes(rows, new) = OverlayNodes(rows, new)
  BY DEF A!OverlayNodes, OverlayNodes
<1>5. A!Flagged(rows, e, FALSE) = rows
  BY <1>3, <1>4, OverlayNothing DEF A!Flagged
<1>6. A!Flagged(rows, e, TRUE) =
        OverlayNodes(rows, {[r EXCEPT !.gateway = TRUE] :
                              r \in {q \in rows : TRUE /\ q.num = e.gateway}})
  BY <1>4 DEF A!Flagged
<1> QED BY <1>2, <1>5, <1>6

LEMMA ArchiveMarks ==
  ASSUME NEW marked, marked = {[r EXCEPT !.gateway = TRUE] :
                                 r \in {q \in node : q.num = env.gateway}}
  PROVE  A!Flagged(node, env, TRUE) = OverlayNodes(node, marked)
<1>1. {[r EXCEPT !.gateway = TRUE] : r \in {q \in node : TRUE /\ q.num = env.gateway}} = marked
  OBVIOUS
<1>2. A!Flagged(node, env, TRUE) = A!OverlayNodes(node, marked)
  BY <1>1 DEF A!Flagged
<1>3. A!OverlayNodes(node, marked) = OverlayNodes(node, marked)
  BY DEF A!OverlayNodes, OverlayNodes
<1> QED
  BY <1>2, <1>3

\* What the session has staged so far is the filing of its envelope, part by
\* part: the commit is a step of the archive because every part is.
Flags == {A!Flagged(node, env, FALSE), A!Flagged(node, env, TRUE)}

FilesReport ==
  /\ env.port = "MAP_REPORT"
  /\ \/ staged.node = {}
     \/ /\ env.usable
        /\ \E t \in 1..now :
             NodeView(staged) =
               IF \E r \in node : r.num = env.from
               THEN A!TouchNum(node, env.from, t)
               ELSE A!Upsert(node, KeyOf[env.from], t)

FilesPacket ==
  \E t \in 1..now :
    staged.packet = IF env.id \in Ids(packet) THEN {}
                    ELSE {[id |-> env.id, from |-> env.from, at |-> t]}

FilesSighting ==
  \E t \in 1..now :
    LET s == [id |-> env.id, gw |-> env.gateway, rx |-> env.rx, at |-> t]
        r == [id |-> env.id, gw |-> env.gateway, done |-> env.reply, at |-> t]
    IN  /\ staged.seen =
             IF \E old \in seen : SameSighting(old, s) THEN {} ELSE {s}
        /\ staged.trace = IF env.port = "TRACEROUTE" THEN {r} ELSE {}

FilesNode ==
  \E rows \in Flags, t \in 1..now :
    NodeView(staged) =
      CASE env.port = "NODEINFO" /\ env.usable -> A!Upsert(rows, env.user, t)
        [] env.port = "POSITION" /\ env.usable -> A!TouchNum(rows, env.from, t)
        [] OTHER -> rows

FilesKey ==
  IF env.port = "NODEINFO" /\ env.usable /\ env.key # NoKey
  THEN \E t \in 1..now :
         LET owner == NumOf[env.user]
             found == {k \in pubkey : k.num = owner /\ k.key = env.key}
         IN  staged.pubkey =
               IF found # {} THEN {[k EXCEPT !.last = t] : k \in found}
               ELSE {[num |-> owner, key |-> env.key, first |-> t, last |-> t]}
  ELSE staged.pubkey = {}

ArchiveInv ==
  /\ phase = "map" => env.port = "MAP_REPORT"
  /\ phase = "mapCommit" => FilesReport
  /\ phase \in PacketKnown => FilesPacket
  /\ phase \in {"seen", "nodeinfo", "position"} => NodeView(staged) \in Flags
  /\ phase = "nodeinfo" => env.port = "NODEINFO" /\ env.usable
  /\ phase = "position" => env.port = "POSITION" /\ env.usable
  /\ phase = "nodekey" => env.port = "NODEINFO" /\ env.usable
  /\ phase \in SightingKnown => FilesSighting
  /\ phase \in {"nodekey", "commit"} => FilesNode
  /\ phase = "commit" => FilesKey

LEMMA ArchiveInvInit == Init => ArchiveInv
BY DEF Init, IngestInit, ArchiveInv, PacketKnown, SightingKnown

\* Where no envelope is in its session there is nothing to say.
LEMMA ArchiveIdle ==
  ASSUME phase' \notin InEnvelope \ {"packet"}
  PROVE  ArchiveInv'
BY DEF ArchiveInv, InEnvelope, PacketKnown, SightingKnown

\* The clock may move under an open session.
LEMMA ArchiveFrame ==
  ASSUME ArchiveInv, UNCHANGED <<tables, env, staged, phase>>,
         now \in Int, now' \in Int, now <= now'
  PROVE  ArchiveInv'
<1>1. 1..now \subseteq 1..now'
  OBVIOUS
<1>2. UNCHANGED <<node, packet, seen, trace, pubkey>>
  BY DEF tables
<1>3. Flags' = Flags /\ NodeView(staged)' = NodeView(staged)
  BY <1>2 DEF Flags, NodeView, A!Flagged, A!OverlayNodes, OverlayNodes
<1>4. FilesReport => FilesReport'
  BY <1>1, <1>2, <1>3 DEF FilesReport
<1>5. FilesPacket => FilesPacket'
  BY <1>1, <1>2 DEF FilesPacket, Ids
<1>6. FilesSighting => FilesSighting'
  BY <1>1, <1>2 DEF FilesSighting, SameSighting
<1>7. FilesNode => FilesNode'
  BY <1>1, <1>2, <1>3 DEF FilesNode
<1>8. FilesKey => FilesKey'
  <2> SUFFICES ASSUME FilesKey PROVE FilesKey'
    OBVIOUS
  <2> DEFINE Filed(t) ==
               LET owner == NumOf[env.user]
                   found == {k \in pubkey : k.num = owner /\ k.key = env.key}
               IN  staged.pubkey =
                     IF found # {} THEN {[k EXCEPT !.last = t] : k \in found}
                     ELSE {[num |-> owner, key |-> env.key, first |-> t, last |-> t]}
  <2>1. ASSUME NEW t PROVE Filed(t)' = Filed(t)
    BY <1>2
  <2>2. CASE env.port = "NODEINFO" /\ env.usable /\ env.key # NoKey
    <3>1. PICK t \in 1..now : Filed(t)
      BY <2>2 DEF FilesKey
    <3>2. t \in 1..now' /\ Filed(t)'
      BY <1>1, <2>1, <3>1
    <3> QED
      BY <2>2, <3>2 DEF FilesKey
  <2>3. CASE ~(env.port = "NODEINFO" /\ env.usable /\ env.key # NoKey)
    BY <2>3 DEF FilesKey
  <2> QED
    BY <2>2, <2>3
<1> QED BY <1>3, <1>4, <1>5, <1>6, <1>7, <1>8 DEF ArchiveInv

\* Each await of process_envelope stages one more part of the filing.
LEMMA ArchiveIngest ==
  ASSUME TypeInv, TypeInv', NodeInv, PubkeyInv, FilingInv, ArchiveInv, IngestStep
  PROVE  ArchiveInv'
<1>1. /\ staged \in Staging /\ staged' \in Staging /\ now \in Times /\ now' = now
      /\ node \subseteq NodeRows /\ now \in 1..now
  BY DEF TypeInv, TypeOK, IngestTypeOK, DBTypeOK, IngestStep, Times
<1>2. CASE CommitMapReport \/ SkipUnnumbered \/ SkipUngatewayed \/ CommitEnvelope
  <2>1. phase' \in {"packet", "stream"}
    BY <1>2 DEF CommitMapReport, SkipUnnumbered, SkipUngatewayed, CommitEnvelope,
       IngestReset
  <2> QED BY <2>1, ArchiveIdle DEF InEnvelope
<1>3. CASE EnterEnvelope
  BY <1>3 DEF EnterEnvelope, ArchiveInv, PacketKnown, SightingKnown
<1>4. \* what a step that only stages keeps
      ASSUME UNCHANGED <<tables, env>>
      PROVE  /\ UNCHANGED <<node, packet, seen, trace, pubkey>>
             /\ Flags' = Flags
             /\ staged'.node = staged.node => NodeView(staged)' = NodeView(staged)
             /\ staged'.packet = staged.packet /\ FilesPacket => FilesPacket'
             /\ staged'.seen = staged.seen /\ staged'.trace = staged.trace
                  /\ FilesSighting => FilesSighting'
  <2>1. UNCHANGED <<node, packet, seen, trace, pubkey>>
    BY <1>4 DEF tables
  <2>2. Flags' = Flags
    BY <1>4, <2>1 DEF Flags
  <2>3. staged'.node = staged.node => NodeView(staged)' = NodeView(staged)
    BY <2>1 DEF NodeView
  <2>4. staged'.packet = staged.packet /\ FilesPacket => FilesPacket'
    BY <1>1, <1>4, <2>1 DEF FilesPacket
  <2>5. staged'.seen = staged.seen /\ staged'.trace = staged.trace
          /\ FilesSighting => FilesSighting'
    BY <1>1, <1>4, <2>1 DEF FilesSighting
  <2> QED BY <2>1, <2>2, <2>3, <2>4, <2>5
<1>5. CASE StageMapReport
  <2> DEFINE found == {r \in node : r.num = env.from}
             made == NewNode(KeyOf[env.from], env.from, now)
             new == IF ~env.usable THEN {}
                    ELSE IF found # {} THEN {Touched(r, now) : r \in found}
                    ELSE {made}
  <2>1. UNCHANGED <<node, env>> /\ staged'.node = new /\ phase' = "mapCommit"
        /\ env.port = "MAP_REPORT"
    BY <1>1, <1>5 DEF StageMapReport, tables, Staging, ArchiveInv
  <2>2. CASE ~env.usable
    BY <2>1, <2>2 DEF ArchiveInv, FilesReport, PacketKnown, SightingKnown
  <2>3. CASE env.usable /\ found # {}
    <3>1. NodeView(staged)' = A!TouchNum(node, env.from, now)
      BY <2>1, <2>3, ArchiveTouches DEF NodeView
    <3>2. \E r \in node : r.num = env.from
      BY <2>3
    <3>3. FilesReport'
      BY <1>1, <2>1, <2>3, <3>1, <3>2 DEF FilesReport
    <3> QED BY <2>1, <3>3 DEF ArchiveInv, PacketKnown, SightingKnown
  <2>4. CASE env.usable /\ found = {}
    <3>1. env.from \in Nums /\ NumOf[KeyOf[env.from]] = env.from
      BY <1>5, EnvelopeAssumption, NumAssumption
      DEF StageMapReport, TypeInv, TypeOK, IngestTypeOK, EnvelopeAssumption,
          EnvelopeType, NumAssumption
    <3>2. {r \in node : r.key = KeyOf[env.from]} = {}
      BY <2>4, <3>1 DEF NodeInv, Sound
    <3>3. OverlayNodes(node, {made}) = A!Upsert(node, KeyOf[env.from], now)
      BY <3>1, <3>2, ArchiveUpserts
    <3>4. NodeView(staged)' = A!Upsert(node, KeyOf[env.from], now)
      BY <2>1, <2>4, <3>3 DEF NodeView
    <3>5. ~ \E r \in node : r.num = env.from
      BY <2>4
    <3>6. FilesReport'
      BY <1>1, <2>1, <2>4, <3>4, <3>5 DEF FilesReport
    <3> QED BY <2>1, <3>6 DEF ArchiveInv, PacketKnown, SightingKnown
  <2> QED BY <2>2, <2>3, <2>4
<1>6. CASE FindPacket
  <2>1. UNCHANGED <<tables, env>> /\ phase' \in {"gateway", "insert"}
        /\ staged.packet = {}
        /\ staged'.packet = IF env.id \in Ids(packet) THEN {}
             ELSE {[id |-> env.id, from |-> env.from, at |-> now]}
    BY <1>1, <1>6 DEF FindPacket, Staging, FilingInv, StagedLogs, BeforePacket
  <2>2. FilesPacket'
    BY <1>1, <1>4, <2>1 DEF FilesPacket
  <2> QED BY <2>1, <2>2 DEF ArchiveInv, SightingKnown
<1>7. CASE InsertPacket
  <2>1. UNCHANGED <<tables, env>> /\ phase = "insert" /\ phase' = "gateway"
        /\ staged'.packet = staged.packet
    BY <1>1, <1>7 DEF InsertPacket, FilingInv, StagedLogs, Staging
  <2>2. FilesPacket'
    BY <1>4, <2>1 DEF ArchiveInv, PacketKnown
  <2> QED BY <2>1, <2>2 DEF ArchiveInv, SightingKnown
<1>8. CASE MarkGateway
  <2> DEFINE marked == {[r EXCEPT !.gateway = TRUE] :
                          r \in {q \in node : q.num = env.gateway}}
  <2>1. UNCHANGED <<tables, env>> /\ phase = "gateway" /\ phase' = "seen"
        /\ staged'.packet = staged.packet /\ staged'.node \in {{}, marked}
    BY <1>1, <1>8 DEF MarkGateway, Staging
  <2>2. FilesPacket'
    BY <1>4, <2>1 DEF ArchiveInv, PacketKnown
  <2>3. NodeView(staged)' = OverlayNodes(node, staged'.node)
    BY <1>4, <2>1 DEF NodeView
  <2>4. NodeView(staged)' \in Flags
    <3>1. A!Flagged(node, env, FALSE) = OverlayNodes(node, {})
      BY ArchiveFlags, OverlayNothing
    <3>2. A!Flagged(node, env, TRUE) = OverlayNodes(node, marked)
      BY ArchiveMarks
    <3> HIDE DEF marked
    <3> QED BY <2>1, <2>3, <3>1, <3>2 DEF Flags
  <2> QED BY <1>4, <2>1, <2>2, <2>4 DEF ArchiveInv, SightingKnown
<1>9. CASE RecordSeen
  <2>1. UNCHANGED <<tables, env>> /\ phase = "seen"
        /\ staged'.packet = staged.packet /\ staged'.node = staged.node
        /\ staged'.pubkey = staged.pubkey
        /\ phase' = CASE env.port = "NODEINFO" /\ env.usable -> "nodeinfo"
                      [] env.port = "POSITION" /\ env.usable -> "position"
                      [] OTHER -> "commit"
    BY <1>1, <1>9 DEF RecordSeen, Staging
  <2>2. FilesPacket' /\ NodeView(staged)' \in Flags'
    BY <1>4, <2>1 DEF ArchiveInv, PacketKnown
  <2>3. FilesSighting'
    BY <1>1, <1>4, <1>9, <2>1 DEF RecordSeen, FilesSighting, Staging
  <2>4. CASE phase' = "commit"
    <3>1. ~(env.port = "NODEINFO" /\ env.usable)
          /\ ~(env.port = "POSITION" /\ env.usable)
      BY <2>1, <2>4
    <3>2. FilesNode'
      BY <1>1, <2>1, <2>2, <3>1 DEF FilesNode
    <3>3. FilesKey'
      BY <2>1, <3>1 DEF PubkeyInv, FilesKey
    <3> QED BY <2>2, <2>3, <2>4, <3>2, <3>3 DEF ArchiveInv
  <2>5. CASE phase' # "commit"
    <3>1. \/ phase' = "nodeinfo" /\ env.port = "NODEINFO" /\ env.usable
          \/ phase' = "position" /\ env.port = "POSITION" /\ env.usable
      BY <2>1, <2>5
    <3> QED BY <2>1, <2>2, <2>3, <3>1 DEF ArchiveInv
  <2> QED BY <2>4, <2>5
<1>10. CASE RecordNodeInfo
  <2> DEFINE view == NodeView(staged)
             found == {r \in view : r.key = env.user}
             T(r) == [Touched(r, now) EXCEPT !.num = NumOf[env.user]]
             mine == IF found = {}
                     THEN {NewNode(env.user, NumOf[env.user], now)}
                     ELSE {T(r) : r \in found}
  <2>1. UNCHANGED <<tables, env>> /\ phase = "nodeinfo"
        /\ staged'.packet = staged.packet /\ staged'.seen = staged.seen
        /\ staged'.trace = staged.trace /\ staged'.pubkey = staged.pubkey
        /\ staged'.node = OverlayNodes(staged.node, mine)
        /\ phase' = IF env.key = NoKey THEN "commit" ELSE "nodekey"
    BY <1>1, <1>10 DEF RecordNodeInfo, Staging
  <2>2. FilesPacket' /\ FilesSighting' /\ view \in Flags
        /\ env.port = "NODEINFO" /\ env.usable
    BY <1>4, <2>1 DEF ArchiveInv, PacketKnown, SightingKnown
  <2>3. \A r \in found : T(r) = Touched(r, now)
    <3>1. Sound(view)
      BY OverlaySound DEF NodeInv, NodeView
    <3>2. \A r \in found : r \in NodeRows /\ r.num = NumOf[env.user]
      BY <3>1 DEF Sound
    <3> QED BY <3>2 DEF NodeRows, Touched
  <2>4. {T(r) : r \in found} = {Touched(r, now) : r \in found}
    BY <2>3
  <2>5. OverlayNodes(view, mine) = A!Upsert(view, env.user, now)
    BY <2>4, ArchiveUpserts
  <2>6. NodeView(staged)' = OverlayNodes(node, OverlayNodes(staged.node, mine))
    BY <1>4, <2>1 DEF NodeView
  <2>7. NodeView(staged)' = OverlayNodes(view, mine)
    <3> HIDE DEF mine
    <3> QED BY <2>6, OverlayTwice DEF NodeView
  <2> HIDE DEF view, mine
  <2>8. FilesNode'
    BY <1>1, <1>4, <2>1, <2>2, <2>5, <2>7 DEF FilesNode
  <2>9. phase' = "commit" => FilesKey'
    BY <2>1 DEF PubkeyInv, FilesKey
  <2> QED BY <2>1, <2>2, <2>8, <2>9 DEF ArchiveInv
<1>11. CASE RecordPosition
  <2> DEFINE view == NodeView(staged)
             mine == {Touched(r, now) : r \in {q \in view : q.num = env.from}}
  <2>1. UNCHANGED <<tables, env>> /\ phase = "position" /\ phase' = "commit"
        /\ staged'.packet = staged.packet /\ staged'.seen = staged.seen
        /\ staged'.trace = staged.trace /\ staged'.pubkey = staged.pubkey
        /\ staged'.node = OverlayNodes(staged.node, mine)
    BY <1>1, <1>11 DEF RecordPosition, Staging
  <2>2. FilesPacket' /\ FilesSighting' /\ view \in Flags
        /\ env.port = "POSITION" /\ env.usable
    BY <1>4, <2>1 DEF ArchiveInv, PacketKnown, SightingKnown
  <2>3. OverlayNodes(view, mine) = A!TouchNum(view, env.from, now)
    BY ArchiveTouches
  <2>4. NodeView(staged)' = OverlayNodes(node, OverlayNodes(staged.node, mine))
    BY <1>4, <2>1 DEF NodeView
  <2>5. NodeView(staged)' = OverlayNodes(view, mine)
    <3> HIDE DEF mine
    <3> QED BY <2>4, OverlayTwice DEF NodeView
  <2> HIDE DEF view, mine
  <2>6. FilesNode'
    BY <1>1, <1>4, <2>1, <2>2, <2>3, <2>5 DEF FilesNode
  <2>7. FilesKey'
    BY <2>1, <2>2 DEF PubkeyInv, FilesKey
  <2> QED BY <2>1, <2>2, <2>6, <2>7 DEF ArchiveInv
<1>12. CASE RecordPublicKey
  <2>1. UNCHANGED <<tables, env>> /\ phase = "nodekey" /\ phase' = "commit"
        /\ staged'.packet = staged.packet /\ staged'.seen = staged.seen
        /\ staged'.trace = staged.trace /\ staged'.node = staged.node
    BY <1>1, <1>12 DEF RecordPublicKey, Staging
  <2>2. FilesPacket' /\ FilesSighting' /\ FilesNode
        /\ env.port = "NODEINFO" /\ env.usable /\ env.key # NoKey
    BY <1>4, <2>1
    DEF ArchiveInv, PacketKnown, SightingKnown, TypeInv, EnvelopeChecked
  <2>3. FilesNode'
    BY <1>1, <1>4, <2>1, <2>2 DEF FilesNode
  <2>4. FilesKey'
    <3> DEFINE owner == NumOf[env.user]
               found == {k \in pubkey : k.num = owner /\ k.key = env.key}
               filed == IF found # {} THEN {[k EXCEPT !.last = now] : k \in found}
                        ELSE {[num |-> owner, key |-> env.key, first |-> now, last |-> now]}
    <3>1. staged'.pubkey = filed
      <4> HIDE DEF filed
      <4>1. staged' = [staged EXCEPT !.pubkey = filed]
        BY <1>12 DEF RecordPublicKey, filed
      <4> QED
        BY <1>1, <4>1 DEF Staging
    <3>2. env' = env /\ pubkey' = pubkey /\ now \in 1..now'
      BY <1>1, <1>4, <2>1
    <3> QED
      BY <2>2, <3>1, <3>2 DEF FilesKey
  <2> QED BY <2>1, <2>2, <2>3, <2>4 DEF ArchiveInv
<1> QED
  BY <1>2, <1>3, <1>5, <1>6, <1>7, <1>8, <1>9, <1>10, <1>11, <1>12
  DEF IngestStep, ProcessEnvelope

\* The other tasks change no table while an envelope is in its session.
LEMMA ArchiveOthers ==
  ASSUME TypeInv, ArchiveInv, [Next]_vars, ~IngestStep
  PROVE  ArchiveInv'
<1>1. CASE phase' \notin InEnvelope
  BY <1>1, ArchiveIdle
<1>2. CASE phase' \in InEnvelope
  <2>1. ~(Deliver \/ IngestDies \/ Crash)
    BY <1>2 DEF Deliver, Receive, IngestDies, Crash, Halt, IngestReset, InEnvelope
  <2>2. UNCHANGED <<env, staged, phase>>
    BY <2>1 DEF Next, vars, Wake, CleanupStep, Restart, Tick, ingestVars
  <2>3. ~CommitSweep
    BY <1>2, <2>2, TasksAssumption
    DEF CommitSweep, TypeInv, SessionUnderLock, InSweep, Holds, TasksAssumption
  <2>4. UNCHANGED tables
    BY <2>1, <2>3 DEF Next, vars, Wake, StartSweep, CleanupStep, SweepStep,
       EnterSweep, DeletePackets, DeleteSightings, DeleteTraceroutes,
       DeleteNodes, FinishSweep, AbortSweep, Restart, Tick
  <2> QED BY <2>2, <2>4, ArchiveFrame, ClockMovesOn
<1> QED BY <1>1, <1>2

LEMMA ArchiveInvHolds == Spec => []ArchiveInv
<1>1. TypeInv /\ TypeInv' /\ NodeInv /\ PubkeyInv /\ FilingInv /\ ArchiveInv
        /\ [Next]_vars => ArchiveInv'
  BY ArchiveIngest, ArchiveOthers
<1> QED
  BY <1>1, ArchiveInvInit, NodeInvHolds, PubkeyInvHolds, FilingInvHolds, PTL
  DEF Spec

-----------------------------------------------------------------------------
\* The commit of an envelope files it.
LEMMA CommitFiles ==
  ASSUME TypeInv, NodeInv, KnownInv, FilingInv, PubkeyInv, ArchiveInv, now' = now,
         CommitEnvelope
  PROVE  A!FileEnvelope(env) /\ env \in Envelopes
<1>1. /\ phase = "commit" /\ env \in Envelopes
      /\ env.id # 0 /\ env.gateway \in Nums \ Huge
  BY DEF CommitEnvelope, TypeInv, TypeOK, IngestTypeOK, EnvelopeChecked,
     PastIdCheck, PastGateway
<1>2. /\ packet' = packet \cup staged.packet /\ seen' = seen \cup staged.seen
      /\ trace' = trace \cup staged.trace /\ node' = NodeView(staged)
      /\ pubkey' = OverlayKeys(pubkey, staged.pubkey)
  BY DEF CommitEnvelope, ApplyStaged
<1>3. FilesPacket /\ FilesSighting /\ FilesNode /\ FilesKey
  BY <1>1 DEF ArchiveInv, PacketKnown, SightingKnown
<1>4. A!Past = 1..now
  BY DEF A!Past
<1>5. A!FileSighting(env)
  BY <1>2, <1>3, <1>4
  DEF FilesPacket, FilesSighting, A!FileSighting, A!Ids, Ids, A!SameSighting,
      SameSighting
<1>6. A!FileNode(env)
  <2>1. PICK rows \in Flags, t \in 1..now :
          NodeView(staged) =
            CASE env.port = "NODEINFO" /\ env.usable -> A!Upsert(rows, env.user, t)
              [] env.port = "POSITION" /\ env.usable -> A!TouchNum(rows, env.from, t)
              [] OTHER -> rows
    BY <1>3 DEF FilesNode
  <2>2. PICK yes \in BOOLEAN : rows = A!Flagged(node, env, yes)
    BY DEF Flags
  <2> QED BY <1>2, <1>4, <2>1, <2>2 DEF A!FileNode
<1>7. A!FileKey(env)
  <2>1. CASE env.port = "NODEINFO" /\ env.usable /\ env.key # NoKey
    <3> DEFINE found == {k \in pubkey : k.num = NumOf[env.user] /\ k.key = env.key}
               row(t) == [num |-> NumOf[env.user], key |-> env.key,
                          first |-> t, last |-> t]
               news(t) == IF found # {} THEN {[k EXCEPT !.last = t] : k \in found}
                          ELSE {row(t)}
    <3>1. PICK t \in 1..now : staged.pubkey = news(t)
      BY <1>3, <2>1 DEF FilesKey
    <3>2. pubkey' = A!OverlayKeys(pubkey, staged.pubkey)
      BY <1>2 DEF OverlayKeys, A!OverlayKeys
    <3> QED BY <1>4, <2>1, <3>1, <3>2 DEF A!FileKey
  <2>2. CASE ~(env.port = "NODEINFO" /\ env.usable /\ env.key # NoKey)
    <3>1. staged.pubkey = {}
      BY <1>3, <2>2 DEF FilesKey
    <3>2. pubkey' = pubkey
      BY <1>2, <3>1 DEF OverlayKeys
    <3> QED BY <2>2, <3>2 DEF A!FileKey
  <2> QED BY <2>1, <2>2
<1>8. \A rows \in Flags : rows \subseteq NodeRows
  <2>1. node \subseteq NodeRows
    BY DEF TypeInv, TypeOK, DBTypeOK
  <2> DEFINE marked == {[r EXCEPT !.gateway = TRUE] :
                          r \in {q \in node : q.num = env.gateway}}
  <2>2. marked \subseteq NodeRows
    BY <2>1 DEF NodeRows
  <2>3. Flags = {node, OverlayNodes(node, marked)}
    BY ArchiveFlags DEF Flags
  <2> QED BY <2>1, <2>2, <2>3 DEF OverlayNodes
<1>9. ASSUME env.port = "NODEINFO", env.usable PROVE NumOf[env.user] \notin Huge
  <2>1. PICK rows \in Flags, t \in 1..now :
          NodeView(staged) = A!Upsert(rows, env.user, t)
    BY <1>3, <1>9 DEF FilesNode
  <2>2. PICK r \in NodeView(staged) : r.key = env.user
    <3> DEFINE found == {q \in rows : q.key = env.user}
               mine == IF found = {} THEN {NewNode(env.user, NumOf[env.user], t)}
                       ELSE {Touched(q, t) : q \in found}
    <3>1. NodeView(staged) = OverlayNodes(rows, mine)
      BY <2>1, ArchiveUpserts
    <3>2. mine \subseteq NodeView(staged)
      BY <3>1 DEF OverlayNodes
    <3>3. CASE found = {}
      <4>1. NewNode(env.user, NumOf[env.user], t).key = env.user
        BY DEF NewNode
      <4> QED BY <3>2, <3>3, <4>1
    <3>4. CASE found # {}
      <4>1. PICK q \in rows : q.key = env.user
        BY <3>4
      <4>2. Touched(q, t) \in NodeView(staged)
        BY <3>2, <3>4, <4>1
      <4>3. Touched(q, t).key = env.user
        <5>1. rows \subseteq NodeRows
          BY <1>8
        <5> QED BY <4>1, <5>1 DEF NodeRows, Touched
      <4> QED BY <4>2, <4>3
    <3> QED BY <3>3, <3>4
  <2>3. r \in node \cup staged.node
    BY DEF NodeView, OverlayNodes
  <2>4. r.num = NumOf[env.user]
    BY <2>2, <2>3 DEF NodeInv, Sound
  <2>5. r.num \notin Huge
    BY <2>3 DEF CommitEnvelope, Committable, KnownInv, NumbersFit
  <2> QED BY <2>4, <2>5
<1> QED BY <1>1, <1>5, <1>6, <1>7, <1>9 DEF A!FileEnvelope

\* The commit of a report files it, or changes nothing when it was unusable.
LEMMA ReportFiles ==
  ASSUME TypeInv, FilingInv, PubkeyInv, ArchiveInv, now' = now, CommitMapReport
  PROVE  UNCHANGED tables \/ (A!FileMapReport(env) /\ env \in Envelopes)
<1>1. /\ phase = "mapCommit" /\ env \in Envelopes /\ FilesReport
      /\ staged.packet = {} /\ staged.seen = {} /\ staged.trace = {}
      /\ staged.pubkey = {}
  BY DEF CommitMapReport, TypeInv, TypeOK, IngestTypeOK, ArchiveInv, FilingInv,
     StagedLogs, PubkeyInv
<1>2. UNCHANGED <<packet, seen, trace, pubkey>> /\ node' = NodeView(staged)
  BY <1>1 DEF CommitMapReport, ApplyStaged, OverlayKeys
<1>3. CASE staged.node = {}
  BY <1>2, <1>3, OverlayNothing DEF NodeView, tables
<1>4. CASE staged.node # {}
  BY <1>1, <1>2, <1>4 DEF FilesReport, A!FileMapReport, A!Past
<1> QED BY <1>3, <1>4

\* The commit of a sweep prunes by its cutoff, or deletes nothing when the clock
\* is too young for the retention period.
LEMMA SweepPrunes ==
  ASSUME UtcOffset >= 0, TypeInv, RetentionInv, SweepInv, now' = now, CommitSweep
  PROVE  UNCHANGED tables \/ A!Prune
<1>1. /\ now \in Int /\ cutoff \in Int /\ Keep \in Nat /\ UtcOffset \in Int
      /\ cutoff <= now - Keep
  <2>1. /\ now \in Int /\ cutoff \in Int /\ Keep \in Nat /\ UtcOffset \in Int
        /\ cutoff <= now - Keep - UtcOffset
    BY TimeAssumption, KeepAssumption
    DEF TimeAssumption, KeepAssumption, TypeInv, TypeOK, DBTypeOK, CleanupTypeOK,
        Times, RetentionInv, CutoffIsOld, CommitSweep
  <2> QED BY <2>1
<1>2. /\ packet \subseteq PacketRows /\ seen \subseteq SeenRows
      /\ trace \subseteq TraceRows /\ node \subseteq NodeRows
      /\ doomed \in [packet: SUBSET PacketRows, seen: SUBSET SeenRows,
                     trace: SUBSET TraceRows, node: SUBSET NodeRows]
  BY DEF TypeInv, TypeOK, DBTypeOK, CleanupTypeOK
<1>3. /\ \A r \in packet \cup seen \cup trace \cup doomed.packet
               \cup doomed.seen \cup doomed.trace : r.at \in Int /\ r.at >= 1
      /\ \A r \in node \cup doomed.node :
           r.last \in Int /\ (r.last = NoTime \/ r.last >= 1)
  BY <1>2 DEF PacketRows, SeenRows, TraceRows, NodeRows, Times, TimesOrNull, NoTime
<1>4. /\ \A r \in doomed.packet \cup doomed.seen \cup doomed.trace : r.at < cutoff
      /\ \A r \in doomed.node : r.last # NoTime /\ r.last < cutoff
  BY DEF RetentionInv, DoomedAreOlder
<1>5. /\ \A r \in packet \ doomed.packet : r.at >= cutoff
      /\ \A r \in seen \ doomed.seen : r.at >= cutoff
      /\ \A r \in trace \ doomed.trace : r.at >= cutoff
      /\ \A r \in node \ doomed.node : r.last = NoTime \/ r.last >= cutoff
  BY DEF SweepInv, CommitSweep
<1>6. CASE cutoff < 1
  <2>1. doomed.packet = {} /\ doomed.seen = {} /\ doomed.trace = {}
        /\ doomed.node = {}
    BY <1>1, <1>3, <1>4, <1>6
  <2> QED BY <2>1 DEF CommitSweep, tables
<1>7. CASE cutoff >= 1
  <2>1. packet' = {p \in packet : p.at >= cutoff}
    BY <1>1, <1>3, <1>4, <1>5 DEF CommitSweep
  <2>2. seen' = {s \in seen : s.at >= cutoff}
    BY <1>1, <1>3, <1>4, <1>5 DEF CommitSweep
  <2>3. trace' = {t \in trace : t.at >= cutoff}
    BY <1>1, <1>3, <1>4, <1>5 DEF CommitSweep
  <2>4. node' = {r \in node : r.last = NoTime \/ r.last >= cutoff}
    BY <1>1, <1>3, <1>4, <1>5 DEF CommitSweep
  <2>5. cutoff \in A!Past
    BY <1>1, <1>7 DEF A!Past
  <2> QED
    BY <1>1, <2>1, <2>2, <2>3, <2>4, <2>5 DEF CommitSweep, A!Prune, A!NoTime, NoTime
<1> QED BY <1>1, <1>6, <1>7

\* The writer implements the archive, where local time does not run behind UTC:
\* every step of every task, and every crash, is one filing, one prune, a tick of
\* the clock or nothing at all to whoever reads the database.
THEOREM WriterImplementsArchive == UtcOffset >= 0 /\ Spec => ImplementsArchive
<1> SUFFICES ASSUME UtcOffset >= 0 PROVE Spec => ImplementsArchive
  OBVIOUS
<1>1. Init => A!ArchiveInit
  BY DEF Init, DBInit, A!ArchiveInit, A!DBInit
<1>2. ASSUME TypeInv, RetentionInv, SweepInv, NodeInv, KnownInv, FilingInv,
             PubkeyInv, ArchiveInv, [Next]_vars
      PROVE  [A!ArchiveNext]_<<now, A!tables>>
  <2>1. CASE IngestStep /\ CommitEnvelope
    BY <1>2, <2>1, CommitFiles DEF IngestStep, A!ArchiveNext
  <2>2. CASE IngestStep /\ CommitMapReport
    <3>1. now' = now
      BY <2>2 DEF IngestStep
    <3> QED BY <1>2, <2>2, <3>1, ReportFiles DEF A!ArchiveNext, tables, A!tables
  <2>3. CASE CleanupStep /\ CommitSweep
    <3>1. now' = now
      BY <2>3 DEF CleanupStep
    <3> QED BY <1>2, <2>3, <3>1, SweepPrunes DEF A!ArchiveNext, tables, A!tables
  <2>4. CASE Tick
    BY <2>4 DEF Tick, A!ArchiveNext, A!TimePasses, tables, A!tables
  <2>5. CASE IngestStep /\ ~CommitEnvelope /\ ~CommitMapReport
    <3>1. UNCHANGED <<now, tables>>
      BY <2>5 DEF IngestStep, ProcessEnvelope, EnterEnvelope, StageMapReport,
         SkipUnnumbered, FindPacket, InsertPacket, SkipUngatewayed, MarkGateway,
         RecordSeen, RecordNodeInfo, RecordPublicKey, RecordPosition
    <3> QED BY <3>1 DEF tables, A!tables
  <2>6. CASE ~IngestStep /\ ~(CleanupStep /\ CommitSweep) /\ ~Tick
    <3>1. UNCHANGED <<now, tables>>
      BY <1>2, <2>6 DEF Next, vars, Deliver, Receive, IngestDies, Wake,
         StartSweep, CleanupStep, SweepStep, EnterSweep, DeletePackets,
         DeleteSightings, DeleteTraceroutes, DeleteNodes, FinishSweep,
         AbortSweep, Crash, Restart, Halt
    <3> QED BY <3>1 DEF tables, A!tables
  <2> QED BY <2>1, <2>2, <2>3, <2>4, <2>5, <2>6
<1> QED
  BY <1>1, <1>2, SweepInvHolds, RetentionInvHolds, NodeInvHolds, KnownInvHolds,
     FilingInvHolds, PubkeyInvHolds, ArchiveInvHolds, PTL
  DEF Spec, ImplementsArchive, A!ArchiveSpec
=============================================================================
