---------------------------- MODULE WriterProofs ----------------------------
(***************************************************************************)
(* Theorems about the writer process, for every value of the constants.    *)
(***************************************************************************)
EXTENDS WriterProps, TLAPS

-----------------------------------------------------------------------------
(* What keeps TypeOK inductive: the lock that each task holds in its session,*)
(* and what process_envelope has already checked of its envelope.            *)

\* A task is inside its session only while it holds db_lock.
SessionUnderLock ==
  /\ phase \in InEnvelope => Holds(Ingest)
  /\ sweep \in InSweep => Holds(Cleanup)

PastIdCheck == {"insert", "gateway", "seen", "nodeinfo", "nodekey",
                "position", "commit"}
PastGateway == {"seen", "nodeinfo", "nodekey", "position", "commit"}

\* Past its early returns, process_envelope has a packet id and a gateway.
EnvelopeChecked ==
  /\ phase \in PastIdCheck => env.id # 0
  /\ phase \in PastGateway => env.gateway \in Nums \ Huge
  /\ phase = "nodekey" => env.key # NoKey

TypeInv == TypeOK /\ SessionUnderLock /\ EnvelopeChecked

-----------------------------------------------------------------------------
(* Lemmas on rows and on the lock.                                          *)

\* The rows process_envelope makes and touches are rows of the node table.
LEMMA NodeRowTypes ==
  /\ \A r \in NodeRows, t \in Times : Touched(r, t) \in NodeRows
  /\ \A r \in NodeRows : [r EXCEPT !.gateway = TRUE] \in NodeRows
  /\ \A r \in NodeRows, n \in Nums \cup {NoNum} :
       [r EXCEPT !.num = n] \in NodeRows
  /\ \A k \in Keys, n \in Nums \cup {NoNum}, t \in Times :
       NewNode(k, n, t) \in NodeRows
<1>1. Times \subseteq TimesOrNull /\ NoTime \in TimesOrNull
  BY TimeAssumption DEF TimeAssumption, Times, TimesOrNull, NoTime
<1>2. \A r \in NodeRows, t \in Times : Touched(r, t) \in NodeRows
  BY <1>1 DEF NodeRows, Touched
<1>3. \A r \in NodeRows : [r EXCEPT !.gateway = TRUE] \in NodeRows
  BY DEF NodeRows
<1>4. \A r \in NodeRows, n \in Nums \cup {NoNum} :
        [r EXCEPT !.num = n] \in NodeRows
  BY DEF NodeRows
<1>5. \A k \in Keys, n \in Nums \cup {NoNum}, t \in Times :
        NewNode(k, n, t) \in NodeRows
  BY <1>1 DEF NodeRows, NewNode
<1> QED BY <1>2, <1>3, <1>4, <1>5

\* Laying staged rows over a table leaves a set of node rows.
LEMMA OverlayType ==
  \A rows, new \in SUBSET NodeRows : OverlayNodes(rows, new) \subseteq NodeRows
BY DEF OverlayNodes

\* The holder of db_lock keeps it while the other task joins the queue.
LEMMA RequestKeepsHolder ==
  ASSUME LockTypeOK, NEW t \in Tasks, NEW h \in Tasks, Request(t)
  PROVE  LockTypeOK' /\ (Holds(h) => Holds(h)')
BY DEF LockTypeOK, Request, Holds

\* The holder releases; nobody else held the lock.
LEMMA ReleaseByHolder ==
  ASSUME LockTypeOK, NEW h \in Tasks, Holds(h), Release
  PROVE  LockTypeOK' /\ \A t \in Tasks : Holds(t) => t = h
BY DEF LockTypeOK, Release, Holds

-----------------------------------------------------------------------------
LEMMA TypeInvInit == Init => TypeInv
<1> SUFFICES ASSUME Init PROVE TypeInv
  OBVIOUS
<1> USE DEF Init, DBInit, LockInit, IngestInit, CleanupInit
<1>1. DBTypeOK
  BY TimeAssumption, InitialAssumption
  DEF TimeAssumption, InitialAssumption, DBTypeOK, Times
<1>2. LockTypeOK
  BY DEF LockTypeOK
<1>3. IngestTypeOK
  BY NoEnvelopeAssumption, InitialAssumption
  DEF NoEnvelopeAssumption, InitialAssumption, IngestTypeOK, Staging, NothingStaged, FlaggedNums, NodeRows, InEnvelope
<1>4. CleanupTypeOK
  BY DEF CleanupTypeOK, NothingDoomed
<1>5. SessionUnderLock /\ EnvelopeChecked
  BY DEF SessionUnderLock, EnvelopeChecked, InEnvelope, InSweep, PastIdCheck,
         PastGateway
<1> QED BY <1>1, <1>2, <1>3, <1>4, <1>5 DEF TypeInv, TypeOK

\* Each await of process_envelope leaves well-typed state, holds the lock, and
\* has made the checks the next one relies on.
LEMMA IngestStepTypes == TypeInv /\ IngestStep => TypeInv'
<1> SUFFICES ASSUME TypeInv, IngestStep PROVE TypeInv'
  OBVIOUS
<1> USE DEF TypeInv, TypeOK
<1>1. now \in Times /\ now' = now /\ up' = up /\ UNCHANGED cleanupVars
  BY DEF IngestStep, DBTypeOK
<1>2. CleanupTypeOK'
  BY <1>1 DEF CleanupTypeOK, cleanupVars
<1>3. ASSUME UNCHANGED <<tables, queue>>
      PROVE  DBTypeOK' /\ LockTypeOK' /\ (Holds(Ingest) => Holds(Ingest)')
             /\ (Holds(Cleanup) => Holds(Cleanup)')
  BY <1>1, <1>3 DEF DBTypeOK, LockTypeOK, Holds, tables
<1>4. CASE EnterEnvelope
  <2>1. IngestTypeOK'
    BY <1>4 DEF EnterEnvelope, IngestTypeOK, InEnvelope
  <2>2. SessionUnderLock' /\ EnvelopeChecked'
    BY <1>1, <1>3, <1>4 DEF EnterEnvelope, SessionUnderLock, EnvelopeChecked,
       InEnvelope, InSweep, PastIdCheck, PastGateway, cleanupVars
  <2> QED BY <1>1, <1>2, <1>3, <1>4, <2>1, <2>2 DEF EnterEnvelope
<1>5. CASE StageMapReport
  <2> DEFINE found == {r \in node : r.num = env.from}
             new == IF ~env.usable THEN {}
                    ELSE IF found # {} THEN {Touched(r, now) : r \in found}
                    ELSE {NewNode(KeyOf[env.from], env.from, now)}
  <2>1. env.from \in Nums /\ KeyOf[env.from] \in Keys
    BY <1>5, NumAssumption, EnvelopeAssumption
    DEF StageMapReport, IngestTypeOK, NumAssumption, EnvelopeAssumption,
        EnvelopeType
  <2>2. new \subseteq NodeRows
    BY <1>1, <2>1, NodeRowTypes DEF DBTypeOK
  <2>3. staged' = [staged EXCEPT !.node = new]
    BY <1>5 DEF StageMapReport
  <2>4. staged' \in Staging
    BY <2>2, <2>3 DEF IngestTypeOK, Staging
  <2>5. IngestTypeOK'
    BY <1>5, <2>4 DEF StageMapReport, IngestTypeOK, InEnvelope
  <2>6. SessionUnderLock' /\ EnvelopeChecked'
    BY <1>1, <1>3, <1>5 DEF StageMapReport, SessionUnderLock, EnvelopeChecked,
       InEnvelope, InSweep, PastIdCheck, PastGateway, cleanupVars
  <2> QED BY <1>1, <1>2, <1>3, <1>5, <2>5, <2>6 DEF StageMapReport
<1>6. CASE CommitMapReport
  <2>1. DBTypeOK'
    BY <1>1, <1>6, OverlayType
    DEF CommitMapReport, ApplyStaged, NodeView, OverlayKeys, IngestTypeOK,
        Staging, DBTypeOK
  <2>2. IngestTypeOK'
    BY <1>6 DEF CommitMapReport, IngestTypeOK, InEnvelope, Staging,
       NothingStaged
  <2>3. LockTypeOK' /\ SessionUnderLock' /\ EnvelopeChecked'
    BY <1>1, <1>6 DEF CommitMapReport, LockTypeOK, SessionUnderLock, Holds,
       EnvelopeChecked, InEnvelope, InSweep, PastIdCheck, PastGateway,
       cleanupVars
  <2> QED BY <1>1, <1>2, <2>1, <2>2, <2>3
<1>7. CASE SkipUnnumbered
  <2>1. Holds(Ingest) /\ ~(sweep \in InSweep)
    BY <1>7, ReleaseByHolder, TasksAssumption
    DEF SkipUnnumbered, SessionUnderLock, InEnvelope, Tasks, TasksAssumption, Holds
  <2>2. DBTypeOK' /\ LockTypeOK'
    BY <1>1, <1>7, <2>1, ReleaseByHolder
    DEF SkipUnnumbered, DBTypeOK, tables, Tasks
  <2>3. IngestTypeOK'
    BY <1>7 DEF SkipUnnumbered, IngestReset, IngestTypeOK, InEnvelope, Staging,
       NothingStaged
  <2>4. SessionUnderLock' /\ EnvelopeChecked'
    BY <1>1, <1>7, <2>1 DEF SkipUnnumbered, IngestReset, SessionUnderLock,
       EnvelopeChecked, InEnvelope, PastIdCheck, PastGateway, cleanupVars
  <2> QED BY <1>1, <1>2, <2>2, <2>3, <2>4
<1>8. CASE FindPacket
  <2>1. IngestTypeOK'
    BY <1>1, <1>8, EnvelopeAssumption
    DEF FindPacket, IngestTypeOK, InEnvelope, Staging, DBTypeOK, PacketRows,
        EnvelopeAssumption, EnvelopeType
  <2>2. SessionUnderLock' /\ EnvelopeChecked'
    BY <1>1, <1>3, <1>8 DEF FindPacket, SessionUnderLock, EnvelopeChecked,
       InEnvelope, InSweep, PastIdCheck, PastGateway, cleanupVars
  <2> QED BY <1>1, <1>2, <1>3, <1>8, <2>1, <2>2 DEF FindPacket
<1>9. CASE InsertPacket
  <2>1. IngestTypeOK'
    BY <1>1, <1>9
    DEF InsertPacket, IngestTypeOK, InEnvelope, Staging
  <2>2. SessionUnderLock' /\ EnvelopeChecked'
    BY <1>1, <1>3, <1>9 DEF InsertPacket, SessionUnderLock, EnvelopeChecked,
       InEnvelope, InSweep, PastIdCheck, PastGateway, cleanupVars
  <2> QED BY <1>1, <1>2, <1>3, <1>9, <2>1, <2>2 DEF InsertPacket
<1>10. CASE SkipUngatewayed
  <2>1. Holds(Ingest) /\ ~(sweep \in InSweep)
    BY <1>10, ReleaseByHolder, TasksAssumption
    DEF SkipUngatewayed, SessionUnderLock, InEnvelope, Tasks, TasksAssumption, Holds
  <2>2. DBTypeOK' /\ LockTypeOK'
    BY <1>1, <1>10, <2>1, ReleaseByHolder
    DEF SkipUngatewayed, DBTypeOK, tables, Tasks
  <2>3. IngestTypeOK'
    BY <1>10 DEF SkipUngatewayed, IngestReset, IngestTypeOK, InEnvelope, Staging,
       NothingStaged
  <2>4. SessionUnderLock' /\ EnvelopeChecked'
    BY <1>1, <1>10, <2>1 DEF SkipUngatewayed, IngestReset, SessionUnderLock,
       EnvelopeChecked, InEnvelope, PastIdCheck, PastGateway, cleanupVars
  <2> QED BY <1>1, <1>2, <2>2, <2>3, <2>4
<1>11. CASE MarkGateway
  <2>1. IngestTypeOK'
    BY <1>1, <1>11, NodeRowTypes
    DEF MarkGateway, IngestTypeOK, InEnvelope, Staging, DBTypeOK
  <2>2. SessionUnderLock' /\ EnvelopeChecked'
    BY <1>1, <1>3, <1>11 DEF MarkGateway, SessionUnderLock, EnvelopeChecked,
       InEnvelope, InSweep, PastIdCheck, PastGateway, cleanupVars
  <2> QED BY <1>1, <1>2, <1>3, <1>11, <2>1, <2>2 DEF MarkGateway
<1>12. CASE RecordSeen
  <2> DEFINE s == [id |-> env.id, gw |-> env.gateway, rx |-> env.rx,
                   at |-> now]
             t == [id |-> env.id, gw |-> env.gateway, done |-> env.reply,
                   at |-> now]
  <2>1. env \in EnvelopeType /\ env.id \in PacketIds /\ env.gateway \in Nums
    BY <1>12, EnvelopeAssumption
    DEF RecordSeen, IngestTypeOK, EnvelopeAssumption, EnvelopeType,
        EnvelopeChecked, PastIdCheck, PastGateway
  <2>2. s \in SeenRows /\ t \in TraceRows
    BY <1>1, <2>1 DEF SeenRows, TraceRows, EnvelopeType
  <2>3. \E x \in SUBSET SeenRows, y \in SUBSET TraceRows :
          staged' = [staged EXCEPT !.seen = x, !.trace = y]
    <3>1. {} \in SUBSET SeenRows /\ {s} \in SUBSET SeenRows
          /\ {} \in SUBSET TraceRows /\ {t} \in SUBSET TraceRows
      BY <2>2
    <3> HIDE DEF s, t
    <3>2. staged' = [staged EXCEPT
             !.seen = IF \E old \in seen : SameSighting(old, s) THEN {} ELSE {s},
             !.trace = IF env.port = "TRACEROUTE" THEN {t} ELSE {}]
      BY <1>12 DEF RecordSeen, s, t
    <3> QED BY <3>1, <3>2
  <2>4. staged' \in Staging
    BY <2>3 DEF IngestTypeOK, Staging
  <2>5. IngestTypeOK'
    BY <1>12, <2>4 DEF RecordSeen, IngestTypeOK, InEnvelope
  <2>6. SessionUnderLock' /\ EnvelopeChecked'
    BY <1>1, <1>3, <1>12 DEF RecordSeen, SessionUnderLock, EnvelopeChecked,
       InEnvelope, InSweep, PastIdCheck, PastGateway, cleanupVars
  <2> QED BY <1>1, <1>2, <1>3, <1>12, <2>5, <2>6 DEF RecordSeen
<1>13. CASE RecordNodeInfo
  <2> DEFINE found == {r \in NodeView(staged) : r.key = env.user}
             mine == IF found = {}
                     THEN {NewNode(env.user, NumOf[env.user], now)}
                     ELSE {[Touched(r, now) EXCEPT !.num = NumOf[env.user]] :
                             r \in found}
  <2>1. env.user \in Keys /\ NumOf[env.user] \in Nums \cup {NoNum}
    BY <1>13, EnvelopeAssumption, NumAssumption
    DEF RecordNodeInfo, IngestTypeOK, EnvelopeAssumption, EnvelopeType,
        NumAssumption
  <2>2. found \subseteq NodeRows
    BY OverlayType DEF NodeView, DBTypeOK, IngestTypeOK, Staging
  <2>3. mine \subseteq NodeRows
    BY <1>1, <2>1, <2>2, NodeRowTypes
  <2>4. staged' = [staged EXCEPT !.node = OverlayNodes(staged.node, mine)]
    BY <1>13 DEF RecordNodeInfo
  <2>5. OverlayNodes(staged.node, mine) \subseteq NodeRows
    BY <2>3, OverlayType DEF IngestTypeOK, Staging
  <2>6. staged' \in Staging
    BY <2>4, <2>5 DEF IngestTypeOK, Staging
  <2>7. IngestTypeOK'
    BY <1>13, <2>6 DEF RecordNodeInfo, IngestTypeOK, InEnvelope
  <2>8. SessionUnderLock' /\ EnvelopeChecked'
    BY <1>1, <1>3, <1>13 DEF RecordNodeInfo, SessionUnderLock, EnvelopeChecked,
       InEnvelope, InSweep, PastIdCheck, PastGateway, cleanupVars
  <2> QED BY <1>1, <1>2, <1>3, <1>13, <2>7, <2>8 DEF RecordNodeInfo
<1>14. CASE RecordPublicKey
  <2>1. IngestTypeOK'
    BY <1>1, <1>14, NumAssumption, EnvelopeAssumption
    DEF RecordPublicKey, IngestTypeOK, InEnvelope, Staging, DBTypeOK, KeyRows,
        NumAssumption, EnvelopeAssumption, EnvelopeType, EnvelopeChecked
  <2>2. SessionUnderLock' /\ EnvelopeChecked'
    BY <1>1, <1>3, <1>14 DEF RecordPublicKey, SessionUnderLock, EnvelopeChecked,
       InEnvelope, InSweep, PastIdCheck, PastGateway, cleanupVars
  <2> QED BY <1>1, <1>2, <1>3, <1>14, <2>1, <2>2 DEF RecordPublicKey
<1>15. CASE RecordPosition
  <2>1. IngestTypeOK'
    BY <1>1, <1>15, NodeRowTypes, OverlayType
    DEF RecordPosition, IngestTypeOK, InEnvelope, Staging, DBTypeOK, NodeView
  <2>2. SessionUnderLock' /\ EnvelopeChecked'
    BY <1>1, <1>3, <1>15 DEF RecordPosition, SessionUnderLock, EnvelopeChecked,
       InEnvelope, InSweep, PastIdCheck, PastGateway, cleanupVars
  <2> QED BY <1>1, <1>2, <1>3, <1>15, <2>1, <2>2 DEF RecordPosition
<1>16. CASE CommitEnvelope
  <2>1. Holds(Ingest) /\ ~(sweep \in InSweep)
    BY <1>16, ReleaseByHolder, TasksAssumption
    DEF CommitEnvelope, SessionUnderLock, InEnvelope, Tasks, TasksAssumption,
        Holds
  <2>2. DBTypeOK'
    BY <1>1, <1>16, OverlayType
    DEF CommitEnvelope, ApplyStaged, NodeView, OverlayKeys, IngestTypeOK,
        Staging, DBTypeOK
  <2>3. LockTypeOK'
    BY <1>16, <2>1, ReleaseByHolder DEF CommitEnvelope, Tasks
  <2>4. IngestTypeOK'
    BY <1>16 DEF CommitEnvelope, IngestReset, IngestTypeOK, InEnvelope,
       Staging, NothingStaged
  <2>5. SessionUnderLock' /\ EnvelopeChecked'
    BY <1>1, <1>16, <2>1 DEF CommitEnvelope, IngestReset, SessionUnderLock,
       EnvelopeChecked, InEnvelope, PastIdCheck, PastGateway, cleanupVars
  <2> QED BY <1>1, <1>2, <2>2, <2>3, <2>4, <2>5
<1> QED
  BY <1>4, <1>5, <1>6, <1>7, <1>8, <1>9, <1>10, <1>11, <1>12, <1>13, <1>14,
     <1>15, <1>16 DEF IngestStep, ProcessEnvelope

\* Each await of daily_cleanup_at does the same.
LEMMA CleanupStepTypes == TypeInv /\ CleanupStep => TypeInv'
<1> SUFFICES ASSUME TypeInv, CleanupStep PROVE TypeInv'
  OBVIOUS
<1> USE DEF TypeInv, TypeOK
<1>1. now \in Times /\ now' = now /\ up' = up /\ UNCHANGED ingestVars
  BY DEF CleanupStep, DBTypeOK
<1>2. IngestTypeOK' /\ EnvelopeChecked'
  BY <1>1 DEF IngestTypeOK, EnvelopeChecked, ingestVars
<1>3. ASSUME UNCHANGED <<tables, queue>>
      PROVE  DBTypeOK' /\ LockTypeOK' /\ (Holds(Ingest) => Holds(Ingest)')
             /\ (Holds(Cleanup) => Holds(Cleanup)')
  BY <1>1, <1>3 DEF DBTypeOK, LockTypeOK, Holds, tables
<1>4. CASE EnterSweep
  <2>1. CleanupTypeOK'
    BY <1>4 DEF EnterSweep, CleanupTypeOK, InSweep
  <2>2. SessionUnderLock'
    BY <1>1, <1>3, <1>4 DEF EnterSweep, SessionUnderLock, InSweep, ingestVars
  <2> QED BY <1>1, <1>2, <1>3, <1>4, <2>1, <2>2 DEF EnterSweep
<1>5. CASE DeletePackets
  <2>1. CleanupTypeOK'
    BY <1>5 DEF DeletePackets, CleanupTypeOK, InSweep, Older,
       DBTypeOK
  <2>2. SessionUnderLock'
    BY <1>1, <1>3, <1>5 DEF DeletePackets, SessionUnderLock, InSweep, ingestVars
  <2> QED BY <1>1, <1>2, <1>3, <1>5, <2>1, <2>2 DEF DeletePackets
<1>6. CASE DeleteSightings
  <2>1. CleanupTypeOK'
    BY <1>6 DEF DeleteSightings, CleanupTypeOK, InSweep, Older,
       DBTypeOK
  <2>2. SessionUnderLock'
    BY <1>1, <1>3, <1>6 DEF DeleteSightings, SessionUnderLock, InSweep, ingestVars
  <2> QED BY <1>1, <1>2, <1>3, <1>6, <2>1, <2>2 DEF DeleteSightings
<1>7. CASE DeleteTraceroutes
  <2>1. CleanupTypeOK'
    BY <1>7 DEF DeleteTraceroutes, CleanupTypeOK, InSweep, Older,
       DBTypeOK
  <2>2. SessionUnderLock'
    BY <1>1, <1>3, <1>7 DEF DeleteTraceroutes, SessionUnderLock, InSweep, ingestVars
  <2> QED BY <1>1, <1>2, <1>3, <1>7, <2>1, <2>2 DEF DeleteTraceroutes
<1>8. CASE DeleteNodes
  <2>1. CleanupTypeOK'
    BY <1>8 DEF DeleteNodes, CleanupTypeOK, InSweep,
       ExpiredNodes, DBTypeOK
  <2>2. SessionUnderLock'
    BY <1>1, <1>3, <1>8 DEF DeleteNodes, SessionUnderLock, InSweep, ingestVars
  <2> QED BY <1>1, <1>2, <1>3, <1>8, <2>1, <2>2 DEF DeleteNodes
<1>9. CASE CommitSweep
  <2>1. DBTypeOK'
    BY <1>1, <1>9 DEF CommitSweep, DBTypeOK
  <2>2. CleanupTypeOK'
    BY <1>9 DEF CommitSweep, CleanupTypeOK, InSweep, NothingDoomed
  <2>3. LockTypeOK' /\ SessionUnderLock'
    BY <1>1, <1>9 DEF CommitSweep, LockTypeOK, SessionUnderLock, InSweep,
       Holds, ingestVars
  <2> QED BY <1>1, <1>2, <2>1, <2>2, <2>3
<1>10. CASE FinishSweep
  <2>1. Holds(Cleanup) /\ ~(phase \in InEnvelope)
    BY <1>10, ReleaseByHolder, TasksAssumption
    DEF FinishSweep, SessionUnderLock, InSweep, Tasks, TasksAssumption, Holds
  <2>2. DBTypeOK' /\ LockTypeOK'
    BY <1>1, <1>10, <2>1, ReleaseByHolder
    DEF FinishSweep, DBTypeOK, tables, Tasks
  <2>3. CleanupTypeOK' /\ SessionUnderLock'
    BY <1>1, <1>10, <2>1
    DEF FinishSweep, CleanupReset, CleanupTypeOK, InSweep, NothingDoomed,
        SessionUnderLock, ingestVars
  <2> QED BY <1>1, <1>2, <2>2, <2>3
<1>11. CASE AbortSweep
  <2>1. Holds(Cleanup) /\ ~(phase \in InEnvelope)
    BY <1>11, ReleaseByHolder, TasksAssumption
    DEF AbortSweep, SessionUnderLock, InSweep, Tasks, TasksAssumption, Holds
  <2>2. DBTypeOK' /\ LockTypeOK'
    BY <1>1, <1>11, <2>1, ReleaseByHolder
    DEF AbortSweep, DBTypeOK, tables, Tasks
  <2>3. CleanupTypeOK' /\ SessionUnderLock'
    BY <1>1, <1>11, <2>1
    DEF AbortSweep, CleanupReset, CleanupTypeOK, InSweep, NothingDoomed,
        SessionUnderLock, ingestVars
  <2> QED BY <1>1, <1>2, <2>2, <2>3
<1> QED
  BY <1>4, <1>5, <1>6, <1>7, <1>8, <1>9, <1>10, <1>11
  DEF CleanupStep, SweepStep

\* So do the other steps: a new envelope, the timer, the end and the start of
\* the process, and the clock.
LEMMA ProcessStepTypes ==
  TypeInv /\ (Deliver \/ IngestDies \/ Wake \/ Crash \/ Restart \/ Tick)
    => TypeInv'
<1> SUFFICES ASSUME TypeInv,
                    Deliver \/ IngestDies \/ Wake \/ Crash \/ Restart \/ Tick
             PROVE  TypeInv'
  OBVIOUS
<1> USE DEF TypeInv, TypeOK
<1>1. Ingest \in Tasks /\ Cleanup \in Tasks
  BY DEF Tasks
<1>2. CASE Deliver
  <2> PICK e \in Envelopes : Receive(e)
    BY <1>2 DEF Deliver
  <2>1. DBTypeOK' /\ CleanupTypeOK' /\ up' \in BOOLEAN
    BY <1>2 DEF Deliver, Receive, DBTypeOK, tables, CleanupTypeOK, cleanupVars
  <2>2. IngestTypeOK'
    BY NoEnvelopeAssumption
    DEF Receive, IngestTypeOK, InEnvelope, NoEnvelopeAssumption
  <2>3. LockTypeOK' /\ SessionUnderLock' /\ EnvelopeChecked'
    BY <1>1, <1>2, RequestKeepsHolder
    DEF Deliver, Receive, SessionUnderLock, EnvelopeChecked, InEnvelope,
        InSweep, PastIdCheck, PastGateway, cleanupVars
  <2> QED BY <2>1, <2>2, <2>3
<1>3. CASE IngestDies \/ Crash
  <2>1. DBTypeOK' /\ up' \in BOOLEAN
    BY <1>3 DEF IngestDies, Crash, Halt, DBTypeOK, tables
  <2>2. Halt
    BY <1>3 DEF IngestDies, Crash
  <2>3. IngestTypeOK'
    BY <2>2 DEF Halt, IngestReset, IngestTypeOK, Staging, NothingStaged,
       InEnvelope
  <2>4. CleanupTypeOK'
    BY <2>2 DEF Halt, CleanupReset, CleanupTypeOK, NothingDoomed
  <2>5. LockTypeOK'
    BY <2>2 DEF Halt, LockTypeOK
  <2>6. SessionUnderLock' /\ EnvelopeChecked'
    BY <2>2 DEF Halt, IngestReset, CleanupReset, SessionUnderLock,
       EnvelopeChecked, InEnvelope, InSweep, PastIdCheck, PastGateway
  <2> QED BY <2>1, <2>3, <2>4, <2>5, <2>6
<1>4. CASE Wake
  <2>1. DBTypeOK' /\ IngestTypeOK' /\ up' \in BOOLEAN
    BY <1>4 DEF Wake, StartSweep, DBTypeOK, tables, IngestTypeOK, ingestVars
  <2>2. CleanupTypeOK'
    <3>1. now \in Int
      BY TimeAssumption DEF DBTypeOK, Times, TimeAssumption
    <3> QED
      BY <1>4, <3>1, KeepAssumption
      DEF Wake, StartSweep, CleanupTypeOK, KeepAssumption
  <2>3. LockTypeOK' /\ SessionUnderLock' /\ EnvelopeChecked'
    BY <1>1, <1>4, RequestKeepsHolder
    DEF Wake, StartSweep, SessionUnderLock, EnvelopeChecked, InSweep,
        ingestVars
  <2> QED BY <2>1, <2>2, <2>3
<1>5. CASE Restart
  <2>1. cache' \subseteq Nums \cup {NoNum}
    BY <1>5 DEF Restart, FlaggedNums, DBTypeOK, NodeRows
  <2>2. DBTypeOK' /\ IngestTypeOK' /\ CleanupTypeOK' /\ up' \in BOOLEAN
    BY <1>5, <2>1 DEF Restart, DBTypeOK, tables, IngestTypeOK, CleanupTypeOK,
       cleanupVars
  <2>3. LockTypeOK' /\ SessionUnderLock' /\ EnvelopeChecked'
    BY <1>5 DEF Restart, LockTypeOK, SessionUnderLock, EnvelopeChecked, Holds,
       cleanupVars
  <2> QED BY <2>2, <2>3
<1>6. CASE Tick
  <2>1. DBTypeOK'
    BY <1>6, TimeAssumption
    DEF Tick, DBTypeOK, tables, Times, TimeAssumption
  <2>2. IngestTypeOK' /\ CleanupTypeOK' /\ up' \in BOOLEAN
    BY <1>6 DEF Tick, IngestTypeOK, CleanupTypeOK, ingestVars, cleanupVars
  <2>3. LockTypeOK' /\ SessionUnderLock' /\ EnvelopeChecked'
    BY <1>6 DEF Tick, LockTypeOK, SessionUnderLock, EnvelopeChecked, Holds,
       ingestVars, cleanupVars
  <2> QED BY <2>1, <2>2, <2>3
<1> QED BY <1>2, <1>3, <1>4, <1>5, <1>6

\* Every step keeps the typing invariant.
LEMMA TypeInvNext == TypeInv /\ [Next]_vars => TypeInv'
<1> SUFFICES ASSUME TypeInv, [Next]_vars PROVE TypeInv'
  OBVIOUS
<1>1. CASE UNCHANGED vars
  BY <1>1 DEF vars, tables, ingestVars, cleanupVars, TypeInv, TypeOK, DBTypeOK,
     LockTypeOK, IngestTypeOK, CleanupTypeOK, SessionUnderLock,
     EnvelopeChecked, Holds
<1> QED
  BY <1>1, IngestStepTypes, CleanupStepTypes, ProcessStepTypes DEF Next

\* The typing invariant holds in every reachable state.
LEMMA TypeInvHolds == Spec => []TypeInv
BY TypeInvInit, TypeInvNext, PTL DEF Spec

\* Every variable of the writer keeps its type, whatever the sets of nodes,
\* packets and envelopes, the clock's bound and the configuration.
THEOREM WriterTypes == Spec => []TypeOK
BY TypeInvHolds, PTL DEF TypeInv

\* The database sessions of ingestion and cleanup never overlap.
THEOREM WriterExcludes == Spec => []SessionsExclusive
<1>1. TypeInv => SessionsExclusive
  BY TasksAssumption
  DEF TypeInv, SessionUnderLock, SessionsExclusive, Holds, TasksAssumption
<1> QED BY <1>1, TypeInvHolds, PTL

-----------------------------------------------------------------------------
(* Retention: cleanup deletes nothing younger than the retention period, where *)
(* local time does not run behind UTC.                                      *)

\* The cutoff of a sweep under way lies a retention period back, measured where
\* the clock stands now; the clock only moves on while the sweep waits.
CutoffIsOld == sweep # "sleep" => cutoff <= now - Keep - UtcOffset

\* Whatever the open transaction has deleted is older than the cutoff.
DoomedAreOlder ==
  /\ \A r \in doomed.packet \cup doomed.seen \cup doomed.trace : r.at < cutoff
  /\ \A r \in doomed.node : r.last # NoTime /\ r.last < cutoff
  /\ sweep = "sleep" => doomed = NothingDoomed

RetentionInv == TypeOK /\ CutoffIsOld /\ DoomedAreOlder

-----------------------------------------------------------------------------
LEMMA RetentionInvInit == Init => CutoffIsOld /\ DoomedAreOlder
BY DEF Init, CleanupInit, CutoffIsOld, DoomedAreOlder, NothingDoomed

\* The steps of the cleanup task keep the two facts; the others leave its state
\* alone and never move the clock back.
LEMMA RetentionInvNext ==
  ASSUME TypeOK, TypeOK', CutoffIsOld, DoomedAreOlder, [Next]_vars
  PROVE  CutoffIsOld' /\ DoomedAreOlder'
<1>1. /\ now \in Int /\ now' \in Int /\ cutoff \in Int
      /\ Keep \in Int /\ UtcOffset \in Int
  BY TimeAssumption, KeepAssumption
  DEF TimeAssumption, KeepAssumption, TypeOK, DBTypeOK, CleanupTypeOK, Times
<1>2. now <= now'
  BY <1>1 DEF Next, vars, Deliver, IngestStep, IngestDies, Wake, CleanupStep,
     Crash, Restart, Tick, Halt
<1>3. ASSUME UNCHANGED cleanupVars
      PROVE  CutoffIsOld' /\ DoomedAreOlder'
  <2>1. CutoffIsOld'
    <3>1. sweep' = sweep /\ cutoff' = cutoff
      BY <1>3 DEF cleanupVars
    <3>2. \A c, m, n, k, u \in Int :
            c <= m - k - u /\ m <= n => c <= n - k - u
      OBVIOUS
    <3> QED BY <1>1, <1>2, <3>1, <3>2 DEF CutoffIsOld
  <2>2. DoomedAreOlder'
    BY <1>3 DEF DoomedAreOlder, cleanupVars
  <2> QED BY <2>1, <2>2
<1>4. ASSUME CleanupReset
      PROVE  CutoffIsOld' /\ DoomedAreOlder'
  BY <1>4 DEF CleanupReset, CutoffIsOld, DoomedAreOlder, NothingDoomed
<1>5. CASE Wake
  <2>1. sweep = "sleep" /\ cutoff' = now - Keep - UtcOffset /\ now' = now
        /\ doomed' = doomed
    BY <1>5 DEF Wake, StartSweep
  <2> QED
    BY <1>1, <2>1 DEF CutoffIsOld, DoomedAreOlder, NothingDoomed
<1>6. CASE CleanupStep
  <2>1. now' = now
    BY <1>6 DEF CleanupStep
  <2>2. CASE FinishSweep \/ AbortSweep
    BY <1>4, <2>2 DEF FinishSweep, AbortSweep
  <2>3. ASSUME EnterSweep \/ DeletePackets \/ DeleteSightings
               \/ DeleteTraceroutes \/ DeleteNodes \/ CommitSweep
        PROVE  sweep # "sleep" /\ sweep' # "sleep" /\ cutoff' = cutoff
    BY <2>3 DEF EnterSweep, DeletePackets, DeleteSightings, DeleteTraceroutes,
       DeleteNodes, CommitSweep
  <2>4. ASSUME cutoff' = cutoff, sweep # "sleep" PROVE CutoffIsOld'
    BY <2>1, <2>4 DEF CutoffIsOld
  <2>5. CASE EnterSweep
    BY <2>3, <2>4, <2>5 DEF EnterSweep, DoomedAreOlder
  <2>6. CASE DeletePackets
    BY <2>3, <2>4, <2>6
    DEF DeletePackets, DoomedAreOlder, Older, TypeOK, CleanupTypeOK
  <2>7. CASE DeleteSightings
    BY <2>3, <2>4, <2>7
    DEF DeleteSightings, DoomedAreOlder, Older, TypeOK, CleanupTypeOK
  <2>8. CASE DeleteTraceroutes
    BY <2>3, <2>4, <2>8
    DEF DeleteTraceroutes, DoomedAreOlder, Older, TypeOK, CleanupTypeOK
  <2>9. CASE DeleteNodes
    BY <2>3, <2>4, <2>9
    DEF DeleteNodes, DoomedAreOlder, ExpiredNodes, TypeOK, CleanupTypeOK
  <2>10. CASE CommitSweep
    BY <2>3, <2>4, <2>10 DEF CommitSweep, DoomedAreOlder, NothingDoomed
  <2> QED
    BY <1>6, <2>2, <2>5, <2>6, <2>7, <2>8, <2>9, <2>10
    DEF CleanupStep, SweepStep
<1>7. CASE IngestDies \/ Crash
  BY <1>4, <1>7 DEF IngestDies, Crash, Halt
<1>8. CASE Deliver \/ IngestStep \/ Restart \/ Tick \/ UNCHANGED vars
  BY <1>3, <1>8 DEF Deliver, IngestStep, Restart, Tick, vars
<1> QED BY <1>5, <1>6, <1>7, <1>8 DEF Next

LEMMA RetentionInvHolds == Spec => []RetentionInv
BY RetentionInvInit, RetentionInvNext, WriterTypes, PTL DEF Spec, RetentionInv

\* Ingestion only adds: it keeps every row of the three logs, and replaces a
\* node's row by one of the same id.
LEMMA IngestionOnlyAdds ==
  ASSUME IngestStep
  PROVE  /\ packet \subseteq packet' /\ seen \subseteq seen'
         /\ trace \subseteq trace'
         /\ \A r \in node : \E s \in node' : s.key = r.key
<1>1. CASE CommitMapReport \/ CommitEnvelope
  BY <1>1 DEF CommitMapReport, CommitEnvelope, ApplyStaged, NodeView,
     OverlayNodes
<1>2. CASE ~(CommitMapReport \/ CommitEnvelope)
  <2>1. UNCHANGED tables
    BY <1>2 DEF IngestStep, ProcessEnvelope, EnterEnvelope, StageMapReport,
       SkipUnnumbered, FindPacket, InsertPacket, SkipUngatewayed, MarkGateway,
       RecordSeen, RecordNodeInfo, RecordPublicKey, RecordPosition
  <2> QED BY <2>1 DEF tables
<1> QED BY <1>1, <1>2

-----------------------------------------------------------------------------
\* The retention period is honoured: a step that makes a row disappear is the
\* commit of a sweep, and the row is more than Keep old at that moment.
THEOREM WriterRetains == UtcOffset >= 0 /\ Spec => RetentionHonoured
<1> SUFFICES ASSUME UtcOffset >= 0 PROVE Spec => RetentionHonoured
  OBVIOUS
<1> DEFINE Kept ==
      /\ \A r \in (packet \ packet') \cup (seen \ seen') \cup (trace \ trace') :
           r.at < now - Keep
      /\ \A r \in node : (\A s \in node' : s.key # r.key) => r.last < now - Keep
<1>1. ASSUME RetentionInv, [Next]_vars
      PROVE  [Kept]_vars
  <2>1. now \in Int /\ cutoff \in Int /\ Keep \in Int /\ UtcOffset \in Int
    BY <1>1, TimeAssumption, KeepAssumption
    DEF TimeAssumption, KeepAssumption, RetentionInv, TypeOK, DBTypeOK,
        CleanupTypeOK, Times
  <2>2. CASE CleanupStep /\ CommitSweep
    <3>1. cutoff <= now - Keep
      BY <1>1, <2>1, <2>2 DEF RetentionInv, CutoffIsOld, CommitSweep
    <3>2. \A r \in doomed.packet \cup doomed.seen \cup doomed.trace :
            r.at < now - Keep
      <4>1. \A r \in doomed.packet \cup doomed.seen \cup doomed.trace :
              r.at \in Int /\ r.at < cutoff
        BY <1>1 DEF RetentionInv, DoomedAreOlder, TypeOK, CleanupTypeOK,
           PacketRows, SeenRows, TraceRows, Times
      <4> QED BY <2>1, <3>1, <4>1
    <3>3. \A r \in doomed.node : r.last < now - Keep
      <4>1. \A r \in doomed.node : r.last \in Int /\ r.last < cutoff
        BY <1>1 DEF RetentionInv, DoomedAreOlder, TypeOK, CleanupTypeOK,
           NodeRows, TimesOrNull
      <4> QED BY <2>1, <3>1, <4>1
    <3> QED BY <2>2, <3>2, <3>3 DEF CommitSweep
  <2>3. CASE IngestStep
    BY <2>3, IngestionOnlyAdds
  <2>4. CASE UNCHANGED tables
    BY <2>4 DEF tables
  <2>5. CASE ~(CommitSweep \/ IngestStep)
    <3>1. UNCHANGED tables
      BY <1>1, <2>5 DEF Next, vars, Deliver, Receive, IngestDies, Wake,
         StartSweep, CleanupStep, SweepStep, EnterSweep, DeletePackets,
         DeleteSightings, DeleteTraceroutes, DeleteNodes, FinishSweep,
         AbortSweep, Crash, Restart, Tick, Halt
    <3> QED BY <3>1, <2>4
  <2>6. CASE CommitSweep /\ ~CleanupStep /\ ~IngestStep
    <3>1. UNCHANGED tables
      BY <1>1, <2>6 DEF Next, vars, Deliver, Receive, IngestDies, Wake,
         StartSweep, Crash, Restart, Tick, Halt
    <3> QED BY <3>1, <2>4
  <2> QED BY <2>2, <2>3, <2>5, <2>6
<1> QED BY <1>1, RetentionInvHolds, PTL DEF Spec, RetentionHonoured

-----------------------------------------------------------------------------
(* A sweep that commits is thorough, and the tables stand still under it.   *)

\* What a sweep has deleted of a table is there, and nothing older is left; the
\* lock keeps it so until the commit.
SweepInv ==
  /\ doomed.packet \subseteq packet /\ doomed.node \subseteq node
  /\ sweep \in {"seen", "trace", "node", "commit"} =>
        \A r \in packet \ doomed.packet : r.at >= cutoff
  /\ sweep \in {"trace", "node", "commit"} =>
        \A r \in seen \ doomed.seen : r.at >= cutoff
  /\ sweep \in {"node", "commit"} =>
        \A r \in trace \ doomed.trace : r.at >= cutoff
  /\ sweep = "commit" =>
        \A r \in node \ doomed.node : r.last = NoTime \/ r.last >= cutoff
  /\ sweep \notin {"seen", "trace", "node", "commit"} => doomed = NothingDoomed

\* While the sweep has its session open, ingestion commits nothing.
LEMMA SweepAlone ==
  ASSUME TypeInv, [Next]_vars, sweep \in InSweep, ~CleanupStep
  PROVE  UNCHANGED tables
<1>1. Holds(Cleanup) /\ ~Holds(Ingest)
  BY TasksAssumption DEF TypeInv, SessionUnderLock, Holds, TasksAssumption
<1>2. phase \notin InEnvelope
  BY <1>1 DEF TypeInv, SessionUnderLock
<1>3. CASE IngestStep
  BY <1>2, <1>3 DEF InEnvelope, IngestStep, ProcessEnvelope, EnterEnvelope,
     StageMapReport, CommitMapReport, SkipUnnumbered, FindPacket, InsertPacket,
     SkipUngatewayed, MarkGateway, RecordSeen, RecordNodeInfo, RecordPublicKey,
     RecordPosition, CommitEnvelope
<1>4. CASE Deliver \/ IngestDies \/ Wake \/ Crash \/ Restart \/ Tick \/ UNCHANGED vars
  BY <1>4 DEF Deliver, Receive, IngestDies, Wake, StartSweep, Crash, Restart, Tick,
     Halt, vars
<1> QED BY <1>3, <1>4 DEF Next

LEMMA SweepInvInit == Init => SweepInv
BY DEF Init, CleanupInit, SweepInv, NothingDoomed

LEMMA SweepInvNext ==
  ASSUME TypeInv, SweepInv, [Next]_vars
  PROVE  SweepInv'
<1>1. cutoff \in Int /\ packet \subseteq PacketRows /\ seen \subseteq SeenRows
      /\ trace \subseteq TraceRows /\ node \subseteq NodeRows
  BY DEF TypeInv, TypeOK, DBTypeOK, CleanupTypeOK
<1>2. /\ \A r \in packet \cup seen \cup trace : r.at \in Int
      /\ \A r \in node : r.last \in Int
  BY <1>1 DEF PacketRows, SeenRows, TraceRows, NodeRows, Times, TimesOrNull
<1>3. doomed \in [packet: SUBSET PacketRows, seen: SUBSET SeenRows,
                  trace: SUBSET TraceRows, node: SUBSET NodeRows]
  BY DEF TypeInv, TypeOK, CleanupTypeOK
<1>4. ASSUME doomed' = NothingDoomed,
             sweep' \notin {"seen", "trace", "node", "commit"}
      PROVE  SweepInv'
  BY <1>4 DEF SweepInv, NothingDoomed
<1>5. CASE ~CleanupStep /\ sweep \in InSweep
  <2>1. UNCHANGED tables
    BY <1>5, SweepAlone
  <2>2. CASE UNCHANGED cleanupVars
    BY <2>1, <2>2 DEF tables, cleanupVars, SweepInv
  <2>3. CASE IngestDies \/ Crash
    BY <1>4, <2>3 DEF IngestDies, Crash, Halt, CleanupReset
  <2> QED BY <1>5, <2>2, <2>3 DEF Next, vars, Deliver, IngestStep, Wake, StartSweep,
             InSweep, Restart, Tick
<1>6. CASE ~CleanupStep /\ sweep \notin InSweep
  <2>1. doomed = NothingDoomed
    BY <1>6 DEF SweepInv, InSweep
  <2>2. doomed' = NothingDoomed /\ sweep' \notin {"seen", "trace", "node", "commit"}
    BY <1>6, <2>1 DEF Next, vars, Deliver, IngestStep, IngestDies, Wake, StartSweep,
       Crash, Restart, Tick, Halt, CleanupReset, cleanupVars, InSweep
  <2> QED BY <1>4, <2>2
<1>7. CASE CleanupStep
  <2>1. CASE FinishSweep \/ AbortSweep
    BY <1>4, <2>1 DEF FinishSweep, AbortSweep, CleanupReset
  <2>2. CASE CommitSweep
    BY <1>4, <2>2 DEF CommitSweep
  <2>3. CASE EnterSweep
    BY <1>4, <2>3 DEF EnterSweep, SweepInv
  <2>4. CASE DeletePackets
    BY <1>1, <1>2, <1>3, <2>4 DEF DeletePackets, Older, SweepInv, NothingDoomed, tables
  <2>5. CASE DeleteSightings
    BY <1>1, <1>2, <1>3, <2>5 DEF DeleteSightings, Older, SweepInv, tables
  <2>6. CASE DeleteTraceroutes
    BY <1>1, <1>2, <1>3, <2>6 DEF DeleteTraceroutes, Older, SweepInv, tables
  <2>7. CASE DeleteNodes
    BY <1>1, <1>2, <1>3, <2>7 DEF DeleteNodes, ExpiredNodes, SweepInv, tables
  <2> QED BY <1>7, <2>1, <2>2, <2>3, <2>4, <2>5, <2>6, <2>7 DEF CleanupStep, SweepStep
<1> QED BY <1>5, <1>6, <1>7

LEMMA SweepInvHolds == Spec => [](TypeInv /\ SweepInv)
BY SweepInvInit, SweepInvNext, TypeInvHolds, PTL DEF Spec

\* A cleanup that commits leaves no row behind its cutoff in any table, though
\* envelopes kept coming in while it waited for the lock.
THEOREM WriterSweepsAll == Spec => SweepComplete
<1> DEFINE Complete ==
      sweep = "commit" /\ sweep' = "vacuum" =>
        /\ \A r \in packet' \cup seen' \cup trace' : r.at >= cutoff
        /\ \A r \in node' : r.last = NoTime \/ r.last >= cutoff
<1>1. ASSUME SweepInv, [Next]_vars PROVE [Complete]_vars
  <2> SUFFICES ASSUME sweep = "commit", sweep' = "vacuum" PROVE Complete
    OBVIOUS
  <2>1. CommitSweep
    BY <1>1 DEF Next, vars, Deliver, IngestStep, IngestDies, Wake, StartSweep,
       CleanupStep, SweepStep, EnterSweep, DeletePackets, DeleteSightings,
       DeleteTraceroutes, DeleteNodes, FinishSweep, AbortSweep, Crash, Restart,
       Tick, Halt, CleanupReset, cleanupVars
  <2> QED BY <1>1, <2>1 DEF CommitSweep, SweepInv
<1> QED BY <1>1, SweepInvHolds, PTL DEF Spec, SweepComplete

-----------------------------------------------------------------------------
(* The tables of nodes and of public keys: the history a node's row carries *)
(* is never rewritten, a node and a key have one row, and the schema can    *)
(* refuse only rows that the envelope at hand makes.                        *)


\* Row r may replace row c of the same node.
Follows(c, r) ==
  /\ c.last <= r.last
  /\ c.gateway = TRUE => r.gateway = TRUE
  /\ c.first = NoTime \/ c.first = r.first

\* A set of node rows with one row a key, numbered by the key, of the past.
Sound(rows) ==
  /\ rows \subseteq NodeRows
  /\ \A r \in rows : r.num = NumOf[r.key] /\ r.last <= now
  /\ \A r, s \in rows : r.key = s.key => r = s

Continues(rows, new) ==
  \A c \in rows, r \in new : c.key = r.key => Follows(c, r)

\* The phases in which process_envelope may have written a node.
NodeWritten == {"mapCommit", "seen", "nodeinfo", "nodekey", "position",
                "commit"}

NodeInv ==
  /\ Sound(node) /\ Sound(staged.node)
  /\ Continues(node, staged.node)
  /\ phase \notin NodeWritten => staged.node = {}

-----------------------------------------------------------------------------
LEMMA FollowsOrder ==
  /\ \A r \in NodeRows : Follows(r, r)
  /\ \A a, b, c \in NodeRows : Follows(a, b) /\ Follows(b, c) => Follows(a, c)
BY DEF Follows, NodeRows, TimesOrNull

\* Touching and flagging a row continue it.
LEMMA TouchFollows ==
  ASSUME NEW r \in NodeRows, r.last <= now, now \in Times
  PROVE  /\ Follows(r, Touched(r, now))
         /\ Touched(r, now).key = r.key /\ Touched(r, now).num = r.num
         /\ Touched(r, now).last = now
         /\ Follows(r, [r EXCEPT !.gateway = TRUE])
<1>1. r.last \in Int
  BY DEF NodeRows, TimesOrNull
<1> QED BY <1>1 DEF Follows, Touched, NodeRows

\* Laying sound rows that continue a table over it gives a sound table that
\* continues it too, and covers it.
LEMMA OverlaySound ==
  ASSUME NEW rows, NEW new, Sound(rows), Sound(new)
  PROVE  /\ Sound(OverlayNodes(rows, new))
         /\ \A c \in rows : \E r \in OverlayNodes(rows, new) : r.key = c.key
         /\ Continues(rows, new) => Continues(rows, OverlayNodes(rows, new))
<1>1. Sound(OverlayNodes(rows, new))
  BY DEF Sound, OverlayNodes
<1>2. \A c \in rows : \E r \in OverlayNodes(rows, new) : r.key = c.key
  BY DEF OverlayNodes
<1>3. ASSUME Continues(rows, new)
      PROVE  Continues(rows, OverlayNodes(rows, new))
  <2> SUFFICES ASSUME NEW c \in rows, NEW r \in OverlayNodes(rows, new),
                      c.key = r.key
               PROVE  Follows(c, r)
    BY DEF Continues
  <2>1. CASE r \in new
    BY <1>3, <2>1 DEF Continues
  <2>2. CASE r \in rows
    BY <2>2, FollowsOrder DEF Sound
  <2> QED BY <2>1, <2>2 DEF OverlayNodes
<1> QED BY <1>1, <1>2, <1>3

\* The rows made from a sound table by touching some of its rows.
LEMMA TouchedSound ==
  ASSUME NEW rows, NEW found, Sound(rows), found \subseteq rows, now \in Times
  PROVE  /\ Sound({Touched(r, now) : r \in found})
         /\ Continues(rows, {Touched(r, now) : r \in found})
<1>1. \A r \in found : /\ r \in NodeRows /\ r.last <= now
                       /\ r.num = NumOf[r.key]
  BY DEF Sound
<1>2. \A r \in found :
        /\ Touched(r, now) \in NodeRows /\ Follows(r, Touched(r, now))
        /\ Touched(r, now).key = r.key /\ Touched(r, now).num = r.num
        /\ Touched(r, now).last = now
  BY <1>1, TouchFollows, NodeRowTypes
<1>3. now <= now
  BY DEF Times
<1>4. Sound({Touched(r, now) : r \in found})
  BY <1>1, <1>2, <1>3 DEF Sound
<1>5. Continues(rows, {Touched(r, now) : r \in found})
  BY <1>2 DEF Sound, Continues
<1> QED BY <1>4, <1>5

\* The rows made from a sound table by flagging some of its rows.
LEMMA FlaggedSound ==
  ASSUME NEW rows, NEW found, Sound(rows), found \subseteq rows, now \in Times
  PROVE  /\ Sound({[r EXCEPT !.gateway = TRUE] : r \in found})
         /\ Continues(rows, {[r EXCEPT !.gateway = TRUE] : r \in found})
<1> DEFINE F(r) == [r EXCEPT !.gateway = TRUE]
<1>1. \A r \in found : r \in NodeRows /\ r.last <= now /\ r.num = NumOf[r.key]
  BY DEF Sound
<1>2. \A r \in found : F(r).key = r.key /\ F(r).num = r.num /\ F(r).last = r.last
  BY <1>1 DEF NodeRows
<1>3. \A r \in found : F(r) \in NodeRows /\ Follows(r, F(r))
  BY <1>1, NodeRowTypes, TouchFollows
<1> HIDE DEF F
<1>4. Sound({F(r) : r \in found})
  BY <1>1, <1>2, <1>3 DEF Sound
<1>5. Continues(rows, {F(r) : r \in found})
  BY <1>2, <1>3 DEF Sound, Continues
<1> QED BY <1>4, <1>5 DEF F

\* A node that the table does not know yet.
LEMMA NewSound ==
  ASSUME NEW rows, NEW k \in Keys, \A r \in rows : r.key # k, now \in Times
  PROVE  /\ Sound({NewNode(k, NumOf[k], now)})
         /\ Continues(rows, {NewNode(k, NumOf[k], now)})
<1>1. NewNode(k, NumOf[k], now) \in NodeRows
  BY NodeRowTypes, NumAssumption DEF NumAssumption
<1>2. NewNode(k, NumOf[k], now).key = k
      /\ NewNode(k, NumOf[k], now).num = NumOf[k]
      /\ NewNode(k, NumOf[k], now).last <= now
  BY DEF NewNode, Times
<1> QED BY <1>1, <1>2 DEF Sound, Continues

-----------------------------------------------------------------------------
LEMMA NodeInvInit == Init => NodeInv
<1> SUFFICES ASSUME Init PROVE NodeInv
  OBVIOUS
<1>1. Sound(node)
  BY InitialAssumption DEF Init, DBInit, InitialAssumption, Sound
<1>2. staged.node = {}
  BY DEF Init, IngestInit, NothingStaged
<1> QED BY <1>1, <1>2 DEF Sound, Continues, NodeInv

\* A step that leaves the table, the staged nodes and the clock alone.
LEMMA NodeFrame ==
  ASSUME NodeInv, node' = node, now' = now, staged'.node = staged.node,
         phase' \notin NodeWritten => staged.node = {}
  PROVE  NodeInv'
BY DEF NodeInv, Sound, Continues, Follows

\* The end of a session, by commit or rollback.
LEMMA NodeReset ==
  ASSUME Sound(node)', staged' = NothingStaged
  PROVE  NodeInv'
BY DEF NodeInv, NothingStaged, Sound, Continues

\* The staged rows are replaced by sound ones that continue the table.
LEMMA NodeStaged ==
  ASSUME NodeInv, node' = node, now' = now, phase' \in NodeWritten,
         Sound(staged'.node), Continues(node, staged'.node)
  PROVE  NodeInv'
BY DEF NodeInv, Sound, Continues, Follows

LEMMA NodeIngest ==
  ASSUME TypeInv, TypeInv', NodeInv, IngestStep
  PROVE  NodeInv'
<1>1. /\ staged \in Staging /\ staged' \in Staging /\ now \in Times
      /\ now' = now
  BY DEF TypeInv, TypeOK, IngestTypeOK, DBTypeOK, IngestStep
<1>2. Sound(NodeView(staged)) /\ Continues(node, NodeView(staged))
      /\ \A c \in node : \E r \in NodeView(staged) : r.key = c.key
  BY OverlaySound DEF NodeInv, NodeView
<1>3. \* what the session reads and touches continues the table as well
      ASSUME NEW mine, Sound(mine), Continues(NodeView(staged), mine)
      PROVE  /\ Sound(OverlayNodes(staged.node, mine))
             /\ Continues(node, OverlayNodes(staged.node, mine))
  <2>1. Sound(OverlayNodes(staged.node, mine))
    BY <1>3, OverlaySound DEF NodeInv
  <2>2. Continues(node, mine)
    <3> SUFFICES ASSUME NEW c \in node, NEW r \in mine, c.key = r.key
                 PROVE  Follows(c, r)
      BY DEF Continues
    <3>1. PICK v \in NodeView(staged) : v.key = c.key
      BY <1>2
    <3>2. Follows(c, v) /\ Follows(v, r)
      BY <1>2, <1>3, <3>1 DEF Continues
    <3>3. c \in NodeRows /\ v \in NodeRows /\ r \in NodeRows
      BY <1>2, <1>3 DEF NodeInv, Sound
    <3> QED BY <3>2, <3>3, FollowsOrder
  <2> QED BY <2>1, <2>2 DEF NodeInv, Continues, OverlayNodes
<1>4. CASE StageMapReport
  <2> DEFINE found == {r \in node : r.num = env.from}
  <2>1. env.from \in Nums /\ KeyOf[env.from] \in Keys
        /\ NumOf[KeyOf[env.from]] = env.from
    BY <1>4, EnvelopeAssumption, NumAssumption
    DEF StageMapReport, TypeInv, TypeOK, IngestTypeOK, EnvelopeAssumption,
        EnvelopeType, NumAssumption
  <2>2. node' = node /\ phase' \in NodeWritten
    BY <1>4 DEF StageMapReport, tables, NodeWritten
  <2>3. CASE ~env.usable
    <3>1. staged'.node = {}
      BY <1>1, <1>4, <2>3 DEF StageMapReport, Staging
    <3> QED BY <1>1, <2>2, <3>1, NodeStaged DEF Sound, Continues
  <2>4. CASE env.usable /\ found # {}
    <3>1. staged'.node = {Touched(r, now) : r \in found}
      BY <1>1, <1>4, <2>4 DEF StageMapReport, Staging
    <3>2. Sound(staged'.node) /\ Continues(node, staged'.node)
      BY <1>1, <3>1, TouchedSound DEF NodeInv
    <3> QED BY <1>1, <2>2, <3>2, NodeStaged
  <2>5. CASE env.usable /\ found = {}
    <3>1. staged'.node = {NewNode(KeyOf[env.from], env.from, now)}
      BY <1>1, <1>4, <2>5 DEF StageMapReport, Staging
    <3>2. \A r \in node : r.key # KeyOf[env.from]
      BY <2>1, <2>5 DEF NodeInv, Sound
    <3>3. Sound(staged'.node) /\ Continues(node, staged'.node)
      BY <1>1, <2>1, <3>1, <3>2, NewSound
    <3> QED BY <1>1, <2>2, <3>3, NodeStaged
  <2> QED BY <2>3, <2>4, <2>5
<1>5. CASE MarkGateway
  <2> DEFINE found == {q \in node : q.num = env.gateway}
             marked == {[r EXCEPT !.gateway = TRUE] : r \in found}
  <2>1. node' = node /\ phase' \in NodeWritten
        /\ staged'.node = IF env.gateway \in cache THEN {} ELSE marked
    BY <1>1, <1>5 DEF MarkGateway, tables, NodeWritten, Staging
  <2>2. Sound(marked) /\ Continues(node, marked)
    BY <1>1, FlaggedSound DEF NodeInv
  <2>3. Sound(staged'.node) /\ Continues(node, staged'.node)
    BY <2>1, <2>2 DEF Sound, Continues
  <2> QED BY <1>1, <2>1, <2>3, NodeStaged
<1>6. CASE RecordNodeInfo
  <2> DEFINE found == {r \in NodeView(staged) : r.key = env.user}
             mine == IF found = {}
                     THEN {NewNode(env.user, NumOf[env.user], now)}
                     ELSE {[Touched(r, now) EXCEPT !.num = NumOf[env.user]] :
                             r \in found}
  <2>1. env.user \in Keys
    BY <1>6, EnvelopeAssumption
    DEF RecordNodeInfo, TypeInv, TypeOK, IngestTypeOK, EnvelopeAssumption,
        EnvelopeType
  <2>2. Sound(mine) /\ Continues(NodeView(staged), mine)
    <3>1. CASE found = {}
      <4>1. \A r \in NodeView(staged) : r.key # env.user
        BY <3>1
      <4> QED BY <1>1, <2>1, <3>1, <4>1, NewSound
    <3>2. CASE found # {}
      <4>1. \A r \in found : r \in NodeRows /\ r.num = NumOf[env.user]
                             /\ Touched(r, now) \in NodeRows
                             /\ Touched(r, now).num = r.num
        <5>1. \A r \in found : r \in NodeRows /\ r.num = NumOf[env.user]
                               /\ r.last <= now
          BY <1>2 DEF Sound
        <5> QED BY <1>1, <5>1, NodeRowTypes, TouchFollows
      <4>2. \A r \in found :
              [Touched(r, now) EXCEPT !.num = NumOf[env.user]] = Touched(r, now)
        BY <4>1 DEF NodeRows
      <4>3. mine = {Touched(r, now) : r \in found}
        BY <3>2, <4>2
      <4> QED BY <1>1, <1>2, <4>3, TouchedSound
    <3> QED BY <3>1, <3>2
  <2>3. staged'.node = OverlayNodes(staged.node, mine)
        /\ node' = node /\ phase' \in NodeWritten
    BY <1>1, <1>6 DEF RecordNodeInfo, tables, NodeWritten, Staging
  <2> HIDE DEF mine
  <2> QED BY <1>1, <1>3, <2>2, <2>3, NodeStaged
<1>7. CASE RecordPosition
  <2> DEFINE found == {r \in NodeView(staged) : r.num = env.from}
             mine == {Touched(r, now) : r \in found}
  <2>1. Sound(mine) /\ Continues(NodeView(staged), mine)
    BY <1>1, <1>2, TouchedSound
  <2>2. staged'.node = OverlayNodes(staged.node, mine)
        /\ node' = node /\ phase' \in NodeWritten
    BY <1>1, <1>7 DEF RecordPosition, tables, NodeWritten, Staging
  <2> HIDE DEF mine
  <2> QED BY <1>1, <1>3, <2>1, <2>2, NodeStaged
<1>8. CASE CommitMapReport \/ CommitEnvelope
  <2>1. node' = NodeView(staged) /\ staged' = NothingStaged
    BY <1>8 DEF CommitMapReport, CommitEnvelope, ApplyStaged, IngestReset
  <2>2. Sound(node)'
    BY <1>1, <1>2, <2>1 DEF Sound
  <2> QED BY <2>1, <2>2, NodeReset
<1>9. CASE SkipUnnumbered \/ SkipUngatewayed
  <2>1. node' = node /\ staged' = NothingStaged
    BY <1>9 DEF SkipUnnumbered, SkipUngatewayed, IngestReset, tables
  <2>2. Sound(node)'
    BY <1>1, <2>1 DEF NodeInv, Sound
  <2> QED BY <2>1, <2>2, NodeReset
<1>10. CASE EnterEnvelope \/ FindPacket \/ InsertPacket
  <2>1. node' = node /\ staged'.node = staged.node /\ staged.node = {}
    BY <1>1, <1>10 DEF EnterEnvelope, FindPacket, InsertPacket, tables,
       Staging, NodeInv, NodeWritten
  <2> QED BY <1>1, <2>1, NodeFrame
<1>11. CASE RecordSeen \/ RecordPublicKey
  <2>1. node' = node /\ staged'.node = staged.node /\ phase' \in NodeWritten
    BY <1>1, <1>11 DEF RecordSeen, RecordPublicKey, tables, Staging, NodeWritten
  <2> QED BY <1>1, <2>1, NodeFrame
<1> QED
  BY <1>4, <1>5, <1>6, <1>7, <1>8, <1>9, <1>10, <1>11
  DEF IngestStep, ProcessEnvelope

\* The clock only moves on, a sweep that commits does so between envelopes, and
\* the other steps touch no node.
LEMMA NodeOthers ==
  ASSUME TypeInv, NodeInv, [Next]_vars, ~IngestStep
  PROVE  NodeInv'
<1>1. CASE CleanupStep /\ CommitSweep
  <2>1. phase \notin InEnvelope
    BY <1>1, TasksAssumption DEF CommitSweep, TypeInv, SessionUnderLock, InSweep,
       Holds, TasksAssumption
  <2>2. UNCHANGED ingestVars /\ node' \subseteq node /\ now' = now
    BY <1>1 DEF CleanupStep, CommitSweep
  <2>3. staged.node = {} /\ staged' = staged /\ phase' = phase
    BY <2>1, <2>2 DEF NodeInv, NodeWritten, InEnvelope, ingestVars
  <2> QED BY <2>2, <2>3 DEF NodeInv, Sound, Continues
<1>2. CASE IngestDies \/ Crash
  <2>1. staged' = NothingStaged /\ node' = node /\ now' = now
    BY <1>2 DEF IngestDies, Crash, Halt, IngestReset, tables
  <2>2. Sound(node)'
    BY <2>1 DEF NodeInv, Sound
  <2> QED BY <2>1, <2>2, NodeReset
<1>3. CASE Tick
  <2>1. now \in Int /\ now' = now + 1
        /\ UNCHANGED <<node, staged, phase>>
    BY <1>3 DEF Tick, TypeInv, TypeOK, DBTypeOK, Times, tables, ingestVars
  <2>2. \A rows \in SUBSET NodeRows :
          (\A r \in rows : r.last <= now) => \A r \in rows : r.last <= now'
    BY <2>1 DEF NodeRows, TimesOrNull
  <2>3. Sound(node)'
    BY <2>1, <2>2 DEF NodeInv, Sound
  <2>4. Sound(staged.node)'
    BY <2>1, <2>2 DEF NodeInv, Sound
  <2> QED BY <2>1, <2>3, <2>4 DEF NodeInv, Continues, Follows
<1>4. CASE Deliver
  <2>1. node' = node /\ now' = now /\ staged' = staged /\ phase = "stream"
    BY <1>4 DEF Deliver, Receive, tables
  <2> QED BY <2>1, NodeFrame DEF NodeInv, NodeWritten
<1>5. ASSUME ~(CleanupStep /\ CommitSweep), ~(IngestDies \/ Crash), ~Tick,
             ~Deliver
      PROVE  UNCHANGED <<node, now, phase, staged>>
  BY <1>5 DEF Next, vars, Wake, StartSweep, CleanupStep, SweepStep, EnterSweep,
     DeletePackets, DeleteSightings, DeleteTraceroutes, DeleteNodes,
     FinishSweep, AbortSweep, Restart, ingestVars, tables
<1>6. CASE UNCHANGED <<node, now, phase, staged>>
  BY <1>6, NodeFrame DEF NodeInv
<1> QED BY <1>1, <1>2, <1>3, <1>4, <1>5, <1>6

LEMMA NodeInvHolds == Spec => [](TypeInv /\ NodeInv)
<1>1. TypeInv /\ TypeInv' /\ NodeInv /\ [Next]_vars => NodeInv'
  BY NodeIngest, NodeOthers
<1> QED BY <1>1, NodeInvInit, TypeInvHolds, PTL DEF Spec

-----------------------------------------------------------------------------
\* A node's number and gateway flag stay, first_seen_us never changes once it is
\* set and last_seen_us never goes back, as long as the row exists.
THEOREM WriterKeepsHistory == Spec => NodeHistoryMonotone
<1> DEFINE Kept == \A r \in node : \A s \in node' : r.key = s.key =>
                     /\ s.num = r.num
                     /\ r.gateway => s.gateway
                     /\ r.first \in {NoTime, s.first}
                     /\ r.last <= s.last
<1>1. ASSUME TypeInv, NodeInv, [Next]_vars PROVE [Kept]_vars
  <2>1. ASSUME Continues(node, node'),
               \A s \in node' : s.num = NumOf[s.key]
        PROVE  Kept
    BY <1>1, <2>1 DEF Continues, Follows, NodeInv, Sound
  <2>2. CASE IngestStep /\ (CommitMapReport \/ CommitEnvelope)
    <3>1. node' = NodeView(staged)
      BY <2>2 DEF CommitMapReport, CommitEnvelope, ApplyStaged
    <3>2. Continues(node, node') /\ Sound(NodeView(staged))
      BY <1>1, <3>1, OverlaySound DEF NodeInv, NodeView
    <3> QED BY <2>1, <3>1, <3>2 DEF Sound
  <2>3. CASE node' \subseteq node
    <3>1. Continues(node, node')
      BY <1>1, <2>3, FollowsOrder DEF NodeInv, Sound, Continues
    <3> QED BY <1>1, <2>1, <2>3, <3>1 DEF NodeInv, Sound
  <2>4. CASE IngestStep /\ ~(CommitMapReport \/ CommitEnvelope)
    <3>1. node' = node
      BY <2>4 DEF IngestStep, ProcessEnvelope, EnterEnvelope, StageMapReport,
         SkipUnnumbered, FindPacket, InsertPacket, SkipUngatewayed,
         MarkGateway, RecordSeen, RecordNodeInfo, RecordPublicKey,
         RecordPosition, tables
    <3> QED BY <2>3, <3>1
  <2>5. CASE ~IngestStep
    <3>1. node' \subseteq node
      BY <1>1, <2>5 DEF Next, vars, Deliver, Receive, IngestDies, Wake,
         StartSweep, CleanupStep, SweepStep, EnterSweep, DeletePackets,
         DeleteSightings, DeleteTraceroutes, DeleteNodes, CommitSweep,
         FinishSweep, AbortSweep, Crash, Restart, Tick, Halt, tables
    <3> QED BY <2>3, <3>1
  <2> QED BY <2>2, <2>4, <2>5
<1> QED BY <1>1, NodeInvHolds, PTL DEF Spec, NodeHistoryMonotone

-----------------------------------------------------------------------------
(* Public keys.                                                             *)

\* The session writes one key row at most, in its last await, and it replaces
\* the stored row of the same node and key: the lookup and the commit are under
\* the same lock, and cleanup never touches the table.
PubkeyInv ==
  /\ OneRowPerKey
  /\ phase # "commit" => staged.pubkey = {}
  /\ \A a, b \in staged.pubkey : a = b
  /\ \A a \in staged.pubkey, b \in pubkey :
       a.num = b.num /\ a.key = b.key => a.first = b.first

LEMMA PubkeyInvInit == Init => PubkeyInv
BY DEF Init, DBInit, IngestInit, NothingStaged, PubkeyInv, OneRowPerKey

LEMMA PubkeyInvNext ==
  ASSUME TypeInv, TypeInv', PubkeyInv, [Next]_vars
  PROVE  PubkeyInv'
<1>1. staged \in Staging /\ staged' \in Staging /\ pubkey \subseteq KeyRows
  BY DEF TypeInv, TypeOK, IngestTypeOK, DBTypeOK
<1>2. ASSUME pubkey' = pubkey, staged'.pubkey = {}
      PROVE  PubkeyInv'
  BY <1>2 DEF PubkeyInv, OneRowPerKey
<1>3. CASE RecordPublicKey
  <2> DEFINE found == {k \in pubkey : k.num = NumOf[env.user] /\ k.key = env.key}
             fresh == [num |-> NumOf[env.user], key |-> env.key,
                       first |-> now, last |-> now]
             again(k) == [k EXCEPT !.last = now]
             news  == IF found # {} THEN {again(k) : k \in found} ELSE {fresh}
  <2>1. pubkey' = pubkey /\ phase' = "commit" /\ staged'.pubkey = news
    BY <1>1, <1>3 DEF RecordPublicKey, tables, Staging
  <2>2. \A k \in found : /\ again(k).num = k.num /\ again(k).key = k.key
                         /\ again(k).first = k.first
    BY <1>1 DEF KeyRows
  <2> HIDE DEF again
  <2>3. \A a, b \in found : a = b
    BY DEF PubkeyInv, OneRowPerKey
  <2>4. \A a, b \in news : a = b
    BY <2>3
  <2>5. \A a \in news, b \in pubkey :
          a.num = b.num /\ a.key = b.key => a.first = b.first
    <3>1. CASE found # {}
      <4>1. \A k \in found, b \in pubkey :
              k.num = b.num /\ k.key = b.key => k.first = b.first
        BY DEF PubkeyInv, OneRowPerKey
      <4>2. \A a \in news : \E k \in found : a = again(k)
        BY <3>1
      <4> QED BY <2>2, <4>1, <4>2
    <3>2. CASE found = {}
      BY <3>2
    <3> QED BY <3>1, <3>2
  <2> HIDE DEF news
  <2> QED BY <2>1, <2>4, <2>5 DEF PubkeyInv, OneRowPerKey
<1>4. CASE CommitEnvelope \/ CommitMapReport
  <2>1. pubkey' = OverlayKeys(pubkey, staged.pubkey) /\ staged' = NothingStaged
    BY <1>4 DEF CommitEnvelope, CommitMapReport, ApplyStaged, IngestReset
  <2>2. OneRowPerKey'
    BY <2>1 DEF PubkeyInv, OneRowPerKey, OverlayKeys
  <2> QED BY <2>1, <2>2 DEF PubkeyInv, NothingStaged
<1>5. CASE IngestStep /\ ~(RecordPublicKey \/ CommitEnvelope \/ CommitMapReport)
  <2>1. pubkey' = pubkey
        /\ (staged' = NothingStaged \/ staged'.pubkey = staged.pubkey)
        /\ phase # "commit"
    BY <1>1, <1>5 DEF IngestStep, ProcessEnvelope, EnterEnvelope, StageMapReport,
       SkipUnnumbered, FindPacket, InsertPacket, SkipUngatewayed, MarkGateway,
       RecordSeen, RecordNodeInfo, RecordPosition, tables, IngestReset, Staging
  <2> QED BY <1>2, <2>1 DEF PubkeyInv, NothingStaged
<1>6. CASE ~IngestStep
  <2>1. CASE Deliver
    <3>1. pubkey' = pubkey /\ staged' = staged /\ phase = "stream"
      BY <2>1 DEF Deliver, Receive, tables
    <3> QED BY <1>2, <3>1 DEF PubkeyInv
  <2>2. CASE IngestDies \/ Crash
    <3>1. pubkey' = pubkey /\ staged' = NothingStaged
      BY <2>2 DEF IngestDies, Crash, Halt, IngestReset, tables
    <3> QED BY <1>2, <3>1 DEF NothingStaged
  <2>3. CASE ~(Deliver \/ IngestDies \/ Crash)
    <3>1. UNCHANGED <<pubkey, staged, phase>>
      BY <1>6, <2>3 DEF Next, vars, Wake, StartSweep, CleanupStep, SweepStep,
         EnterSweep, DeletePackets, DeleteSightings, DeleteTraceroutes,
         DeleteNodes, CommitSweep, FinishSweep, AbortSweep, Restart, Tick,
         tables, ingestVars
    <3> QED BY <3>1 DEF PubkeyInv, OneRowPerKey
  <2> QED BY <2>1, <2>2, <2>3
<1> QED BY <1>3, <1>4, <1>5, <1>6

LEMMA PubkeyInvHolds == Spec => []PubkeyInv
<1>1. TypeInv /\ TypeInv' /\ PubkeyInv /\ [Next]_vars => PubkeyInv'
  BY PubkeyInvNext
<1> QED BY <1>1, PubkeyInvInit, TypeInvHolds, PTL DEF Spec

\* A node and a public key have one row together, though the table has no unique
\* constraint: the lookup before the insert is all there is.
THEOREM WriterKeepsOneKeyRow == Spec => []OneRowPerKey
BY PubkeyInvHolds, PTL DEF PubkeyInv

-----------------------------------------------------------------------------
(* Which rows the session makes, and when the schema may refuse them.       *)

Known(r) == \E c \in node : c.key = r.key

\* A staged row that the table lacks was made by this envelope: by its report,
\* when no row has the sender's number, or by its NODEINFO, under the id it gives.
Fresh(r) ==
  /\ r.gateway = FALSE /\ r.first = r.last
  /\ \/ /\ phase = "mapCommit" /\ r.key = KeyOf[env.from]
        /\ \A c \in node : c.num # env.from
     \/ /\ phase \in {"nodekey", "commit"} /\ env.port = "NODEINFO"
        /\ r.key = env.user

\* The table has one row a number, each within its column; of what the session
\* stages, only a fresh row and a public key can be refused.
NumbersFit == ~NumberClash(node) /\ \A r \in node : r.num \notin Huge

KnownInv ==
  /\ NumbersFit
  /\ \A r \in staged.node : Known(r) \/ Fresh(r)
  /\ phase \in {"nodeinfo", "nodekey"} => env.port = "NODEINFO"
  /\ \A k \in staged.pubkey :
        env.port = "NODEINFO" /\ env.key # NoKey /\ k.num = NumOf[env.user]
  /\ \A a \in staged.seen, b \in seen : ~SameSighting(a, b)

LEMMA KnownInvInit == Init => KnownInv
<1> SUFFICES ASSUME Init PROVE KnownInv
  OBVIOUS
<1>1. NumbersFit
  BY InitialAssumption DEF Init, DBInit, InitialAssumption, NumberClash, NumbersFit
<1> QED BY <1>1 DEF Init, IngestInit, NothingStaged, KnownInv

\* The session is over, or has nothing staged, and the table has no clash.
LEMMA KnownReset ==
  ASSUME NumbersFit', staged'.node = {}, staged'.pubkey = {},
         \A a \in staged'.seen, b \in seen' : ~SameSighting(a, b),
         phase' \notin {"nodeinfo", "nodekey"}
  PROVE  KnownInv'
BY DEF KnownInv

\* Only rows of nodes the table knows are staged.
LEMMA KnownStaged ==
  ASSUME KnownInv, UNCHANGED <<node, seen, env>>, staged'.pubkey = {},
         \A r \in staged'.node : Known(r),
         \A a \in staged'.seen, b \in seen : ~SameSighting(a, b),
         phase' \in {"nodeinfo", "nodekey"} => env.port = "NODEINFO"
  PROVE  KnownInv'
BY DEF KnownInv, Known, NumberClash, NumbersFit

LEMMA KnownIngest ==
  ASSUME TypeInv, TypeInv', NodeInv, PubkeyInv, KnownInv, IngestStep
  PROVE  KnownInv'
<1>1. /\ staged \in Staging /\ staged' \in Staging /\ now \in Times
      /\ node \subseteq NodeRows /\ staged.node \subseteq NodeRows
  BY DEF TypeInv, TypeOK, IngestTypeOK, DBTypeOK, Staging
<1>2. phase # "commit" => staged.pubkey = {}
  BY DEF PubkeyInv
<1>3. phase \in {"seen", "nodeinfo", "position"} => \A r \in staged.node : Known(r)
  BY DEF KnownInv, Fresh
<1>4. CASE EnterEnvelope \/ FindPacket \/ InsertPacket
  <2>1. UNCHANGED <<node, seen, env>> /\ staged'.node = staged.node
        /\ staged'.pubkey = staged.pubkey /\ staged'.seen = staged.seen
        /\ phase' \notin {"nodeinfo", "nodekey"} /\ phase \in {"lock", "packet", "insert"}
    BY <1>1, <1>4 DEF EnterEnvelope, FindPacket, InsertPacket, tables, Staging
  <2>2. staged.node = {} /\ staged.pubkey = {}
    BY <1>2, <2>1 DEF NodeInv, NodeWritten
  <2> QED BY <2>1, <2>2, KnownStaged DEF KnownInv
<1>5. CASE StageMapReport
  <2> DEFINE found == {r \in node : r.num = env.from}
             new == IF ~env.usable THEN {}
                    ELSE IF found # {} THEN {Touched(r, now) : r \in found}
                    ELSE {NewNode(KeyOf[env.from], env.from, now)}
  <2>1. UNCHANGED <<node, seen, env>> /\ staged'.node = new
        /\ staged'.pubkey = staged.pubkey /\ staged'.seen = staged.seen
        /\ phase = "map" /\ phase' = "mapCommit"
    BY <1>1, <1>5 DEF StageMapReport, tables, Staging
  <2>2. CASE ~env.usable \/ found # {}
    <3>1. \A r \in found : Touched(r, now).key = r.key
      BY <1>1 DEF Touched, NodeRows
    <3>2. \A r \in new : Known(r)
      BY <2>2, <3>1 DEF Known
    <3> QED BY <1>2, <2>1, <3>2, KnownStaged DEF KnownInv
  <2>3. CASE env.usable /\ found = {}
    <3>1. new = {NewNode(KeyOf[env.from], env.from, now)}
      BY <2>3
    <3>2. \A r \in new : Fresh(r)'
      BY <2>1, <2>3, <3>1 DEF Fresh, NewNode
    <3> HIDE DEF new
    <3> QED BY <1>2, <2>1, <3>2 DEF KnownInv, NumberClash, NumbersFit
  <2> QED BY <2>2, <2>3
<1>6. CASE CommitMapReport \/ CommitEnvelope
  <2>1. NumbersFit'
    BY <1>6 DEF CommitMapReport, CommitEnvelope, Committable, ApplyStaged,
       NodeView, OverlayNodes, NumberClash, KnownInv, NumbersFit
  <2>2. staged' = NothingStaged /\ phase' \in {"packet", "stream"}
    BY <1>6 DEF CommitMapReport, CommitEnvelope, IngestReset
  <2> QED BY <2>1, <2>2, KnownReset DEF NothingStaged
<1>7. CASE SkipUnnumbered \/ SkipUngatewayed
  <2>1. node' = node /\ staged' = NothingStaged /\ phase' = "stream"
    BY <1>7 DEF SkipUnnumbered, SkipUngatewayed, IngestReset, tables
  <2> QED BY <2>1, KnownReset DEF KnownInv, NumberClash, NumbersFit, NothingStaged
<1>8. CASE MarkGateway
  <2> DEFINE F(r) == [r EXCEPT !.gateway = TRUE]
             found == {q \in node : q.num = env.gateway}
  <2>1. UNCHANGED <<node, seen, env>> /\ staged'.pubkey = staged.pubkey
        /\ staged'.node \in {{}, {F(r) : r \in found}}
        /\ staged'.seen = staged.seen /\ phase = "gateway" /\ phase' = "seen"
    BY <1>1, <1>8 DEF MarkGateway, tables, Staging
  <2>2. \A r \in found : F(r).key = r.key
    BY <1>1 DEF NodeRows
  <2> HIDE DEF F
  <2>3. \A r \in staged'.node : Known(r)
    BY <2>1, <2>2 DEF Known
  <2> QED BY <1>2, <2>1, <2>3, KnownStaged DEF KnownInv
<1>9. CASE RecordSeen
  <2> DEFINE s == [id |-> env.id, gw |-> env.gateway, rx |-> env.rx,
                   at |-> now]
             news == IF \E old \in seen : SameSighting(old, s) THEN {} ELSE {s}
  <2>1. UNCHANGED <<node, seen, env>> /\ staged'.pubkey = staged.pubkey
        /\ staged'.node = staged.node /\ staged'.seen = news /\ phase = "seen"
    BY <1>1, <1>9 DEF RecordSeen, tables, Staging
  <2>2. phase' \in {"nodeinfo", "nodekey"} => env.port = "NODEINFO"
    BY <1>9 DEF RecordSeen
  <2>3. \A a \in news, b \in seen : ~SameSighting(a, b)
    <3> HIDE DEF s
    <3> QED BY DEF SameSighting
  <2> HIDE DEF news
  <2> QED BY <1>2, <1>3, <2>1, <2>2, <2>3, KnownStaged
<1>10. CASE RecordPosition
  <2> DEFINE mine == {Touched(r, now) : r \in {q \in NodeView(staged) : q.num = env.from}}
  <2>1. UNCHANGED <<node, seen, env>> /\ staged'.pubkey = staged.pubkey
        /\ staged'.node = OverlayNodes(staged.node, mine)
        /\ staged'.seen = staged.seen /\ phase = "position" /\ phase' = "commit"
    BY <1>1, <1>10 DEF RecordPosition, tables, Staging
  <2>2. \A r \in NodeView(staged) : Known(r) /\ r \in NodeRows
    BY <1>1, <1>3, <2>1 DEF NodeView, OverlayNodes, Known
  <2>3. \A r \in NodeRows : Touched(r, now).key = r.key
    BY DEF Touched, NodeRows
  <2>4. \A r \in mine : Known(r)
    BY <2>2, <2>3 DEF Known
  <2>5. \A r \in staged'.node : Known(r)
    BY <1>3, <2>1, <2>4 DEF OverlayNodes
  <2> QED BY <1>2, <2>1, <2>5, KnownStaged DEF KnownInv
<1>11. CASE RecordNodeInfo
  <2> DEFINE found == {r \in NodeView(staged) : r.key = env.user}
             T(r) == [Touched(r, now) EXCEPT !.num = NumOf[env.user]]
             fresh == NewNode(env.user, NumOf[env.user], now)
             mine == IF found = {} THEN {fresh} ELSE {T(r) : r \in found}
  <2>1. UNCHANGED <<node, seen, env>> /\ staged'.pubkey = staged.pubkey
        /\ staged'.node = OverlayNodes(staged.node, mine)
        /\ staged'.seen = staged.seen /\ phase = "nodeinfo"
        /\ phase' \in {"nodekey", "commit"}
    BY <1>1, <1>11 DEF RecordNodeInfo, tables, Staging
  <2>2. \A r \in NodeView(staged) : Known(r) /\ r \in NodeRows
    BY <1>1, <1>3, <2>1 DEF NodeView, OverlayNodes, Known
  <2>3. \A r \in NodeRows : T(r).key = r.key
    BY DEF Touched, NodeRows
  <2>4. fresh.gateway = FALSE /\ fresh.first = fresh.last /\ fresh.key = env.user
    BY DEF NewNode
  <2> HIDE DEF T, fresh
  <2>5. env.port = "NODEINFO"
    BY <2>1 DEF KnownInv
  <2>6. \A r \in mine : Known(r) \/ Fresh(r)'
    <3>1. CASE found = {}
      BY <2>1, <2>4, <2>5, <3>1 DEF Fresh
    <3>2. CASE found # {}
      BY <2>2, <2>3, <3>2 DEF Known
    <3> QED BY <3>1, <3>2
  <2>7. \A r \in staged'.node : Known(r) \/ Fresh(r)'
    BY <1>3, <2>1, <2>6 DEF OverlayNodes
  <2> HIDE DEF mine
  <2> QED BY <1>2, <2>1, <2>5, <2>7 DEF KnownInv, Known, NumberClash, NumbersFit
<1>12. CASE RecordPublicKey
  <2>1. UNCHANGED <<node, seen, env>> /\ staged'.node = staged.node
        /\ staged'.seen = staged.seen /\ phase = "nodekey" /\ phase' = "commit"
    BY <1>1, <1>12 DEF RecordPublicKey, tables, Staging
  <2>2. env.port = "NODEINFO" /\ env.key # NoKey
    BY <2>1 DEF KnownInv, TypeInv, EnvelopeChecked
  <2>3. \A k \in staged'.pubkey : k.num = NumOf[env.user]
    <3> DEFINE found == {k \in pubkey : k.num = NumOf[env.user] /\ k.key = env.key}
               again(k) == [k EXCEPT !.last = now]
               fresh == [num |-> NumOf[env.user], key |-> env.key,
                         first |-> now, last |-> now]
    <3>1. staged'.pubkey = IF found # {} THEN {again(k) : k \in found} ELSE {fresh}
      BY <1>1, <1>12 DEF RecordPublicKey, Staging
    <3>2. \A k \in found : again(k).num = k.num
      BY DEF TypeInv, TypeOK, DBTypeOK, KeyRows
    <3>3. fresh.num = NumOf[env.user]
      OBVIOUS
    <3> HIDE DEF again, fresh
    <3> QED BY <3>1, <3>2, <3>3
  <2> QED BY <2>1, <2>2, <2>3 DEF KnownInv, Known, Fresh, NumberClash, NumbersFit
<1> QED
  BY <1>4, <1>5, <1>6, <1>7, <1>8, <1>9, <1>10, <1>11, <1>12
  DEF IngestStep, ProcessEnvelope

LEMMA KnownOthers ==
  ASSUME TypeInv, NodeInv, PubkeyInv, KnownInv, [Next]_vars, ~IngestStep
  PROVE  KnownInv'
<1>1. CASE CleanupStep
  <2>1. UNCHANGED ingestVars
    BY <1>1 DEF CleanupStep
  <2>2. CASE CommitSweep
    <3>1. phase \notin InEnvelope
      BY <2>2, TasksAssumption DEF CommitSweep, TypeInv, SessionUnderLock,
         InSweep, Holds, TasksAssumption
    <3>2. staged.node = {} /\ staged.pubkey = {}
      BY <3>1 DEF NodeInv, NodeWritten, PubkeyInv, InEnvelope
    <3>3. node' \subseteq node /\ seen' \subseteq seen
      BY <2>2 DEF CommitSweep
    <3> QED
      BY <2>1, <3>1, <3>2, <3>3, KnownReset
      DEF ingestVars, InEnvelope, KnownInv, NumberClash, NumbersFit
  <2>3. CASE ~CommitSweep
    <3>1. UNCHANGED <<node, seen>>
      BY <1>1, <2>3 DEF CleanupStep, SweepStep, EnterSweep, DeletePackets,
         DeleteSightings, DeleteTraceroutes, DeleteNodes, FinishSweep,
         AbortSweep, tables
    <3> QED BY <2>1, <3>1 DEF ingestVars, KnownInv, Known, Fresh, NumberClash, NumbersFit
  <2> QED BY <2>2, <2>3
<1>2. CASE IngestDies \/ Crash
  <2>1. node' = node /\ staged' = NothingStaged /\ phase' = "stream"
    BY <1>2 DEF IngestDies, Crash, Halt, IngestReset, tables
  <2> QED BY <2>1, KnownReset DEF KnownInv, NumberClash, NumbersFit, NothingStaged
<1>3. CASE Deliver
  <2>1. UNCHANGED <<node, seen, staged>> /\ phase = "stream" /\ phase' = "lock"
    BY <1>3 DEF Deliver, Receive, tables
  <2>2. staged.node = {} /\ staged.pubkey = {}
    BY <2>1 DEF NodeInv, NodeWritten, PubkeyInv
  <2> QED BY <2>1, <2>2, KnownReset DEF KnownInv, NumberClash, NumbersFit
<1>4. CASE Wake \/ Restart \/ Tick \/ UNCHANGED vars
  <2>1. UNCHANGED <<node, seen, staged, env, phase>>
    BY <1>4 DEF Wake, StartSweep, Restart, Tick, vars, ingestVars, tables
  <2> QED BY <2>1 DEF KnownInv, Known, Fresh, NumberClash, NumbersFit
<1> QED BY <1>1, <1>2, <1>3, <1>4 DEF Next

LEMMA KnownInvHolds == Spec => []KnownInv
<1>1. TypeInv /\ TypeInv' /\ NodeInv /\ PubkeyInv /\ KnownInv /\ [Next]_vars
        => KnownInv'
  BY KnownIngest, KnownOthers
<1> QED BY <1>1, KnownInvInit, NodeInvHolds, PubkeyInvHolds, PTL DEF Spec
=============================================================================
