------------------------------ MODULE Startup -------------------------------
(***************************************************************************)
(* How the two processes come up on one database.  The writer (main() of   *)
(* startdb.py) brings the schema to the head of the installed revisions    *)
(* before it starts its tasks; the reader (run_server of web.py) polls     *)
(* until the schema is there.  Either may be killed between any two        *)
(* statements, and new code may be installed under a running process.      *)
(***************************************************************************)
EXTENDS Migrations, Naturals

CONSTANTS
  Chain,           \* the revisions, from base to head
  Models,          \* what the models of each release declare
  Releases,        \* a release is known by the number of revisions it brings
  Schemas,         \* databases found: [objects, version]
  Dialects,        \* the database systems looked at
  MaxRetries       \* max_retries

ASSUME StartupAssumption ==
  /\ Len(Chain) \in Nat
  /\ \A k \in 1..Len(Chain) :
       /\ Len(Chain[k]) \in Nat
       /\ \A n \in 1..Len(Chain[k]) : Chain[k][n].writes \subseteq BOOLEAN
  /\ Releases \subseteq 1..Len(Chain) /\ Releases # {}
  /\ DOMAIN Models = Releases
  /\ Dialects \subseteq {"sqlite", "postgresql"}
  /\ MaxRetries \in Nat

VARIABLES
  dialect,   \* the database system
  db,        \* what is committed: the schema, alembic_version, migration_status
  release,   \* the release installed on disk
  writer,    \* where main() is
  tx,        \* the upgrade's connection: the schema as it sees it, and more
  reader,    \* where run_server() is
  attempt,   \* wait_for_migrations: polls used up
  runs       \* the release the reader's process has loaded

readerVars == <<reader, attempt, runs>>
vars == <<dialect, db, release, writer, tx, readerVars>>

\* The database runs DDL in transactions.
Transactional == dialect = "postgresql"

WriterPlaces == {"down", "marked", "upgrade", "tables", "cache", "failed", "ingesting"}
ReaderPlaces == {"down", "waiting", "serving"}

\* Nothing is under way on the upgrade's connection.
NoUpgrade ==
  [objects |-> {}, version |-> 0, seen |-> {}, next |-> 1, open |-> FALSE]

Init ==
  /\ dialect \in Dialects
  /\ \E s \in Schemas : db = [objects |-> s.objects, version |-> s.version, flag |-> FALSE]
  /\ release \in Releases /\ db.version <= release
  /\ writer = "down" /\ tx = NoUpgrade
  /\ reader = "down" /\ attempt = 0 /\ runs = release

UpToDate == db.version = release

-----------------------------------------------------------------------------
(* The writer.                                                              *)

\* (mutant) The flag is not raised.
MarkNothing ==
  /\ writer = "down" /\ writer' = "marked"
  /\ UNCHANGED <<dialect, db, release, tx, readerVars>>

MarkProgress ==
  /\ writer = "down" /\ writer' = "marked"
  /\ db' = [db EXCEPT !.flag = TRUE]
  /\ UNCHANGED <<dialect, release, tx, readerVars>>

\* (mutant) Any noted version counts as up to date.
CheckAnyVersion ==
  /\ writer = "marked"
  /\ IF db.version # 0 THEN writer' = "tables" /\ tx' = tx
     ELSE /\ writer' = "upgrade"
          /\ tx' = [NoUpgrade EXCEPT !.objects = db.objects, !.seen = db.objects]
  /\ UNCHANGED <<dialect, db, release, readerVars>>

CheckSchema ==
  /\ writer = "marked"
  /\ IF UpToDate THEN writer' = "tables" /\ tx' = tx
     ELSE /\ writer' = "upgrade"
          /\ tx' = [NoUpgrade EXCEPT !.objects = db.objects, !.version = db.version,
                                     !.seen = db.objects]
  /\ UNCHANGED <<dialect, db, release, readerVars>>

Revision == Chain[tx.version + 1]
Statement == Revision[tx.next]
InRevision == writer = "upgrade" /\ tx.next <= Len(Revision)

Skipped(s) == s.unless \cap tx.seen # {} \/ ~(s.given \subseteq tx.seen)

Refused(s) == s.adds \cap tx.objects # {} \/ ~(s.needs \subseteq tx.objects)

SkipStatement ==
  /\ InRevision /\ Skipped(Statement)
  /\ tx' = [tx EXCEPT !.next = @ + 1]
  /\ UNCHANGED <<dialect, db, release, writer, readerVars>>

\* (mutant) PostgreSQL commits statement by statement too.
AutocommitsAlways(s, wrote) == ~tx.open /\ ~wrote

\* SQLite's driver opens a transaction at the first statement that writes rows.
\* DDL before that is committed as it runs.
Autocommits(s, wrote) == ~Transactional /\ ~tx.open /\ ~wrote

\* (mutant) The indexes of a column that goes stay behind.
RunKeepingIndexes ==
  /\ InRevision /\ ~Skipped(Statement) /\ ~Refused(Statement)
  /\ \E wrote \in Statement.writes :
       LET after == (tx.objects \cup Statement.adds)
                      \ {o \in Statement.drops : o.kind # "index"}
       IN  /\ tx' = [tx EXCEPT !.objects = after, !.next = @ + 1, !.open = @ \/ wrote]
           /\ db' = IF Autocommits(Statement, wrote) THEN [db EXCEPT !.objects = after]
                    ELSE db
  /\ UNCHANGED <<dialect, release, writer, readerVars>>

RunStatement ==
  /\ InRevision /\ ~Skipped(Statement) /\ ~Refused(Statement)
  /\ \E wrote \in Statement.writes :
       LET after == (tx.objects \cup Statement.adds) \ Statement.drops IN
       /\ tx' = [tx EXCEPT !.objects = after, !.next = @ + 1, !.open = @ \/ wrote]
       /\ db' = IF Autocommits(Statement, wrote) THEN [db EXCEPT !.objects = after]
                ELSE db
  /\ UNCHANGED <<dialect, release, writer, readerVars>>

\* (mutant) The version is noted, and what the open transaction holds is lost.
FinishWithoutCommit ==
  /\ writer = "upgrade" /\ tx.next > Len(Revision)
  /\ LET done == tx.version + 1 IN
     /\ db' = [db EXCEPT !.version = done]
     /\ IF done = release THEN writer' = "tables" /\ tx' = NoUpgrade
        ELSE /\ writer' = writer
             /\ tx' = [tx EXCEPT !.version = done, !.next = 1, !.open = FALSE,
                                 !.seen = tx.objects]
  /\ UNCHANGED <<dialect, release, readerVars>>

\* alembic notes the revision; on SQLite it commits there, on PostgreSQL once
\* at the end.
FinishRevision ==
  /\ writer = "upgrade" /\ tx.next > Len(Revision)
  /\ LET done == tx.version + 1 IN
     /\ db' = IF Transactional /\ done # release THEN db
              ELSE [db EXCEPT !.objects = tx.objects, !.version = done]
     /\ IF done = release THEN writer' = "tables" /\ tx' = NoUpgrade
        ELSE /\ writer' = writer
             /\ tx' = [tx EXCEPT !.version = done, !.next = 1, !.open = FALSE,
                                 !.seen = tx.objects]
  /\ UNCHANGED <<dialect, release, readerVars>>

\* The database refuses a statement: alembic rolls back and main() is left.
FailUpgrade ==
  /\ InRevision /\ ~Skipped(Statement) /\ Refused(Statement)
  /\ writer' = "failed" /\ tx' = NoUpgrade
  /\ UNCHANGED <<dialect, db, release, readerVars>>

\* create_all makes the tables that are missing, each with its indexes.
CreateTables ==
  /\ writer = "tables" /\ writer' = "cache"
  /\ db' = [db EXCEPT !.objects =
              @ \cup {o \in Models[release] : Table(o.of) \notin @}]
  /\ UNCHANGED <<dialect, release, tx, readerVars>>

\* The finally block, after success and after failure.
ClearProgress ==
  /\ writer \in {"cache", "failed"}
  /\ writer' = IF writer = "cache" THEN "ingesting" ELSE "down"
  /\ db' = [db EXCEPT !.flag = FALSE]
  /\ UNCHANGED <<dialect, release, tx, readerVars>>

CrashWriter ==
  /\ writer # "down" /\ writer' = "down" /\ tx' = NoUpgrade
  /\ UNCHANGED <<dialect, db, release, readerVars>>

-----------------------------------------------------------------------------
(* The reader.                                                              *)

StartReader ==
  /\ reader = "down" /\ reader' = "waiting"
  /\ attempt' = 0 /\ runs' = release
  /\ UNCHANGED <<dialect, db, release, writer, tx>>

\* (mutant) The reader trusts migration_status.
PollFlag ==
  /\ reader = "waiting" /\ attempt < MaxRetries
  /\ IF ~db.flag THEN reader' = "serving" /\ attempt' = attempt
     ELSE reader' = reader /\ attempt' = attempt + 1
  /\ UNCHANGED <<dialect, db, release, writer, tx, runs>>

\* The head is read from the installed files at each poll.
Poll ==
  /\ reader = "waiting" /\ attempt < MaxRetries
  /\ IF UpToDate THEN reader' = "serving" /\ attempt' = attempt
     ELSE reader' = reader /\ attempt' = attempt + 1
  /\ UNCHANGED <<dialect, db, release, writer, tx, runs>>

\* The poll raises: no file yet, no connection, a locked database.
PollFails ==
  /\ reader = "waiting" /\ attempt < MaxRetries
  /\ attempt' = attempt + 1
  /\ UNCHANGED <<dialect, db, release, writer, tx, reader, runs>>

\* (mutant) The reader starts to count again.
WaitAgain ==
  /\ reader = "waiting" /\ attempt = MaxRetries /\ attempt' = 0
  /\ UNCHANGED <<dialect, db, release, writer, tx, reader, runs>>

\* RuntimeError out of run_server ends the process.
GiveUp ==
  /\ reader = "waiting" /\ attempt = MaxRetries
  /\ reader' = "down" /\ attempt' = 0
  /\ UNCHANGED <<dialect, db, release, writer, tx, runs>>

CrashReader ==
  /\ reader # "down" /\ reader' = "down" /\ attempt' = 0
  /\ UNCHANGED <<dialect, db, release, writer, tx, runs>>

-----------------------------------------------------------------------------
\* New code is installed, though not while the writer is coming up.
Deploy ==
  /\ writer \in {"down", "ingesting"}
  /\ \E r \in Releases : r > release /\ release' = r
  /\ UNCHANGED <<dialect, db, writer, tx, readerVars>>

WriterStep ==
  \/ MarkProgress \/ CheckSchema
  \/ SkipStatement \/ RunStatement \/ FinishRevision \/ FailUpgrade
  \/ CreateTables \/ ClearProgress

ReaderStep == Poll \/ PollFails \/ GiveUp

Next ==
  \/ WriterStep \/ CrashWriter
  \/ StartReader \/ ReaderStep \/ CrashReader
  \/ Deploy

Spec == Init /\ [][Next]_vars

\* The waiting reader's timer goes off, and its polls return or raise.
Fairness == WF_vars(ReaderStep)

FairSpec == Spec /\ Fairness
=============================================================================
