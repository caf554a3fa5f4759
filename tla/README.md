# Meshview: a TLA+ verification project

Meshview listens to the MQTT topics a Meshtastic mesh uplinks to, stores what it
hears in a database, and serves it as web pages and a JSON API. This directory
holds TLA+ models of that program, TLC configurations that check them on small
instances, and proofs that TLAPS checks for every instance. Every definition is
translated from the source; `PROJECT.json` maps each to its lines.

## 1. The system

Two processes share one database. `mvrun.py` starts both.

| Part | Source | State it keeps | Operations | What is hard |
|---|---|---|---|---|
| MQTT reader | `meshview/mqtt_reader.py` | keys, skip list, the client and its queue | receive, decrypt, skip, reconnect | lost connection, wrong keys, suspended while an envelope is processed |
| Ingestion | `meshview/mqtt_store.py` | a database session, `MQTT_GATEWAY_CACHE` | `process_envelope`, `load_gateway_cache` | check-then-write over awaits, duplicates, partial failure |
| Cleanup | `startdb.py` `daily_cleanup_at` | cutoff, a session | daily deletion in four tables, VACUUM | races with ingestion, foreign keys, local time |
| Backup | `startdb.py` `backup_database`, `daily_backup_at` | none | gzip copy of the database file | copies a live WAL database without a lock |
| Writer process | `startdb.py` `main` | the tasks, `db_lock` | migrate, start tasks, die with any of them | crash between steps, writer/reader coordination |
| Schema, sessions | `meshview/models.py`, `meshview/mqtt_database.py`, `meshview/database.py` | the tables | insert, update, delete, commit | constraints differ between SQLite and PostgreSQL |
| Migrations | `meshview/migrations.py`, `alembic/versions` | `alembic_version`, `migration_status` | upgrade, wait, flag | crash inside a migration, a flag nobody reads |
| Queries | `meshview/store.py` | none | selects with filters | filters that must agree, windows taken from four clocks |
| Web API | `meshview/web_api/api.py` | language cache | packets, stats, edges, traceroutes, coverage | polling with `since` and `limit`, reads in several sessions, dangling rows |
| Pages | `meshview/web.py`, `templates` | per-browser lists and cursors | live feed, chat, graphs | overlapping polls, gaps, duplicates |
| Supervisor | `mvrun.py` | pid files, child list | start, stop on signal | a signal in mid-start |
| Radio, decoding | `meshview/radio/coverage.py`, `meshview/decode_payload.py` | lru cache | numeric coverage, protobuf decoding | pure functions |
| Notifications | `meshview/notify.py` | waiter sets | notify, subscribe | unused by the program |

How they interact. The reader yields envelopes to `load_database_from_mqtt`,
which takes `db_lock`, calls `process_envelope`, and releases it. The cleanup task
takes the same lock for a sweep. Both are tasks of one `asyncio.TaskGroup`: an
exception in ingestion cancels everything and ends the process; the cleanup
catches its own. The web process opens the database read-only and sees committed
rows only. At start the writer migrates the schema and the web process polls until
the schema is current. The backup runs in the writer's event loop without the lock,
and blocks every task while it copies; the cleanup sleeps for a minute first when both
are set to the same time. `mvrun.py` has a thread per process and stops both on a
signal.

What makes the parts correct: a packet and its sightings are filed together and
once; the history in a node's row is not rewritten; cleanup deletes all of what is
expired and nothing else; neither task sees the other's half-done work or starves
it; no input but the few that must makes the writer die; readers see whole
envelopes only, and what two requests, or two reads of one, say of the same rows
agrees; what is uplinked is handed on in order and once; a backup is a state the
database was in; a supervisor that ends leaves nothing running. The hazards behind these are listed with their lines in
`PROJECT.json`.

## 2. Modules

```
  MeshDB ---- Envelope ---- Ingestion --+
     |  \         |                     +-- Writer -- WriterProps -- MCWriter
     |   \        +------ Archive       |               | (A == INSTANCE Archive)
     +----+-- Retention ----------------+               +-- WriterProofs -- ArchiveProofs
  DbLock -+---^ (both tasks)
  Archive -- Queries -- Reads -- MCReads
                          +----- ReadsProofs

  MqttReader -- MCReader                     Migrations -- Startup -- StartupProps -- MCStartup
      |  |      (U == INSTANCE Uplink)                                     |--------- StartupProofs
      |  +----- ReaderProofs
  Uplink                                     Backup ------ BackupProofs
                                             Supervisor -- SupervisorProofs
                                             Feed -------- FeedProofs
```

* **MeshDB**: the committed tables as sets of rows; the rows a session has staged;
  the schema's constraints (`Committable`); the clock. A row keeps the columns
  some property tells apart. `EnforceFK` is TRUE for PostgreSQL and FALSE for
  SQLite, whose `PRAGMA foreign_keys` the program never turns on.
* **DbLock**: `asyncio.Lock` as the queue it is: the head holds the lock.
* **Envelope**: what the stream delivers, as `process_envelope` reads it.
* **Ingestion**: `process_envelope`, one action from one await to the next. `phase`
  is the await the task is parked at, `staged` its session, `cache` the gateway
  cache. Early returns (`SkipUnnumbered`, `SkipUngatewayed`) roll the session back
  as closing it does; `EnvelopeRaises` says when the function raises. Ids are texts read as
  hexadecimal numbers of any length: `Huge` are those that BigInteger does not hold,
  refused by the first statement that binds them. What else a text may hold is abstracted,
  and a database that fails by itself (disk full, a lock that times out) is a `Crash`.
* **Retention**: `daily_cleanup_at` in the same style. `cutoff` is computed before
  the lock is asked for, `AbortSweep` is the `except` branch, and a DELETE that
  enforced foreign keys refuse has no other continuation.
* **Writer**: both tasks under one process. `Crash` kills it between any two steps,
  `IngestDies` is an exception leaving the TaskGroup, `Restart` reloads the cache.
* **Archive**: the abstract specification: an envelope is filed whole in one step, a
  prune takes one cutoff for all tables, nothing else changes a row.
* **WriterProps**: the properties, and the refinement. **MCWriter**: constants of the
  instances.
* **Queries**: what the web process computes from the tables: the counting queries with
  their filters and windows, the nodes listed, the channels of a period, top nodes, the
  edges of `/api/edges`, the graph of a traceroute and its winning paths. Columns that
  all copies of a packet agree on are functions of its id; the unit of time is the hour.
* **Reads**: the handlers that read in two sessions, over `Archive`, which stands for the
  writer (`writer_fair` shows that it may). `req` holds what the handler has read; between
  two reads one commit, one cleanup or one tick of the clock may come. `filed` is a history
  variable. An envelope writes one hour into all its rows (`Stamped`). Requests only read, so one at a time stands for any number.
* **MqttReader**: `get_topic_envelopes` and the loop that takes from it. `conn` is the
  generator's place in its reconnect loop, `inbox` the client's queue, `busy` the
  message `process_envelope` works on; the generator is suspended meanwhile and meets a
  broken connection only afterwards. `Take` is the code from the queue to the yield,
  which has no await; `lucky` are the wrong keys whose output parses by chance. A message
  is `odd` if `process_envelope` may raise over it; when it does (`ProcessingFails`),
  nothing between the loop and the TaskGroup catches that, and the writer ends.
* **Uplink**: the abstract specification of what lies between the mesh and
  `process_envelope`: a channel that loses messages, and neither repeats, reorders nor
  invents any. `MqttReader` implements it (`ImplementsUplink`).
* **Backup**: `backup_database` and `daily_backup_at` beside the writer's calls to SQLite.
  `commits` are the pages each commit wrote, `file` the version each page of the database
  file is of: in WAL mode only a checkpoint writes it. The copy stops all coroutines, but
  the call that aiosqlite's thread works on goes on beside it (`Commit`,
  `CheckpointPage`).
* **Migrations**: the ten alembic revisions, each the sequence of statements its
  `upgrade()` emits, with the inspector guards some of them have, and its `downgrade()`
  as an operator on schemas; the schema `models.py` declares. A schema is a set of
  tables, indexes and those columns some revision touches.
* **Startup**: `main()` of `startdb.py` up to its tasks, and `run_server()` up to its
  port. `tx` is the upgrade's connection: the schema as it sees it, the inspector's
  view from the revision's start (`seen`), the next statement, and whether a
  transaction is open. On SQLite the driver opens one only at the first statement
  that writes rows and alembic commits after each revision; on PostgreSQL one
  transaction spans the upgrade. `Deploy` installs a newer release under processes
  that run; `runs` is the release the reader has loaded, `release` the one on disk,
  which its polls compare the database with.
* **StartupProps**, **MCStartup**: what the revisions make of a database, statement by
  statement (`Way`) and one after the other (`Upgraded`), what the downgrades leave of it
  (`RolledBack`), what a chain must satisfy, the properties; and two releases (before and after
  the `import_time` columns were dropped) with three databases to start from: none,
  one at the old head, one made by a version without alembic.
* **Supervisor**: `mvrun.py`. `thread` is the step each `run_script` is at, `handler` the
  innermost `signal_handler`, which runs on the main thread wherever that is while the
  other two go on; `tracked` is `running_processes`. Joins, exits and signals are those of
  Python 3.13, which the repository's README asks for (under 3.12 and before, a join that
  a signal interrupts marks its thread as ended).
* **Feed**: a live page (firehose, chat or map), `/api/packets` behind it, and the packets
  the writer commits. A request is asked, served and handled in steps of its own;
  `fetches` holds those under way. Packet k is the k-th committed and k its import
  time, which `CommitsInOrder` of the writer justifies. The map asks for the newest
  packet whenever it is shown and polls from there. A request gets lost (`Fail`) or is
  answered with the API's `{"error": ...}` and status 500 (`Refuse`, `HandleError`): the
  map's first request does not look at the status and sets its cursor to 0. `due` is a
  history variable: what is committed once the API has served the map's first
  request, be the answer still on its way.

Operators marked `(mutant)` are wrong versions of the definition that follows
them. No specification uses them; each shows that the property named for it in
`PROJECT.json` breaks when the code is wrong that way.

## 3. Runs

| Run | Instance | Question |
|---|---|---|
| `writer_filing` | two copies of a packet (other sender, other rx_time), one without gateway, a traceroute, a second packet; 4 instants, Keep 1, SQLite | sessions exclude each other; filing is atomic, in order and final; cleanup is complete and honours retention |
| `writer_nodes` | MAP_REPORT, POSITION and NODEINFO of a node that is its own gateway, two spellings of one number, an id that is no number and one too large, keys, gateway ids that are bad or too large; 3 instants, SQLite | types; sessions work on current rows; node history is monotone; what can make the writer raise; one row per key |
| `writer_postgres` | the copies of `writer_filing`; 4 instants, foreign keys | a packet always has a sighting no older than itself |
| `writer_fair` | one envelope of each kind; 3 instants, SQLite | Writer implements Archive; the lock is granted, an envelope is filed |
| `reader` | eight messages on two topics, one of which `process_envelope` may raise over, three key rings, a skip list with a bad entry; 3 published, 2 connections lost | MqttReader implements Uplink; what keys can garble, what ends the writer; it listens again and hands on what it has |
| `backup` | a file of 2 pages, 3 commits, the two tasks at one time or at two | what a copy is worth, that the cleanup keeps clear of it and still gets done |
| `reads` | five packets (traceroutes with both ends, one end, unknown hops or garbled, neighbors, a node info) from three nodes; 3 filings, 5 hours, Keep 2, days of 2 hours | answers put together from two reads, and answers that should agree |
| `startup` | SQLite and PostgreSQL, two releases, three databases, 2 polls | what may be read, noted and flagged at every point of an upgrade and its repetitions; that rollbacks restore |
| `supervisor` | two threads and children, children that cannot start, pid files that cannot be written, 2 signals | nothing is left behind, every listed child is stopped, a signal ends it |
| `feed` | chat, firehose and map, 5 packets, limit 2, 2 requests, 2 of them lost or refused | no packet listed twice, out of order or passed over; all are shown |

Bounds of the writer. `MaxTime` bounds the clock, which never goes back
(the code reads a wall clock that an administrator may set; then rows may be stored out of
order); with a retention of one instant,
three are enough for a row to be written, to expire and to be made again, and four
let that happen beside rows of two ages. Properties speak of one packet id at a
time, but for `CommitsInOrder`, hence two ids at most, while copies of one come with
two senders, gateways and rx_times. Three node numbers, one of them too large, and five ids are
the cases the lookups tell apart. The database starts with a gateway's row as an older version
left it, without time columns. Crashes, restarts, cleanups and deliveries are not
bounded.

Bounds of the reader. The messages are one of each kind that `Take` and the loop tell apart.
Three published fill the queue while one is processed and the next connection is made; two lost connections are one in mid-subscription and one while a
message is processed. Restarts are not bounded. The key rings have the default key alone,
a good key after it, and an entry that is no base64 and one of a wrong length before it.

Bounds of the backup. Two pages are the least of which one can be copied before and one
after a checkpoint wrote it; three commits let a checkpoint lie before, between and after.
Backups, cleanups, failures and kills are not bounded. `sameTime` is `wait_for_backup`.
When both are set to one time, a day's backup and sweep are taken to be over before that
time comes again.

Bounds of the reads. The properties speak of one packet or of one window at a time. Three
filings are a traceroute, a second sighting or row of it and one packet more; a retention
of two hours and an edge window of one let a row outlive its packet, and five hours let that
packet come again and outlive the sighting that was left. Offsets -1, 0 and 1
are local time behind, on and ahead of UTC. At most one thing happens between two reads:
`since` remembers it.

Bounds of the startup. All ten revisions are there, statement by statement. `Deploy`
goes forward only, while the writer is down or past its startup: `main()` reads the
installed files twice, and files that change in between are left out. Kills,
restarts and deployments are not bounded otherwise; `max_retries` is 2 for 30.
`HeadIsWhole` asks for tables and columns on both systems, and for the indexes where DDL
is transactional; `UpgradeIsAccepted` is claimed for transactional DDL only, as it fails on
SQLite (below). `RollbackRestores` asks for tables and columns of every revision but the
first, whose columns its successor's downgrade does not bring back.
A version counts as whole there once it has its tables and columns, so the states between
the statements of a revision are left out unless they add indexes only.

Bounds of the supervisor. Both children and all steps are there; with two signals the
second interrupts the handler of the first, a third would do the same.

Bounds of the feed. A limit of 2 and 5 packets let the cursor pass several full
answers, a table of 3 rows is trimmed. `Bursts` FALSE says that no more than the limit
come while a page has not caught up, which for a limit of 100 and a timer of 3 to 5
seconds is the normal load. It also cuts away a firehose that is paused while more than
the limit arrives: such a page skips the older ones when it goes on. `Slow` lists the pages whose answers may outlast the
timer: the chat, which remembers what it rendered, and the map, which lists nothing. The
firehose does not, and lists a
packet twice when two polls overlap (put `"firehose"` into `Slow` to see it); nothing
in the repository claims otherwise, so it is checked with one poll at a time.
`MaxFails` bounds the failures, so the liveness says that any finite number of them, lost
or refused, does no lasting harm. Of the map it speaks from the moment the API has served
its first request, and leaves out a map that has lost that answer (`Blind`), which polls
nothing any more.

Fairness (each module's `FairSpec`). Writer: weak fairness of each task's steps, which
is what the event loop gives a task whose await is over, and what a database call that
returns gives; nothing is assumed of deliveries, the timer, crashes or restarts.
Reader: the event loop resumes the generator and `process_envelope` returns or raises; nothing is
assumed of the broker but that it can be reached. Backup: weak fairness of the copy,
which is plain file I/O, strong fairness of SQLite's calls and of the cleanup, which the
copy disables again and again by stopping the loop: each gets its turn in between,
as the event loop takes its callbacks in order and `db_lock` is first come first served.
Startup: the waiting reader's timer goes off and its polls return or raise; nothing is
assumed of the writer. Supervisor: the operating system runs each thread; no child is
assumed ever to end by itself. Feed: the page's timer ticks, the server answers or the
request fails, and the page handles what it gets. Reads has safety properties only.

Two runs end in a counterexample and record where documentation or a comment and the
code differ:

| Run | What it shows |
|---|---|
| `west_of_utc` | the cutoff is shifted by the local UTC offset, and west of UTC younger rows go |
| `upgrade_wedged` | on SQLite an upgrade that was killed between two statements is refused at every later start, though migrations are to need no manual intervention |

Facts met on the way, which the models show and no run is kept for.

The writer:

* an envelope without gateway id loses its packet too, since the early return under
  "skipping PacketSeen entry" closes the session without a commit (`SkipUngatewayed`);
* on SQLite a sweep leaves sightings whose packet is gone, against the declared foreign
  key, and `PacketIsSighted` fails: a sighting that dangles is found again when the
  packet is redelivered, is not renewed, and expires before the new packet row;
* with foreign keys enforced the sweep's first DELETE is refused once an expired packet
  has a sighting, so the sweep aborts and deletes nothing (`AbortSweep`);
* a gateway heard before its node row exists is not flagged until the writer is started
  again, as the cache has it already (`README.md:12` promises persistent tracking);
* `not envelope.packet.decoded` is never true of a protobuf message, so packets no key
  opens are handed on and filed;
* a secondary key of a length AES refuses passes the parser and ends the writer at the
  first packet it is tried on;
* a gateway id that is no hexadecimal number, or one of more than 64 bits, ends the
  writer, and so does a NODEINFO whose user id is that large: `int(.., 16)` takes any
  length, and the exception passes the loop of `load_database_from_mqtt`;
* a checkpoint that overlaps the copy gives a backup with pages of two times, what is only
  in the log is in no backup, and a backup that fails leaves its file.

The startup:

* on SQLite a first upgrade killed between a table and its indexes reaches head
  without them, because the rerun's guard on the table skips the whole block;
* no revision makes `idx_traceroute_packet_id`, which `models.py` declares, and
  `create_all` adds no index to a table that exists;
* the `finally` block of `main()` clears `migration_status` and logs "database ready"
  after a failed upgrade as well;
* a reader of an older release opens on the schema of a newer one whose columns were
  dropped, as its poll reads the files on disk (`docs/ALEMBIC_SETUP.md:148`: "won't connect
  to incompatible schema"); the variable `runs` records the reader's release, and no
  property relates it to the schema, which would fail for this reason;
* `alembic downgrade base` (`docs/ALEMBIC_SETUP.md:128`) is always refused: the second
  revision's downgrade drops indexes that the first one's drops again; and
  `alembic downgrade c88468b7ab0b` (`docs/ALEMBIC_SETUP.md:351`) leaves the columns out that the
  first revision had made. `RollbackRestores` is of the other revisions; the last two
  downgrades (`NoTimeUsCols`, `NoInitial`) are translated, but no property runs them.

The supervisor: a signal between `Popen` and the append leaves the child running, and the
supervisor waits for it; a pid file that cannot be written ends its thread and leaves the
child behind; a second signal during the exit cuts the wait for the threads.

The web process:

* `/api/edges` fails as a whole while a traceroute of the last 12 hours, or a NEIGHBORINFO
  among the newest 50, does not decode: `decode_payload` returns None and the `except`
  beside it never applies. It fails too for a traceroute row that came so late that the
  cleanup took its packet first;
* `/api/edges` has edges from a node to itself where the graph page avoids them, and the
  neighbors' edges have no window of time; the winning paths may list a path twice;
* on SQLite `/api/stats/count` counts more packets than sightings once a packet has come again
  after a cleanup took its row and left its sighting (`FiledAgain`);
* `/api/stats?node=` is always 0 and 0, `/api/stats/count?packet_id=` counts all
  packets beside the sightings of one, and 0 as `from_node` or `to_node` is no filter;
* the channels of a period are those of a window shifted by the local UTC offset, and the
  windows of `/api/stats/top` end at each table's newest row;
* a client that polls with `since` and `latest_import_time` misses the older packets of a
  burst beyond `limit`;
* a map whose first request is lost polls nothing until it is hidden and shown again, one
  whose first request is answered with an error begins at time 0 and blinks packets stored
  long ago, and a late first answer makes it blink packets again.

## 4. Proofs

TLAPS checks, for all values of the constants that satisfy the named assumptions:

* `WriterTypes` (`Spec => []TypeOK`) and `WriterExcludes` (the sessions never
  overlap). `TypeOK` is not inductive: a release needs to know that the releaser
  holds the lock, and a sighting row is well typed only because the early returns
  have been passed. `TypeInv` adds `SessionUnderLock` and `EnvelopeChecked`.
* `WriterRetains`: with `UtcOffset >= 0`, a row that disappears is older than the
  retention period. The invariant says that the cutoff of a sweep under way is old
  enough by the clock as it stands now, and that what is doomed is older still.
  The premise is needed: `west_of_utc` is the counterexample without it.
* `WriterSweepsAll`: from `SweepInv`, which says of each DELETE the sweep has passed
  that what it leaves is no older than the cutoff. Nothing is added meanwhile because no
  envelope is in its session, which is `WriterExcludes` once more.
* `WriterKeepsFirstCopy` and `WriterFilesAtomically`, from `FilingInv`: keys of the
  committed rows, staged rows belong to the envelope at hand, and past each lookup
  there is a packet (then a sighting) in the table or in the session. The lock is
  what carries the lookup to the commit: a sweep commits only when no envelope is
  in its session.
* `WriterKeepsHistory`, from `NodeInv`: staged rows continue the committed row of
  their id. Lemmas say that touching, flagging, adding and overlaying rows keep
  that relation. `WriterStagesCurrent` follows from `NodeInv` and `FilingInv`.
* `WriterKeepsOneKeyRow`, from `PubkeyInv`: a session stages one key row at most, in the
  step of its lookup, and until its commit that is a later state of the row found, or the
  only one of its node and key, since no other step writes such rows.
* `WriterKeepsPacketsSighted`, with `EnforceFK`, from `SightedInv`: no sighting without
  its packet, past its sighting's lookup the envelope's packet has a sighting as late
  as itself, and a sweep has never deleted a packet (the foreign key would have
  refused), so that a commit of a sweep that got so far takes no last sighting.
* `WriterRaisesOnBadInput`: no lookup finds two rows and no insert meets a key that is
  taken, because of `NodeInv`, `FilingInv` and the exclusion; and the only number too large
  for a statement is one that an id in the envelope spells, since rows hold none
  and packets carry theirs in 32 bits. What is left is the input that `OnlyBadInputRaises` lists.
* `WriterImplementsArchive` (`UtcOffset >= 0 /\ Spec => ImplementsArchive`), the
  refinement: `ArchiveInv` follows one envelope through its session and says at each
  await that what is staged is what the abstract filing has put together so far
  (`FilesPacket`, `FilesSighting`, `FilesNode`, `FilesKey`). A commit is then the
  abstract filing of that envelope, a sweep's commit a prune at its cutoff, and every
  other step a tick of the clock or a stutter.
* `ReaderImplementsUplink` (`Spec => ImplementsUplink`), the refinement: each step of the
  generator is a step of `Uplink` or a stutter. The lemmas `NumbersOfAppend`,
  `NumbersOfTail` and `NumbersOfSeq` carry the sequence operators through the mapping;
  a connection that goes loses a prefix that is all of the queue, an envelope that is left
  out or kills the writer a prefix of one. The invariant is only that queue and history
  are sequences of numbered messages.
* `DefaultChannelStaysReadable` and `WriterEndsOverOneMessage`, from `KeysInv`: the default
  key stands first in the ring, the key that decides is the first that does
  (`DeciderIsFirst`, from the well-ordering of the naturals), and the message
  `process_envelope` works on is the one handed on last (`BusyWithLast`). `ParsingAssumption`
  is a fact of `SelectSeq`, which the provers do not know; TLC evaluates it.
* `SweepKeepsClear`, from `Apart`: set to the same time the cleanup sweeps only between
  two backups, and only a sweep makes the cleanup's calls.
* `BackupKeepsFaith`, in two halves. From `BackupInv`, until a checkpoint disturbs it
  the copy is of a file that stands still and is the snapshot of the last checkpoint,
  which later commits leave as it was (`SnapshotIsStable`). From `TimeInv`, every page
  that is copied is no older than that checkpoint had it and at most one commit newer
  than the copy's start: a checkpoint under way writes snapshots of commits between the
  two, and the loop, which alone begins commits, stands still (`SnapshotGrows`).
* `SupervisorExitsClean` and `SupervisorStopsAll`, from `SupervisorInv`: a listed child has
  been started, a thread past its wait has a dead child, what the handler has passed is
  dead, files go with their thread or their handler, and the threads are started in order.
* `StartupFlagsChanges`: for any chain of revisions, any databases found and both
  database systems, the schema changes only under `migration_status`. `FlagInv`: the
  flag is up wherever the writer is between raising it and taking it back, which a
  kill leaves as it is and the next start raises again.

* `ReaderServesAtHead` (`Spec /\ []HeadIsWhole => ServesWholeSchema`): whatever the
  chain, a reader's poll that lets it open its port has seen the head, when no upgrade
  was at work (`BehindInv`: an upgrade under way has a version behind the head).
* `UpgradeLeavesWhole` and `UpgradeIsAcceptedAgain`, from `OnItsWay`: there is a database
  among those found from which the present one has come (`WayInv`). With transactional DDL
  the upgrade's connection has exactly what the statements before the next one make
  (`Way`), and nothing of it is in the database before its last revision is noted. On
  SQLite an upgrade begins where the last was cut off, after any m statements of a
  revision, and what is there lies between a least and a most: the objects of which the
  upgrade is sure, and all that it can have made, as a guarded block that is
  skipped may lack its indexes. Rows are written only in a transaction, which a kill takes
  back, so m is never past a statement that has to write some (`Resumable`).
  `ReaderServesWhole` puts `UpgradeLeavesWhole` and `ReaderServesAtHead` together. No
  database is left out, the one with tables and without a version included.
  `UpgradeIsAcceptedAgain` says nothing of SQLite, where `upgrade_wedged` refutes it.
* `UpgradeCanBeRolledBack`: from the same invariant, a database with the tables and columns
  of its version lies between the same two schemas, and so does what the downgrades leave
  of it (`RolledBackBetween`).
* What these theorems take of the chain are assumptions that say of finite data what a
  revision's author has to see to. `FoundAssumption`: versions are those of the chain, and
  revisions look for tables and columns, not for indexes. `ChainFits`: no statement of an upgrade that nothing
  cuts off is refused. `ChainArrives`: every database found comes to the tables and columns
  of its release. `ChainResumes`: where an upgrade begins again on SQLite, each statement
  is skipped or run to the same end, or is refused. `ModelsFit`: a release declares no
  table that its revisions do not make. `DowngradesFit`: the downgrades are accepted by the
  most and by the least that may be there, and leave the same tables and columns of both.
  TLC evaluates all of them on the ten revisions, the releases and the databases of
  `startup`. They speak of statements one after the other; the kills, repetitions,
  deployments and readers in between are what is proved.
* `FeedLeavesNoGap`, with `~Bursts`, from `FeedInv`: the cursor is a packet that is shown,
  all packets before a shown one are shown, a request under way asks from a packet that
  is shown, and what an answer leaves out fits the limit. The invariant speaks of
  any number of requests under way and of answers in any order.
* `FeedKeepsOrder`, with `~Bursts` and one firehose poll at a time, adds `TopInv`: the
  list holds packets that were rendered, newest first. What the chat puts on top has not
  been rendered, so it is newer than all that has (by `FeedInv`); the one request of the
  firehose asks from the cursor it still has when the answer comes.

* `ReadsShowTraceRows`, `ReadsEdgesFailLate`, `ReadsCountTheSame` and `ReadsWindowsAgree`, from
  `FiledInv`: an hour in which a packet was filed and of which no row is left is older than
  the retention period, and a packet goes before its traceroute rows and, unless it was filed
  again, before a sighting of it. `TraceRead`, `EdgesRead` and `CountRead` say what of the
  first read still holds at the second, as far as `since` allows. The totals are compared
  by an injection of the packets into their sightings (`CoveredByRows`). For the windows,
  `NodesTold` adds that the sender of a node info is a node heard no earlier, of which
  `NodeInfosNameSender` is the premise: a node info that does not decode, or names another
  node, does not touch its sender's row.
* `ReadsDrawSameEdges`: the two ways of making a row's path differ at most in a step that
  stays in place (`PathsHaveSameEdges`), for any routes.
* `ReadsDrawSoundPaths`, from `PathRead`: what a request has read of a traceroute, some
  envelopes brought, however the two reads are torn apart. Routes may hold anything: a node
  the packet passed twice, or the 0xFFFFFFFF of each hop that is not known, are drawn as they
  are. The theorem is about what the code adds, the sender in front and gateway and
  destination behind: no end is put beside itself (`WithEndsIsSound`, `StepsOfPrepend`,
  `EndsOfAppend`, and for the graph `PathOfRow`), and the reply that the graph draws has
  the edges of a winning path, whose ends other code puts to it. That a payload decodes as a whole, `route` and `route_back` together, is in
  `QueryAssumption`.

`WriterCommitsInOrder` is proved too, from `OrderInv`: no stored or staged packet is newer than
the clock, and a staged one is no older than any that is stored. It is not among the results
named in `PROJECT.json`: the clock of the model never goes back, and with that the order follows
from one task that ingests one envelope after the other. The feed takes it for granted.

`MCReads` assumes that its instance satisfies the one premise of the web process's theorems,
`NodeInfosNameSender` (`InstanceIsTypical`), and TLC checks that it does.

The library's induction principles are out of the provers' reach, but its well-founded
orderings are not: where a proof needs induction it takes a least counterexample, by
`WFMin`, in the naturals (`LeastOf`, `DeciderIsFirst`) or among the subsets of a finite set
(`NewestOfBounded`, `MaxOfBounded`, `NewestFirstDescends`). `RecursionDefines` and
`RecursionStays` show in this way that the recursive functions of `StartupProps` satisfy
their equations.

Only model-checked: liveness, since TLAPS does not do fairness (`LockIsGranted`,
`ReceivedIsFiled`, `ReaderDecides`, `CommittedIsShown`, `SignalEnds`, `KeepsReading`,
`CleanupGetsDone`). Every other property of the passing runs is a theorem, with the premises
named above.

## 5. Plan

Done: the writer, its startup, the live pages, the supervisor, the reader, the backup,
the queries and the handlers that put two reads together; and theorems about every safety
property of theirs that a run checks.

Models to come: the key history behind `/api/impersonation-check`, downgrades that are
cut off, `Supervisor` composed with `Startup`, whose processes it starts.

## 6. Not modelled

Page layout and JavaScript other than the polling loops, coverage and distance arithmetic
in floating point (out of the reach of TLC and TLAPS), protobuf decoding beyond its outcome, the
generated `meshtastic/protobuf` modules, parsing of `config.ini`, QR codes, translations
and health texts, which keep no state; and what nothing calls: `notify.py`,
`is_migration_in_progress`, and in `store.py` `get_fuzzy_nodes`, `has_packets`,
`get_mqtt_neighbors`, `get_total_node_count`, `get_top_traffic_nodes`, `get_node_traffic`.
