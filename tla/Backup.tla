------------------------------- MODULE Backup -------------------------------
(***************************************************************************)
(* The backup task of startdb.py beside the calls the writer's other tasks  *)
(* make to SQLite.  The copy runs in the event loop and stops every         *)
(* coroutine; a call under way goes on in aiosqlite's thread.  The database *)
(* is in WAL mode: a commit goes to the log, and only a checkpoint at the   *)
(* end of some calls writes the file that the backup reads.                 *)
(***************************************************************************)
EXTENDS Naturals, SequencesExt

CONSTANTS PageCount, MaxCommits     \* blocks of the file; bound on commits

ASSUME BackupAssumption == PageCount \in Nat \ {0} /\ MaxCommits \in Nat

Pages == 1..PageCount

VARIABLES
  sameTime,  \* backup_hour and backup_minute are the cleanup's
  backup,    \* daily_backup_at: "sleep", "due", "copy"
  cleanup,   \* daily_cleanup_at: "sleep", "due", "pause" and "sweep"
  call,      \* the call SQLite works on, or has answered
  commits,   \* the pages each commit wrote
  file,      \* the commit each page of the database file is of
  folded,    \* commits the last finished checkpoint had put into the file
  copied,    \* the pages copied so far
  base,      \* commits, and commits folded, when the copy began
  disturbed  \* a checkpoint wrote the file during the copy or was cut off before

vars == <<sameTime, backup, cleanup, call, commits, file, folded, copied, base,
          disturbed>>
copyVars == <<copied, base, disturbed>>
diskVars == <<commits, file, folded>>

NoCall == [by |-> "none", at |-> "none", pages |-> {}, page |-> 0]

\* The version of each page after the first k commits.
SnapshotOf(writes, k) ==
  [p \in Pages |-> Max({0} \cup {j \in 1..k : p \in writes[j]})]

Snapshot(k) == SnapshotOf(commits, k)

Init ==
  /\ sameTime \in BOOLEAN
  /\ backup = "sleep" /\ cleanup = "sleep" /\ call = NoCall
  /\ commits = <<>> /\ file = Snapshot(0) /\ folded = 0
  /\ copied = <<>> /\ base = [commits |-> 0, folded |-> 0]
  /\ disturbed = FALSE

\* (mutant) The copy runs in a thread of its own.
LoopAlwaysFree == TRUE

LoopIsFree == backup # "copy"

-----------------------------------------------------------------------------
(* The clock.                                                               *)

\* The hour and minute set for either task, or for both.
TimeOfDay ==
  /\ IF sameTime THEN backup = "sleep" /\ cleanup = "sleep" /\ backup' = "due" /\ cleanup' = "due"
     ELSE \/ backup = "sleep" /\ backup' = "due" /\ UNCHANGED cleanup
          \/ cleanup = "sleep" /\ cleanup' = "due" /\ UNCHANGED backup
  /\ UNCHANGED <<sameTime, call, diskVars, copyVars>>

-----------------------------------------------------------------------------
(* backup_database                                                          *)

\* What is known of a copy is dropped with it.
NoCopy ==
  copied' = <<>> /\ base' = [commits |-> 0, folded |-> 0] /\ disturbed' = FALSE

StartCopy ==
  /\ backup = "due" /\ backup' = "copy"
  /\ copied' = <<>>
  /\ base' = [commits |-> Len(commits), folded |-> folded]
  /\ disturbed' = (file # Snapshot(folded))
  /\ UNCHANGED <<sameTime, cleanup, call, diskVars>>

CopyPage ==
  /\ backup = "copy" /\ Len(copied) < PageCount
  /\ copied' = Append(copied, file[Len(copied) + 1])
  /\ UNCHANGED <<sameTime, backup, cleanup, call, diskVars, base, disturbed>>

EndCopy ==
  /\ backup = "copy" /\ Len(copied) = PageCount
  /\ backup' = "sleep" /\ NoCopy
  /\ UNCHANGED <<sameTime, cleanup, call, diskVars>>

\* Any error is logged and the task goes on; the half-written file stays.
CopyFails ==
  /\ backup = "copy" /\ backup' = "sleep" /\ NoCopy
  /\ UNCHANGED <<sameTime, cleanup, call, diskVars>>

-----------------------------------------------------------------------------
(* The other tasks, which go on only while the loop is free.                *)

\* (mutant) The cleanup never pauses.
WakeAndSweep ==
  /\ LoopIsFree /\ cleanup = "due"
  /\ cleanup' = "sweep"
  /\ UNCHANGED <<sameTime, backup, call, diskVars, copyVars>>

\* With wait_for_backup the cleanup sleeps for 60 seconds first.
WakeCleanup ==
  /\ LoopIsFree /\ cleanup = "due"
  /\ cleanup' = IF sameTime THEN "pause" ELSE "sweep"
  /\ UNCHANGED <<sameTime, backup, call, diskVars, copyVars>>

\* (mutant) The pause ends when the backup is seen at work.
EndPauseDuringCopy ==
  /\ cleanup = "pause" /\ backup = "copy"
  /\ cleanup' = "sweep"
  /\ UNCHANGED <<sameTime, backup, call, diskVars, copyVars>>

\* The loop runs timers in the order they are due, so the backup's comes first.
EndPause ==
  /\ LoopIsFree /\ cleanup = "pause" /\ backup # "due"
  /\ cleanup' = "sweep"
  /\ UNCHANGED <<sameTime, backup, call, diskVars, copyVars>>

Call(who, pages) == call' = [by |-> who, at |-> "write", pages |-> pages, page |-> 1]

\* The holder of db_lock commits what it has.
IngestCalls ==
  /\ LoopIsFree /\ call = NoCall /\ cleanup # "sweep" /\ Len(commits) < MaxCommits
  /\ \E pages \in SUBSET Pages \ {{}} : Call("ingest", pages)
  /\ UNCHANGED <<sameTime, backup, cleanup, diskVars, copyVars>>

\* The sweep's commit and VACUUM, which rewrites every page.
CleanupCalls ==
  /\ LoopIsFree /\ call = NoCall /\ cleanup = "sweep" /\ Len(commits) < MaxCommits
  /\ Call("cleanup", Pages)
  /\ UNCHANGED <<sameTime, backup, cleanup, diskVars, copyVars>>

EndSweep ==
  /\ LoopIsFree /\ call = NoCall /\ cleanup = "sweep"
  /\ cleanup' = "sleep"
  /\ UNCHANGED <<sameTime, backup, call, diskVars, copyVars>>

-----------------------------------------------------------------------------
(* SQLite, in the thread of the call.                                       *)

CallGoes(to, page) ==
  call' = [by |-> call.by, at |-> to, pages |-> call.pages, page |-> page]

\* A commit appends to the log; when that has grown, the call checkpoints.
Commit ==
  /\ call.at = "write"
  /\ commits' = Append(commits, call.pages)
  /\ CallGoes("checkpoint", 1) \/ CallGoes("answered", 1)
  /\ UNCHANGED <<sameTime, backup, cleanup, file, folded, copyVars>>

CheckpointPage ==
  /\ call.at = "checkpoint" /\ call.page <= PageCount
  /\ file' = [file EXCEPT ![call.page] = Snapshot(Len(commits))[call.page]]
  /\ CallGoes("checkpoint", call.page + 1)
  /\ disturbed' = (disturbed \/ backup = "copy")
  /\ UNCHANGED <<sameTime, backup, cleanup, commits, folded, copied, base>>

EndCheckpoint ==
  /\ call.at = "checkpoint" /\ call.page > PageCount
  /\ folded' = Len(commits)
  /\ CallGoes("answered", call.page)
  /\ UNCHANGED <<sameTime, backup, cleanup, commits, file, copyVars>>

\* The coroutine that made the call goes on.
Resume ==
  /\ LoopIsFree /\ call.at = "answered"
  /\ call' = NoCall
  /\ UNCHANGED <<sameTime, backup, cleanup, diskVars, copyVars>>

\* The process is killed: the log and the file stay as they are.
Crash ==
  /\ backup' = "sleep" /\ cleanup' = "sleep" /\ call' = NoCall /\ NoCopy
  /\ UNCHANGED <<sameTime, diskVars>>

-----------------------------------------------------------------------------
CopyStep == StartCopy \/ CopyPage \/ EndCopy \/ CopyFails
CleanupStep == WakeCleanup \/ EndPause \/ CleanupCalls \/ EndSweep
CallStep == Commit \/ CheckpointPage \/ EndCheckpoint \/ Resume

Next == TimeOfDay \/ CopyStep \/ CleanupStep \/ IngestCalls \/ CallStep \/ Crash

Spec == Init /\ [][Next]_vars

\* A copy ends, SQLite answers, and the cleanup gets its turn: the lock, which
\* Writer models, is first come first served.
FairSpec ==
  Spec /\ WF_vars(CopyStep) /\ SF_vars(CallStep) /\ SF_vars(CleanupStep)

-----------------------------------------------------------------------------
(* Properties.                                                              *)

Copied == Len(copied) = PageCount

\* A backup that no checkpoint overlapped is a state the database was in,
\* namely that of the last checkpoint before the copy began; what only the log
\* held is not in it.
QuietBackupIsAState == Copied /\ ~disturbed => copied = Snapshot(base.folded)

\* A backup, disturbed or not, holds nothing older than that checkpoint and at
\* most one commit newer than its start: the copy stops all tasks.
BackupIsOfItsTime ==
  Copied => \A p \in Pages : /\ copied[p] >= Snapshot(base.folded)[p]
                             /\ copied[p] <= base.commits + 1

\* What a finished copy is worth, checkpoints that overlapped it included.
BackupIsFaithful == QuietBackupIsAState /\ BackupIsOfItsTime

\* Set to the same time, a cleanup has no call in SQLite while the backup
\* copies, however long that takes ("wait a bit to let backup complete first").
SweepIsApart == sameTime /\ backup = "copy" => call.by # "cleanup"

\* A cleanup that is due gets done, backups, failing ones and the copy's hold on
\* the event loop notwithstanding, or the process goes down.
CleanupGetsDone == cleanup = "due" ~> cleanup = "sleep"
=============================================================================
