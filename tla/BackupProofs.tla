---------------------------- MODULE BackupProofs ----------------------------
(***************************************************************************)
(* What holds of the backup for any number of blocks, commits, checkpoints *)
(* and kills.                                                              *)
(***************************************************************************)
EXTENDS Backup, FiniteSetTheorems, TLAPS

\* Set to the same time, the cleanup sweeps only between two backups, and only a
\* sweep makes the cleanup's calls.
Apart ==
  /\ backup \in {"sleep", "due", "copy"} /\ sameTime \in BOOLEAN
  /\ sameTime = TRUE /\ cleanup = "sweep" => backup = "sleep"
  /\ call.by = "cleanup" => cleanup = "sweep"

LEMMA ApartInit == Init => Apart
BY DEF Init, NoCall, Apart

\* Of the cleanup's steps only the two that begin the sweep bear on it.
LEMMA SweepBegins ==
  ASSUME Apart, WakeCleanup \/ EndPause
  PROVE  /\ UNCHANGED <<sameTime, backup, call>> /\ cleanup # "sweep"
         /\ sameTime = TRUE /\ cleanup' = "sweep" => backup = "sleep"
<1>1. CASE EndPause
  BY <1>1 DEF EndPause, LoopIsFree, Apart
<1>2. CASE WakeCleanup
  <2>1. UNCHANGED <<sameTime, backup, call>> /\ cleanup = "due"
    BY <1>2 DEF WakeCleanup
  <2>2. sameTime = TRUE => cleanup' = "pause"
    BY <1>2, Zenon DEF WakeCleanup
  <2> QED
    BY <2>1, <2>2
<1> QED
  BY <1>1, <1>2

LEMMA ApartStep == Apart /\ [Next]_vars => Apart'
<1> SUFFICES ASSUME Apart, [Next]_vars PROVE Apart'
  OBVIOUS
<1> USE DEF Apart, NoCall, LoopIsFree
<1>1. CASE TimeOfDay
  <2>1. UNCHANGED <<sameTime, call>> /\ (cleanup' = cleanup \/ cleanup' = "due")
    BY <1>1, Zenon DEF TimeOfDay
  <2>2. backup' = backup \/ backup' = "due"
    BY <1>1, Zenon DEF TimeOfDay
  <2>3. sameTime = TRUE => cleanup = "sleep" /\ cleanup' = "due"
    BY <1>1, Zenon DEF TimeOfDay
  <2>4. call.by = "cleanup" => cleanup' # "due"
    <3>1. cleanup' = cleanup \/ cleanup = "sleep"
      BY <1>1, Zenon DEF TimeOfDay
    <3> QED
      BY <2>1, <3>1
  <2> QED
    BY <2>1, <2>2, <2>3, <2>4
<1>2. CASE CopyStep
  BY <1>2 DEF CopyStep, StartCopy, CopyPage, EndCopy, CopyFails
<1>3. CASE CleanupStep
  <2>1. CASE WakeCleanup \/ EndPause
    BY <2>1, SweepBegins
  <2>2. CASE CleanupCalls \/ EndSweep
    BY <2>2 DEF CleanupCalls, EndSweep, Call
  <2> QED
    BY <1>3, <2>1, <2>2 DEF CleanupStep
<1>4. CASE IngestCalls
  <2>1. call'.by = "ingest" /\ UNCHANGED <<sameTime, backup, cleanup>>
    BY <1>4 DEF IngestCalls, Call
  <2> QED
    BY <2>1
<1>5. CASE CallStep
  <2>1. UNCHANGED <<sameTime, backup, cleanup>>
    BY <1>5 DEF CallStep, Commit, CheckpointPage, EndCheckpoint, CallGoes, Resume
  <2>2. call'.by = "cleanup" => call.by = "cleanup"
    BY <1>5 DEF CallStep, Commit, CheckpointPage, EndCheckpoint, CallGoes, Resume
  <2> QED
    BY <2>1, <2>2
<1>6. CASE Crash
  BY <1>6 DEF Crash
<1>7. CASE UNCHANGED vars
  BY <1>7 DEF vars
<1> QED
  BY <1>1, <1>2, <1>3, <1>4, <1>5, <1>6, <1>7 DEF Next

\* Whatever the copy takes and whatever commits, a cleanup that is set to the
\* backup's minute has no call in SQLite while the copy runs.
THEOREM SweepKeepsClear == Spec => []SweepIsApart
<1>1. Apart => SweepIsApart
  BY DEF Apart, SweepIsApart
<1> QED
  BY <1>1, ApartInit, ApartStep, PTL DEF Spec

-----------------------------------------------------------------------------
(* What a copy that no checkpoint disturbed is a copy of.                   *)

\* A commit leaves the snapshots of what was committed before it as they were.
LEMMA SnapshotIsStable ==
  ASSUME NEW writes \in Seq(SUBSET Pages), NEW more \in SUBSET Pages,
         NEW k \in 0..Len(writes)
  PROVE  SnapshotOf(Append(writes, more), k) = SnapshotOf(writes, k)
<1>1. \A p \in Pages : {j \in 1..k : p \in Append(writes, more)[j]}
                         = {j \in 1..k : p \in writes[j]}
  <2>1. \A j \in 1..k : Append(writes, more)[j] = writes[j]
    OBVIOUS
  <2> QED
    BY <2>1
<1> QED
  BY <1>1 DEF SnapshotOf

DiskShape ==
  /\ commits \in Seq(SUBSET Pages) /\ folded \in 0..Len(commits)
  /\ call.pages \in SUBSET Pages
  /\ file = [p \in Pages |-> file[p]]

\* The copy is a sequence, empty between two backups.
CopyShape ==
  /\ backup # "copy" => copied = <<>>
  /\ \E Versions : copied \in Seq(Versions)

\* Until a checkpoint disturbs it, the copy is of a file that stands still.
FileStandsStill ==
  backup = "copy" /\ ~disturbed =>
    /\ base.folded \in 0..Len(commits) /\ file = SnapshotOf(commits, base.folded)
    /\ \A p \in DOMAIN copied : copied[p] = file[p]

BackupInv == DiskShape /\ CopyShape /\ FileStandsStill

LEMMA BackupInit == Init => BackupInv
<1> SUFFICES ASSUME Init PROVE BackupInv
  OBVIOUS
<1>1. file = [p \in Pages |-> file[p]]
  BY DEF Init, Snapshot, SnapshotOf
<1>2. DiskShape
  BY <1>1 DEF Init, DiskShape, NoCall
<1>3. copied \in Seq({})
  BY DEF Init
<1> QED
  BY <1>2, <1>3 DEF Init, BackupInv, CopyShape, FileStandsStill

LEMMA DiskStep == DiskShape /\ [Next]_vars => DiskShape'
<1> SUFFICES ASSUME DiskShape, [Next]_vars PROVE DiskShape'
  OBVIOUS
<1> USE DEF DiskShape, diskVars
<1>1. CASE TimeOfDay
  BY <1>1 DEF TimeOfDay
<1>2. CASE CopyStep
  BY <1>2 DEF CopyStep, StartCopy, CopyPage, EndCopy, CopyFails
<1>3. CASE CleanupStep \/ IngestCalls
  <2>1. UNCHANGED diskVars
    BY <1>3 DEF CleanupStep, WakeCleanup, EndPause, CleanupCalls, EndSweep, IngestCalls
  <2>2. call' = call \/ call'.pages \in SUBSET Pages
    BY <1>3 DEF CleanupStep, WakeCleanup, EndPause, CleanupCalls, EndSweep, IngestCalls, Call
  <2> QED
    BY <2>1, <2>2
<1>4. CASE CallStep
  BY <1>4 DEF CallStep, Commit, CheckpointPage, EndCheckpoint, Resume, CallGoes, NoCall
<1>5. CASE Crash
  BY <1>5 DEF Crash, NoCall
<1>6. CASE UNCHANGED vars
  BY <1>6 DEF vars
<1> QED
  BY <1>1, <1>2, <1>3, <1>4, <1>5, <1>6 DEF Next

LEMMA CopyShapeStep == CopyShape /\ [Next]_vars => CopyShape'
<1> SUFFICES ASSUME CopyShape, [Next]_vars PROVE CopyShape'
  OBVIOUS
<1> USE DEF CopyShape
<1>1. CASE CopyPage
  <2>1. PICK Versions : copied \in Seq(Versions)
    OBVIOUS
  <2>2. copied' \in Seq(Versions \cup {file[Len(copied) + 1]})
    BY <1>1, <2>1 DEF CopyPage
  <2> QED
    BY <1>1, <2>2 DEF CopyPage
<1>2. CASE StartCopy \/ EndCopy \/ CopyFails \/ Crash
  <2>1. copied' = <<>>
    BY <1>2 DEF StartCopy, EndCopy, CopyFails, Crash, NoCopy
  <2>2. copied' \in Seq({})
    BY <2>1
  <2> QED
    BY <2>1, <2>2
<1>3. CASE TimeOfDay
  <2>1. UNCHANGED copied /\ (backup' # "copy" => backup # "copy")
    BY <1>3, Zenon DEF TimeOfDay, copyVars
  <2> QED
    BY <2>1
<1>4. CASE CleanupStep \/ IngestCalls \/ CallStep
  <2>1. UNCHANGED <<backup, copied>>
    BY <1>4 DEF CleanupStep, WakeCleanup, EndPause, CleanupCalls, EndSweep, IngestCalls,
                CallStep, Commit, CheckpointPage, EndCheckpoint, Resume, copyVars
  <2> QED
    BY <2>1
<1>5. CASE UNCHANGED vars
  BY <1>5 DEF vars
<1> QED
  BY <1>1, <1>2, <1>3, <1>4, <1>5 DEF Next, CopyStep

LEMMA FileStep == BackupInv /\ [Next]_vars => FileStandsStill'
<1> SUFFICES ASSUME BackupInv, [Next]_vars, backup' = "copy", ~disturbed'
             PROVE  /\ base'.folded \in 0..Len(commits') /\ file' = SnapshotOf(commits', base'.folded)
                    /\ \A p \in DOMAIN copied' : copied'[p] = file'[p]
  BY DEF FileStandsStill
<1> USE DEF BackupInv
<1>1. CASE StartCopy
  <2>1. file = Snapshot(folded)
    BY <1>1, Zenon DEF StartCopy
  <2>2. base'.folded = folded /\ copied' = <<>> /\ UNCHANGED <<commits, file>>
    BY <1>1 DEF StartCopy, diskVars
  <2> QED
    BY <2>1, <2>2 DEF Snapshot, DiskShape
<1>2. CASE CopyPage
  <2>1. PICK Versions : copied \in Seq(Versions)
    BY DEF CopyShape
  <2>2. copied' = Append(copied, file[Len(copied) + 1]) /\ UNCHANGED <<commits, file, base>>
    BY <1>2 DEF CopyPage, diskVars
  <2>3. backup = "copy" /\ ~disturbed
    BY <1>2 DEF CopyPage
  <2>4. \A p \in DOMAIN copied' : copied'[p] = file[p]
    BY <2>1, <2>2, <2>3 DEF FileStandsStill
  <2> QED
    BY <2>2, <2>3, <2>4 DEF FileStandsStill
<1>3. CASE EndCopy \/ CopyFails \/ Crash
  BY <1>3 DEF EndCopy, CopyFails, Crash
<1>4. CASE TimeOfDay
  <2>1. backup = "copy" /\ ~disturbed /\ UNCHANGED <<commits, file, base, copied>>
    BY <1>4, Zenon DEF TimeOfDay, diskVars, copyVars
  <2> QED
    BY <2>1 DEF FileStandsStill
<1>5. CASE CleanupStep \/ IngestCalls \/ Resume \/ EndCheckpoint \/ UNCHANGED vars
  <2>1. UNCHANGED <<backup, disturbed, commits, file, base, copied>>
    BY <1>5 DEF CleanupStep, WakeCleanup, EndPause, CleanupCalls, EndSweep, IngestCalls,
                Resume, EndCheckpoint, diskVars, copyVars, vars
  <2> QED
    BY <2>1 DEF FileStandsStill
<1>6. CASE Commit
  <2>1. UNCHANGED <<backup, disturbed, file, base, copied>>
        /\ commits' = Append(commits, call.pages)
    BY <1>6 DEF Commit, copyVars
  <2>2. base.folded \in 0..Len(commits) /\ file = SnapshotOf(commits, base.folded)
        /\ \A p \in DOMAIN copied : copied[p] = file[p]
    BY <2>1 DEF FileStandsStill
  <2>3. SnapshotOf(commits', base.folded) = SnapshotOf(commits, base.folded)
    BY <2>1, <2>2, SnapshotIsStable DEF DiskShape
  <2>4. base.folded \in 0..Len(commits')
    BY <2>1, <2>2 DEF DiskShape
  <2> QED
    BY <2>1, <2>2, <2>3, <2>4
<1>7. CASE CheckpointPage
  <2>1. disturbed' = (disturbed \/ backup = "copy") /\ UNCHANGED backup
    BY <1>7, Zenon DEF CheckpointPage
  <2> QED
    BY <2>1, Zenon
<1> QED
  BY <1>1, <1>2, <1>3, <1>4, <1>5, <1>6, <1>7 DEF Next, CopyStep, CallStep

\* However many commits and checkpoints come between two backups, a copy that no
\* checkpoint overlaps is the database as the last checkpoint left it.
THEOREM QuietBackupIsSound == Spec => []QuietBackupIsAState
<1>1. BackupInv => QuietBackupIsAState
  <2> SUFFICES ASSUME BackupInv, Len(copied) = PageCount, ~disturbed
               PROVE  copied = SnapshotOf(commits, base.folded)
    BY Zenon DEF QuietBackupIsAState, Copied, Snapshot
  <2>1. PICK Versions : copied \in Seq(Versions)
    BY DEF BackupInv, CopyShape
  <2>2. backup = "copy"
    BY BackupAssumption DEF BackupInv, CopyShape
  <2>3. file = SnapshotOf(commits, base.folded) /\ \A p \in DOMAIN copied : copied[p] = file[p]
    BY <2>2 DEF BackupInv, FileStandsStill
  <2>4. DOMAIN copied = Pages
    BY <2>1 DEF Pages
  <2>5. copied = [p \in Pages |-> copied[p]] /\ file = [p \in Pages |-> file[p]]
    BY <2>1, <2>4 DEF BackupInv, DiskShape
  <2> QED
    BY <2>3, <2>4, <2>5
<1>2. BackupInv /\ [Next]_vars => BackupInv'
  BY DiskStep, CopyShapeStep, FileStep DEF BackupInv
<1> QED
  BY <1>1, <1>2, BackupInit, PTL DEF Spec

-----------------------------------------------------------------------------
(* How old and how new a page of a copy can be.                             *)

\* A set of numbers that has a bound has a greatest member.
LEMMA MaxOfBounded ==
  ASSUME NEW S \in SUBSET Nat, S # {}, NEW n \in Nat, \A s \in S : s <= n
  PROVE  Max(S) \in S /\ \A s \in S : Max(S) >= s
<1> DEFINE Above(a) == {y \in S : y > a}
<1>1. IsFiniteSet(S)
  BY FS_BoundedSetOfNaturals
<1>2. {Above(a) : a \in S} \subseteq FiniteSubsetsOf(S)
  BY <1>1, FS_Subset DEF FiniteSubsetsOf
<1>3. PICK T \in {Above(a) : a \in S} :
        \A U \in {Above(a) : a \in S} : <<U, T>> \notin StrictSubsetOrdering(S)
  <2>1. {Above(a) : a \in S} # {}
    OBVIOUS
  <2> HIDE DEF Above
  <2> QED
    BY <1>2, <2>1, FS_StrictSubsetOrderingWellFounded, WFMin, Zenon
<1>4. PICK a \in S : T = Above(a)
  OBVIOUS
<1>5. \A b \in S : a >= b
  <2> SUFFICES ASSUME NEW b \in S, b > a PROVE FALSE
    OBVIOUS
  <2>1. a \in Nat /\ b \in Nat
    OBVIOUS
  <2>2. \A y \in S : y \in Nat /\ (y > b => y > a)
    BY <2>1
  <2>3. Above(b) \subseteq Above(a) /\ b \in Above(a) /\ b \notin Above(b)
    <3>1. ~(b > b)
      BY <2>1
    <3> QED
      BY <2>2, <3>1, Zenon
  <2>4. <<Above(b), Above(a)>> \in StrictSubsetOrdering(S)
    BY <2>3 DEF StrictSubsetOrdering
  <2> QED
    BY <1>3, <1>4, <2>4
<1> QED
  BY <1>5, Zenon DEF Max

\* The version of a page is 0 or one of the commits that wrote it, and the newest
\* of them.
Writers(writes, k, p) == {0} \cup {j \in 1..k : p \in writes[j]}

LEMMA SnapshotIsNewest ==
  ASSUME NEW writes, NEW k \in Nat, NEW p \in Pages
  PROVE  /\ SnapshotOf(writes, k)[p] \in Writers(writes, k, p)
         /\ \A j \in Writers(writes, k, p) : SnapshotOf(writes, k)[p] >= j
         /\ SnapshotOf(writes, k)[p] \in 0..k
<1>1. Writers(writes, k, p) \in SUBSET Nat /\ Writers(writes, k, p) # {}
      /\ \A j \in Writers(writes, k, p) : j <= k
  BY DEF Writers
<1>2. SnapshotOf(writes, k)[p] = Max(Writers(writes, k, p))
  BY DEF SnapshotOf, Writers
<1>3. /\ Max(Writers(writes, k, p)) \in Writers(writes, k, p)
      /\ \A j \in Writers(writes, k, p) : Max(Writers(writes, k, p)) >= j
  BY <1>1, MaxOfBounded
<1> QED
  BY <1>1, <1>2, <1>3

\* More commits make no page older.
LEMMA SnapshotGrows ==
  ASSUME NEW writes, NEW k \in Nat, NEW m \in Nat, k <= m, NEW p \in Pages
  PROVE  SnapshotOf(writes, k)[p] <= SnapshotOf(writes, m)[p]
<1>1. Writers(writes, k, p) \subseteq Writers(writes, m, p)
  BY DEF Writers
<1>2. SnapshotOf(writes, k)[p] \in Writers(writes, m, p)
  BY <1>1, SnapshotIsNewest
<1>3. SnapshotOf(writes, m)[p] \in Nat /\ SnapshotOf(writes, k)[p] \in Nat
  BY SnapshotIsNewest
<1> QED
  BY <1>2, <1>3, SnapshotIsNewest

\* A page of the file is at least what the last finished checkpoint made it.
FileIsOfItsTime ==
  \A p \in Pages : /\ file[p] \in 0..Len(commits)
                   /\ Snapshot(folded)[p] <= file[p]

\* A checkpoint has gone over the pages before the one it is at.
CheckpointIsInOrder ==
  call.at = "checkpoint" =>
    /\ call.page \in Nat
    /\ \A p \in Pages : p < call.page => file[p] = Snapshot(Len(commits))[p]

\* Until the copy ends one call can commit, the one that was under way.
LoopStandsStill ==
  backup = "copy" =>
    /\ base.commits \in Nat /\ base.folded \in 0..Len(commits)
    /\ Len(commits) <= base.commits + 1
    /\ call.at = "write" => Len(commits) <= base.commits

PagesAreOfTheirTime ==
  backup = "copy" =>
    /\ \A p \in Pages : Snapshot(base.folded)[p] <= file[p]
    /\ \A p \in DOMAIN copied : /\ Snapshot(base.folded)[p] <= copied[p]
                                /\ copied[p] <= base.commits + 1

TimeInv ==
  /\ DiskShape /\ CopyShape
  /\ FileIsOfItsTime /\ CheckpointIsInOrder /\ LoopStandsStill /\ PagesAreOfTheirTime

LEMMA TimeInit == Init => TimeInv
<1> SUFFICES ASSUME Init PROVE TimeInv
  OBVIOUS
<1>1. DiskShape /\ CopyShape
  BY BackupInit DEF BackupInv
<1>2. \A p \in Pages : file[p] = SnapshotOf(commits, 0)[p] /\ file[p] \in 0..0
  BY SnapshotIsNewest DEF Init, Snapshot
<1>3. commits = <<>> /\ folded = 0 /\ call.at = "none" /\ backup = "sleep"
  BY DEF Init, NoCall
<1> QED
  BY <1>1, <1>2, <1>3 DEF TimeInv, FileIsOfItsTime, CheckpointIsInOrder, LoopStandsStill,
                         PagesAreOfTheirTime, Snapshot

\* What only the clock, the other tasks' waiting or the copy does leaves SQLite alone.
LEMMA CallerSteps ==
  ASSUME WakeCleanup \/ EndPause \/ CleanupCalls \/ EndSweep \/ IngestCalls \/ Resume
  PROVE  /\ backup # "copy" /\ UNCHANGED <<backup, diskVars, copyVars>>
         /\ call' = call \/ call'.at \in {"write", "none"}
BY DEF WakeCleanup, EndPause, CleanupCalls, EndSweep, IngestCalls, Resume, LoopIsFree, Call,
       NoCall

LEMMA FileTimeStep == TimeInv /\ [Next]_vars => FileIsOfItsTime' /\ CheckpointIsInOrder'
<1> SUFFICES ASSUME TimeInv, [Next]_vars
             PROVE  FileIsOfItsTime' /\ CheckpointIsInOrder'
  OBVIOUS
<1> USE DEF TimeInv
<1>1. CASE UNCHANGED diskVars /\ (call' = call \/ call'.at \in {"write", "none"})
  BY <1>1 DEF diskVars, FileIsOfItsTime, CheckpointIsInOrder, Snapshot
<1>2. CASE Commit
  <2>1. /\ call.pages \in SUBSET Pages /\ commits \in Seq(SUBSET Pages)
        /\ folded \in 0..Len(commits)
    BY DEF DiskShape
  <2>2. UNCHANGED <<file, folded>> /\ commits' = Append(commits, call.pages) /\ call'.page = 1
    BY <1>2 DEF Commit, CallGoes
  <2>3. SnapshotOf(commits', folded) = SnapshotOf(commits, folded)
    BY <2>1, <2>2, SnapshotIsStable
  <2>4. FileIsOfItsTime'
    BY <2>1, <2>2, <2>3 DEF FileIsOfItsTime, Snapshot
  <2>5. CheckpointIsInOrder'
    BY <2>2 DEF CheckpointIsInOrder, Pages
  <2> QED
    BY <2>4, <2>5
<1>3. CASE CheckpointPage
  <2> DEFINE now == Snapshot(Len(commits))
  <2>1. /\ folded \in 0..Len(commits) /\ Len(commits) \in Nat
        /\ file = [p \in Pages |-> file[p]]
    BY DEF DiskShape
  <2>2. call.at = "checkpoint" /\ UNCHANGED <<commits, folded>>
    BY <1>3 DEF CheckpointPage
  <2>3. call'.page = call.page + 1 /\ call.page \in Nat
    BY <1>3, <2>2 DEF CheckpointPage, CallGoes, CheckpointIsInOrder
  <2>4. \A p \in Pages : file'[p] = IF p = call.page THEN now[p] ELSE file[p]
    BY <1>3, <2>1 DEF CheckpointPage
  <2>5. \A p \in Pages : now[p] \in 0..Len(commits) /\ Snapshot(folded)[p] <= now[p]
    BY <2>1, SnapshotIsNewest, SnapshotGrows DEF Snapshot
  <2>6. now' = now /\ Snapshot(folded)' = Snapshot(folded)
    BY <2>2 DEF Snapshot
  <2> HIDE DEF now
  <2>7. FileIsOfItsTime'
    BY <2>2, <2>4, <2>5, <2>6 DEF FileIsOfItsTime
  <2>8. \A p \in Pages : p < call'.page => file'[p] = now[p]
    <3>1. \A p \in Pages : p < call.page => file[p] = now[p]
      BY <2>2 DEF CheckpointIsInOrder, now
    <3> QED
      BY <2>3, <2>4, <3>1 DEF Pages
  <2>9. CheckpointIsInOrder'
    BY <2>3, <2>6, <2>8 DEF CheckpointIsInOrder, now
  <2> QED
    BY <2>7, <2>9
<1>4. CASE EndCheckpoint
  <2>1. /\ call.at = "checkpoint" /\ call.page > PageCount /\ UNCHANGED <<commits, file>>
        /\ folded' = Len(commits) /\ call'.at = "answered"
    BY <1>4 DEF EndCheckpoint, CallGoes
  <2>2. \A p \in Pages : file[p] = Snapshot(Len(commits))[p]
    BY <2>1, BackupAssumption DEF CheckpointIsInOrder, Pages
  <2>3. \A p \in Pages : file'[p] \in 0..Len(commits') /\ file'[p] = Snapshot(folded)'[p]
    BY <2>1, <2>2 DEF FileIsOfItsTime, Snapshot
  <2> QED
    BY <2>1, <2>3 DEF FileIsOfItsTime, CheckpointIsInOrder
<1>5. CASE Next
  <2>1. CASE TimeOfDay
    BY <1>1, <2>1, Zenon DEF TimeOfDay
  <2>2. CASE CopyStep \/ Crash
    BY <1>1, <2>2 DEF CopyStep, StartCopy, CopyPage, EndCopy, CopyFails, Crash, NoCall
  <2>3. CASE CleanupStep \/ IngestCalls \/ Resume
    BY <1>1, <2>3, CallerSteps DEF CleanupStep
  <2> QED
    BY <1>2, <1>3, <1>4, <1>5, <2>1, <2>2, <2>3 DEF Next, CallStep
<1> QED
  BY <1>1, <1>5 DEF vars, diskVars

LEMMA LoopStep == TimeInv /\ [Next]_vars => LoopStandsStill'
<1> SUFFICES ASSUME TimeInv, [Next]_vars, backup' = "copy"
             PROVE  /\ base'.commits \in Nat /\ base'.folded \in 0..Len(commits')
                    /\ Len(commits') <= base'.commits + 1
                    /\ call'.at = "write" => Len(commits') <= base'.commits
  BY DEF LoopStandsStill
<1> USE DEF TimeInv
<1>1. CASE StartCopy
  BY <1>1 DEF StartCopy, diskVars, DiskShape
<1>2. CASE /\ backup = "copy" /\ UNCHANGED <<commits, base>>
           /\ call' = call \/ call'.at # "write"
  BY <1>2 DEF LoopStandsStill
<1>3. CASE Commit
  <2>1. UNCHANGED <<backup, base>> /\ commits' = Append(commits, call.pages)
        /\ call.at = "write" /\ call'.at # "write"
    BY <1>3 DEF Commit, CallGoes, copyVars
  <2> QED
    BY <2>1 DEF LoopStandsStill, DiskShape
<1>4. CASE Next
  <2>1. CASE TimeOfDay
    BY <1>2, <2>1, Zenon DEF TimeOfDay, diskVars, copyVars
  <2>2. CASE CopyPage \/ EndCopy \/ CopyFails \/ Crash
    BY <1>2, <2>2 DEF CopyPage, EndCopy, CopyFails, Crash, diskVars
  <2>3. CASE CleanupStep \/ IngestCalls \/ Resume
    BY <2>3, CallerSteps DEF CleanupStep
  <2>4. CASE CheckpointPage \/ EndCheckpoint
    BY <1>2, <2>4 DEF CheckpointPage, EndCheckpoint, CallGoes, copyVars
  <2> QED
    BY <1>1, <1>3, <1>4, <2>1, <2>2, <2>3, <2>4 DEF Next, CopyStep, CallStep
<1> QED
  BY <1>2, <1>4 DEF vars, diskVars, copyVars

LEMMA PagesStep == TimeInv /\ [Next]_vars => PagesAreOfTheirTime'
<1> SUFFICES ASSUME TimeInv, [Next]_vars, backup' = "copy"
             PROVE  /\ \A p \in Pages : Snapshot(base.folded)'[p] <= file'[p]
                    /\ \A p \in DOMAIN copied' : /\ Snapshot(base.folded)'[p] <= copied'[p]
                                                 /\ copied'[p] <= base'.commits + 1
  BY DEF PagesAreOfTheirTime
<1> USE DEF TimeInv
<1>1. CASE StartCopy
  BY <1>1 DEF StartCopy, diskVars, FileIsOfItsTime, Snapshot
<1>2. CASE backup = "copy" /\ UNCHANGED <<commits, file, copied, base>>
  BY <1>2 DEF PagesAreOfTheirTime, Snapshot
<1>3. CASE CopyPage
  <2> DEFINE next == Len(copied) + 1
  <2>1. PICK Versions : copied \in Seq(Versions)
    BY DEF CopyShape
  <2>2. /\ backup = "copy" /\ next \in Pages /\ UNCHANGED <<commits, file, base>>
        /\ copied' = Append(copied, file[next])
    BY <1>3, <2>1, BackupAssumption DEF CopyPage, diskVars, Pages
  <2>3. file[next] <= base.commits + 1
    BY <2>2 DEF FileIsOfItsTime, LoopStandsStill, DiskShape
  <2>4. Snapshot(base.folded)[next] <= file[next]
    BY <2>2 DEF PagesAreOfTheirTime
  <2>5. \A p \in DOMAIN copied' : \/ p \in DOMAIN copied /\ copied'[p] = copied[p]
                                  \/ p = next /\ copied'[p] = file[next]
    BY <2>1, <2>2
  <2> HIDE DEF next
  <2> QED
    BY <2>2, <2>3, <2>4, <2>5 DEF PagesAreOfTheirTime, Snapshot
<1>4. CASE Commit
  <2>1. UNCHANGED <<backup, file, copied, base>> /\ commits' = Append(commits, call.pages)
    BY <1>4 DEF Commit, copyVars
  <2>2. SnapshotOf(commits', base.folded) = SnapshotOf(commits, base.folded)
    BY <2>1, SnapshotIsStable DEF LoopStandsStill, DiskShape
  <2> QED
    BY <2>1, <2>2 DEF PagesAreOfTheirTime, Snapshot
<1>5. CASE CheckpointPage
  <2>1. /\ UNCHANGED <<backup, commits, copied, base>> /\ backup = "copy"
        /\ base.folded \in 0..Len(commits) /\ Len(commits) \in Nat
    BY <1>5 DEF CheckpointPage, LoopStandsStill, DiskShape
  <2>2. \A p \in Pages : file'[p] = file[p] \/ file'[p] = Snapshot(Len(commits))[p]
    BY <1>5 DEF CheckpointPage, DiskShape
  <2>3. \A p \in Pages : Snapshot(base.folded)[p] <= Snapshot(Len(commits))[p]
    BY <2>1, SnapshotGrows DEF Snapshot
  <2>4. Snapshot(base.folded)' = Snapshot(base.folded)
    BY <2>1 DEF Snapshot
  <2> QED
    BY <2>1, <2>2, <2>3, <2>4 DEF PagesAreOfTheirTime
<1>6. CASE Next
  <2>1. CASE TimeOfDay
    BY <1>2, <2>1, Zenon DEF TimeOfDay, diskVars, copyVars
  <2>2. CASE EndCopy \/ CopyFails \/ Crash
    BY <2>2 DEF EndCopy, CopyFails, Crash
  <2>3. CASE CleanupStep \/ IngestCalls \/ Resume
    BY <2>3, CallerSteps DEF CleanupStep
  <2>4. CASE EndCheckpoint
    BY <1>2, <2>4 DEF EndCheckpoint, copyVars
  <2> QED
    BY <1>1, <1>3, <1>4, <1>5, <1>6, <2>1, <2>2, <2>3, <2>4 DEF Next, CopyStep, CallStep
<1> QED
  BY <1>2, <1>6 DEF vars

\* A backup, whatever checkpoints overlapped it, is no older than the last finished
\* one and holds at most the one commit that was under way; and if none overlapped
\* it, it is a state of the database.
THEOREM BackupKeepsFaith == Spec => []BackupIsFaithful
<1>1. TimeInv => BackupIsOfItsTime
  <2> SUFFICES ASSUME TimeInv, Len(copied) = PageCount
               PROVE  \A p \in Pages : /\ copied[p] >= Snapshot(base.folded)[p]
                                       /\ copied[p] <= base.commits + 1
    BY DEF BackupIsOfItsTime, Copied
  <2>1. PICK Versions : copied \in Seq(Versions)
    BY DEF TimeInv, CopyShape
  <2>2. backup = "copy" /\ DOMAIN copied = Pages
    BY <2>1, BackupAssumption DEF TimeInv, CopyShape, Pages
  <2> QED
    BY <2>2, Zenon DEF TimeInv, PagesAreOfTheirTime
<1>2. TimeInv /\ [Next]_vars => TimeInv'
  BY DiskStep, CopyShapeStep, FileTimeStep, LoopStep, PagesStep DEF TimeInv
<1>3. Spec => []BackupIsOfItsTime
  BY <1>1, <1>2, TimeInit, PTL DEF Spec
<1>4. BackupIsFaithful <=> QuietBackupIsAState /\ BackupIsOfItsTime
  BY DEF BackupIsFaithful
<1> QED
  BY <1>3, <1>4, QuietBackupIsSound, PTL
=============================================================================
