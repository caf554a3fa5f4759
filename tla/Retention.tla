----------------------------- MODULE Retention -----------------------------
(***************************************************************************)
(* The cleanup task of the writer process, daily_cleanup_at in startdb.py: *)
(* once a day it deletes, under db_lock and in one transaction, the rows   *)
(* of four tables that are older than the retention period.                *)
(***************************************************************************)
EXTENDS MeshDB, DbLock

CONSTANTS
  Keep,        \* days_to_keep
  UtcOffset    \* local time minus UTC on the writer's machine

ASSUME KeepAssumption == Keep \in Nat /\ UtcOffset \in Int

VARIABLES
  sweep,    \* the await the task is parked at
  cutoff,   \* cutoff_us
  doomed    \* the rows the open transaction has deleted

cleanupVars == <<sweep, cutoff, doomed>>

InSweep == {"packet", "seen", "trace", "node", "commit", "vacuum"}

NothingDoomed == [packet |-> {}, seen |-> {}, trace |-> {}, node |-> {}]

CleanupTypeOK ==
  /\ sweep \in InSweep \cup {"sleep", "lock"}
  /\ cutoff \in Int
  /\ doomed \in [packet: SUBSET PacketRows, seen: SUBSET SeenRows,
                 trace: SUBSET TraceRows, node: SUBSET NodeRows]

CleanupReset ==
  sweep' = "sleep" /\ cutoff' = 0 /\ doomed' = NothingDoomed

CleanupInit == sweep = "sleep" /\ cutoff = 0 /\ doomed = NothingDoomed

-----------------------------------------------------------------------------
\* (mutant) The boundary is deleted too.
OlderOrEqual(rows) == {r \in rows : r.at <= cutoff}

\* The rows DELETE ... WHERE time < cutoff_us selects; NULL is not below it.
Older(rows) == {r \in rows : r.at < cutoff}
ExpiredNodes(rows) == {r \in rows : r.last # NoTime /\ r.last < cutoff}

\* The timer fires: the cutoff is fixed, and the lock asked for.  The cutoff is
\* UTC with its zone dropped, which timestamp() then reads as local time.
StartSweep ==
  /\ sweep = "sleep"
  /\ cutoff' = now - Keep - UtcOffset
  /\ sweep' = "lock" /\ Request(Cleanup)
  /\ UNCHANGED <<tables, doomed>>

\* (mutant) The sweep does not wait for the lock.
EnterSweepUnlocked ==
  /\ sweep = "lock"
  /\ sweep' = "packet"
  /\ UNCHANGED <<tables, cutoff, doomed, queue>>

EnterSweep ==
  /\ sweep = "lock" /\ Holds(Cleanup)
  /\ sweep' = "packet"
  /\ UNCHANGED <<tables, cutoff, doomed, queue>>

\* A foreign key that is enforced refuses to orphan a row that refers here.
Orphans(gone) == Ids(gone) \cap (Ids(seen) \cup Ids(trace)) # {}

\* (mutant) Each table is deleted in a transaction of its own.
DeletePacketsAtOnce ==
  /\ sweep = "packet"
  /\ ~(EnforceFK /\ Orphans(Older(packet)))
  /\ packet' = packet \ Older(packet)
  /\ sweep' = "seen"
  /\ UNCHANGED <<node, seen, trace, pubkey, doomed, cutoff, queue>>

DeletePackets ==
  /\ sweep = "packet"
  /\ ~(EnforceFK /\ Orphans(Older(packet)))
  /\ doomed' = [doomed EXCEPT !.packet = Older(packet)]
  /\ sweep' = "seen"
  /\ UNCHANGED <<tables, cutoff, queue>>

\* (mutant) Only the sightings of the packets just deleted go.
DeleteSightingsOfDoomed ==
  /\ sweep = "seen"
  /\ doomed' = [doomed EXCEPT !.seen =
                  {s \in Older(seen) : s.id \in Ids(doomed.packet)}]
  /\ sweep' = "trace"
  /\ UNCHANGED <<tables, cutoff, queue>>

DeleteSightings ==
  /\ sweep = "seen"
  /\ doomed' = [doomed EXCEPT !.seen = Older(seen)]
  /\ sweep' = "trace"
  /\ UNCHANGED <<tables, cutoff, queue>>

DeleteTraceroutes ==
  /\ sweep = "trace"
  /\ doomed' = [doomed EXCEPT !.trace = Older(trace)]
  /\ sweep' = "node"
  /\ UNCHANGED <<tables, cutoff, queue>>

DeleteNodes ==
  /\ sweep = "node"
  /\ doomed' = [doomed EXCEPT !.node = ExpiredNodes(node)]
  /\ sweep' = "commit"
  /\ UNCHANGED <<tables, cutoff, queue>>

CommitSweep ==
  /\ sweep = "commit"
  /\ packet' = packet \ doomed.packet
  /\ seen' = seen \ doomed.seen
  /\ trace' = trace \ doomed.trace
  /\ node' = node \ doomed.node
  /\ doomed' = NothingDoomed /\ sweep' = "vacuum"
  /\ UNCHANGED <<pubkey, cutoff, queue>>

\* VACUUM changes no row; where it does not apply the lock is released at once.
FinishSweep ==
  /\ sweep = "vacuum"
  /\ CleanupReset /\ Release
  /\ UNCHANGED tables

\* Any statement may fail: the session rolls back, the lock is released, the
\* error is logged, and the task sleeps until the next day.
AbortSweep ==
  /\ sweep \in InSweep
  /\ CleanupReset /\ Release
  /\ UNCHANGED tables

SweepStep ==
  \/ EnterSweep \/ DeletePackets \/ DeleteSightings \/ DeleteTraceroutes
  \/ DeleteNodes \/ CommitSweep \/ FinishSweep \/ AbortSweep
=============================================================================
