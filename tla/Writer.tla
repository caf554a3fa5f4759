------------------------------- MODULE Writer -------------------------------
(***************************************************************************)
(* The writer process (startdb.py): the ingestion and the cleanup task     *)
(* over one database, interleaved at their awaits and kept apart by        *)
(* db_lock; the clock that runs under them; and the process itself, which  *)
(* may be killed between any two steps, dies when process_envelope raises  *)
(* (its TaskGroup cancels the other task), and may be started again.       *)
(***************************************************************************)
EXTENDS Ingestion, Retention

VARIABLE up     \* the process runs

vars == <<now, up, tables, queue, ingestVars, cleanupVars>>

Init == up = TRUE /\ DBInit /\ LockInit /\ IngestInit /\ CleanupInit

TypeOK == up \in BOOLEAN /\ DBTypeOK /\ LockTypeOK /\ IngestTypeOK /\ CleanupTypeOK

-----------------------------------------------------------------------------
\* The process is gone, with all it held in memory; open transactions roll back.
Halt ==
  /\ up' = FALSE
  /\ IngestReset /\ CleanupReset
  /\ cache' = {} /\ queue' = <<>>
  /\ UNCHANGED <<now, tables>>

Deliver ==
  /\ up /\ \E e \in Envelopes : Receive(e)
  /\ UNCHANGED <<now, up, cleanupVars>>

IngestStep ==
  /\ up /\ ProcessEnvelope
  /\ UNCHANGED <<now, up, cleanupVars>>

IngestDies == up /\ EnvelopeRaises /\ Halt

Wake ==
  /\ up /\ StartSweep
  /\ UNCHANGED <<now, up, ingestVars>>

CleanupStep ==
  /\ up /\ SweepStep
  /\ UNCHANGED <<now, up, ingestVars>>

Crash == up /\ Halt

\* main() creates and loads the cache before it starts the tasks.
Restart ==
  /\ ~up /\ up' = TRUE
  /\ cache' = FlaggedNums
  /\ UNCHANGED <<now, tables, queue, phase, env, staged, cleanupVars>>

Tick ==
  /\ now < MaxTime /\ now' = now + 1
  /\ UNCHANGED <<up, tables, queue, ingestVars, cleanupVars>>

Next ==
  \/ Deliver \/ IngestStep \/ IngestDies
  \/ Wake \/ CleanupStep
  \/ Crash \/ Restart \/ Tick

\* The event loop resumes a task whose await is over: weak fairness of both
\* tasks once they hold work.  Nothing promises an envelope, the timer or a
\* restart.
Fairness ==
  /\ WF_vars(IngestStep \/ IngestDies)
  /\ WF_vars(CleanupStep)

Spec == Init /\ [][Next]_vars

FairSpec == Spec /\ Fairness
=============================================================================
