------------------------------- MODULE DbLock -------------------------------
(***************************************************************************)
(* startdb.db_lock, the asyncio.Lock that ingestion and cleanup share.      *)
(* asyncio.Lock is first come, first served: acquire() takes a free lock   *)
(* that nobody waits for and otherwise joins the waiters; release() hands  *)
(* the lock to the first waiter, and an acquire() made before that waiter  *)
(* has run again still queues behind it.  The head of `queue' therefore    *)
(* holds the lock, whether or not it has been resumed yet.                 *)
(***************************************************************************)
EXTENDS Sequences

CONSTANTS Ingest, Cleanup     \* the two tasks that use the lock

Tasks == {Ingest, Cleanup}

ASSUME TasksAssumption == Ingest # Cleanup

VARIABLE queue

LockInit == queue = <<>>

LockTypeOK == queue \in Seq(Tasks)

Holds(task) == queue # <<>> /\ Head(queue) = task

Request(task) == queue' = Append(queue, task)

Release == queue' = Tail(queue)
=============================================================================
