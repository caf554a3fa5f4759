----------------------------- MODULE Supervisor -----------------------------
(***************************************************************************)
(* mvrun.py: a main thread starts one thread per script, each of which      *)
(* starts its child process, lists it, notes its pid in a file and waits    *)
(* for it.  A signal runs signal_handler on the main thread, wherever that  *)
(* is, beside the other two.  Threads, joins and the interpreter's exit are *)
(* those of Python 3.13, which the README asks for.                         *)
(***************************************************************************)
EXTENDS Naturals, SequencesExt

CONSTANT MaxSignals     \* bound: SIGINT and SIGTERM that arrive

ASSUME SignalAssumption == MaxSignals \in Nat

Children == {"db", "web"}

VARIABLES
  main,      \* where the main thread is; "exit" is the interpreter's wait for
             \* its threads, "cut" the end of the process without them
  handler,   \* the innermost signal_handler under way
  thread,    \* the step run_script of each child is at
  child,     \* the child processes; "asked" has a SIGTERM pending
  tracked,   \* running_processes
  pidFiles,  \* the pid files on disk
  signals,   \* signals that have arrived
  runnable,  \* the children Popen can start
  writable   \* pid files can be written and removed

vars == <<main, handler, thread, child, tracked, pidFiles, signals, runnable, writable>>
config == <<runnable, writable>>

NoHandler == [at |-> "none", i |-> 0]
Alive(c) == child[c] \in {"running", "asked"}

TypeOK ==
  /\ main \in {"start_db", "start_web", "join", "exit", "gone", "cut"}
  /\ handler \in [at : {"none", "scan", "grace", "files"}, i : 0..Len(tracked) + 1]
  /\ thread \in [Children -> {"unborn", "spawn", "track", "note", "wait", "clean", "ended"}]
  /\ child \in [Children -> {"none", "running", "asked", "dead"}]
  /\ tracked \in Seq(Children) /\ IsInjective(tracked)
  /\ pidFiles \subseteq Children
  /\ signals \in 0..MaxSignals
  /\ runnable \subseteq Children /\ writable \in BOOLEAN

\* main() has registered the handler and both pid files; an earlier run that
\* was killed may have left files behind.
Init ==
  /\ main = "start_db" /\ handler = NoHandler
  /\ thread = [c \in Children |-> "unborn"] /\ child = [c \in Children |-> "none"]
  /\ tracked = <<>> /\ signals = 0
  /\ pidFiles \in SUBSET Children
  /\ runnable \in SUBSET Children /\ writable \in BOOLEAN

-----------------------------------------------------------------------------
(* main()                                                                   *)

MainRuns == handler.at = "none"

StartThread(c) ==
  /\ MainRuns /\ main = (IF c = "db" THEN "start_db" ELSE "start_web")
  /\ thread' = [thread EXCEPT ![c] = "spawn"]
  /\ main' = IF c = "db" THEN "start_web" ELSE "join"
  /\ UNCHANGED <<handler, child, tracked, pidFiles, signals, config>>

AllEnded == \A c \in Children : thread[c] \in {"unborn", "ended"}

Joined ==
  /\ MainRuns /\ main = "join" /\ AllEnded
  /\ main' = "exit"
  /\ UNCHANGED <<handler, thread, child, tracked, pidFiles, signals, config>>

\* (mutant) The threads are daemons, which the interpreter does not wait for.
ExitWithoutThreads ==
  /\ MainRuns /\ main = "exit"
  /\ main' = "gone"
  /\ UNCHANGED <<handler, thread, child, tracked, pidFiles, signals, config>>

\* The interpreter waits for the threads that were started before it ends.
Exit ==
  /\ MainRuns /\ main = "exit" /\ AllEnded
  /\ main' = "gone"
  /\ UNCHANGED <<handler, thread, child, tracked, pidFiles, signals, config>>

-----------------------------------------------------------------------------
(* run_script, in a thread of its own until the process is cut off.         *)

ThreadRuns(c, step) == main # "cut" /\ thread[c] = step

Spawn(c) ==
  /\ ThreadRuns(c, "spawn")
  /\ IF c \in runnable
       THEN /\ child' = [child EXCEPT ![c] = "running"]
            /\ thread' = [thread EXCEPT ![c] = "track"]
       ELSE thread' = [thread EXCEPT ![c] = "clean"] /\ UNCHANGED child
  /\ UNCHANGED <<main, handler, tracked, pidFiles, signals, config>>

Track(c) ==
  /\ ThreadRuns(c, "track")
  /\ tracked' = Append(tracked, c)
  /\ thread' = [thread EXCEPT ![c] = "note"]
  /\ UNCHANGED <<main, handler, child, pidFiles, signals, config>>

\* A pid file that cannot be written ends the thread, not the child.
NotePid(c) ==
  /\ ThreadRuns(c, "note")
  /\ IF writable
       THEN /\ pidFiles' = pidFiles \cup {c}
            /\ thread' = [thread EXCEPT ![c] = "wait"]
       ELSE thread' = [thread EXCEPT ![c] = "clean"] /\ UNCHANGED pidFiles
  /\ UNCHANGED <<main, handler, child, tracked, signals, config>>

WaitForChild(c) ==
  /\ ThreadRuns(c, "wait") /\ child[c] = "dead"
  /\ thread' = [thread EXCEPT ![c] = "clean"]
  /\ UNCHANGED <<main, handler, child, tracked, pidFiles, signals, config>>

\* cleanup_pid_file: an error is logged and passed over.
Removed(files) == IF writable THEN pidFiles \ files ELSE pidFiles

CleanUp(c) ==
  /\ ThreadRuns(c, "clean")
  /\ pidFiles' = Removed({c})
  /\ thread' = [thread EXCEPT ![c] = "ended"]
  /\ UNCHANGED <<main, handler, child, tracked, signals, config>>

-----------------------------------------------------------------------------
(* signal_handler                                                           *)

\* A second signal interrupts the handler of the first, whose SystemExit ends
\* them both.
Signal ==
  /\ signals < MaxSignals /\ main \notin {"gone", "cut"}
  /\ signals' = signals + 1
  /\ handler' = [at |-> "scan", i |-> 1]
  /\ UNCHANGED <<main, thread, child, tracked, pidFiles, config>>

Following(h) == [at |-> "scan", i |-> h.i + 1]

\* The loop sees what the threads append while it runs.
PassDead ==
  /\ handler.at = "scan" /\ handler.i <= Len(tracked)
  /\ ~Alive(tracked[handler.i])
  /\ handler' = Following(handler)
  /\ UNCHANGED <<main, thread, child, tracked, pidFiles, signals, config>>

Terminate ==
  /\ handler.at = "scan" /\ handler.i <= Len(tracked)
  /\ Alive(tracked[handler.i])
  /\ child' = [child EXCEPT ![tracked[handler.i]] = "asked"]
  /\ handler' = [handler EXCEPT !.at = "grace"]
  /\ UNCHANGED <<main, thread, tracked, pidFiles, signals, config>>

\* (mutant) Five seconds after SIGTERM the handler goes on to the next child.
AwaitOnly ==
  /\ handler.at = "grace"
  /\ handler' = Following(handler)
  /\ UNCHANGED <<main, thread, child, tracked, pidFiles, signals, config>>

\* The child ends within five seconds, or is killed and waited for.
AwaitOrKill ==
  /\ handler.at = "grace"
  /\ child' = [child EXCEPT ![tracked[handler.i]] = "dead"]
  /\ handler' = Following(handler)
  /\ UNCHANGED <<main, thread, tracked, pidFiles, signals, config>>

\* (mutant) One child is stopped and the loop left.
EndScanEarly ==
  /\ handler.at = "scan" /\ (handler.i > Len(tracked) \/ handler.i > 1)
  /\ handler' = [handler EXCEPT !.at = "files"]
  /\ UNCHANGED <<main, thread, child, tracked, pidFiles, signals, config>>

EndScan ==
  /\ handler.at = "scan" /\ handler.i > Len(tracked)
  /\ handler' = [handler EXCEPT !.at = "files"]
  /\ UNCHANGED <<main, thread, child, tracked, pidFiles, signals, config>>

\* sys.exit(0) leaves main(), or cuts the interpreter's wait for its threads.
Leave == main' = IF main = "exit" THEN "cut" ELSE "exit"

RemoveFilesAndExit ==
  /\ handler.at = "files"
  /\ pidFiles' = Removed(Children)
  /\ handler' = NoHandler /\ Leave
  /\ UNCHANGED <<thread, child, tracked, signals, config>>

-----------------------------------------------------------------------------
\* A child fails, ends on SIGTERM, or on the terminal's own SIGINT.
ChildDies(c) ==
  /\ Alive(c)
  /\ child' = [child EXCEPT ![c] = "dead"]
  /\ UNCHANGED <<main, handler, thread, tracked, pidFiles, signals, config>>

\* The supervisor is gone and nothing it started is left.
Terminated ==
  /\ main \in {"gone", "cut"} /\ \A c \in Children : ~Alive(c)
  /\ UNCHANGED vars

MainStep == (\E c \in Children : StartThread(c)) \/ Joined \/ Exit
HandlerStep == PassDead \/ Terminate \/ AwaitOrKill \/ EndScan \/ RemoveFilesAndExit
ThreadStep(c) == Spawn(c) \/ Track(c) \/ NotePid(c) \/ WaitForChild(c) \/ CleanUp(c)

Next ==
  \/ MainStep \/ Signal \/ HandlerStep
  \/ \E c \in Children : ThreadStep(c) \/ ChildDies(c)
  \/ Terminated

Spec == Init /\ [][Next]_vars

\* The scheduler runs each thread; no child is assumed ever to end by itself.
Fairness ==
  /\ WF_vars(MainStep) /\ WF_vars(HandlerStep)
  /\ \A c \in Children : WF_vars(ThreadStep(c))

FairSpec == Spec /\ Fairness

-----------------------------------------------------------------------------
(* Properties.                                                              *)

\* Where pid files can be written, a supervisor that has ended leaves neither
\* a child running nor a pid file, stale ones of an earlier run included,
\* whenever the signal came; only a second signal during its exit may (mvrun.py,
\* the threads' finally and the handler's "Clean up PID files").
ExitIsClean ==
  main = "gone" /\ writable =>
    pidFiles = {} /\ \A c \in Children : ~Alive(c)

\* When the handler is done with its list, every child listed until then is
\* dead, those listed while it waited for another included ("Terminate all
\* running processes").
ScanStopsAll ==
  [][handler.at = "scan" /\ handler'.at = "files" =>
       \A c \in Range(tracked) : ~Alive(c)]_vars

\* A signal ends the supervisor, though children ignore SIGTERM, provided no
\* thread is between its Popen and its append, or about to start a child.
SignalEnds ==
  handler.at = "scan" /\ (\A c \in Children : thread[c] \notin {"spawn", "track"})
    ~> main \in {"gone", "cut"}
=============================================================================
