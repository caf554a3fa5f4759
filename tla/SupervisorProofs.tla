-------------------------- MODULE SupervisorProofs --------------------------
(***************************************************************************)
(* What holds of mvrun.py for any number of signals, at whatever step of   *)
(* its threads they come.                                                  *)
(***************************************************************************)
EXTENDS Supervisor, TLAPS

\* A thread lists its child once, after it has started it.
ListedIsBorn ==
  \A j \in DOMAIN tracked : thread[tracked[j]] \notin {"unborn", "spawn", "track"}

\* No child before its thread has started it, and none alive after, unless the
\* pid file could not be written.
ChildIsWaitedFor ==
  \A c \in Children :
    /\ thread[c] \in {"unborn", "spawn"} => child[c] = "none"
    /\ writable /\ thread[c] \in {"clean", "ended"} => ~Alive(c)

\* What the handler has passed is dead, and the child it waits for is listed.
PassedAreDead ==
  /\ handler.at \in {"scan", "grace"} =>
       /\ handler.i # 0
       /\ \A j \in DOMAIN tracked : j < handler.i => ~Alive(tracked[j])
  /\ handler.at = "grace" => handler.i \in DOMAIN tracked

\* The threads are started one after the other, each once.
StartOrder ==
  /\ main = "start_db" => thread["db"] = "unborn"
  /\ main \in {"start_db", "start_web"} => thread["web"] = "unborn"
  /\ main = "join" => \A c \in Children : thread[c] # "unborn"
  /\ main = "start_web" => thread["db"] # "unborn"

\* A pid file goes with its thread, or with the handler that left main().
FilesGo ==
  writable =>
    \A c \in Children :
      thread[c] = "ended" \/ (thread[c] = "unborn" /\ main \in {"exit", "gone"})
        => c \notin pidFiles

\* Nothing of the supervisor is left after it.
AfterTheEnd ==
  /\ main \in {"gone", "cut"} => handler.at = "none"
  /\ main = "gone" => AllEnded

SupervisorInv ==
  /\ TypeOK /\ ListedIsBorn /\ ChildIsWaitedFor /\ PassedAreDead
  /\ StartOrder /\ FilesGo /\ AfterTheEnd

LEMMA SupervisorInit == Init => SupervisorInv
<1> SUFFICES ASSUME Init PROVE SupervisorInv
  OBVIOUS
<1> USE DEF Init, NoHandler, Children
<1>1. TypeOK
  BY SignalAssumption DEF TypeOK, IsInjective
<1>2. ListedIsBorn /\ ChildIsWaitedFor /\ PassedAreDead
  BY DEF ListedIsBorn, ChildIsWaitedFor, PassedAreDead, Alive
<1>3. StartOrder /\ FilesGo /\ AfterTheEnd
  BY DEF StartOrder, FilesGo, AfterTheEnd
<1> QED
  BY <1>1, <1>2, <1>3 DEF SupervisorInv

\* main(), while no handler is under way.
LEMMA MainKeeps == SupervisorInv /\ MainStep => SupervisorInv'
<1> SUFFICES ASSUME SupervisorInv, MainStep PROVE SupervisorInv'
  OBVIOUS
<1> USE DEF SupervisorInv, TypeOK, Children, Alive, ListedIsBorn, ChildIsWaitedFor,
        PassedAreDead, StartOrder, FilesGo, AfterTheEnd, config
<1>1. ASSUME NEW c \in Children, StartThread(c) PROVE SupervisorInv'
  BY <1>1 DEF StartThread, MainRuns
<1>2. CASE Joined
  BY <1>2 DEF Joined, MainRuns, AllEnded
<1>3. CASE Exit
  BY <1>3 DEF Exit, MainRuns, AllEnded
<1> QED
  BY <1>1, <1>2, <1>3 DEF MainStep

\* A thread at any of its steps, beside a handler or not.
LEMMA ThreadKeeps ==
  ASSUME SupervisorInv, NEW c \in Children, ThreadStep(c)
  PROVE  SupervisorInv'
<1> USE DEF SupervisorInv, TypeOK, Children, Alive, ListedIsBorn, ChildIsWaitedFor,
        PassedAreDead, StartOrder, FilesGo, AfterTheEnd, AllEnded, config, ThreadRuns
<1>1. CASE Spawn(c)
  BY <1>1 DEF Spawn
<1>2. CASE Track(c)
  <2>1. \A j \in DOMAIN tracked : tracked[j] # c
    BY <1>2 DEF Track
  <2>2. /\ Len(tracked') = Len(tracked) + 1
        /\ tracked' \in Seq(Children)
        /\ DOMAIN tracked' = 1..Len(tracked) + 1 /\ DOMAIN tracked = 1..Len(tracked)
        /\ tracked'[Len(tracked) + 1] = c
        /\ \A j \in DOMAIN tracked : tracked'[j] = tracked[j]
    BY <1>2 DEF Track
  <2>3. IsInjective(tracked')
    BY <2>1, <2>2 DEF IsInjective
  <2>4. TypeOK'
    BY <1>2, <2>2, <2>3 DEF Track
  <2>5. ListedIsBorn' /\ PassedAreDead'
    BY <1>2, <2>2 DEF Track
  <2> QED
    BY <1>2, <2>4, <2>5 DEF Track
<1>3. CASE NotePid(c)
  <2>1. /\ thread[c] = "note"
        /\ UNCHANGED <<main, handler, child, tracked, signals, runnable, writable>>
    BY <1>3 DEF NotePid
  <2>2. \/ writable /\ thread' = [thread EXCEPT ![c] = "wait"]
             /\ pidFiles' = pidFiles \cup {c}
        \/ ~writable /\ thread' = [thread EXCEPT ![c] = "clean"] /\ pidFiles' = pidFiles
    <3> HIDE DEF SupervisorInv, TypeOK, ChildIsWaitedFor, FilesGo
    <3>1. CASE writable
      BY <1>3, <3>1, Zenon DEF NotePid
    <3>2. CASE ~writable
      BY <1>3, <3>2, Zenon DEF NotePid
    <3> QED
      BY <3>1, <3>2, Zenon
  <2>3. TypeOK'
    BY <2>1, <2>2
  <2>4. ListedIsBorn' /\ StartOrder'
    BY <2>1, <2>2
  <2>5. PassedAreDead'
    BY <2>1, <2>2
  <2>6. ChildIsWaitedFor'
    BY <2>1, <2>2
  <2>7. FilesGo'
    BY <2>1, <2>2
  <2>8. AfterTheEnd'
    BY <2>1, <2>2
  <2> QED
    BY <2>3, <2>4, <2>5, <2>6, <2>7, <2>8
<1>4. CASE WaitForChild(c)
  BY <1>4 DEF WaitForChild
<1>5. CASE CleanUp(c)
  <2>1. writable => c \notin pidFiles'
    BY <1>5 DEF CleanUp, Removed
  <2>2. pidFiles' \subseteq pidFiles
    BY <1>5 DEF CleanUp, Removed
  <2>3. /\ thread' = [thread EXCEPT ![c] = "ended"]
        /\ UNCHANGED <<main, handler, child, tracked, signals, runnable, writable>>
        /\ thread[c] = "clean"
    BY <1>5 DEF CleanUp
  <2>4. FilesGo'
    BY <2>1, <2>2, <2>3
  <2> QED
    BY <2>2, <2>3, <2>4
<1> QED
  BY <1>1, <1>2, <1>3, <1>4, <1>5 DEF ThreadStep

\* The handler, and the signals that start it or start it again.
LEMMA HandlerKeeps == SupervisorInv /\ (Signal \/ HandlerStep) => SupervisorInv'
<1> SUFFICES ASSUME SupervisorInv, Signal \/ HandlerStep PROVE SupervisorInv'
  OBVIOUS
<1> USE DEF SupervisorInv, TypeOK, Children, Alive, ListedIsBorn, ChildIsWaitedFor,
        PassedAreDead, StartOrder, FilesGo, AfterTheEnd, AllEnded, config, Following
<1>1. CASE Signal
  BY <1>1, SignalAssumption DEF Signal
<1>2. CASE PassDead
  <2>1. /\ handler.at = "scan" /\ handler.i \in DOMAIN tracked
        /\ ~Alive(tracked[handler.i])
        /\ UNCHANGED <<main, thread, child, tracked, pidFiles, signals, runnable, writable>>
    BY <1>2 DEF PassDead
  <2>2. handler' = [at |-> "scan", i |-> handler.i + 1]
    BY <1>2 DEF PassDead
  <2>3. TypeOK'
    BY <2>1, <2>2
  <2>4. PassedAreDead'
    BY <2>1, <2>2
  <2> QED
    BY <2>1, <2>2, <2>3, <2>4
<1>3. CASE Terminate
  BY <1>3 DEF Terminate
<1>4. CASE AwaitOrKill
  <2>1. /\ handler.at = "grace" /\ handler.i \in DOMAIN tracked
        /\ tracked[handler.i] \in Children
        /\ child' = [child EXCEPT ![tracked[handler.i]] = "dead"]
        /\ handler' = [at |-> "scan", i |-> handler.i + 1]
        /\ UNCHANGED <<main, thread, tracked, pidFiles, signals, runnable, writable>>
    BY <1>4 DEF AwaitOrKill
  <2>2. \A c \in Children : child'[c] \in {child[c], "dead"}
    BY <2>1
  <2>3. thread[tracked[handler.i]] \notin {"unborn", "spawn"}
    BY <2>1
  <2>4. ChildIsWaitedFor'
    BY <2>1, <2>2, <2>3
  <2>5. PassedAreDead'
    BY <2>1, <2>2
  <2>6. TypeOK'
    BY <2>1, <2>2
  <2> QED
    BY <2>1, <2>4, <2>5, <2>6
<1>5. CASE EndScan
  BY <1>5 DEF EndScan
<1>6. CASE RemoveFilesAndExit
  BY <1>6 DEF RemoveFilesAndExit, Removed, Leave, NoHandler
<1> QED
  BY <1>1, <1>2, <1>3, <1>4, <1>5, <1>6 DEF HandlerStep

LEMMA SupervisorStep == SupervisorInv /\ [Next]_vars => SupervisorInv'
<1> SUFFICES ASSUME SupervisorInv, [Next]_vars PROVE SupervisorInv'
  OBVIOUS
<1> USE DEF SupervisorInv, TypeOK, Alive, ListedIsBorn, ChildIsWaitedFor,
        PassedAreDead, StartOrder, FilesGo, AfterTheEnd, AllEnded, config
<1>1. ASSUME NEW c \in Children, ChildDies(c) PROVE SupervisorInv'
  BY <1>1 DEF ChildDies
<1>2. CASE UNCHANGED vars
  BY <1>2 DEF vars
<1> QED
  BY <1>1, <1>2, MainKeeps, ThreadKeeps, HandlerKeeps DEF Next, Terminated

\* A supervisor that has ended, and whose second signal did not cut it off, has
\* left no child running and no pid file, whenever signals came.
THEOREM SupervisorExitsClean == Spec => []ExitIsClean
<1>1. SupervisorInv => ExitIsClean
  BY DEF SupervisorInv, TypeOK, AfterTheEnd, AllEnded, FilesGo, ChildIsWaitedFor,
     ExitIsClean, Alive
<1> QED
  BY <1>1, SupervisorInit, SupervisorStep, PTL DEF Spec

\* The handler ends its loop only when all that is listed is dead, what threads
\* added while it ran included.
THEOREM SupervisorStopsAll == Spec => ScanStopsAll
<1>1. SupervisorInv /\ [Next]_vars =>
        [handler.at = "scan" /\ handler'.at = "files" =>
           \A c \in Range(tracked) : ~Alive(c)]_vars
  <2> SUFFICES ASSUME SupervisorInv, [Next]_vars, handler.at = "scan", handler'.at = "files"
               PROVE  \A c \in Range(tracked) : ~Alive(c)
    OBVIOUS
  <2>1. EndScan
    <3>1. handler' # handler /\ handler.at \notin {"grace", "files"}
      OBVIOUS
    <3>2. ~MainStep /\ ~Terminated /\ ~UNCHANGED vars
      BY <3>1 DEF MainStep, StartThread, Joined, Exit, Terminated, vars
    <3>3. \A c \in Children : ~ThreadStep(c) /\ ~ChildDies(c)
      BY <3>1 DEF ThreadStep, Spawn, Track, NotePid, WaitForChild, CleanUp, ChildDies
    <3>4. ~Signal /\ ~PassDead
      BY DEF Signal, PassDead, Following
    <3>5. ~AwaitOrKill /\ ~RemoveFilesAndExit
      BY <3>1 DEF AwaitOrKill, RemoveFilesAndExit
    <3>6. ~Terminate
      BY DEF Terminate, SupervisorInv, TypeOK
    <3> QED
      BY <3>2, <3>3, <3>4, <3>5, <3>6 DEF Next, HandlerStep
  <2>2. DOMAIN tracked = 1..Len(tracked) /\ handler.i > Len(tracked)
    BY <2>1 DEF EndScan, SupervisorInv, TypeOK
  <2> QED
    BY <2>2 DEF SupervisorInv, PassedAreDead, TypeOK, Range
<1> QED
  BY <1>1, SupervisorInit, SupervisorStep, PTL DEF Spec, ScanStopsAll
=============================================================================
