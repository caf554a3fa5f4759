--------------------------- MODULE StartupProofs ----------------------------
(***************************************************************************)
(* What holds of the startup for every chain of revisions, every set of    *)
(* releases, every database found and both database systems.               *)
(***************************************************************************)
EXTENDS StartupProps, WellFoundedInduction, TLAPS

\* The writer is between raising the flag and taking it back.
InProgress == writer \in {"marked", "upgrade", "tables", "cache", "failed"}

DbShape == db = [objects |-> db.objects, version |-> db.version, flag |-> db.flag]

\* The flag is up at every point of the startup sequence, also of one that
\* repeats what a kill cut off, and down once packets are taken in.
FlagInv ==
  /\ DbShape /\ writer \in WriterPlaces
  /\ InProgress => db.flag
  /\ writer = "ingesting" => ~db.flag

LEMMA FlagInit == Init => FlagInv
<1> SUFFICES ASSUME Init PROVE FlagInv
  OBVIOUS
<1>1. PICK s \in Schemas :
         db = [objects |-> s.objects, version |-> s.version, flag |-> FALSE]
  BY DEF Init
<1>2. DbShape
  BY <1>1 DEF DbShape
<1> QED
  BY <1>2 DEF Init, FlagInv, InProgress, WriterPlaces

LEMMA FlagStep == FlagInv /\ [Next]_vars => FlagInv'
<1> SUFFICES ASSUME FlagInv, [Next]_vars PROVE FlagInv'
  OBVIOUS
<1> USE DEF FlagInv, DbShape, InProgress, WriterPlaces
<1>1. CASE MarkProgress
  BY <1>1 DEF MarkProgress
<1>2. CASE CheckSchema
  BY <1>2 DEF CheckSchema
<1>3. CASE SkipStatement
  BY <1>3 DEF SkipStatement
<1>4. CASE RunStatement
  <2>1. PICK wrote, after :
           db' = IF Autocommits(Statement, wrote) THEN [db EXCEPT !.objects = after]
                 ELSE db
    BY <1>4 DEF RunStatement
  <2>2. db'.flag = db.flag /\ DbShape'
    BY <2>1
  <2> QED
    BY <1>4, <2>2 DEF RunStatement
<1>5. CASE FinishRevision
  <2>1. writer = "upgrade" /\ writer' \in {"upgrade", "tables"}
    BY <1>5 DEF FinishRevision
  <2>2. db'.flag = db.flag /\ DbShape'
    BY <1>5 DEF FinishRevision
  <2> QED
    BY <2>1, <2>2
<1>6. CASE FailUpgrade
  BY <1>6 DEF FailUpgrade, InRevision
<1>7. CASE CreateTables
  <2>1. PICK objects : db' = [db EXCEPT !.objects = objects]
    BY <1>7 DEF CreateTables
  <2> QED
    BY <1>7, <2>1 DEF CreateTables
<1>8. CASE ClearProgress
  BY <1>8 DEF ClearProgress
<1>9. CASE CrashWriter
  BY <1>9 DEF CrashWriter
<1>10. CASE StartReader \/ ReaderStep \/ CrashReader
  BY <1>10 DEF StartReader, ReaderStep, Poll, PollFails, GiveUp, CrashReader
<1>11. CASE Deploy
  BY <1>11 DEF Deploy
<1>12. CASE UNCHANGED vars
  BY <1>12 DEF vars
<1> QED
  BY <1>1, <1>2, <1>3, <1>4, <1>5, <1>6, <1>7, <1>8, <1>9, <1>10, <1>11, <1>12
  DEF Next, WriterStep

\* Of one step: what it changes of the schema it changes under the flag.
LEMMA ChangeStep ==
  ASSUME FlagInv, FlagInv', [Next]_vars
  PROVE  /\ db'.objects # db.objects \/ db'.version # db.version => db.flag
         /\ writer' = "ingesting" => ~db'.flag
<1> USE DEF FlagInv, DbShape, InProgress
<1>1. ASSUME ~db.flag PROVE db'.objects = db.objects /\ db'.version = db.version
  <2>1. ~InProgress
    BY <1>1
  <2>2. CASE MarkProgress
    BY <2>2 DEF MarkProgress
  <2>3. CASE db' = db
    BY <2>3
  <2>4. MarkProgress \/ db' = db
    BY <2>1 DEF Next, WriterStep, CheckSchema, SkipStatement, RunStatement,
       FinishRevision, FailUpgrade, CreateTables, ClearProgress, CrashWriter,
       StartReader, ReaderStep, Poll, PollFails, GiveUp, CrashReader, Deploy,
       InRevision, vars
  <2> QED
    BY <2>2, <2>3, <2>4
<1> QED
  BY <1>1

\* Whatever revisions there are and wherever a kill cuts them off, the schema and
\* its version change only while migration_status says that they may, and the
\* writer takes in packets only after it has taken the flag back.
THEOREM StartupFlagsChanges == Spec => ChangesAreFlagged
<1>1. Init => FlagInv
  BY FlagInit
<1>2. FlagInv /\ [Next]_vars => FlagInv'
  BY FlagStep
<1>3. FlagInv /\ FlagInv' /\ [Next]_vars
        => [/\ db'.objects # db.objects \/ db'.version # db.version => db.flag
            /\ writer' = "ingesting" => ~db'.flag]_vars
  BY ChangeStep
<1> QED
  BY <1>1, <1>2, <1>3, PTL DEF Spec, ChangesAreFlagged

-----------------------------------------------------------------------------
(* When the reader may open its port.                                       *)

\* An upgrade is under way only while the database is not at the installed head:
\* the head is noted by the step that ends it, and no code is installed meanwhile.
BehindInv ==
  /\ DbShape
  /\ writer = "upgrade" => db.version # release

LEMMA BehindStep == BehindInv /\ [Next]_vars => BehindInv'
<1> SUFFICES ASSUME BehindInv, [Next]_vars PROVE BehindInv'
  OBVIOUS
<1> USE DEF BehindInv, DbShape
<1>1. CASE MarkProgress \/ ClearProgress
  BY <1>1 DEF MarkProgress, ClearProgress
<1>2. CASE CheckSchema
  <2>1. UNCHANGED <<db, release>> /\ (writer' = "upgrade" => db.version # release)
    BY <1>2, Zenon DEF CheckSchema, UpToDate
  <2> QED
    BY <2>1
<1>3. CASE SkipStatement \/ FailUpgrade
  BY <1>3 DEF SkipStatement, FailUpgrade
<1>4. CASE RunStatement
  <2>1. PICK wrote, after :
           db' = IF Autocommits(Statement, wrote) THEN [db EXCEPT !.objects = after]
                 ELSE db
    BY <1>4 DEF RunStatement
  <2>2. db'.version = db.version /\ DbShape'
    BY <2>1
  <2> QED
    BY <1>4, <2>2 DEF RunStatement
<1>5. CASE FinishRevision
  <2> DEFINE done == tx.version + 1
  <2>1. UNCHANGED release /\ (writer' = "upgrade" => done # release /\ writer = "upgrade")
    BY <1>5 DEF FinishRevision
  <2>2. /\ db' = db \/ db' = [db EXCEPT !.objects = tx.objects, !.version = done]
    BY <1>5 DEF FinishRevision
  <2> HIDE DEF done
  <2>3. DbShape' /\ (db'.version = db.version \/ db'.version = done)
    BY <2>2
  <2> QED
    BY <2>1, <2>3
<1>6. CASE CreateTables
  <2>1. PICK objects : db' = [db EXCEPT !.objects = objects]
    BY <1>6 DEF CreateTables
  <2> QED
    BY <1>6, <2>1 DEF CreateTables
<1>7. CASE CrashWriter \/ Deploy
  BY <1>7 DEF CrashWriter, Deploy
<1>8. CASE StartReader \/ ReaderStep \/ CrashReader \/ UNCHANGED vars
  BY <1>8 DEF StartReader, ReaderStep, Poll, PollFails, GiveUp, CrashReader, vars
<1> QED
  BY <1>1, <1>2, <1>3, <1>4, <1>5, <1>6, <1>7, <1>8 DEF Next, WriterStep

\* Whatever revisions there are, wherever a kill cuts them off and whatever is
\* installed meanwhile, the reader opens its port only at the head and never during
\* an upgrade; where a database at the head is whole, it opens on a whole schema.
THEOREM ReaderServesAtHead == Spec /\ []HeadIsWhole => ServesWholeSchema
<1>1. Init => BehindInv
  BY FlagInit DEF Init, BehindInv, FlagInv
<1>2. BehindInv /\ HeadIsWhole /\ [Next]_vars
        => [reader # "serving" /\ reader' = "serving" =>
              /\ db.version = release /\ writer # "upgrade"
              /\ Rows(db.objects) = Rows(Shape[release])]_vars
  <2> SUFFICES ASSUME BehindInv, HeadIsWhole, [Next]_vars,
                      reader # "serving", reader' = "serving"
               PROVE  /\ db.version = release /\ writer # "upgrade"
                      /\ Rows(db.objects) = Rows(Shape[release])
    OBVIOUS
  <2>1. CASE Poll
    <3>1. db.version = release
      BY <2>1, Zenon DEF Poll, UpToDate
    <3> QED
      BY <3>1 DEF BehindInv, HeadIsWhole
  <2>2. ~Poll => FALSE
    BY DEF Next, WriterStep, MarkProgress, CheckSchema, SkipStatement, RunStatement,
       FinishRevision, FailUpgrade, CreateTables, ClearProgress, CrashWriter,
       StartReader, ReaderStep, PollFails, GiveUp, CrashReader, Deploy, readerVars, vars
  <2> QED
    BY <2>1, <2>2
<1>3. BehindInv /\ [Next]_vars => BehindInv'
  BY BehindStep
<1> QED
  BY <1>1, <1>2, <1>3, PTL DEF Spec, ServesWholeSchema

-----------------------------------------------------------------------------
(* What the revisions make of a schema, statement by statement.             *)

LEMMA LeastOf ==
  ASSUME NEW T \in SUBSET Nat, T # {}
  PROVE  \E x \in T : \A y \in T : x <= y
<1>1. PICK x \in T : \A y \in T : <<y, x>> \notin OpToRel(<, Nat)
  BY WFMin, NatLessThanWellFounded, Zenon
<1>2. \A y \in T : ~(y < x)
  BY <1>1, Zenon DEF OpToRel
<1> QED
  BY <1>2

\* A recursion over an interval defines a function: take the least number up to
\* which none follows it.
LEMMA RecursionDefines ==
  ASSUME NEW V, NEW base \in V, NEW N \in Nat, NEW G \in [1..N -> [V -> V]]
  PROVE  \E f \in [0..N -> V] : f[0] = base /\ \A n \in 1..N : f[n] = G[n][f[n - 1]]
<1> DEFINE Follows(f, m) ==
             /\ f \in [0..m -> V] /\ f[0] = base
             /\ \A n \in 1..m : f[n] = G[n][f[n - 1]]
           Bad == {m \in 0..N : ~\E f : Follows(f, m)}
<1>1. Bad = {}
  <2> SUFFICES ASSUME Bad # {} PROVE FALSE
    OBVIOUS
  <2>1. PICK m \in Bad : \A k \in Bad : m <= k
    <3>1. Bad \in SUBSET Nat
      OBVIOUS
    <3> HIDE DEF Bad
    <3> QED
      BY <3>1, LeastOf
  <2>2. m \in 0..N /\ ~\E f : Follows(f, m)
    OBVIOUS
  <2>3. m # 0
    <3> SUFFICES ASSUME m = 0 PROVE FALSE
      OBVIOUS
    <3>1. Follows([n \in 0..0 |-> base], 0)
      OBVIOUS
    <3> QED
      BY <2>2, <3>1
  <2>4. m - 1 \in 0..N /\ m - 1 \notin Bad
    BY <2>1, <2>2, <2>3
  <2>5. PICK f : Follows(f, m - 1)
    BY <2>4
  <2> DEFINE g == [n \in 0..m |-> IF n = m THEN G[m][f[m - 1]] ELSE f[n]]
  <2>6. m - 1 \in 0..(m - 1) /\ f[m - 1] \in V /\ m \in 1..N
    BY <2>2, <2>3, <2>5
  <2>7. G[m][f[m - 1]] \in V
    BY <2>6
  <2>8. g \in [0..m -> V]
    <3>1. \A n \in 0..m : n # m => n \in 0..(m - 1)
      BY <2>2
    <3> QED
      BY <2>5, <2>7, <3>1
  <2>9. g[0] = base
    BY <2>2, <2>3, <2>5
  <2>10. ASSUME NEW n \in 1..m PROVE g[n] = G[n][g[n - 1]]
    <3>1. CASE n = m
      BY <2>2, <2>3, <3>1
    <3>2. CASE n # m
      <4>1. n \in 1..(m - 1) /\ n - 1 \in 0..m /\ n - 1 # m /\ n \in 0..m
        BY <2>2, <3>2
      <4> QED
        BY <2>5, <3>2, <4>1
    <3> QED
      BY <3>1, <3>2
  <2> QED
    BY <2>2, <2>8, <2>9, <2>10
<1>2. N \in 0..N
  OBVIOUS
<1>3. PICK f : Follows(f, N)
  BY <1>1, <1>2
<1> QED
  BY <1>3

\* What begins in a set and never leaves it in a step stays in it.
LEMMA RecursionStays ==
  ASSUME NEW V, NEW N \in Nat, NEW f, f[0] \in V,
         \A n \in 1..N : f[n - 1] \in V => f[n] \in V
  PROVE  \A n \in 0..N : f[n] \in V
<1> DEFINE Bad == {m \in 0..N : f[m] \notin V}
<1>1. Bad = {}
  <2> SUFFICES ASSUME Bad # {} PROVE FALSE
    OBVIOUS
  <2>1. PICK m \in Bad : \A k \in Bad : m <= k
    <3>1. Bad \in SUBSET Nat
      OBVIOUS
    <3> HIDE DEF Bad
    <3> QED
      BY <3>1, LeastOf
  <2>2. m \in 1..N /\ f[m] \notin V
    OBVIOUS
  <2>3. f[m - 1] \in V
    BY <2>1, <2>2
  <2> QED
    BY <2>2, <2>3
<1> QED
  BY <1>1

\* The objects a sequence of statements may add.
Added(stmts) == UNION {stmts[n].adds : n \in 1..Len(stmts)}

LEMMA StagesUnfold ==
  ASSUME NEW before, NEW stmts, NEW sure, Len(stmts) \in Nat
  PROVE  /\ Stages(before, stmts, sure)[0] = before
         /\ \A n \in 1..Len(stmts) :
              Stages(before, stmts, sure)[n]
                = After(stmts[n], before, Stages(before, stmts, sure)[n - 1], sure)
         /\ \A n \in 0..Len(stmts) :
              Stages(before, stmts, sure)[n] \subseteq before \cup Added(stmts)
<1> DEFINE V == SUBSET (before \cup Added(stmts))
           N == Len(stmts)
           G == [n \in 1..N |-> [objects \in V |-> After(stmts[n], before, objects, sure)]]
           Is(f) == f = [n \in 0..N |-> IF n = 0 THEN before
                                        ELSE After(stmts[n], before, f[n - 1], sure)]
<1>1. \A n \in 1..N : Adds(stmts[n], sure) \subseteq Added(stmts)
  BY DEF Added, Adds, Rows
<1>2. \A n \in 1..N : \A objects \in V : After(stmts[n], before, objects, sure) \in V
  BY <1>1 DEF After
<1> HIDE DEF V
<1>3. before \in V /\ G \in [1..N -> [V -> V]]
  <2>1. before \in V
    BY DEF V
  <2>2. G \in [1..N -> [V -> V]]
    BY <1>2
  <2> QED
    BY <2>1, <2>2
<1>4. \A n \in 1..N : \A objects \in V : G[n][objects] = After(stmts[n], before, objects, sure)
  OBVIOUS
<1> HIDE DEF G, N
<1>5. N \in Nat
  BY DEF N
<1>6. PICK f \in [0..N -> V] : f[0] = before /\ \A n \in 1..N : f[n] = G[n][f[n - 1]]
  <2>1. \A base \in V : \E f \in [0..N -> V] :
           f[0] = base /\ \A n \in 1..N : f[n] = G[n][f[n - 1]]
    BY <1>3, <1>5, RecursionDefines
  <2> QED
    BY <1>3, <2>1
<1>7. Is(f)
  <2>1. \A n \in 0..N : n # 0 => n \in 1..N /\ n - 1 \in 0..N
    BY <1>5
  <2>2. \A n \in 0..N : n # 0 => f[n] = After(stmts[n], before, f[n - 1], sure)
    BY <1>4, <1>6, <2>1
  <2>3. f = [n \in 0..N |-> f[n]]
    OBVIOUS
  <2> QED
    BY <1>6, <2>2, <2>3
<1> DEFINE S == Stages(before, stmts, sure)
<1>8. Is(S)
  <2>1. S = CHOOSE g : Is(g)
    BY DEF Stages, N
  <2> HIDE DEF Is, S
  <2> QED
    BY <1>7, <2>1, Zenon
<1> HIDE DEF S
<1>9. S[0] = before /\ \A n \in 1..N : S[n] = After(stmts[n], before, S[n - 1], sure)
  <2>1. \A n \in 1..N : n \in 0..N /\ n # 0
    BY <1>5
  <2> QED
    BY <1>5, <1>8, <2>1
<1>10. \A n \in 0..N : S[n] \in V
  <2>1. \A n \in 1..N : S[n - 1] \in V => S[n] \in V
    BY <1>2, <1>9
  <2> QED
    BY <1>3, <1>5, <1>9, <2>1, RecursionStays
<1> QED
  BY <1>9, <1>10 DEF V, N, S

LEMMA UpgradedUnfold ==
  ASSUME NEW s, NEW sure, s.version \in Nat
  PROVE  \A k \in 0..Len(Chain) :
           Upgraded(s, sure)[k] =
             IF k <= s.version THEN s.objects
             ELSE Stages(Upgraded(s, sure)[k - 1], Chain[k], sure)[Len(Chain[k])]
<1> DEFINE N == Len(Chain)
           V == SUBSET (s.objects \cup UNION {Added(Chain[k]) : k \in 1..N})
           Made(k, before) == IF k <= s.version THEN s.objects
                              ELSE Stages(before, Chain[k], sure)[Len(Chain[k])]
           G == [k \in 1..N |-> [before \in V |-> Made(k, before)]]
<1>1. ASSUME NEW k \in 1..N, NEW before \in V PROVE Made(k, before) \in V
  <2>1. Len(Chain[k]) \in Nat /\ Len(Chain[k]) \in 0..Len(Chain[k])
    BY StartupAssumption
  <2>2. Stages(before, Chain[k], sure)[Len(Chain[k])] \subseteq before \cup Added(Chain[k])
    BY <2>1, StagesUnfold
  <2> QED
    BY <2>2
<1>2. s.objects \in V /\ \A before : Made(0, before) = s.objects
  OBVIOUS
<1> HIDE DEF V, Made
<1>3. G \in [1..N -> [V -> V]]
  BY <1>1
<1>4. \A k \in 1..N : \A before \in V : G[k][before] = Made(k, before)
  OBVIOUS
<1> HIDE DEF G, N
<1>5. N \in Nat
  BY StartupAssumption DEF N
<1>6. PICK f \in [0..N -> V] : f[0] = s.objects /\ \A n \in 1..N : f[n] = G[n][f[n - 1]]
  <2>1. \A base \in V : \E f \in [0..N -> V] :
           f[0] = base /\ \A n \in 1..N : f[n] = G[n][f[n - 1]]
    BY <1>3, <1>5, RecursionDefines, Z3
  <2> QED
    BY <1>2, <2>1
<1> DEFINE Is(g) == g = [k \in 0..N |-> Made(k, g[k - 1])]
<1>7. Is(f)
  <2>1. \A k \in 0..N : k # 0 => k \in 1..N /\ k - 1 \in 0..N
    BY <1>5
  <2>2. \A k \in 0..N : f[k] = Made(k, f[k - 1])
    BY <1>2, <1>4, <1>6, <2>1
  <2>3. f = [k \in 0..N |-> f[k]]
    OBVIOUS
  <2> QED
    BY <2>2, <2>3
<1> DEFINE U == Upgraded(s, sure)
<1>8. Is(U)
  <2>1. U = CHOOSE g : Is(g)
    BY DEF Upgraded, N, Made
  <2> HIDE DEF Is, U
  <2> QED
    BY <1>7, <2>1, Zenon
<1> HIDE DEF U
<1>9. \A k \in 0..N : U[k] = Made(k, U[k - 1])
  BY <1>8
<1> QED
  BY <1>9 DEF N, Made, U

-----------------------------------------------------------------------------
(* The way of a database from one version to the next.                      *)

\* A release is one of the numbers of the chain.
LEMMA ReleaseInChain ==
  ASSUME release \in Releases PROVE release \in 1..Len(Chain) /\ Len(Chain) \in Nat
BY StartupAssumption

LEMMA WayUnfold ==
  ASSUME NEW s \in Schemas, NEW k \in s.version..Len(Chain), NEW sure
  PROVE  /\ Len(Onward(k)) \in Nat
         /\ Way(s, k, sure)[0] = Upgraded(s, sure)[k]
         /\ \A n \in 1..Len(Onward(k)) :
              Way(s, k, sure)[n]
                = After(Onward(k)[n], Way(s, k, sure)[0], Way(s, k, sure)[n - 1], sure)
         /\ k < Len(Chain) =>
              /\ Onward(k) = Chain[k + 1]
              /\ Upgraded(s, sure)[k + 1] = Way(s, k, sure)[Len(Onward(k))]
<1>1. s.version \in Nat /\ k \in 0..Len(Chain) /\ Len(Chain) \in Nat
  BY FoundAssumption, StartupAssumption
<1>2. Len(Onward(k)) \in Nat
  <2>1. CASE k < Len(Chain)
    <3>1. k + 1 \in 1..Len(Chain)
      BY <1>1, <2>1
    <3> QED
      BY <2>1, <3>1, StartupAssumption DEF Onward
  <2>2. CASE ~(k < Len(Chain))
    BY <2>2 DEF Onward
  <2> QED
    BY <2>1, <2>2
<1>3. ASSUME k < Len(Chain)
      PROVE  /\ Onward(k) = Chain[k + 1]
             /\ Upgraded(s, sure)[k + 1] = Way(s, k, sure)[Len(Onward(k))]
  <2>1. k + 1 \in 0..Len(Chain) /\ ~(k + 1 <= s.version) /\ (k + 1) - 1 = k
    BY <1>1, <1>3
  <2>2. Upgraded(s, sure)[k + 1]
          = Stages(Upgraded(s, sure)[k], Chain[k + 1], sure)[Len(Chain[k + 1])]
    BY <1>1, <2>1, UpgradedUnfold
  <2> QED
    BY <1>3, <2>2 DEF Onward, Way
<1> QED
  BY <1>2, <1>3, StagesUnfold DEF Way

LEMMA WayStart ==
  ASSUME NEW s \in Schemas, NEW k \in s.version..Len(Chain)
  PROVE  Way(s, k, FALSE)[0] = Upgraded(s, FALSE)[k]
<1> DEFINE no == FALSE
<1> HIDE DEF no
<1>1. Way(s, k, no)[0] = Upgraded(s, no)[k]
  BY WayUnfold
<1> QED
  BY <1>1 DEF no

\* What is found is where the way of a database begins.
LEMMA WayBegins ==
  ASSUME NEW s \in Schemas, NEW sure PROVE Way(s, s.version, sure)[0] = s.objects
<1>1. s.version \in Nat /\ s.version \in s.version..Len(Chain) /\ s.version \in 0..Len(Chain)
  BY FoundAssumption, StartupAssumption
<1>2. Upgraded(s, sure)[s.version] = s.objects
  BY <1>1, UpgradedUnfold
<1> QED
  BY <1>1, <1>2, WayUnfold

-----------------------------------------------------------------------------
(* An upgrade that is cut off and done again.                               *)

TxShape ==
  tx = [objects |-> tx.objects, version |-> tx.version, seen |-> tx.seen,
        next |-> tx.next, open |-> tx.open]

VersionsInOrder ==
  /\ DbShape /\ TxShape
  /\ release \in Releases /\ db.version \in 0..release
  /\ writer = "upgrade" => tx.version \in db.version..(release - 1)

\* Between the least and the most that is there after m statements.
Between(s, k, m, objects) ==
  Way(s, k, TRUE)[m] \subseteq objects /\ objects \subseteq Way(s, k, FALSE)[m]

\* How far an upgrade has got that has the n-th statement before it, where it began
\* after m.
Reached(m, n) == IF m < n THEN n - 1 ELSE m

\* Where DDL is transactional: until the last revision is noted nothing of an upgrade
\* is in the database, so a kill leaves it as a whole upgrade had.
Whole(s) ==
  /\ db.objects = Upgraded(s, FALSE)[db.version]
  /\ writer = "upgrade" =>
       /\ tx.next \in 1..(Len(Onward(tx.version)) + 1)
       /\ tx.seen = Way(s, tx.version, FALSE)[0]
       /\ tx.objects = Way(s, tx.version, FALSE)[tx.next - 1]

\* Where it is not: the upgrade goes on from where the last one was cut off, and what
\* it has not committed it loses when it is cut off itself.
Resuming(s, m) ==
  /\ Resumable(tx.version, m) /\ tx.version = db.version
  /\ tx.next \in 1..(Len(Onward(tx.version)) + 1)
  /\ Between(s, tx.version, m, tx.seen)
  /\ Between(s, tx.version, Reached(m, tx.next), tx.objects)
  /\ ~tx.open => /\ tx.objects = db.objects
                 /\ Resumable(tx.version, Reached(m, tx.next))

Halfway(s) ==
  /\ \E m \in 0..Len(Onward(db.version)) :
       /\ Resumable(db.version, m) /\ (m = 0 \/ db.version # release)
       /\ Between(s, db.version, m, db.objects)
  /\ writer = "upgrade" => \E m \in 0..Len(Onward(tx.version)) : Resuming(s, m)

\* Database s is on its way.
WayInv(s) ==
  /\ VersionsInOrder /\ s.version <= db.version
  /\ IF Transactional THEN Whole(s) ELSE Halfway(s)
  /\ writer = "tables" => db.version = release

\* Versions only go up.
LEMMA VersionsStep ==
  ASSUME VersionsInOrder, [Next]_vars PROVE VersionsInOrder' /\ db.version <= db'.version
<1> USE DEF VersionsInOrder, DbShape, TxShape
<1>0. release \in Nat \ {0}
  BY ReleaseInChain
<1>1. CASE MarkProgress \/ ClearProgress
  BY <1>1 DEF MarkProgress, ClearProgress
<1>2. CASE CheckSchema
  <2>1. UNCHANGED <<db, release>>
    BY <1>2 DEF CheckSchema
  <2>2. CASE writer' = "tables" /\ tx' = tx
    BY <2>1, <2>2
  <2>3. CASE /\ db.version # release
             /\ tx' = [NoUpgrade EXCEPT !.objects = db.objects, !.version = db.version,
                                        !.seen = db.objects]
    <3>1. TxShape' /\ tx'.version = db.version
      BY <2>3 DEF NoUpgrade
    <3> QED
      BY <1>0, <2>1, <2>3, <3>1
  <2> QED
    BY <1>2, <2>2, <2>3, Zenon DEF CheckSchema, UpToDate
<1>3. CASE SkipStatement \/ FailUpgrade \/ CrashWriter
  BY <1>3 DEF SkipStatement, FailUpgrade, CrashWriter, NoUpgrade
<1>4. CASE RunStatement
  <2> DEFINE after == (tx.objects \cup Statement.adds) \ Statement.drops
  <2>1. PICK wrote \in Statement.writes :
           /\ db' = IF Autocommits(Statement, wrote) THEN [db EXCEPT !.objects = after]
                    ELSE db
           /\ tx' = [tx EXCEPT !.objects = after, !.next = @ + 1, !.open = @ \/ wrote]
    BY <1>4 DEF RunStatement
  <2> HIDE DEF after
  <2>2. db'.version = db.version /\ DbShape'
    BY <2>1
  <2>3. tx'.version = tx.version /\ TxShape'
    BY <2>1
  <2> QED
    BY <1>4, <2>2, <2>3 DEF RunStatement
<1>5. CASE FinishRevision
  <2> DEFINE done == tx.version + 1
  <2>1. UNCHANGED release /\ writer = "upgrade"
        /\ \/ done = release /\ writer' = "tables" /\ tx' = NoUpgrade
           \/ /\ done # release /\ writer' = "upgrade"
              /\ tx' = [tx EXCEPT !.version = done, !.next = 1, !.open = FALSE,
                                  !.seen = tx.objects]
    BY <1>5 DEF FinishRevision
  <2>2. db' = db \/ db' = [db EXCEPT !.objects = tx.objects, !.version = done]
    BY <1>5 DEF FinishRevision
  <2>3. done \in 1..release /\ db.version < done
    BY <1>0, <2>1
  <2> HIDE DEF done
  <2>4. DbShape' /\ db'.version \in 0..release /\ db.version <= db'.version
      /\ (db' = db \/ db'.version = done)
    <3>1. CASE db' = db
      BY <2>1, <3>1
    <3>2. CASE db' = [db EXCEPT !.objects = tx.objects, !.version = done]
      <4>1. db' = [objects |-> tx.objects, version |-> done, flag |-> db.flag]
        BY <3>2
      <4> QED
        BY <2>3, <4>1
    <3> QED
      BY <2>2, <3>1, <3>2
  <2>5. TxShape' /\ (writer' = "upgrade" => done # release /\ tx'.version = done)
    <3>1. CASE writer' = "tables" /\ tx' = NoUpgrade
      BY <3>1 DEF NoUpgrade
    <3>2. CASE /\ done # release
               /\ tx' = [tx EXCEPT !.version = done, !.next = 1, !.open = FALSE,
                                   !.seen = tx.objects]
      <4>1. tx' = [objects |-> tx.objects, version |-> done, seen |-> tx.objects,
                   next |-> 1, open |-> FALSE]
        BY <3>2
      <4> QED
        BY <3>2, <4>1
    <3> QED
      BY <2>1, <3>1, <3>2
  <2>6. writer' = "upgrade" => tx'.version \in db'.version..(release' - 1)
    <3> SUFFICES ASSUME writer' = "upgrade" PROVE tx'.version \in db'.version..(release' - 1)
      OBVIOUS
    <3>1. tx'.version = done /\ done # release /\ db'.version <= done
      BY <2>1, <2>3, <2>4, <2>5
    <3> QED
      BY <1>0, <2>1, <2>3, <2>4, <3>1
  <2>7. release' = release /\ release \in Releases /\ DbShape' /\ TxShape'
    BY <2>1, <2>4, <2>5
  <2>8. release' \in Releases /\ db'.version \in 0..release' /\ db.version <= db'.version
    BY <2>4, <2>7
  <2> QED
    BY <2>6, <2>7, <2>8, Zenon
<1>6. CASE CreateTables
  <2>1. PICK objects : db' = [db EXCEPT !.objects = objects]
    BY <1>6 DEF CreateTables
  <2>2. DbShape' /\ db'.version = db.version
    BY <2>1
  <2>3. writer' # "upgrade" /\ UNCHANGED <<release, tx>> /\ db.version <= db.version
    BY <1>0, <1>6 DEF CreateTables
  <2> QED
    BY <2>2, <2>3
<1>7. CASE Deploy
  <2>1. PICK r \in Releases : r > release /\ release' = r
    BY <1>7 DEF Deploy
  <2>2. r \in Nat
    BY StartupAssumption
  <2>3. UNCHANGED <<db, tx, writer>> /\ writer # "upgrade"
    BY <1>7 DEF Deploy
  <2> QED
    BY <1>0, <2>1, <2>2, <2>3
<1>8. CASE StartReader \/ ReaderStep \/ CrashReader \/ UNCHANGED vars
  BY <1>8 DEF StartReader, ReaderStep, Poll, PollFails, GiveUp, CrashReader, vars
<1> QED
  BY <1>1, <1>2, <1>3, <1>4, <1>5, <1>6, <1>7, <1>8 DEF Next, WriterStep

\* The revision an upgrade works on is the one its way leads on by.
LEMMA RevisionIsOnward ==
  ASSUME NEW s \in Schemas, VersionsInOrder, s.version <= db.version, writer = "upgrade"
  PROVE  /\ tx.version \in s.version..Len(Chain) /\ tx.version < Len(Chain)
         /\ tx.version + 1 \in s.version..Len(Chain)
         /\ Onward(tx.version) = Revision /\ Len(Revision) \in Nat
<1>1. s.version \in Nat /\ release \in 1..Len(Chain) /\ Len(Chain) \in Nat
  BY FoundAssumption, ReleaseInChain DEF VersionsInOrder
<1>2. tx.version \in db.version..(release - 1) /\ db.version \in Nat
  BY DEF VersionsInOrder
<1>3. tx.version \in s.version..Len(Chain) /\ tx.version < Len(Chain)
      /\ tx.version + 1 \in s.version..Len(Chain)
  BY <1>1, <1>2
<1> QED
  BY <1>3, WayUnfold DEF Revision, Onward

\* A schema in between skips the statements that the most that may be there skips: the
\* guards ask for tables and columns.
LEMMA SkippedAlike ==
  ASSUME NEW s \in Schemas, NEW k \in s.version..Len(Chain), k < Len(Chain),
         NEW m \in 0..Len(Onward(k)), NEW n \in 1..Len(Onward(k)),
         NEW seen, Between(s, k, m, seen)
  PROVE  Passes(Onward(k)[n], seen) <=> Passes(Onward(k)[n], Way(s, k, FALSE)[m])
<1> DEFINE x == Onward(k)[n]
           most == Way(s, k, FALSE)[m]
           least == Way(s, k, TRUE)[m]
<1>1. Rows(most) \subseteq least /\ least \subseteq seen /\ seen \subseteq most
  BY ChainResumes DEF Between
<1>2. k + 1 \in 1..Len(Chain) /\ Onward(k) = Chain[k + 1]
  <2>1. s.version \in Nat /\ Len(Chain) \in Nat
    BY FoundAssumption, StartupAssumption
  <2> QED
    BY <2>1, WayUnfold
<1>3. Rows(x.unless \cup x.given) = x.unless \cup x.given
  BY <1>2, FoundAssumption
<1> HIDE DEF x, most, least
<1>4. \A o \in x.unless \cup x.given : o \in seen <=> o \in most
  BY <1>1, <1>3 DEF Rows
<1> QED
  BY <1>4 DEF Passes, x, most

\* Done again, a statement leads where the first upgrade had got or one step on.
LEMMA StatementResumes ==
  ASSUME NEW s \in Schemas, NEW k \in s.version..Len(Chain), k < Len(Chain),
         NEW m \in 0..Len(Onward(k)), NEW n \in 1..Len(Onward(k)), Resumable(k, m),
         NEW seen, Between(s, k, m, seen),
         NEW objects, Between(s, k, Reached(m, n), objects)
  PROVE  LET x == Onward(k)[n] IN
         /\ Passes(x, seen) => /\ Between(s, k, Reached(m, n + 1), objects)
                               /\ m < n => FALSE \in x.writes
         /\ ~Passes(x, seen) /\ x.adds \cap objects = {} /\ x.needs \subseteq objects =>
              Between(s, k, Reached(m, n + 1), (objects \cup x.adds) \ x.drops)
<1> DEFINE x == Onward(k)[n]
           most == Way(s, k, FALSE)
           least == Way(s, k, TRUE)
           p == Reached(m, n)
           q == Reached(m, n + 1)
<1>1. p = (IF m < n THEN n - 1 ELSE m) /\ q = (IF m < n THEN n ELSE m)
  BY WayUnfold DEF Reached
<1>2. \/ /\ Passes(x, most[m])
         /\ least[q] \subseteq least[p] /\ most[p] \subseteq most[q]
         /\ m < n => FALSE \in x.writes
      \/ /\ ~Passes(x, most[m])
         /\ x.adds \cap least[p] # {} \/ ~(x.needs \subseteq most[p])
      \/ /\ ~Passes(x, most[m])
         /\ least[q] \subseteq (least[p] \cup x.adds) \ x.drops
         /\ (most[p] \cup x.adds) \ x.drops \subseteq most[q]
  BY <1>1, ChainResumes
<1>3. Passes(x, seen) <=> Passes(x, most[m])
  BY SkippedAlike
<1>4. least[p] \subseteq objects /\ objects \subseteq most[p]
  BY DEF Between
<1> HIDE DEF x, most, least, p, q
<1>5. CASE Passes(x, seen)
  <2>1. least[q] \subseteq objects /\ objects \subseteq most[q] /\ (m < n => FALSE \in x.writes)
    BY <1>2, <1>3, <1>4, <1>5
  <2> QED
    BY <1>5, <2>1 DEF Between, x, most, least, q
<1>6. CASE ~Passes(x, seen) /\ x.adds \cap objects = {} /\ x.needs \subseteq objects
  <2> DEFINE made == (objects \cup x.adds) \ x.drops
  <2>1. /\ least[q] \subseteq (least[p] \cup x.adds) \ x.drops
        /\ (most[p] \cup x.adds) \ x.drops \subseteq most[q]
    BY <1>2, <1>3, <1>4, <1>6
  <2>2. least[q] \subseteq made /\ made \subseteq most[q]
    BY <1>4, <2>1
  <2> QED
    BY <1>6, <2>2 DEF Between, x, most, least, q
<1> QED
  BY <1>5, <1>6 DEF x

-----------------------------------------------------------------------------
(* The steps that keep a database on its way.                               *)

\* An upgrade begins where the database is.
LEMMA WayEntered ==
  ASSUME NEW s \in Schemas, WayInv(s), CheckSchema, VersionsInOrder'
  PROVE  IF Transactional THEN Whole(s)' ELSE Halfway(s)'
<1>1. UNCHANGED <<dialect, db, release>>
  BY DEF CheckSchema
<1>2. CASE writer' # "upgrade"
  BY <1>1, <1>2 DEF WayInv, Whole, Halfway, Between
<1>3. CASE writer' = "upgrade"
  <2>1. tx' = [NoUpgrade EXCEPT !.objects = db.objects, !.version = db.version,
                                !.seen = db.objects]
    BY <1>3 DEF CheckSchema
  <2>2. /\ tx'.version = db.version /\ tx'.next = 1 /\ tx'.open = FALSE
        /\ tx'.seen = db.objects /\ tx'.objects = db.objects
    BY <2>1 DEF NoUpgrade
  <2>3. db.version \in s.version..Len(Chain) /\ Len(Onward(db.version)) \in Nat
    <3>1. db.version \in s.version..Len(Chain)
      BY FoundAssumption, ReleaseInChain DEF WayInv, VersionsInOrder
    <3> QED
      BY <3>1, WayUnfold
  <2>4. tx'.next \in 1..(Len(Onward(tx'.version)) + 1)
    BY <2>2, <2>3
  <2>5. CASE Transactional
    <3>1. db.objects = Upgraded(s, FALSE)[db.version]
          /\ Way(s, db.version, FALSE)[0] = Upgraded(s, FALSE)[db.version]
      <4>1. db.objects = Upgraded(s, FALSE)[db.version]
        BY <2>5 DEF WayInv, Whole
      <4>2. Way(s, db.version, FALSE)[0] = Upgraded(s, FALSE)[db.version]
        BY <2>3, WayUnfold
      <4> QED
        BY <4>1, <4>2
    <3>2. tx'.next - 1 = 0 /\ Transactional'
      BY <1>1, <2>2, <2>5 DEF Transactional
    <3> QED
      BY <1>1, <2>2, <2>4, <2>5, <3>1, <3>2 DEF Whole
  <2>6. CASE ~Transactional
    <3>1. PICK m \in 0..Len(Onward(db.version)) :
             /\ Resumable(db.version, m) /\ (m = 0 \/ db.version # release)
             /\ Between(s, db.version, m, db.objects)
      BY <2>6 DEF WayInv, Halfway
    <3>2. Reached(m, 1) = m
      BY <2>3 DEF Reached
    <3>3. Resuming(s, m)'
      BY <1>1, <2>2, <2>4, <3>1, <3>2 DEF Resuming, Between
    <3> QED
      BY <1>1, <2>2, <2>6, <3>1, <3>3 DEF Halfway, Between
  <2> QED
    BY <2>5, <2>6
<1> QED
  BY <1>2, <1>3

\* A statement is skipped or run.
LEMMA WayWorked ==
  ASSUME NEW s \in Schemas, WayInv(s), SkipStatement \/ RunStatement, VersionsInOrder'
  PROVE  IF Transactional THEN Whole(s)' ELSE Halfway(s)'
<1> DEFINE k == tx.version
           n == tx.next
<1>1. writer = "upgrade" /\ InRevision /\ UNCHANGED <<dialect, writer, release>>
  BY DEF SkipStatement, RunStatement, InRevision
<1>2. /\ VersionsInOrder /\ DbShape /\ TxShape
      /\ k \in s.version..Len(Chain) /\ k < Len(Chain)
      /\ Onward(k) = Revision /\ Len(Revision) \in Nat
  BY <1>1, RevisionIsOnward DEF WayInv, VersionsInOrder
<1>3. n \in 1..Len(Onward(k)) /\ Statement = Onward(k)[n]
  <2>1. CASE Transactional
    BY <1>1, <1>2, <2>1 DEF WayInv, Whole, InRevision, Statement
  <2>2. CASE ~Transactional
    <3>1. PICK m : Resuming(s, m)
      BY <1>1, <2>2 DEF WayInv, Halfway
    <3> QED
      BY <1>1, <1>2, <3>1 DEF Resuming, InRevision, Statement
  <2> QED
    BY <2>1, <2>2
<1>4. Statement.writes \subseteq BOOLEAN
  <2>1. k + 1 \in 1..Len(Chain) /\ Onward(k) = Chain[k + 1]
    <3>1. s.version \in Nat /\ Len(Chain) \in Nat
      BY FoundAssumption, StartupAssumption
    <3> QED
      BY <1>2, <3>1, WayUnfold
  <2> QED
    BY <1>3, <2>1, StartupAssumption
<1> DEFINE made == tx'.objects
           open == tx'.open
           ran == (tx.objects \cup Statement.adds) \ Statement.drops
<1>5. /\ tx'.next = n + 1 /\ tx'.version = k /\ tx'.seen = tx.seen
      /\ \/ /\ Passes(Statement, tx.seen)
            /\ made = tx.objects /\ open = tx.open /\ db' = db
         \/ /\ ~Passes(Statement, tx.seen)
            /\ Statement.adds \cap tx.objects = {} /\ Statement.needs \subseteq tx.objects
            /\ made = ran
            /\ db' = db \/ (~Transactional /\ ~open /\ db' = [db EXCEPT !.objects = made])
            /\ ~open => /\ ~tx.open /\ FALSE \in Statement.writes
                        /\ (~Transactional => db' = [db EXCEPT !.objects = made])
  <2>1. CASE SkipStatement
    <3>1. tx' = [tx EXCEPT !.next = @ + 1] /\ Passes(Statement, tx.seen) /\ db' = db
      BY <2>1 DEF SkipStatement, Skipped, Passes
    <3> QED
      BY <1>2, <3>1 DEF TxShape
  <2>2. CASE RunStatement
    <3> HIDE DEF ran
    <3>1. PICK wrote \in Statement.writes :
             /\ tx' = [tx EXCEPT !.objects = ran, !.next = @ + 1, !.open = @ \/ wrote]
             /\ db' = IF Autocommits(Statement, wrote) THEN [db EXCEPT !.objects = ran]
                      ELSE db
      BY <2>2 DEF RunStatement, ran
    <3>2. /\ ~Passes(Statement, tx.seen)
          /\ Statement.adds \cap tx.objects = {} /\ Statement.needs \subseteq tx.objects
      BY <2>2 DEF RunStatement, Skipped, Refused, Passes
    <3>3. /\ tx'.next = n + 1 /\ tx'.version = k /\ tx'.seen = tx.seen /\ made = ran
          /\ open = (tx.open \/ wrote)
      BY <1>2, <3>1 DEF TxShape
    <3>4. ~open => ~tx.open /\ wrote = FALSE
      BY <1>4, <3>3
    <3>5. /\ db' = db \/ (~Transactional /\ ~open /\ db' = [db EXCEPT !.objects = ran])
          /\ ~open => (~Transactional => db' = [db EXCEPT !.objects = ran])
      <4> HIDE DEF open
      <4>1. Autocommits(Statement, wrote) <=> ~Transactional /\ ~open
        BY <3>3, Zenon DEF Autocommits
      <4>2. db' = IF Autocommits(Statement, wrote) THEN [db EXCEPT !.objects = ran] ELSE db
        BY <3>1
      <4> HIDE DEF Autocommits
      <4> QED
        BY <4>1, <4>2, Zenon
    <3>6. ~open => FALSE \in Statement.writes
      BY <3>1, <3>4
    <3> HIDE DEF made, open
    <3> QED
      BY <3>2, <3>3, <3>4, <3>5, <3>6, Zenon
  <2> QED
    BY <2>1, <2>2
<1>6. tx'.next \in 1..(Len(Onward(tx'.version)) + 1)
  BY <1>2, <1>3, <1>5
<1> HIDE DEF k, n, made, open
<1>7. CASE Transactional
  <2>1. db' = db
    BY <1>5, <1>7
  <2>2. tx.seen = Way(s, k, FALSE)[0] /\ tx.objects = Way(s, k, FALSE)[n - 1]
    BY <1>1, <1>7 DEF WayInv, Whole, k, n
  <2>3. Way(s, k, FALSE)[n]
          = IF Passes(Statement, tx.seen) THEN tx.objects
            ELSE (tx.objects \cup Statement.adds) \ Statement.drops
    <3>1. Way(s, k, FALSE)[n] = After(Statement, tx.seen, tx.objects, FALSE)
      <4>1. Way(s, k, FALSE)[n]
              = After(Onward(k)[n], Way(s, k, FALSE)[0], Way(s, k, FALSE)[n - 1], FALSE)
        BY <1>2, <1>3, WayUnfold
      <4> QED
        BY <1>3, <2>2, <4>1
    <3> QED
      BY <3>1 DEF After, Adds
  <2>4. made = Way(s, k, FALSE)[n]
    BY <1>5, <2>3 DEF ran
  <2>5. (n + 1) - 1 = n
    BY <1>3
  <2> QED
    BY <1>1, <1>5, <1>6, <1>7, <2>1, <2>2, <2>4, <2>5 DEF WayInv, Whole, made
<1>8. CASE ~Transactional
  <2>1. PICK m \in 0..Len(Onward(k)) : Resuming(s, m)
    BY <1>1, <1>8 DEF WayInv, Halfway, k
  <2>2. /\ Resumable(k, m) /\ k = db.version /\ Between(s, k, m, tx.seen)
        /\ Between(s, k, Reached(m, n), tx.objects)
        /\ ~tx.open => tx.objects = db.objects /\ Resumable(k, Reached(m, n))
    BY <2>1 DEF Resuming, k, n
  <2>3. /\ Between(s, k, Reached(m, n + 1), made)
        /\ Passes(Statement, tx.seen) /\ m < n => FALSE \in Statement.writes
    <3>1. /\ Passes(Statement, tx.seen) =>
               /\ Between(s, k, Reached(m, n + 1), tx.objects)
               /\ m < n => FALSE \in Statement.writes
          /\ ~Passes(Statement, tx.seen) /\ Statement.adds \cap tx.objects = {}
                /\ Statement.needs \subseteq tx.objects =>
               Between(s, k, Reached(m, n + 1),
                       (tx.objects \cup Statement.adds) \ Statement.drops)
      BY <1>2, <1>3, <2>2, StatementResumes
    <3> QED
      BY <1>5, <3>1 DEF ran
  <2>4. \/ Reached(m, n + 1) = Reached(m, n)
        \/ Reached(m, n + 1) = n /\ Reached(m, n) = n - 1 /\ m < n
    BY <1>2, <1>3 DEF Reached
  <2>5. ASSUME ~open PROVE Resumable(k, Reached(m, n + 1))
    <3>1. ~tx.open /\ (m < n => FALSE \in Statement.writes)
      BY <1>5, <2>3, <2>5
    <3>2. Resumable(k, Reached(m, n))
      BY <2>2, <3>1
    <3>3. CASE Reached(m, n + 1) = n /\ Reached(m, n) = n - 1 /\ m < n
      <4>1. FALSE \in Onward(k)[n].writes /\ Resumable(k, n - 1)
        BY <1>3, <3>1, <3>2, <3>3
      <4>2. \A j \in 1..n : j = n \/ j \in 1..(n - 1)
        BY <1>3
      <4> QED
        BY <3>3, <4>1, <4>2 DEF Resumable
    <3> QED
      BY <2>4, <3>2, <3>3
  <2>6. db'.version = db.version /\ (~open => db'.objects = made)
    BY <1>2, <1>5, <1>8, <2>2 DEF DbShape
  <2>7. Resuming(s, m)'
    BY <1>5, <1>6, <2>2, <2>3, <2>5, <2>6 DEF Resuming, Between, made, open
  <2>8. db.version # release /\ UNCHANGED release
    BY <1>1, <2>2 DEF WayInv, VersionsInOrder, k
  <2>9. \E j \in 0..Len(Onward(k)) : Resumable(k, j) /\ Between(s, k, j, db'.objects)
    <3>1. CASE db'.objects = db.objects
      BY <1>8, <2>2, <3>1 DEF WayInv, Halfway
    <3>2. CASE ~open
      <4>1. Reached(m, n + 1) \in 0..Len(Onward(k))
        BY <1>2, <1>3, <2>4 DEF Reached
      <4> QED
        BY <2>3, <2>5, <2>6, <3>2, <4>1
    <3>3. db'.objects = db.objects \/ ~open
      BY <1>2, <1>5 DEF DbShape
    <3> QED
      BY <3>1, <3>2, <3>3
  <2> QED
    BY <1>5, <1>8, <2>1, <2>2, <2>6, <2>7, <2>8, <2>9 DEF Halfway, Between
<1> QED
  BY <1>7, <1>8

\* The last statement of a revision has led to the next version.
LEMMA WayFinished ==
  ASSUME NEW s \in Schemas, WayInv(s), FinishRevision, VersionsInOrder'
  PROVE  /\ IF Transactional THEN Whole(s)' ELSE Halfway(s)'
         /\ writer' = "tables" => db'.version = release'
<1> DEFINE k == tx.version
           done == tx.version + 1
<1>1. /\ UNCHANGED <<dialect, release>> /\ writer = "upgrade" /\ tx.next > Len(Revision)
      /\ db' = IF Transactional /\ done # release THEN db
               ELSE [db EXCEPT !.objects = tx.objects, !.version = done]
      /\ \/ done = release /\ writer' = "tables"
         \/ /\ done # release /\ writer' = "upgrade"
            /\ tx' = [tx EXCEPT !.version = done, !.next = 1, !.open = FALSE,
                                !.seen = tx.objects]
  BY DEF FinishRevision
<1>2. /\ DbShape /\ TxShape /\ VersionsInOrder
      /\ k \in s.version..Len(Chain) /\ k < Len(Chain) /\ done \in s.version..Len(Chain)
      /\ Onward(k) = Revision /\ Len(Revision) \in Nat
  BY <1>1, RevisionIsOnward DEF WayInv, VersionsInOrder
<1>3. done \in Nat /\ Len(Onward(done)) \in Nat
  BY <1>2, WayUnfold, FoundAssumption
<1>4. \A sure \in BOOLEAN : /\ Way(s, done, sure)[0] = Upgraded(s, sure)[done]
                            /\ Upgraded(s, sure)[done] = Way(s, k, sure)[Len(Onward(k))]
  <2> SUFFICES ASSUME NEW sure \in BOOLEAN
               PROVE  /\ Way(s, done, sure)[0] = Upgraded(s, sure)[done]
                      /\ Upgraded(s, sure)[done] = Way(s, k, sure)[Len(Onward(k))]
    OBVIOUS
  <2>1. Way(s, done, sure)[0] = Upgraded(s, sure)[done]
    BY <1>2, WayUnfold
  <2>2. Upgraded(s, sure)[done] = Way(s, k, sure)[Len(Onward(k))]
    BY <1>2, WayUnfold
  <2> QED
    BY <2>1, <2>2
<1>5. /\ writer' = "upgrade" =>
           /\ tx'.version = done /\ tx'.next = 1 /\ tx'.open = FALSE
           /\ tx'.seen = tx.objects /\ tx'.objects = tx.objects
           /\ tx'.next \in 1..(Len(Onward(tx'.version)) + 1) /\ tx'.next - 1 = 0
  <2> SUFFICES ASSUME writer' = "upgrade"
               PROVE  /\ tx'.version = done /\ tx'.next = 1 /\ tx'.open = FALSE
                      /\ tx'.seen = tx.objects /\ tx'.objects = tx.objects
                      /\ tx'.next \in 1..(Len(Onward(tx'.version)) + 1) /\ tx'.next - 1 = 0
    OBVIOUS
  <2> HIDE DEF done
  <2>1. tx' = [objects |-> tx.objects, version |-> done, seen |-> tx.objects,
               next |-> 1, open |-> FALSE]
    BY <1>1, <1>2 DEF TxShape
  <2> QED
    BY <1>3, <2>1
<1>6. ~(Transactional /\ done # release) => db'.version = done /\ db'.objects = tx.objects
  BY <1>1, <1>2 DEF DbShape
<1>7. writer' = "tables" => db'.version = release'
  BY <1>1, <1>6
<1> HIDE DEF k, done
<1>8. CASE Transactional
  <2>1. tx.next - 1 = Len(Onward(k)) /\ tx.objects = Way(s, k, FALSE)[tx.next - 1]
        /\ db.objects = Upgraded(s, FALSE)[db.version]
    <3>1. Whole(s)
      BY <1>8 DEF WayInv
    <3>2. tx.next \in 1..(Len(Onward(k)) + 1)
      BY <1>1, <3>1 DEF Whole, k
    <3>3. tx.next - 1 = Len(Onward(k))
      BY <1>1, <1>2, <3>2
    <3> QED
      BY <1>1, <3>1, <3>3 DEF Whole, k
  <2>2. tx.objects = Upgraded(s, FALSE)[done] /\ tx.objects = Way(s, done, FALSE)[0]
    BY <1>4, <2>1
  <2>3. db'.objects = Upgraded(s, FALSE)[db'.version]
    BY <1>1, <1>6, <1>8, <2>1, <2>2
  <2> QED
    BY <1>1, <1>5, <1>7, <1>8, <2>2, <2>3 DEF Whole
<1>9. CASE ~Transactional
  <2>1. PICK m \in 0..Len(Onward(k)) : Resuming(s, m)
    BY <1>1, <1>9 DEF WayInv, Halfway, k
  <2>2. Reached(m, tx.next) = Len(Onward(k)) /\ Between(s, k, Reached(m, tx.next), tx.objects)
    BY <1>1, <1>2, <2>1 DEF Resuming, Reached, k
  <2>3. Between(s, done, 0, tx.objects)
    BY <1>4, <2>2 DEF Between
  <2>4. Resumable(done, 0) /\ 0 \in 0..Len(Onward(done)) /\ Reached(0, 1) = 0
    BY <1>3 DEF Resumable, Reached
  <2>5. writer' = "upgrade" => Resuming(s, 0)'
    BY <1>5, <1>6, <1>9, <2>3, <2>4 DEF Resuming, Between
  <2>6. /\ Resumable(db'.version, 0) /\ 0 \in 0..Len(Onward(db'.version))
        /\ Between(s, db'.version, 0, db'.objects)
    <3>1. db'.version = done /\ db'.objects = tx.objects
      BY <1>6, <1>9
    <3> QED
      BY <2>3, <2>4, <3>1
  <2>7. writer' = "upgrade" => \E j \in 0..Len(Onward(tx'.version)) : Resuming(s, j)'
    BY <1>5, <2>4, <2>5
  <2>8. Halfway(s)'
    BY <2>6, <2>7 DEF Halfway, Between
  <2> QED
    BY <1>7, <1>9, <2>8
<1> QED
  BY <1>7, <1>8, <1>9

\* At a release a database has the tables and columns of its shape.
LEMMA ReleaseIsWhole ==
  ASSUME NEW s \in Schemas, WayInv(s), db.version = release
  PROVE  Rows(db.objects) = Rows(Shape[release])
         /\ (Transactional => Shape[release] \subseteq db.objects)
<1> DEFINE made == Upgraded(s, FALSE)[release]
<1>1. release \in s.version..Len(Chain) /\ release \in Releases /\ release >= s.version
  BY FoundAssumption, ReleaseInChain DEF WayInv, VersionsInOrder
<1>2. Rows(made) = Rows(Shape[release]) /\ Shape[release] \subseteq made
  BY <1>1, ChainArrives
<1>3. CASE Transactional
  BY <1>2, <1>3 DEF WayInv, Whole
<1>4. CASE ~Transactional
  <2>1. Between(s, release, 0, db.objects)
    BY <1>4 DEF WayInv, Halfway
  <2>2. 0 \in 0..Len(Onward(release)) /\ Way(s, release, FALSE)[0] = made
    <3>1. 0 \in 0..Len(Onward(release))
      BY <1>1, WayUnfold
    <3>2. Way(s, release, FALSE)[0] = made
      BY <1>1, WayStart
    <3> QED
      BY <3>1, <3>2, Zenon
  <2>3. Rows(Way(s, release, FALSE)[0]) \subseteq Way(s, release, TRUE)[0]
    BY <1>1, <2>2, ChainResumes
  <2>4. Rows(made) \subseteq db.objects /\ db.objects \subseteq made
    BY <2>1, <2>2, <2>3 DEF Between
  <2> QED
    BY <1>2, <1>4, <2>4 DEF Rows
<1> QED
  BY <1>3, <1>4

LEMMA WayStep ==
  ASSUME NEW s \in Schemas, WayInv(s), [Next]_vars PROVE WayInv(s)'
<1>1. VersionsInOrder /\ VersionsInOrder' /\ DbShape /\ s.version <= db'.version
  <2>1. VersionsInOrder /\ VersionsInOrder' /\ db.version <= db'.version
    BY VersionsStep DEF WayInv
  <2>2. s.version \in Nat /\ db.version \in Nat /\ db'.version \in Nat
    BY <2>1, FoundAssumption, StartupAssumption DEF VersionsInOrder
  <2> QED
    BY <2>1, <2>2 DEF WayInv, VersionsInOrder
<1>2. dialect' = dialect
  BY DEF Next, WriterStep, MarkProgress, CheckSchema, SkipStatement,
     RunStatement, FinishRevision, FailUpgrade, CreateTables, ClearProgress, CrashWriter,
     StartReader, ReaderStep, Poll, PollFails, GiveUp, CrashReader, Deploy, vars
<1>3. SUFFICES /\ IF Transactional THEN Whole(s)' ELSE Halfway(s)'
               /\ writer' = "tables" => db'.version = release'
  BY <1>1, <1>2 DEF WayInv, Transactional
\* The schema, its version and the upgrade stay, and it is not beginning.
<1> DEFINE Stays == /\ db'.objects = db.objects /\ db'.version = db.version
                    /\ writer' \in {"upgrade", "tables"} => writer' = writer /\ tx' = tx
                    /\ release' = release \/ (writer \in {"down", "ingesting"} /\ release < release')
<1>4. CASE Stays
  <2>1. writer' = "tables" => release' = release
    BY <1>4
  <2>2. release' = release \/ db'.version # release'
    <3>1. release \in Nat /\ release' \in Nat /\ db.version \in 0..release
      BY <1>1, StartupAssumption DEF VersionsInOrder
    <3> QED
      BY <1>4, <3>1
  <2>3. Transactional => Whole(s)'
    BY <1>4 DEF WayInv, Whole
  <2>4. ~Transactional => Halfway(s)'
    BY <1>4, <2>2 DEF WayInv, Halfway, Resuming, Between
  <2> QED
    BY <1>4, <2>1, <2>3, <2>4 DEF WayInv
<1>5. CASE MarkProgress \/ ClearProgress
  <2>1. /\ db' = [db EXCEPT !.flag = TRUE] \/ db' = [db EXCEPT !.flag = FALSE]
        /\ writer' \notin {"upgrade", "tables"} /\ release' = release
    BY <1>5 DEF MarkProgress, ClearProgress
  <2> QED
    BY <1>1, <1>4, <2>1 DEF DbShape
<1>6. CASE CheckSchema
  <2>1. writer' = "tables" => db'.version = release'
    BY <1>6, Zenon DEF CheckSchema, UpToDate
  <2> QED
    BY <1>1, <1>6, <2>1, WayEntered
<1>7. CASE SkipStatement \/ RunStatement
  <2>1. writer' # "tables"
    BY <1>7 DEF SkipStatement, RunStatement, InRevision
  <2> QED
    BY <1>1, <1>7, <2>1, WayWorked
<1>8. CASE FinishRevision
  BY <1>1, <1>8, WayFinished
<1>9. CASE CreateTables
  <2>1. /\ writer = "tables" /\ writer' = "cache" /\ UNCHANGED release
        /\ db' = [db EXCEPT !.objects =
                    @ \cup {o \in Models[release] : Table(o.of) \notin @}]
    BY <1>9 DEF CreateTables
  <2>2. \A o \in Models[release] : Table(o.of) \in db.objects
    <3>1. Rows(db.objects) = Rows(Shape[release])
      BY <2>1, ReleaseIsWhole DEF WayInv
    <3>2. \A o \in Models[release] : Table(o.of) \in Rows(Shape[release])
      BY <1>1, ModelsFit DEF VersionsInOrder, Rows, Table
    <3> QED
      BY <3>1, <3>2 DEF Rows
  <2>3. db'.objects = db.objects /\ db'.version = db.version
    BY <1>1, <2>1, <2>2 DEF DbShape
  <2> QED
    BY <1>4, <2>1, <2>3
<1>10. CASE FailUpgrade \/ CrashWriter
  BY <1>4, <1>10 DEF FailUpgrade, CrashWriter
<1>11. CASE Deploy
  <2>1. PICK r \in Releases : r > release /\ release' = r
    BY <1>11 DEF Deploy
  <2>2. UNCHANGED <<db, tx, writer>> /\ writer \in {"down", "ingesting"} /\ release < release'
    BY <1>1, <1>11, <2>1, StartupAssumption DEF Deploy, VersionsInOrder
  <2> QED
    BY <1>4, <2>2
<1>12. CASE StartReader \/ ReaderStep \/ CrashReader \/ UNCHANGED vars
  BY <1>4, <1>12 DEF StartReader, ReaderStep, Poll, PollFails, GiveUp, CrashReader, vars
<1> QED
  BY <1>5, <1>6, <1>7, <1>8, <1>9, <1>10, <1>11, <1>12 DEF Next, WriterStep

LEMMA WayInit == Init => \E s \in Schemas : WayInv(s)
<1> SUFFICES ASSUME Init PROVE \E s \in Schemas : WayInv(s)
  OBVIOUS
<1>1. PICK s \in Schemas :
         db = [objects |-> s.objects, version |-> s.version, flag |-> FALSE]
  BY DEF Init
<1>2. s.version \in 0..Len(Chain) /\ s.version \in s.version..Len(Chain)
  BY FoundAssumption, StartupAssumption
<1>3. VersionsInOrder /\ s.version <= db.version
  <2>1. release \in Releases /\ db.version <= release /\ writer = "down" /\ tx = NoUpgrade
    BY DEF Init
  <2>2. db.version \in 0..release /\ s.version <= db.version
    BY <1>1, <1>2, <2>1, ReleaseInChain
  <2>3. DbShape /\ TxShape
    BY <1>1, <2>1 DEF DbShape, TxShape, NoUpgrade
  <2> QED
    BY <2>1, <2>2, <2>3 DEF VersionsInOrder
<1>4. \A sure \in BOOLEAN : Way(s, s.version, sure)[0] = s.objects
  BY WayBegins
<1>5. Whole(s)
  <2>1. Upgraded(s, FALSE)[s.version] = s.objects
    BY <1>2, <1>4, WayUnfold
  <2> QED
    BY <1>1, <2>1 DEF Init, Whole
<1>6. Halfway(s)
  <2>1. Resumable(s.version, 0) /\ 0 \in 0..Len(Onward(s.version))
    BY <1>2, WayUnfold DEF Resumable
  <2>2. Between(s, s.version, 0, s.objects)
    BY <1>4 DEF Between
  <2> QED
    BY <1>1, <2>1, <2>2 DEF Init, Halfway
<1>7. WayInv(s)
  BY <1>3, <1>5, <1>6 DEF WayInv, Init
<1> QED
  BY <1>7

OnItsWay == \E s \in Schemas : WayInv(s)

LEMMA WayHolds == Spec => []OnItsWay
<1>1. Init => OnItsWay
  BY WayInit DEF OnItsWay
<1>2. OnItsWay /\ [Next]_vars => OnItsWay'
  BY WayStep DEF OnItsWay
<1> QED
  BY <1>1, <1>2, PTL DEF Spec

-----------------------------------------------------------------------------
(* What follows for the writer and the reader.                              *)

\* Whatever database is found, empty, older or one that create_all made before there
\* were versions, and wherever kills cut its upgrades off, on SQLite as on PostgreSQL:
\* at the installed head it has the tables and columns of that release and no others.
THEOREM UpgradeLeavesWhole == Spec => []HeadIsWhole
<1>1. OnItsWay => HeadIsWhole
  BY ReleaseIsWhole DEF OnItsWay, HeadIsWhole
<1> QED
  BY <1>1, WayHolds, PTL

\* So a reader never starts to serve on a schema that is half made.
COROLLARY ReaderServesWhole == Spec => ServesWholeSchema
BY UpgradeLeavesWhole, ReaderServesAtHead, PTL

\* Where DDL is transactional, an upgrade that is accepted when nothing cuts it off is
\* accepted again after every kill.
THEOREM UpgradeIsAcceptedAgain == Spec => []UpgradeIsAccepted
<1>1. Init => UpgradeIsAccepted
  BY DEF Init, UpgradeIsAccepted, UpgradeIsUnattended
<1>2. OnItsWay /\ UpgradeIsAccepted /\ [Next]_vars => UpgradeIsAccepted'
  <2> SUFFICES ASSUME OnItsWay, UpgradeIsAccepted, [Next]_vars, Transactional',
                      writer' = "failed"
               PROVE  FALSE
    BY DEF UpgradeIsAccepted, UpgradeIsUnattended
  <2>1. Transactional
    BY DEF Transactional, Next, WriterStep, MarkProgress, CheckSchema, SkipStatement,
       RunStatement, FinishRevision, FailUpgrade, CreateTables, ClearProgress, CrashWriter,
       StartReader, ReaderStep, Poll, PollFails, GiveUp, CrashReader, Deploy, vars
  <2>2. FailUpgrade
    BY <2>1 DEF UpgradeIsAccepted, UpgradeIsUnattended, Next, WriterStep, MarkProgress,
       CheckSchema, SkipStatement, RunStatement, FinishRevision, CreateTables,
       ClearProgress, CrashWriter, StartReader, ReaderStep, Poll, PollFails, GiveUp,
       CrashReader, Deploy, InRevision, readerVars, vars
  <2>3. PICK s \in Schemas : WayInv(s)
    BY DEF OnItsWay
  <2>4. /\ InRevision /\ writer = "upgrade" /\ ~Skipped(Statement) /\ Refused(Statement)
        /\ Whole(s) /\ VersionsInOrder
    BY <2>1, <2>2, <2>3 DEF FailUpgrade, InRevision, WayInv
  <2> DEFINE k == tx.version
             n == tx.next
  <2>5. k \in s.version..Len(Chain) /\ Onward(k) = Revision /\ Len(Revision) \in Nat
    BY <2>3, <2>4, RevisionIsOnward DEF WayInv
  <2>6. n \in 1..Len(Onward(k)) /\ Statement = Onward(k)[n]
    BY <2>4, <2>5 DEF Whole, InRevision, Statement
  <2>7. tx.seen = Way(s, k, FALSE)[0] /\ tx.objects = Way(s, k, FALSE)[n - 1]
    BY <2>4 DEF Whole
  <2> HIDE DEF k, n
  <2>8. \/ Passes(Statement, tx.seen)
        \/ Statement.adds \cap tx.objects = {} /\ Statement.needs \subseteq tx.objects
    BY <2>5, <2>6, <2>7, ChainFits
  <2> QED
    BY <2>4, <2>8 DEF Skipped, Refused, Passes
<1> QED
  BY <1>1, <1>2, WayHolds, PTL DEF Spec

-----------------------------------------------------------------------------
(* The way back.                                                            *)

\* The downgrades take whatever lies between the least and the most that they accept
\* to what lies between the ends of both.
LEMMA RolledBackBetween ==
  ASSUME NEW least, NEW most, NEW objects, NEW from, NEW to,
         least \subseteq objects, objects \subseteq most,
         Len(Undoing(from, to)) \in Nat,
         \A n \in 1..Len(Undoing(from, to)) :
           LET x == Undoing(from, to)[n] IN
           /\ x.unless = {} /\ x.given = {}
           /\ x.adds \cap Stages(most, Undoing(from, to), FALSE)[n - 1] = {}
           /\ x.needs \subseteq Stages(least, Undoing(from, to), FALSE)[n - 1]
  PROVE  LET L == Len(Undoing(from, to)) IN
         /\ Stages(least, Undoing(from, to), FALSE)[L] \subseteq RolledBack(objects, from, to)
         /\ RolledBack(objects, from, to) \subseteq Stages(most, Undoing(from, to), FALSE)[L]
<1> DEFINE stmts == Undoing(from, to)
           N == Len(stmts)
           V == SUBSET (objects \cup Added(stmts) \cup {Refusal})
           Undone(x, before) ==
             IF x.adds \cap before # {} \/ ~(x.needs \subseteq before)
             THEN {Refusal} ELSE (before \cup x.adds) \ x.drops
           G == [n \in 1..N |-> [before \in V |-> Undone(stmts[n], before)]]
           Is(f) == f = [n \in 0..N |-> IF n = 0 THEN objects
                                        ELSE Undone(stmts[n], f[n - 1])]
           low == Stages(least, stmts, FALSE)
           high == Stages(most, stmts, FALSE)
<1> HIDE DEF stmts
<1>0. /\ N \in Nat
      /\ \A n \in 1..N : /\ stmts[n].unless = {} /\ stmts[n].given = {}
                         /\ stmts[n].adds \cap high[n - 1] = {}
                         /\ stmts[n].needs \subseteq low[n - 1]
  BY DEF stmts
<1>1. \A n \in 1..N : \A before \in V : Undone(stmts[n], before) \in V
  BY DEF Added
<1>2. objects \in V
  OBVIOUS
<1> HIDE DEF V, Undone, N
<1>3. G \in [1..N -> [V -> V]]
  BY <1>1
<1>4. \A n \in 1..N : \A before \in V : G[n][before] = Undone(stmts[n], before)
  OBVIOUS
<1> HIDE DEF G
<1>5. PICK f \in [0..N -> V] : f[0] = objects /\ \A n \in 1..N : f[n] = G[n][f[n - 1]]
  <2>1. \A base \in V : \E f \in [0..N -> V] :
           f[0] = base /\ \A n \in 1..N : f[n] = G[n][f[n - 1]]
    BY <1>0, <1>3, RecursionDefines, Z3
  <2> QED
    BY <1>2, <2>1
<1>6. Is(f)
  <2>1. \A n \in 0..N : n # 0 => n \in 1..N /\ n - 1 \in 0..N
    BY <1>0
  <2>2. \A n \in 0..N : n # 0 => f[n] = Undone(stmts[n], f[n - 1])
    BY <1>4, <1>5, <2>1
  <2>3. f = [n \in 0..N |-> f[n]]
    OBVIOUS
  <2> QED
    BY <1>5, <2>2, <2>3
<1>7. RolledBack(objects, from, to) = (CHOOSE g : Is(g))[N]
  BY DEF RolledBack, stmts, N, Undone
<1> DEFINE left == CHOOSE g : Is(g)
<1>8. Is(left)
  <2> HIDE DEF Is
  <2> QED
    BY <1>6, Zenon
<1> HIDE DEF left
<1>9. left[0] = objects /\ \A n \in 1..N : left[n] = Undone(stmts[n], left[n - 1])
  <2>1. \A n \in 1..N : n \in 0..N /\ n # 0
    BY <1>0
  <2> QED
    BY <1>0, <1>8, <2>1
<1>10. /\ low[0] = least /\ high[0] = most
       /\ \A n \in 1..N : /\ low[n] = (low[n - 1] \cup stmts[n].adds) \ stmts[n].drops
                          /\ high[n] = (high[n - 1] \cup stmts[n].adds) \ stmts[n].drops
  <2>1. /\ low[0] = least /\ high[0] = most
        /\ \A n \in 1..N : /\ low[n] = After(stmts[n], least, low[n - 1], FALSE)
                           /\ high[n] = After(stmts[n], most, high[n - 1], FALSE)
    <3>1. Len(stmts) \in Nat
      BY <1>0 DEF N
    <3>2. \A before : \A sure \in BOOLEAN :
            /\ Stages(before, stmts, sure)[0] = before
            /\ \A n \in 1..Len(stmts) :
                 Stages(before, stmts, sure)[n]
                   = After(stmts[n], before, Stages(before, stmts, sure)[n - 1], sure)
      BY <3>1, StagesUnfold
    <3> QED
      BY <3>2 DEF N
  <2> HIDE DEF low, high
  <2>2. \A n \in 1..N : /\ low[n] = (low[n - 1] \cup stmts[n].adds) \ stmts[n].drops
                        /\ high[n] = (high[n - 1] \cup stmts[n].adds) \ stmts[n].drops
    <3> SUFFICES ASSUME NEW n \in 1..N
                 PROVE  /\ low[n] = (low[n - 1] \cup stmts[n].adds) \ stmts[n].drops
                        /\ high[n] = (high[n - 1] \cup stmts[n].adds) \ stmts[n].drops
      OBVIOUS
    <3>1. /\ low[n] = After(stmts[n], least, low[n - 1], FALSE)
          /\ high[n] = After(stmts[n], most, high[n - 1], FALSE)
      BY <2>1
    <3>2. stmts[n].unless = {} /\ stmts[n].given = {}
      BY <1>0
    <3> QED
      BY <3>1, <3>2 DEF After, Passes, Adds
  <2> QED
    BY <2>1, <2>2
<1> HIDE DEF low, high
<1> DEFINE Holds(n) == low[n] \subseteq left[n] /\ left[n] \subseteq high[n]
           T == {n \in 0..N : Holds(n)}
           in == [n \in 0..N |-> IF n \in T THEN 0 ELSE 1]
<1>11. Holds(0)
  BY <1>9, <1>10
<1>12. ASSUME NEW n \in 1..N, Holds(n - 1) PROVE Holds(n)
  <2>1. stmts[n].adds \cap left[n - 1] = {} /\ stmts[n].needs \subseteq left[n - 1]
    BY <1>0, <1>12
  <2>2. left[n] = (left[n - 1] \cup stmts[n].adds) \ stmts[n].drops
    BY <1>9, <2>1 DEF Undone
  <2> QED
    BY <1>10, <1>12, <2>2
<1> HIDE DEF Holds
<1>13. 0 \in T /\ \A n \in 1..N : n - 1 \in T => n \in T
  BY <1>0, <1>11, <1>12
<1>14. T \in SUBSET (0..N)
  OBVIOUS
<1> HIDE DEF T
<1>15. in[0] \in {0} /\ \A n \in 1..N : in[n - 1] \in {0} => in[n] \in {0}
  <2>1. 0 \in 0..N /\ \A n \in 1..N : n - 1 \in 0..N /\ n \in 0..N
    BY <1>0
  <2> QED
    BY <1>13, <2>1
<1> HIDE DEF in
<1>16. \A n \in 0..N : in[n] \in {0}
  <2> DEFINE zeros == {0}
  <2> HIDE DEF zeros
  <2>1. in[0] \in zeros /\ \A n \in 1..N : in[n - 1] \in zeros => in[n] \in zeros
    BY <1>15 DEF zeros
  <2>2. \A n \in 0..N : in[n] \in zeros
    BY <1>0, <2>1, RecursionStays
  <2> QED
    BY <2>2 DEF zeros
<1>17. Holds(N)
  <2>1. N \in 0..N /\ in[N] \in {0}
    BY <1>0, <1>16
  <2>2. N \in T
    BY <2>1 DEF in
  <2> QED
    BY <2>2 DEF T
<1> QED
  BY <1>7, <1>17 DEF Holds, left, low, high, stmts, N

\* Every database that an upgrade has brought up whole to a version, on either database
\* system and after whatever kills, the downgrades take back to the tables and columns
\* of every version from the second on, and none of their statements is refused.
THEOREM UpgradeCanBeRolledBack == Spec => []RollbackRestores
<1>1. OnItsWay => RollbackRestores
  <2> SUFFICES ASSUME OnItsWay, db.version >= 2,
                      Rows(db.objects) = Rows(Shape[db.version]), NEW to \in 2..db.version
               PROVE  Rows(RolledBack(db.objects, db.version, to)) = Rows(Shape[to])
    BY DEF RollbackRestores
  <2>1. PICK s \in Schemas : WayInv(s)
    BY DEF OnItsWay
  <2> DEFINE k == db.version
             most == Way(s, k, FALSE)
             least == Way(s, k, TRUE)
  <2>2. k \in s.version..Len(Chain) /\ k >= 2
    BY <2>1, FoundAssumption, ReleaseInChain DEF WayInv, VersionsInOrder
  <2>3. PICK m \in 0..Len(Onward(k)) : Resumable(k, m) /\ Between(s, k, m, db.objects)
    <3>1. CASE Transactional
      <4>1. 0 \in 0..Len(Onward(k)) /\ Resumable(k, 0) /\ most[0] = Upgraded(s, FALSE)[k]
        <5>1. 0 \in 0..Len(Onward(k)) /\ Resumable(k, 0)
          BY <2>2, WayUnfold DEF Resumable
        <5>2. most[0] = Upgraded(s, FALSE)[k]
          BY <2>2, WayStart
        <5> QED
          BY <5>1, <5>2, Zenon
      <4>2. db.objects = most[0]
        BY <2>1, <3>1, <4>1 DEF WayInv, Whole
      <4>3. least[0] \subseteq most[0]
        BY <2>2, <4>1, ChainResumes
      <4> QED
        BY <4>1, <4>2, <4>3 DEF Between
    <3>2. CASE ~Transactional
      BY <2>1, <3>2 DEF WayInv, Halfway
    <3> QED
      BY <3>1, <3>2
  <2>4. Rows(most[m]) = Rows(Shape[k]) /\ least[m] \subseteq db.objects
        /\ db.objects \subseteq most[m]
    <3>1. Rows(most[m]) \subseteq least[m] /\ least[m] \subseteq db.objects
          /\ db.objects \subseteq most[m]
      BY <2>2, <2>3, ChainResumes DEF Between
    <3>2. Rows(most[m]) = Rows(db.objects)
      BY <3>1 DEF Rows
    <3> QED
      BY <3>1, <3>2
  <2> DEFINE stmts == Undoing(k, to)
             high == Stages(most[m], stmts, FALSE)
             low == Stages(least[m], stmts, FALSE)
             L == Len(stmts)
  <2>5. /\ L \in Nat
        /\ \A n \in 1..L : /\ stmts[n].unless = {} /\ stmts[n].given = {}
                           /\ stmts[n].adds \cap high[n - 1] = {}
                           /\ stmts[n].needs \subseteq low[n - 1]
        /\ Rows(high[L]) \subseteq Rows(Shape[to]) /\ Rows(Shape[to]) \subseteq low[L]
    BY <2>2, <2>3, <2>4, DowngradesFit
  <2>6. low[L] \subseteq RolledBack(db.objects, k, to)
        /\ RolledBack(db.objects, k, to) \subseteq high[L]
    <3> HIDE DEF most, least, k
    <3> QED
      BY <2>4, <2>5, RolledBackBetween
  <2> HIDE DEF L, low, high
  <2> QED
    BY <2>5, <2>6 DEF Rows
<1> QED
  BY <1>1, WayHolds, PTL
=============================================================================
