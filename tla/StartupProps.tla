---------------------------- MODULE StartupProps ----------------------------
(***************************************************************************)
(* What writer and reader promise each other about the schema.             *)
(***************************************************************************)
EXTENDS Startup, SequencesExt

Rows(objects) == {o \in objects : o.kind # "index"}

-----------------------------------------------------------------------------
(* Where the revisions lead.                                                *)

\* A revision that began on the schema `before' skips the statement.
Passes(x, before) == x.unless \cap before # {} \/ ~(x.given \subseteq before)

\* What a statement is sure to have added once an upgrade is past it: one that was cut
\* off may have made the object of a guard, and its repetition skips the indexes.
Adds(x, sure) == IF sure /\ x.unless # {} THEN Rows(x.adds) ELSE x.adds

After(x, before, objects, sure) ==
  IF Passes(x, before) THEN objects ELSE (objects \cup Adds(x, sure)) \ x.drops

\* The schema after the first n statements of a revision, for each n.
Stages(before, stmts, sure) ==
  LET stage[n \in 0..Len(stmts)] ==
        IF n = 0 THEN before ELSE After(stmts[n], before, stage[n - 1], sure)
  IN  stage

\* What the revisions up to the k-th make of a database that is found, for each k.
Upgraded(s, sure) ==
  LET made[k \in 0..Len(Chain)] ==
        IF k <= s.version THEN s.objects
        ELSE Stages(made[k - 1], Chain[k], sure)[Len(Chain[k])]
  IN  made

\* The schema the first k revisions make of an empty database.
Shape == Upgraded([objects |-> {}, version |-> 0], FALSE)

\* The revision that leads on from version k, and its stages on database s.
Onward(k) == IF k < Len(Chain) THEN Chain[k + 1] ELSE <<>>
Way(s, k, sure) == Stages(Upgraded(s, sure)[k], Onward(k), sure)

\* Where SQLite may have been cut off: no statement so far has to write rows.
Resumable(k, m) == \A n \in 1..m : FALSE \in Onward(k)[n].writes

ASSUME FoundAssumption ==
  /\ \A s \in Schemas : s.version \in 0..Len(Chain)
  /\ \A k \in 1..Len(Chain) : \A n \in 1..Len(Chain[k]) :
       LET x == Chain[k][n] IN Rows(x.unless \cup x.given) = x.unless \cup x.given

\* An upgrade that nothing cuts off is accepted: no statement is refused on what the
\* revisions and the statements before it left.
ASSUME ChainFits ==
  \A s \in Schemas : \A k \in s.version..Len(Chain) : \A n \in 1..Len(Onward(k)) :
    LET x == Onward(k)[n]
        way == Way(s, k, FALSE)
    IN  \/ Passes(x, way[0])
        \/ x.adds \cap way[n - 1] = {} /\ x.needs \subseteq way[n - 1]

\* It takes every database to the schema of its release, older indexes apart.
ASSUME ChainArrives ==
  \A s \in Schemas : \A r \in Releases :
    r >= s.version =>
      LET made == Upgraded(s, FALSE)[r]
      IN  Rows(made) = Rows(Shape[r]) /\ Shape[r] \subseteq made

\* Of an upgrade that begins where one on SQLite was cut off, after m statements, the
\* n-th statement is skipped or run to the same end, or it is refused.
ASSUME ChainResumes ==
  \A s \in Schemas : \A k \in s.version..Len(Chain) :
    LET most == Way(s, k, FALSE)
        least == Way(s, k, TRUE)
        L == Len(Onward(k))
    IN  \A m \in 0..L :
          /\ Rows(most[m]) \subseteq least[m] /\ least[m] \subseteq most[m]
          /\ Resumable(k, m) => \A n \in 1..L :
               LET x == Onward(k)[n]
                   p == IF m < n THEN n - 1 ELSE m
                   q == IF m < n THEN n ELSE m
               IN  \/ /\ Passes(x, most[m])
                      /\ least[q] \subseteq least[p] /\ most[p] \subseteq most[q]
                      /\ m < n => FALSE \in x.writes
                   \/ /\ ~Passes(x, most[m])
                      /\ x.adds \cap least[p] # {} \/ ~(x.needs \subseteq most[p])
                   \/ /\ ~Passes(x, most[m])
                      /\ least[q] \subseteq (least[p] \cup x.adds) \ x.drops
                      /\ (most[p] \cup x.adds) \ x.drops \subseteq most[q]

\* Every table that the models of a release declare has been made by its revisions.
ASSUME ModelsFit ==
  \A r \in Releases : \A o \in Models[r] : Table(o.of) \in Shape[r]

-----------------------------------------------------------------------------
(* The way back.                                                            *)

\* The downgrades from one version to another, one after the other.
Undoing(from, to) == FlattenSeq(Reverse(SubSeq(Downgrades, to + 1, from)))

\* A schema is given up for this when a statement of a downgrade is refused.
Refusal == [kind |-> "refusal", of |-> "", name |-> ""]

\* What is left when they have run.
RolledBack(objects, from, to) ==
  LET stmts == Undoing(from, to)
      left[n \in 0..Len(stmts)] ==
        IF n = 0 THEN objects
        ELSE LET x == stmts[n]
                 before == left[n - 1]
             IN  IF x.adds \cap before # {} \/ ~(x.needs \subseteq before)
                 THEN {Refusal} ELSE (before \cup x.adds) \ x.drops
  IN  left[Len(stmts)]

\* The downgrades are accepted by the most and by the least that may be there, and leave
\* the same tables and columns of both.
ASSUME DowngradesFit ==
  \A s \in Schemas : \A k \in s.version..Len(Chain) : \A m \in 0..Len(Onward(k)) :
    k >= 2 /\ Resumable(k, m) /\ Rows(Way(s, k, FALSE)[m]) = Rows(Shape[k]) =>
      \A to \in 2..k :
        LET stmts == Undoing(k, to)
            most == Stages(Way(s, k, FALSE)[m], stmts, FALSE)
            least == Stages(Way(s, k, TRUE)[m], stmts, FALSE)
        IN  /\ Len(stmts) \in Nat
            /\ \A n \in 1..Len(stmts) :
                 /\ stmts[n].unless = {} /\ stmts[n].given = {}
                 /\ stmts[n].adds \cap most[n - 1] = {}
                 /\ stmts[n].needs \subseteq least[n - 1]
            /\ Rows(most[Len(stmts)]) \subseteq Rows(Shape[to])
            /\ Rows(Shape[to]) \subseteq least[Len(stmts)]

-----------------------------------------------------------------------------
(* Invariants.                                                              *)

\* "Reader won't connect to incompatible schema": a database whose version is
\* the installed head has the tables and columns of that release and no others,
\* whatever crash interrupted the upgrade and whatever it started from, and where
\* DDL is transactional its indexes too.
HeadIsWhole ==
  db.version = release =>
    /\ Rows(db.objects) = Rows(Shape[release])
    /\ Transactional => Shape[release] \subseteq db.objects

\* "Zero Manual Intervention: Migrations run automatically on startup": an upgrade
\* that was cut off can be done again, no statement of a revision is refused.
UpgradeIsUnattended == writer # "failed"

\* The same where DDL is transactional, from whatever database is found.
UpgradeIsAccepted == Transactional => UpgradeIsUnattended

\* "Rollback Capability: Can downgrade if needed": from any version that an
\* upgrade has brought up whole, on any database found, the downgrades back to the
\* second revision are accepted and restore the tables and columns it had.
RollbackRestores ==
  LET k == db.version IN
  k >= 2 /\ Rows(db.objects) = Rows(Shape[k]) =>
    \A to \in 2..k : Rows(RolledBack(db.objects, k, to)) = Rows(Shape[to])

-----------------------------------------------------------------------------
(* Action properties.                                                       *)

\* The schema and its version change only while migration_status says so, and a
\* writer that takes in packets has taken the flag back.
ChangesAreFlagged ==
  [][/\ db'.objects # db.objects \/ db'.version # db.version => db.flag
     /\ writer' = "ingesting" => ~db'.flag]_vars

\* The reader opens its port on a schema that is at the head installed then and
\* whole, never in the middle of an upgrade.
ServesWholeSchema ==
  [][reader # "serving" /\ reader' = "serving" =>
       /\ db.version = release /\ writer # "upgrade"
       /\ Rows(db.objects) = Rows(Shape[release])]_vars

-----------------------------------------------------------------------------
(* Liveness.                                                                *)

\* A reader that waits starts to serve or gives up: it does not wait for ever
\* on a database it cannot use, whether the polls say so or raise.
ReaderDecides == reader = "waiting" ~> reader \in {"serving", "down"}
=============================================================================
