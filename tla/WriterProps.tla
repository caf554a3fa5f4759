---------------------------- MODULE WriterProps ----------------------------
(***************************************************************************)
(* What the writer process promises about the database.                    *)
(***************************************************************************)
EXTENDS Writer

-----------------------------------------------------------------------------
(* Invariants.                                                              *)

\* The database sessions of ingestion and cleanup never overlap: "pause
\* ingestion" and "block if cleanup is running", as startdb.py comments its two
\* uses of db_lock.
SessionsExclusive == ~(phase \in InEnvelope /\ sweep \in InSweep)

\* The session works on what the database still says: whatever it is about to
\* write was decided on rows that are there, as they are.  This is what db_lock
\* is for: process_envelope looks a row up, awaits, and then updates it or
\* inserts it, and daily_cleanup_at deletes such rows.
StagedIsCurrent ==
  /\ \A r \in staged.node : \A c \in node : r.key = c.key =>
        /\ r.num = c.num /\ c.last <= r.last /\ (c.gateway => r.gateway)
        /\ c.first \in {NoTime, r.first}
  /\ \A r \in staged.node :
        r.gateway \/ r.first < r.last => r.key \in {c.key : c \in node}
  /\ phase \in InEnvelope /\ staged.seen # {} =>
        env.id \in Ids(packet \cup staged.packet)
  /\ Ids(staged.packet) \cap Ids(packet) = {}
  /\ sweep \in InSweep => /\ doomed.packet \subseteq packet
                          /\ doomed.node \subseteq node

\* Of all that ids, numbers and constraints can do, process_envelope raises, which
\* ends the whole process, only over an envelope whose gateway is not hexadecimal
\* or too large for the column, or whose NODEINFO misnames its sender: an id too
\* large, one that spells the number of another row, or a public key under an id
\* that is no number.  No MAP_REPORT, sighting or foreign key makes it raise.
OnlyBadInputRaises ==
  EnvelopeRaises =>
    \/ env.gateway \in Huge \cup {BadGateway}
    \/ /\ env.port = "NODEINFO"
       /\ \/ NumOf[env.user] \in Huge
          \/ \E r \in node : r.key # env.user /\ r.num = NumOf[env.user]
          \/ NumOf[env.user] = NoNum /\ env.key # NoKey

\* A node and a public key have one row together, which the impersonation view
\* counts on: node_public_key has no unique constraint, the lookup before the
\* insert is all there is.
OneRowPerKey ==
  \A a, b \in pubkey : a.num = b.num /\ a.key = b.key => a = b

\* A packet never outlives its sightings, so whatever the packet pages list was
\* heard by some gateway: cleanup deletes the two tables by their own times.
PacketIsSighted ==
  \A p \in packet : \E s \in seen : s.id = p.id /\ p.at <= s.at

-----------------------------------------------------------------------------
(* Action properties.                                                       *)

\* As long as a node's row exists, the number and the gateway flag it has stay,
\* first_seen_us once set never changes, and last_seen_us never goes back.
NodeHistoryMonotone ==
  [][\A r \in node : \A s \in node' : r.key = s.key =>
       /\ s.num = r.num
       /\ r.gateway => s.gateway
       /\ r.first \in {NoTime, s.first}
       /\ r.last <= s.last]_vars

\* A packet heard again, by the same gateway or another, leaves the stored copy
\* and its sightings as they were.
FirstCopyWins ==
  [][/\ \A p \in packet, q \in packet' : p.id = q.id => p = q
     /\ \A s \in seen, t \in seen' : SameSighting(s, t) => s = t]_vars

\* A packet and the sighting that brought it appear together, and no sighting or
\* traceroute is ever filed without its packet in the table.
AtomicFiling ==
  [][/\ \A p \in packet' \ packet : \E s \in seen' : s.id = p.id
     /\ Ids((seen' \ seen) \cup (trace' \ trace)) \subseteq Ids(packet')]_vars

\* Packets are committed in the order of their import_time_us, which the live
\* pages count on: what they poll for is what is newer than the newest they have.
CommitsInOrder ==
  [][\A p \in packet' \ packet : \A q \in packet : q.at <= p.at]_vars

\* What is younger than the retention period is never deleted, however long the
\* cleanup waits between fixing its cutoff and committing.
RetentionHonoured ==
  [][/\ \A r \in (packet \ packet') \cup (seen \ seen') \cup (trace \ trace') :
          r.at < now - Keep
     /\ \A r \in node : (\A s \in node' : s.key # r.key) => r.last < now - Keep
    ]_vars

\* A cleanup that commits leaves nothing behind its cutoff, though envelopes
\* kept coming in while it waited for the lock.
SweepComplete ==
  [][sweep = "commit" /\ sweep' = "vacuum" =>
       /\ \A r \in packet' \cup seen' \cup trace' : r.at >= cutoff
       /\ \A r \in node' : r.last = NoTime \/ r.last >= cutoff]_vars

-----------------------------------------------------------------------------
(* Refinement: the tables and the clock are the same variables.             *)

A == INSTANCE Archive
       WITH now <- now, node <- node, packet <- packet,
            seen <- seen, trace <- trace, pubkey <- pubkey

\* The writer implements the archive: whatever the interleaving of its tasks,
\* and wherever it is killed, every change a reader can see is the filing of
\* one envelope, or a prune by one cutoff no younger than the retention period.
ImplementsArchive == A!ArchiveSpec

-----------------------------------------------------------------------------
(* Liveness, under FairSpec.                                                *)

\* Neither task waits for db_lock for ever: a stream without a pause does not
\* starve the cleanup, and a cleanup does not stop the ingestion.
LockIsGranted ==
  /\ phase = "lock" ~> phase # "lock"
  /\ sweep = "lock" ~> sweep # "lock"

\* An envelope that was received, has an id and names its gateway ends as a
\* sighting in the database, unless the process goes down.
ReceivedIsFiled ==
  \A e \in Envelopes : e.id # 0 /\ e.gateway \in Nums \ Huge =>
    (env = e ~> ~up \/ \E s \in seen : s.id = e.id /\ s.gw = e.gateway
                                        /\ s.rx = e.rx)

=============================================================================
