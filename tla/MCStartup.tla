----------------------------- MODULE MCStartup ------------------------------
(* Constants of the TLC instances of Startup.                               *)
EXTENDS StartupProps

\* The release before microsecond times replaced the import_time columns, and
\* the present one.
MCReleases == {5, 10}
MCModels == [r \in MCReleases |-> IF r = 10 THEN Declared ELSE Shape[r]]

\* What create_all of a version without alembic left.
Unversioned ==
  {Table(t) : t \in {"node", "packet", "packet_seen", "traceroute"}}
  \cup {Col("node", "last_update"), Idx("node", "node_id")}
  \cup {Col(t, "import_time") : t \in {"packet", "packet_seen", "traceroute"}}
  \cup Idxs("packet", {"from_node_id", "to_node_id", "import_time", "from_node_time"})
  \cup Idxs("packet_seen", {"node_id", "packet_id"})
  \cup Idxs("traceroute", {"import_time"})

Found(k) == [objects |-> Shape[k], version |-> k]

MCSchemas == {Found(0), Found(5), [objects |-> Unversioned, version |-> 0]}
=============================================================================
