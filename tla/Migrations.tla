----------------------------- MODULE Migrations -----------------------------
(***************************************************************************)
(* The alembic revisions of meshview, each the sequence of statements its  *)
(* upgrade() emits, and the schema the models declare.  A schema is a set  *)
(* of objects: tables, indexes, and the columns some revision adds or      *)
(* drops; a table's other columns come and go with it.                     *)
(***************************************************************************)
EXTENDS Sequences

Table(t) == [kind |-> "table", of |-> t, name |-> t]
Col(t, c) == [kind |-> "column", of |-> t, name |-> c]
Idx(t, i) == [kind |-> "index", of |-> t, name |-> i]

Cols(t, C) == {Col(t, c) : c \in C}
Idxs(t, I) == {Idx(t, i) : i \in I}

\* A statement adds objects, which must not be there, and drops others.  It
\* needs some to be there, and is skipped when the inspector's view of the
\* schema has an object of `unless` or lacks one of `given`.  `writes` says
\* whether it writes rows; filling a column does so when there are rows.
Create(S) ==
  [adds |-> S, drops |-> {}, needs |-> {}, unless |-> {}, given |-> {},
   writes |-> {FALSE}]

Fill == [Create({}) EXCEPT !.writes = BOOLEAN]

Indexes(t, names) == [i \in DOMAIN names |-> Create({Idx(t, names[i])})]

NewTable(t, C, names) == <<Create({Table(t)} \cup Cols(t, C))>> \o Indexes(t, names)

Unless(object, stmts) ==
  [i \in DOMAIN stmts |-> [stmts[i] EXCEPT !.unless = {object}]]

Given(object, stmts) ==
  [i \in DOMAIN stmts |-> [stmts[i] EXCEPT !.given = {object}]]

\* A batch that drops something makes the table anew: it creates a copy under a
\* name of its own, fills it, drops the original and renames the copy.
Scratch(t) == [kind |-> "scratch", of |-> t, name |-> t]

Rebuild(t, dropped, needed) ==
  <<Create({Scratch(t)}),
    [Create({}) EXCEPT !.drops = {Scratch(t)} \cup dropped,
                       !.needs = {Scratch(t)} \cup needed,
                       !.writes = {TRUE}]>>

-----------------------------------------------------------------------------
Initial ==
  Unless(Table("node"), NewTable("node", {"last_update"}, <<"node_id">>))
  \o Unless(Table("packet"),
       NewTable("packet", {"import_time", "import_time_us"},
                <<"from_node_id", "to_node_id", "import_time", "import_time_us",
                  "from_node_time", "from_node_time_us">>))
  \o Unless(Table("packet_seen"),
       NewTable("packet_seen", {"import_time", "import_time_us"},
                <<"node_id", "packet_id", "import_time_us">>))
  \o Unless(Table("traceroute"),
       NewTable("traceroute", {"import_time", "import_time_us"},
                <<"import_time", "import_time_us">>))

\* A column and its indexes, unless the column is there.
TimeColumn(t, names) ==
  Unless(Col(t, "import_time_us"),
         <<Create({Col(t, "import_time_us")})>> \o Indexes(t, names))

AddTimeUsCols ==
  TimeColumn("packet", <<"import_time_us", "from_node_time_us">>)
  \o TimeColumn("packet_seen", <<"import_time_us">>)
  \o TimeColumn("traceroute", <<"import_time_us">>)

AddExample == NewTable("example", {}, <<"name">>)

AddRouteReturn == <<Create({Col("traceroute", "route_return")})>>

AddSeenColumns ==
  <<Create({Col("node", "first_seen_us")}), Create({Col("node", "last_seen_us")})>>
  \o Indexes("node", <<"first_seen_us", "last_seen_us">>)

DropTimeColumn(t, indexes) ==
  Given(Col(t, "import_time"),
        Rebuild(t, {Col(t, "import_time")} \cup Idxs(t, indexes), {}))

DropImportTime ==
  DropTimeColumn("packet", {"import_time", "from_node_time"})
  \o DropTimeColumn("packet_seen", {})
  \o DropTimeColumn("traceroute", {"import_time"})

AddLastUpdateUs ==
  <<Create({Col("node", "last_update_us")}),
    Create({Idx("node", "last_update_us")}), Fill>>
  \o Rebuild("node", {Col("node", "last_update")}, {})

DropLastUpdateUs ==
  Rebuild("node", {Col("node", "last_update_us"), Idx("node", "last_update_us")},
          {Idx("node", "last_update_us")})

AddPublicKeys == NewTable("node_public_key", {}, <<"node_id", "public_key">>)

AddIsMqttGateway == <<Create({Col("node", "is_mqtt_gateway")})>>

\* From base to head, as down_revision links them.
Revisions ==
  <<Initial, AddTimeUsCols, AddExample, AddRouteReturn, AddSeenColumns,
    DropImportTime, AddLastUpdateUs, DropLastUpdateUs, AddPublicKeys,
    AddIsMqttGateway>>

-----------------------------------------------------------------------------
(* downgrade() of each revision, for the operator who rolls one back.       *)

Drop(S) == [Create({}) EXCEPT !.drops = S, !.needs = S]

DropIndexes(t, names) == [i \in DOMAIN names |-> Drop({Idx(t, names[i])})]

DropTable(t, C, names) ==
  DropIndexes(t, names)
  \o <<[Drop({Table(t)}) EXCEPT !.drops = {Table(t)} \cup Cols(t, C)]>>

NoInitial ==
  DropTable("traceroute", {"import_time", "import_time_us"}, <<"import_time_us", "import_time">>)
  \o DropTable("packet_seen", {"import_time", "import_time_us"}, <<"import_time_us", "packet_id", "node_id">>)
  \o DropTable("packet", {"import_time", "import_time_us"},
       <<"from_node_time_us", "from_node_time", "import_time_us", "import_time",
         "to_node_id", "from_node_id">>)
  \o DropTable("node", {"last_update"}, <<"node_id">>)

NoTimeColumn(t, names) ==
  DropIndexes(t, names)
  \o Rebuild(t, {Col(t, "import_time_us")}, {Col(t, "import_time_us")})

NoTimeUsCols ==
  NoTimeColumn("traceroute", <<"import_time_us">>)
  \o NoTimeColumn("packet_seen", <<"import_time_us">>)
  \o NoTimeColumn("packet", <<"from_node_time_us", "import_time_us">>)

NoExample == DropTable("example", {}, <<"name">>)

NoRouteReturn ==
  Rebuild("traceroute", {Col("traceroute", "route_return")}, {Col("traceroute", "route_return")})

NoSeenColumns ==
  DropIndexes("node", <<"last_seen_us", "first_seen_us">>)
  \o <<Drop({Col("node", "last_seen_us")}), Drop({Col("node", "first_seen_us")})>>

ImportTimeAgain ==
  <<Create({Col("traceroute", "import_time")})>> \o Indexes("traceroute", <<"import_time">>)
  \o <<Create({Col("packet_seen", "import_time")})>>
  \o <<Create({Col("packet", "import_time")})>>
  \o Indexes("packet", <<"import_time", "from_node_time">>)

NoLastUpdateUs ==
  <<Create({Col("node", "last_update")}), Fill>>
  \o Rebuild("node", {Col("node", "last_update_us"), Idx("node", "last_update_us")},
             {Idx("node", "last_update_us")})

LastUpdateUsAgain ==
  <<Create({Col("node", "last_update_us")})>> \o Indexes("node", <<"last_update_us">>)

NoPublicKeys == DropTable("node_public_key", {}, <<"public_key", "node_id">>)

NoIsMqttGateway == <<Drop({Col("node", "is_mqtt_gateway")})>>

Downgrades ==
  <<NoInitial, NoTimeUsCols, NoExample, NoRouteReturn, NoSeenColumns,
    ImportTimeAgain, NoLastUpdateUs, LastUpdateUsAgain, NoPublicKeys,
    NoIsMqttGateway>>

-----------------------------------------------------------------------------
\* What models.py declares.
Declared ==
  {Table(t) : t \in {"node", "packet", "packet_seen", "traceroute", "node_public_key"}}
  \cup Cols("node", {"is_mqtt_gateway", "first_seen_us", "last_seen_us"})
  \cup Idxs("node", {"node_id", "first_seen_us", "last_seen_us"})
  \cup Cols("packet", {"import_time_us"})
  \cup Idxs("packet", {"from_node_id", "to_node_id", "import_time_us", "from_node_time_us"})
  \cup Cols("packet_seen", {"import_time_us"})
  \cup Idxs("packet_seen", {"node_id", "packet_id", "import_time_us"})
  \cup Cols("traceroute", {"route_return", "import_time_us"})
  \cup Idxs("traceroute", {"packet_id", "import_time_us"})
  \cup Idxs("node_public_key", {"node_id", "public_key"})
=============================================================================
