------------------------------- MODULE Schema -------------------------------
(* ResourcesDatabaseSchema.cpp: initSchema() brings the tables of the        *)
(* resources database up to date, by a list of SQL statements.  No           *)
(* transaction is around them, so each is committed on its own and a crash   *)
(* may come between any two; the version that tells the next start that      *)
(* nothing is left to do is written by the second and the third.             *)
(*                                                                           *)
(* Abstracted: of the rows, whether activity and agent are filled in, for    *)
(* the two tables in which both are part of the key (events have no key to   *)
(* collide in); versions to what the code tells apart.  Errors are those of  *)
(* a build that reports them (QT_NO_DEBUG).                                  *)
EXTENDS Integers, Sequences, FiniteSets

CONSTANTS OldDatabases   \* the databases that may be found

(* Versions: none or 0, before 2014.04.14, before 2015.02.09, 2015.02.09.    *)
Version == 0..3
Renamed == 2             \* since then the tables have their names
Current == 3             \* version(), since when no field may be empty

OldName == [ResourceEvent |-> "nuao_DesktopEvent",
            ResourceScoreCache |-> "kext_ResourceScoreCache"]
NewTables == {"SchemaInfo", "ResourceEvent", "ResourceScoreCache",
              "ResourceLink", "ResourceInfo"}
OldTables == {OldName[t] : t \in DOMAIN OldName}

Field == {"empty", "global", "named"}
Row == [activity : Field, agent : Field]
Keyed == {"ResourceScoreCache", "ResourceLink"}
Contents == [tables : SUBSET (NewTables \cup OldTables), version : Version,
             rows : [Keyed -> SUBSET Row]]

ASSUME OldDatabasesAssumption == OldDatabases \subseteq Contents

(* Each version has left the database as it makes one.                       *)
ASSUME HistoryAssumption ==
    \A c \in OldDatabases :
        /\ c.version < Renamed =>
               \A t \in DOMAIN OldName : ~({t, OldName[t]} \subseteq c.tables)
        /\ c.version >= Renamed => OldTables \cap c.tables = {}
        /\ c.version = Current =>
               /\ NewTables \subseteq c.tables
               /\ \A t \in Keyed : \A r \in c.rows[t] :
                      "empty" \notin {r.activity, r.agent}

Statement == [op : {"rename"}, on : DOMAIN OldName]
               \cup [op : {"create", "count"}, on : NewTables]
               \cup [op : {"insertVersion", "updateVersion", ".tables"},
                     on : {"SchemaInfo"}]
               \cup [op : {"activity", "agent"}, on : Keyed]
Do(op, t) == [op |-> op, on |-> t]

VARIABLES tables, version, rows,  \* the database
          statements,             \* what initSchema() has still to execute
          collided,               \* did an update fail for a key there is
          torn                    \* was an upgrade cut short

database == <<tables, version, rows>>
schemaVars == <<database, statements, collided, torn>>

SchemaInit == /\ \E c \in OldDatabases : /\ tables = c.tables
                                         /\ version = c.version
                                         /\ rows = c.rows
              /\ statements = <<>>
              /\ collided = FALSE
              /\ torn = FALSE

-----------------------------------------------------------------------------
OnEach(op, ts) == [i \in DOMAIN ts |-> Do(op, ts[i])]

(* Mutant: old and new names are swapped.                                    *)
RenamesSwapped == OnEach("rename", <<"nuao_DesktopEvent",
                                     "kext_ResourceScoreCache">>)

Renames == OnEach("rename", <<"ResourceEvent", "ResourceScoreCache">>)

(* schema()                                                                  *)
SchemaQueries ==
    <<Do("create", "SchemaInfo"), Do("insertVersion", "SchemaInfo"),
      Do("updateVersion", "SchemaInfo")>>
      \o OnEach("create", <<"ResourceEvent", "ResourceScoreCache",
                            "ResourceLink", "ResourceInfo">>)

(* "If the database is corrupt, some of these should fail."                  *)
Probes == <<Do(".tables", "SchemaInfo")>>
            \o OnEach("count", <<"SchemaInfo", "ResourceEvent",
                                 "ResourceScoreCache", "ResourceLink",
                                 "ResourceInfo">>)

Fills == <<Do("activity", "ResourceLink"), Do("agent", "ResourceLink"),
           Do("activity", "ResourceScoreCache"),
           Do("agent", "ResourceScoreCache")>>

Optional(cond, s) == IF cond THEN s ELSE <<>>

(* What initSchema() executes, by the version it has read.                   *)
Upgrade(v) ==
    IF v = Current THEN <<>>
    ELSE Optional(v < Renamed, Renames) \o SchemaQueries \o Probes
           \o Optional(v < Current, Fills)

BeginSchema == /\ statements' = Upgrade(version)
               /\ UNCHANGED <<database, collided, torn>>

Filled(r, field) == IF r[field] = "empty" THEN [r EXCEPT ![field] = "global"]
                                          ELSE r

(* Mutant: a row gives way to the one with its key.                          *)
CollidesNever(t, field) == FALSE

(* Two rows of one key cannot be: the statement fails and changes nothing.   *)
Collides(t, field) ==
    \E r, s \in rows[t] : r # s /\ Filled(r, field) = Filled(s, field)

(* One statement is executed.                                                *)
Execute(s) ==
    CASE s.op = "rename" ->
           /\ tables' = IF OldName[s.on] \in tables /\ s.on \notin tables
                        THEN (tables \ {OldName[s.on]}) \cup {s.on}
                        ELSE tables
           /\ UNCHANGED <<version, rows, collided>>
      [] s.op = "create" ->
           /\ tables' = tables \cup {s.on}
           /\ UNCHANGED <<version, rows, collided>>
      [] s.op = "insertVersion" ->
           /\ version' = IF version = 0 THEN Current ELSE version
           /\ UNCHANGED <<tables, rows, collided>>
      [] s.op = "updateVersion" ->
           /\ version' = Current
           /\ UNCHANGED <<tables, rows, collided>>
      [] s.op \in {"activity", "agent"} ->
           /\ rows' = IF Collides(s.on, s.op) THEN rows
                      ELSE [rows EXCEPT ![s.on] = {Filled(r, s.op) : r \in @}]
           /\ collided' = (collided \/ Collides(s.on, s.op))
           /\ UNCHANGED <<tables, version>>
      [] OTHER -> UNCHANGED <<database, collided>>

(* Is an error reported.  ".tables" is a command of the sqlite3 shell and no *)
(* SQL, so it always fails.                                                  *)
Reports(s) == \/ s.op = ".tables"
              \/ s.op = "count" /\ s.on \notin tables
              \/ s.op \in {"activity", "agent"} /\ Collides(s.on, s.op)

ExecuteNext == /\ statements # <<>>
               /\ Execute(Head(statements))
               /\ statements' = Tail(statements)
               /\ UNCHANGED torn

EndOfProcess == /\ torn' = (torn \/ statements # <<>>)
                /\ statements' = <<>>
                /\ UNCHANGED <<database, collided>>

-----------------------------------------------------------------------------
SchemaTypeOK == /\ tables \in SUBSET (NewTables \cup OldTables)
                /\ version \in Version
                /\ rows \in [Keyed -> SUBSET Row]
                /\ statements \in Seq(Statement)
                /\ {collided, torn} \subseteq BOOLEAN

UpToDate == /\ NewTables \subseteq tables
            /\ \A t \in Keyed : \A r \in rows[t] : "empty" \notin {r.activity, r.agent}

(* A database of the current version has every table and no empty activity   *)
(* or agent, unless an upgrade was cut short or two rows would have become   *)
(* one (ResourcesDatabaseSchema.cpp:48-49, 151-154, 185-212).                *)
UpgradeIsComplete ==
    version = Current /\ statements = <<>> => UpToDate \/ torn \/ collided

(* The tables of the KDE 4 days are renamed before new, empty ones can take  *)
(* their names: none is left behind, with what it holds, in a database that  *)
(* is taken to be up to date, over crashes at any statement                  *)
(* (ResourcesDatabaseSchema.cpp:156-169).                                    *)
NothingLeftBehind == version = Current => OldTables \cap tables = {}

(* Filling in what is empty makes no row vanish, whatever rows there are     *)
(* (ResourcesDatabaseSchema.cpp:185-210).                                    *)
RowsKept == [][\A t \in Keyed : Cardinality(rows'[t]) >= Cardinality(rows[t])]_rows

(* What an upgrade owes to the data, whatever version it starts from and     *)
(* wherever processes die (ResourcesDatabaseSchema.cpp:139-212).             *)
UpgradeIsSound == []UpgradeIsComplete /\ []NothingLeftBehind /\ RowsKept

(* What a comment says and the code does not keep: "Early bail-out if the    *)
(* schema is up-to-date" (ResourcesDatabaseSchema.cpp:151).                  *)
BailsOutUpToDate ==
    version = Current /\ statements = <<>> => UpToDate \/ collided
=============================================================================
