----------------------------- MODULE MCDatabase -----------------------------
(* The database of a new user, of KDE 4, of 2014, and of this version.  Each *)
(* of the tables with a key has rows about one resource that are filled in,  *)
(* or not, or two that become one.                                           *)
EXTENDS Database

R(a, g) == [activity |-> a, agent |-> g]
MCRows == {{R("empty", "named")},
           {R("empty", "named"), R("global", "named")},
           {R("named", "empty"), R("global", "global")}}

DB(ts, v, links, scores) ==
    [tables |-> ts, version |-> v,
     rows |-> [ResourceLink |-> links, ResourceScoreCache |-> scores]]

MCOldDatabases ==
    {DB({}, 0, {}, {})}
      \cup {DB(OldTables, 0, {}, s) : s \in MCRows}
      \cup {DB(NewTables, 2, l, {R("named", "named")}) : l \in MCRows}
      \cup {DB(NewTables, 3, {R("named", "named")}, {})}
=============================================================================
