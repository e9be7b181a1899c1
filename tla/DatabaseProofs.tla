--------------------------- MODULE DatabaseProofs ---------------------------
(* What Database keeps to for any databases that are found and any numbers   *)
(* of writes and failures.                                                   *)
EXTENDS Database, FiniteSetTheorems, SequenceTheorems, TLAPS

-----------------------------------------------------------------------------
(* Types of Schema.                                                          *)

LEMMA NamesDiffer ==
    /\ DOMAIN OldName = {"ResourceEvent", "ResourceScoreCache"}
    /\ DOMAIN OldName \subseteq NewTables
    /\ \A t \in DOMAIN OldName : OldName[t] \notin NewTables
    /\ \A t, u \in DOMAIN OldName : OldName[t] = OldName[u] => t = u
BY DEF OldName, NewTables

LEMMA StatementType ==
    ASSUME NEW op, NEW t,
           \/ op = "rename" /\ t \in DOMAIN OldName
           \/ op \in {"create", "count"} /\ t \in NewTables
           \/ op \in {"insertVersion", "updateVersion", ".tables"} /\ t = "SchemaInfo"
           \/ op \in {"activity", "agent"} /\ t \in Keyed
    PROVE  Do(op, t) \in Statement
BY DEF Do, Statement

LEMMA OnEachType ==
    ASSUME NEW op, NEW names, NEW ts \in Seq(names),
           \/ op = "rename" /\ names = DOMAIN OldName
           \/ op \in {"create", "count"} /\ names = NewTables
    PROVE  OnEach(op, ts) \in Seq(Statement)
<1>1. \A i \in 1..Len(ts) : Do(op, ts[i]) \in Statement
  BY StatementType
<1>2. DOMAIN ts = 1..Len(ts) /\ Len(ts) \in Nat
  OBVIOUS
<1>3. OnEach(op, ts) = [i \in 1..Len(ts) |-> Do(op, ts[i])]
  BY <1>2 DEF OnEach
<1> QED BY <1>1, <1>2, <1>3, IsASeq

LEMMA PartsType == {Renames, SchemaQueries, Probes, Fills} \subseteq Seq(Statement)
<1>1. Renames \in Seq(Statement)
  <2>1. <<"ResourceEvent", "ResourceScoreCache">> \in Seq(DOMAIN OldName)
    BY DEF OldName
  <2> QED BY <2>1, OnEachType DEF Renames
<1>2. SchemaQueries \in Seq(Statement)
  <2>1. <<"ResourceEvent", "ResourceScoreCache", "ResourceLink", "ResourceInfo">>
          \in Seq(NewTables)
    BY DEF NewTables
  <2>2. /\ Do("create", "SchemaInfo") \in Statement
        /\ Do("insertVersion", "SchemaInfo") \in Statement
        /\ Do("updateVersion", "SchemaInfo") \in Statement
    BY StatementType DEF NewTables
  <2>3. <<Do("create", "SchemaInfo"), Do("insertVersion", "SchemaInfo"),
          Do("updateVersion", "SchemaInfo")>> \in Seq(Statement)
    BY <2>2
  <2> QED BY <2>1, <2>3, OnEachType, ConcatProperties DEF SchemaQueries
<1>3. Probes \in Seq(Statement)
  <2>1. <<"SchemaInfo", "ResourceEvent", "ResourceScoreCache", "ResourceLink",
          "ResourceInfo">> \in Seq(NewTables)
    BY DEF NewTables
  <2>2. Do(".tables", "SchemaInfo") \in Statement
    BY StatementType
  <2>3. <<Do(".tables", "SchemaInfo")>> \in Seq(Statement)
    BY <2>2
  <2> QED BY <2>1, <2>3, OnEachType, ConcatProperties DEF Probes
<1>4. Fills \in Seq(Statement)
  <2>1. \A op \in {"activity", "agent"}, t \in Keyed : Do(op, t) \in Statement
    BY StatementType
  <2>2. "ResourceLink" \in Keyed /\ "ResourceScoreCache" \in Keyed
    BY DEF Keyed
  <2> QED BY <2>1, <2>2 DEF Fills
<1> QED BY <1>1, <1>2, <1>3, <1>4

(* An upgrade in its four parts.                                             *)
LEMMA UpgradeParts ==
    ASSUME NEW v
    PROVE  \E first, last \in Seq(Statement) :
               /\ first = IF v < Renamed THEN Renames ELSE <<>>
               /\ last = IF v < Current THEN Fills ELSE <<>>
               /\ first \o SchemaQueries \in Seq(Statement)
               /\ first \o SchemaQueries \o Probes \in Seq(Statement)
               /\ first \o SchemaQueries \o Probes \o last \in Seq(Statement)
               /\ Upgrade(v) = IF v = Current THEN <<>>
                               ELSE first \o SchemaQueries \o Probes \o last
<1> DEFINE first == IF v < Renamed THEN Renames ELSE <<>>
           last == IF v < Current THEN Fills ELSE <<>>
<1>1. first \in Seq(Statement) /\ last \in Seq(Statement)
  BY PartsType, EmptySeq, Zenon
<1>2. Upgrade(v) = IF v = Current THEN <<>>
                   ELSE first \o SchemaQueries \o Probes \o last
  BY Zenon DEF Upgrade, Optional
<1>3. first = (IF v < Renamed THEN Renames ELSE <<>>)
      /\ last = (IF v < Current THEN Fills ELSE <<>>)
  BY Zenon
<1> HIDE DEF first, last
<1>4. first \o SchemaQueries \in Seq(Statement)
  BY <1>1, PartsType, ConcatProperties
<1>5. first \o SchemaQueries \o Probes \in Seq(Statement)
  BY <1>4, PartsType, ConcatProperties
<1>6. first \o SchemaQueries \o Probes \o last \in Seq(Statement)
  BY <1>1, <1>5, ConcatProperties
<1> QED BY <1>1, <1>2, <1>3, <1>4, <1>5, <1>6, Zenon

LEMMA UpgradeType == \A v : Upgrade(v) \in Seq(Statement)
<1> TAKE v
<1>1. Upgrade(v) = <<>> \/ Upgrade(v) \in Seq(Statement)
  BY UpgradeParts, Zenon
<1> QED BY <1>1, EmptySeq, Zenon

LEMMA FilledType ==
    ASSUME NEW r \in Row, NEW field \in {"activity", "agent"}
    PROVE  Filled(r, field) \in Row
<1>1. CASE field = "activity"
  BY <1>1 DEF Filled, Row, Field
<1>2. CASE field = "agent"
  BY <1>2 DEF Filled, Row, Field
<1> QED BY <1>1, <1>2

LEMMA ExecuteType ==
    ASSUME SchemaTypeOK, NEW s \in Statement, Execute(s)
    PROVE  /\ tables' \in SUBSET (NewTables \cup OldTables)
           /\ version' \in Version
           /\ rows' \in [Keyed -> SUBSET Row]
           /\ collided' \in BOOLEAN
<1>0. /\ tables \in SUBSET (NewTables \cup OldTables)
      /\ version \in Version
      /\ rows \in [Keyed -> SUBSET Row]
      /\ collided \in BOOLEAN
      /\ s.on \in NewTables
  BY NamesDiffer DEF SchemaTypeOK, Statement, Keyed, NewTables
<1>1. CASE s.op \in {"activity", "agent"}
  <2>1. /\ rows' = IF Collides(s.on, s.op) THEN rows
                   ELSE [rows EXCEPT ![s.on] = {Filled(r, s.op) : r \in @}]
        /\ tables' = tables /\ version' = version
    BY <1>1 DEF Execute
  <2>2. collided' = (collided \/ Collides(s.on, s.op))
    BY <1>1 DEF Execute
  <2>3. s.on \in Keyed
    BY <1>1 DEF Statement
  <2>4. {Filled(r, s.op) : r \in rows[s.on]} \subseteq Row
    BY <1>0, <1>1, <2>3, FilledType
  <2>5. rows' \in [Keyed -> SUBSET Row]
    BY <1>0, <2>1, <2>3, <2>4
  <2>6. collided' \in BOOLEAN
    BY <1>0, <2>2, Zenon
  <2> QED BY <1>0, <2>1, <2>5, <2>6
<1>2. CASE s.op \notin {"activity", "agent"}
  <2>1. rows' = rows /\ collided' = collided
    BY <1>2 DEF Execute, database
  <2>2. version' \in Version
    BY <1>0, <1>2 DEF Execute, database, Version, Current
  <2>3. tables' \in SUBSET (NewTables \cup OldTables)
    BY <1>0, <1>2 DEF Execute, database
  <2> QED BY <1>0, <2>1, <2>2, <2>3
<1> QED BY <1>1, <1>2

LEMMA BeginSchemaType == SchemaTypeOK /\ BeginSchema => SchemaTypeOK'
BY UpgradeType DEF SchemaTypeOK, BeginSchema, database

LEMMA ExecuteNextType == SchemaTypeOK /\ ExecuteNext => SchemaTypeOK'
<1> SUFFICES ASSUME SchemaTypeOK, ExecuteNext PROVE SchemaTypeOK'
  OBVIOUS
<1>1. /\ statements \in Seq(Statement) /\ statements # <<>>
      /\ statements' = Tail(statements) /\ torn' = torn
      /\ Execute(Head(statements))
  BY DEF SchemaTypeOK, ExecuteNext
<1>2. Head(statements) \in Statement /\ Tail(statements) \in Seq(Statement)
  BY <1>1, HeadTailProperties
<1> QED BY <1>1, <1>2, ExecuteType DEF SchemaTypeOK

LEMMA EndOfProcessType == SchemaTypeOK /\ EndOfProcess => SchemaTypeOK'
<1> SUFFICES ASSUME SchemaTypeOK, EndOfProcess PROVE SchemaTypeOK'
  OBVIOUS
<1>1. torn' = (torn \/ statements # <<>>)
  BY Zenon DEF EndOfProcess
<1>2. torn' \in BOOLEAN
  BY <1>1, Zenon
<1> QED BY <1>2, EmptySeq DEF SchemaTypeOK, EndOfProcess, database

LEMMA SchemaInitType == SchemaInit => SchemaTypeOK
<1> SUFFICES ASSUME SchemaInit PROVE SchemaTypeOK
  OBVIOUS
<1>1. PICK c \in OldDatabases : tables = c.tables /\ version = c.version /\ rows = c.rows
  BY DEF SchemaInit
<1>2. c \in Contents
  BY OldDatabasesAssumption
<1>3. statements \in Seq(Statement) /\ collided = FALSE /\ torn = FALSE
  BY EmptySeq DEF SchemaInit
<1> QED BY <1>1, <1>2, <1>3 DEF SchemaTypeOK, Contents

LEMMA SchemaUnchanged == SchemaTypeOK /\ UNCHANGED schemaVars => SchemaTypeOK'
BY DEF SchemaTypeOK, schemaVars, database

-----------------------------------------------------------------------------
(* Types of Database.  What the loops over files do, as the proofs use it.   *)

FilesTyped == /\ files \in [Dir -> [File -> Content \cup {None}]]
              /\ at \in File
              /\ phase \in Phases
              /\ failures \in 0..MaxFailures

(* One turn of a loop that changes a file: it goes on, ends, or fails.       *)
Turn(p, changed, next, failed) ==
    /\ phase = p
    /\ \/ /\ files' = changed
          /\ failures' = failures
          /\ \/ at = 3 /\ phase' = next /\ at' = 1
             \/ at < 3 /\ phase' = phase /\ at' = at + 1
       \/ files' = files /\ failures' > 0 /\ phase' = failed /\ at' = 1

Removes(p, dir, next, failed) ==
    Turn(p, [files EXCEPT ![dir][at] = None], next, failed)
Copies(p, from, to, next, failed) ==
    Turn(p, [files EXCEPT ![to][at] = files[from][at]], next, failed)
Goes(p, next) ==
    phase = p /\ phase' = next /\ at' = 1 /\ files' = files /\ failures' = failures

LEMMA Advancing ==
    ASSUME FilesTyped, NEW next \in Phases, Advance(next)
    PROVE  /\ \/ at = 3 /\ phase' = next /\ at' = 1
              \/ at < 3 /\ phase' = phase /\ at' = at + 1
           /\ phase' \in Phases /\ at' \in File
BY DEF Advance, Goto, FilesTyped, File

LEMMA Failing ==
    ASSUME FilesTyped, Fails, NEW failed \in Phases, Goto(failed)
    PROVE  /\ failures' > 0 /\ failures' \in 0..MaxFailures
           /\ phase' \in Phases /\ at' \in File /\ phase' = failed /\ at' = 1
BY BoundsAssumption DEF FilesTyped, Fails, Goto, File

LEMMA Removing ==
    ASSUME FilesTyped, NEW p, NEW dir \in Dir, NEW next \in Phases,
           NEW failed \in Phases, RemoveFiles(p, dir, next, failed)
    PROVE  Removes(p, dir, next, failed) /\ FilesTyped'
<1>1. CASE /\ files' = [files EXCEPT ![dir][at] = None]
           /\ Advance(next)
           /\ UNCHANGED failures
  <2>1. files' \in [Dir -> [File -> Content \cup {None}]]
    BY <1>1 DEF FilesTyped
  <2> QED BY <1>1, <2>1, Advancing DEF FilesTyped, RemoveFiles, Removes, Turn
<1>2. CASE Fails /\ Goto(failed) /\ UNCHANGED files
  BY <1>2, Failing DEF FilesTyped, RemoveFiles, Removes, Turn
<1> QED BY <1>1, <1>2 DEF RemoveFiles

LEMMA Copying ==
    ASSUME FilesTyped, NEW p, NEW clear, NEW from \in Dir, NEW to \in Dir,
           NEW next \in Phases, NEW failed \in Phases, p \in Phases,
           CopyDatabaseFiles(clear, p, from, to, next, failed)
    PROVE  /\ \/ Removes(clear, to, p, failed)
              \/ Copies(p, from, to, next, failed)
           /\ FilesTyped'
<1>1. CASE RemoveFiles(clear, to, p, failed)
  BY <1>1, Removing
<1>2. CASE /\ phase = p
           /\ files' = [files EXCEPT ![to][at] = files[from][at]]
           /\ Advance(next)
           /\ UNCHANGED failures
  <2>1. files[from][at] \in Content \cup {None}
    BY DEF FilesTyped
  <2>2. files' \in [Dir -> [File -> Content \cup {None}]]
    BY <1>2, <2>1 DEF FilesTyped
  <2> QED BY <1>2, <2>2, Advancing DEF FilesTyped, Copies, Turn
<1>3. CASE phase = p /\ Fails /\ Goto(failed) /\ UNCHANGED files
  BY <1>3, Failing DEF FilesTyped, Copies, Turn
<1> QED BY <1>1, <1>2, <1>3 DEF CopyDatabaseFiles

LEMMA Going ==
    ASSUME FilesTyped, NEW p, NEW next \in Phases, phase = p, Goto(next),
           UNCHANGED <<files, failures>>
    PROVE  Goes(p, next) /\ FilesTyped'
BY DEF FilesTyped, Goto, Goes, File

(* The steps over the files, one by one.                                     *)
LEMMA PromoteSteps ==
    ASSUME FilesTyped, Promote
    PROVE  /\ FilesTyped'
           /\ \/ Goes("promote", IF Complete("test") THEN "promoteClear" ELSE "backup")
              \/ Removes("promoteClear", "working", "promoteCopy", "promoteUndo")
              \/ Copies("promoteCopy", "test", "working", "promoteClean", "promoteUndo")
              \/ Removes("promoteClean", "test", "backup", "backup")
              \/ Removes("promoteUndo", "working", "backup", "backup")
<1>0. /\ {"promoteClear", "promoteCopy", "promoteClean", "promoteUndo", "backup"}
            \subseteq Phases
      /\ "test" \in Dir /\ "working" \in Dir
  BY DEF Phases, Dir
<1>1. CASE /\ phase = "promote"
           /\ Goto(IF Complete("test") THEN "promoteClear" ELSE "backup")
           /\ UNCHANGED <<files, failures>>
  BY <1>0, <1>1, Going
<1>2. CASE CopyDatabaseFiles("promoteClear", "promoteCopy", "test", "working",
                             "promoteClean", "promoteUndo")
  BY <1>0, <1>2, Copying
<1>3. CASE RemoveFiles("promoteClean", "test", "backup", "backup")
  BY <1>0, <1>3, Removing
<1>4. CASE RemoveFiles("promoteUndo", "working", "backup", "backup")
  BY <1>0, <1>4, Removing
<1> QED BY <1>1, <1>2, <1>3, <1>4 DEF Promote

LEMMA BackupSteps ==
    ASSUME FilesTyped, Backup
    PROVE  /\ FilesTyped'
           /\ \/ Goes("backup", IF Complete("resources") THEN "backupClear" ELSE "open")
              \/ Removes("backupClear", "test", "backupCopy", "backupUndo")
              \/ Copies("backupCopy", "resources", "test", "open", "backupUndo")
              \/ Removes("backupUndo", "test", "open", "open")
<1>0. /\ {"backupClear", "backupCopy", "backupUndo", "open"} \subseteq Phases
      /\ "test" \in Dir /\ "resources" \in Dir
  BY DEF Phases, Dir
<1>1. CASE /\ phase = "backup"
           /\ Goto(IF Complete("resources") THEN "backupClear" ELSE "open")
           /\ UNCHANGED <<files, failures>>
  BY <1>0, <1>1, Going
<1>2. CASE CopyDatabaseFiles("backupClear", "backupCopy", "resources", "test",
                             "open", "backupUndo")
  BY <1>0, <1>2, Copying
<1>3. CASE RemoveFiles("backupUndo", "test", "open", "open")
  BY <1>0, <1>3, Removing
<1> QED BY <1>1, <1>2, <1>3 DEF Backup

LEMMA InUseType ==
    ASSUME NEW mode, NEW content \in Content \cup {None}
    PROVE  InUse(mode, content) \in [File -> Content \cup {None}]
BY DEF InUse

LEMMA TypedFiles == TypeOK => FilesTyped
BY DEF TypeOK, FilesTyped

LEMMA FirstType ==
    ASSUME FilesTyped, NEW dir \in Dir
    PROVE  /\ FirstOf(dir) \in Content
           /\ files[dir][1] \in Content \cup {None}
BY BoundsAssumption DEF FilesTyped, FirstOf, Content, File, None

LEMMA TypeOKInit == Init => TypeOK
<1> SUFFICES ASSUME Init PROVE TypeOK
  OBVIOUS
<1>1. SchemaTypeOK
  BY SchemaInitType DEF Init
<1>2. files \in [Dir -> [File -> Content \cup {None}]]
  <2>1. 0 \in Content
    BY BoundsAssumption DEF Content
  <2> QED BY <2>1 DEF Init, Empty
<1>3. /\ writes \in 0..MaxWrites /\ failures \in 0..MaxFailures
      /\ phase \in Phases /\ at \in File /\ clean = {} /\ spared = {}
      /\ errors \in {"none", "reported", "handled"}
      /\ journal \in {"wal", "truncate"}
  BY BoundsAssumption DEF Init, Phases, File
<1>4. kept \in BOOLEAN
  BY Zenon DEF Init
<1> QED BY <1>1, <1>2, <1>3, <1>4 DEF TypeOK

LEMMA TypeOKStep == TypeOK /\ [Next]_vars => TypeOK'
<1> SUFFICES ASSUME TypeOK, [Next]_vars PROVE TypeOK'
  OBVIOUS
<1>0. /\ SchemaTypeOK /\ FilesTyped
      /\ journal \in {"wal", "truncate"}
      /\ writes \in 0..MaxWrites
      /\ errors \in {"none", "reported", "handled"} /\ kept \in BOOLEAN
      /\ clean \in SUBSET Content /\ spared \in SUBSET Content
  BY TypedFiles DEF TypeOK
<1>1. ASSUME SchemaTypeOK', FilesTyped', UNCHANGED <<journal, writes, clean, spared, kept>>,
             errors' \in {"none", "reported", "handled"}
      PROVE  TypeOK'
  BY <1>0, <1>1 DEF TypeOK, FilesTyped
<1>2. ASSUME NEW next \in Phases, Goto(next), UNCHANGED <<files, failures>>
      PROVE  FilesTyped'
  BY <1>0, <1>2 DEF FilesTyped, Goto, File
<1>3. ASSUME NEW mode, NEW content \in Content,
             files' = [files EXCEPT !["resources"] = InUse(mode, content)]
      PROVE  files' \in [Dir -> [File -> Content \cup {None}]]
  BY <1>0, <1>3, InUseType DEF FilesTyped
<1>4. ASSUME NEW mode,
             files' = [files EXCEPT !["resources"] = InUse(mode, @[1])]
      PROVE  files' \in [Dir -> [File -> Content \cup {None}]]
  <2>1. files["resources"][1] \in Content \cup {None}
    BY <1>0, FirstType DEF Dir
  <2> QED BY <1>0, <1>4, <2>1, InUseType DEF FilesTyped
<1>5. CASE Start
  <2>1. /\ SchemaTypeOK' /\ FilesTyped'
    <3>1. CASE Goto("promote") /\ UNCHANGED failures
      BY <1>0, <1>2, <1>5, <3>1, SchemaUnchanged DEF Start, Phases
    <3>2. CASE Fails /\ Goto("without")
      BY <1>0, <1>5, <3>2, SchemaUnchanged, Failing DEF Start, Phases, FilesTyped
    <3> QED BY <1>5, <3>1, <3>2 DEF Start
  <2> QED BY <1>1, <1>5, <2>1 DEF Start
<1>6. CASE FileSteps
  <2>1. SchemaTypeOK' /\ FilesTyped'
    BY <1>0, <1>6, SchemaUnchanged, PromoteSteps, BackupSteps DEF FileSteps
  <2>2. kept' = (kept \/ Complete("working")')
    BY <1>6, Zenon DEF FileSteps
  <2>3. kept' \in BOOLEAN
    BY <2>2, Zenon
  <2> QED BY <1>0, <1>6, <2>1, <2>3 DEF FileSteps, TypeOK, FilesTyped
<1>7. CASE Open
  <2>1. SchemaTypeOK'
    BY <1>0, <1>7, SchemaUnchanged DEF Open
  <2>2. files' \in [Dir -> [File -> Content \cup {None}]]
    BY <1>0, <1>3, <1>7, FirstType DEF Open, Dir
  <2>3. FilesTyped'
    BY <1>0, <1>7, <2>2 DEF Open, Goto, FilesTyped, Phases, File
  <2> QED BY <1>0, <1>1, <1>7, <2>1, <2>3 DEF Open, history
<1>8. CASE SetJournal
  <2>1. SchemaTypeOK'
    BY <1>0, <1>8, BeginSchemaType DEF SetJournal
  <2>2. files' \in [Dir -> [File -> Content \cup {None}]]
    BY <1>4, <1>8 DEF SetJournal
  <2>3. FilesTyped'
    BY <1>0, <1>8, <2>2 DEF SetJournal, Goto, FilesTyped, Phases, File
  <2> QED BY <1>0, <1>8, <2>1, <2>3 DEF SetJournal, history, TypeOK, FilesTyped
<1>9. CASE InitSchema
  <2>1. SchemaTypeOK'
    BY <1>0, <1>9, SchemaUnchanged, ExecuteNextType DEF InitSchema
  <2>2. FilesTyped'
    <3>1. \E next \in Phases : Goto(next)
      BY <1>9 DEF InitSchema, Phases
    <3> QED BY <1>2, <1>9, <3>1 DEF InitSchema
  <2>3. errors' \in {"none", "reported", "handled"}
    BY <1>0, <1>9 DEF InitSchema, Reported
  <2> QED BY <1>1, <1>9, <2>1, <2>2, <2>3 DEF InitSchema
<1>10. CASE Write
  <2>1. writes' \in Content /\ writes' \in 0..MaxWrites
    BY <1>0, <1>10, BoundsAssumption DEF Write, Content
  <2>2. files' \in [Dir -> [File -> Content \cup {None}]]
    BY <1>3, <1>10, <2>1 DEF Write
  <2>3. SchemaTypeOK'
    BY <1>0, <1>10, SchemaUnchanged DEF Write
  <2> QED BY <1>0, <1>10, <2>1, <2>2, <2>3 DEF Write, history, TypeOK, FilesTyped
<1>11. CASE ReportError
  <2>1. SchemaTypeOK' /\ FilesTyped'
    BY <1>0, <1>2, <1>11, SchemaUnchanged DEF ReportError, Phases
  <2>2. errors' \in {"none", "reported", "handled"}
    BY <1>0, <1>11 DEF ReportError, Reported
  <2> QED BY <1>1, <1>11, <2>1, <2>2 DEF ReportError
<1>12. CASE HandleError
  <2>1. SchemaTypeOK' /\ FilesTyped'
    BY <1>0, <1>12, SchemaUnchanged, Removing DEF HandleError, Phases, Dir
  <2> QED BY <1>1, <1>12, <2>1 DEF HandleError
<1>15. CASE HandleErrorLate
  <2>1. SchemaTypeOK'
    BY <1>0, <1>15, SchemaUnchanged DEF HandleErrorLate
  <2>2. FilesTyped'
    <3>1. CASE Goto("running") /\ UNCHANGED files
      BY <1>2, <1>15, <3>1 DEF HandleErrorLate, Phases
    <3>2. ASSUME NEW f \in File, files' = [files EXCEPT !["test"][f] = None],
                 UNCHANGED <<phase, at>>
          PROVE  FilesTyped'
      BY <1>0, <1>15, <3>2 DEF HandleErrorLate, FilesTyped, Dir
    <3> QED BY <1>15, <3>1, <3>2 DEF HandleErrorLate
  <2> QED BY <1>0, <1>1, <1>15, <2>1, <2>2 DEF HandleErrorLate, history
<1>13. CASE End
  <2>1. SchemaTypeOK'
    BY <1>0, <1>13, EndOfProcessType DEF End
  <2>2. files' \in [Dir -> [File -> Content \cup {None}]]
    <3>1. CASE files' = files
      BY <1>0, <3>1 DEF FilesTyped
    <3>2. CASE files' = [files EXCEPT !["resources"] = InUse("truncate", @[1])]
      BY <1>4, <3>2
    <3> QED BY <1>13, <3>1, <3>2 DEF End
  <2>3. FilesTyped'
    BY <1>0, <1>13, <2>2 DEF End, Goto, FilesTyped, Phases, File
  <2>4. Whole("test") \in SUBSET Content
    BY <1>0, FirstType DEF Whole, Complete, Dir, File
  <2>5. clean' \in SUBSET Content /\ spared' \in SUBSET Content
    BY <1>0, <1>13, <2>4 DEF End
  <2> QED BY <1>0, <1>13, <2>1, <2>3, <2>5 DEF End, TypeOK, FilesTyped
<1>14. CASE UNCHANGED vars
  BY <1>0, <1>1, <1>14, SchemaUnchanged DEF vars, filing, history, FilesTyped
<1> QED BY <1>5, <1>6, <1>7, <1>8, <1>9, <1>10, <1>11, <1>12, <1>13, <1>14, <1>15
        DEF Next

-----------------------------------------------------------------------------
(* The files.  All those of the database that there are belong to one state  *)
(* of it; a copy has, up to the file that the loop is at, what it is made    *)
(* from, and nothing after it; and the first error removes the first file.   *)
IsWhole(dir) ==
    Complete(dir) => \A f \in File : files[dir][f] = files[dir][1]
OneDatabase ==
    \A f \in File : files["resources"][f] \in {None, files["resources"][1]}
Cleared(p, dir) == phase = p => \A f \in File : f < at => files[dir][f] = None
Copied(p, from, to) ==
    phase = p =>
        \A f \in File : files[to][f] = IF f < at THEN files[from][f] ELSE None

FilesOK == /\ OneDatabase
           /\ IsWhole("test") /\ IsWhole("working")
           /\ Cleared("promoteClear", "working")
           /\ Copied("promoteCopy", "test", "working")
           /\ Cleared("backupClear", "test")
           /\ Copied("backupCopy", "resources", "test")
           /\ phase \in {"promoteClear", "promoteCopy"} => Complete("test")
           /\ phase = "errored" /\ at > 1 => files["test"][1] = None

(* As long as nothing fails: what was a backup stays one, or is one already. *)
BackupOK ==
    failures = 0 =>
        /\ phase \notin {"promoteUndo", "backupUndo", "without"}
        /\ phase = "promoteClean" => Complete("working")
        /\ kept => \/ Complete("working")
                   \/ /\ phase \in {"down", "promote", "promoteClear", "promoteCopy"}
                      /\ Complete("test")

(* ... and a backup that stays is from a process without an error, or that   *)
(* removed nothing after one.                                                *)
CleanOK ==
    failures = 0 =>
        /\ Complete("working") => files["working"][1] \in clean \cup spared
        /\ /\ phase \in {"down", "promote", "promoteClear", "promoteCopy"}
           /\ Complete("test")
           => files["test"][1] \in clean \cup spared
        /\ errors # "none" => phase \in {"errored", "schema", "running", "late", "down"}
        /\ errors = "handled" => files["test"][1] = None
        /\ phase = "errored" /\ at > 1 => errors = "handled"

IInv == TypeOK /\ FilesOK /\ BackupOK /\ CleanOK

LEMMA IInvInit == Init => IInv
<1> SUFFICES ASSUME Init PROVE IInv
  OBVIOUS
<1>1. /\ phase = "down" /\ at = 1 /\ ~kept /\ errors = "none"
      /\ files["test"] = Empty /\ files["working"] = Empty
      /\ \/ files["resources"] = Empty
         \/ \A f \in File : files["resources"][f] = IF f = 1 \/ journal = "wal" THEN 0
                                                                           ELSE None
  BY DEF Init, Dir
<1>2. ~Complete("test") /\ ~Complete("working")
  BY <1>1 DEF Complete, Empty, File
<1>3. OneDatabase
  BY <1>1 DEF OneDatabase, Empty, File
<1> QED BY <1>1, <1>2, <1>3, TypeOKInit
        DEF IInv, FilesOK, BackupOK, CleanOK, IsWhole, Cleared, Copied

(* A step that leaves the backups alone and comes to no loop over files.     *)
IsAway == \/ phase \in {"down", "open", "journal", "schema", "running", "late", "without"}
          \/ phase = "errored" /\ at = 1

LEMMA StepAway ==
    ASSUME FilesOK, OneDatabase', IsAway',
           files'["test"] = files["test"], files'["working"] = files["working"]
    PROVE  FilesOK'
BY DEF FilesOK, IsAway, IsWhole, Complete, Cleared, Copied

LEMMA FilesOKStep == TypeOK /\ FilesOK /\ [Next]_vars => FilesOK'
<1> SUFFICES ASSUME TypeOK, FilesOK, [Next]_vars PROVE FilesOK'
  OBVIOUS
<1>0. FilesTyped
  BY TypedFiles
<1> USE DEF File, Dir
<1>1. CASE Start
  BY <1>1 DEF Start, Goto, FilesOK, OneDatabase, IsWhole, Complete, Cleared, Copied
<1>2. CASE Promote
  <2> USE DEF FilesOK, OneDatabase, IsWhole, Complete, Cleared, Copied, FilesTyped
  <2>1. CASE Goes("promote", IF Complete("test") THEN "promoteClear" ELSE "backup")
    BY <1>0, <2>1 DEF Goes
  <2>2. CASE Removes("promoteClear", "working", "promoteCopy", "promoteUndo")
    BY <1>0, <2>2 DEF Removes, Turn
  <2>3. CASE Copies("promoteCopy", "test", "working", "promoteClean", "promoteUndo")
    BY <1>0, <2>3 DEF Copies, Turn
  <2>4. CASE Removes("promoteClean", "test", "backup", "backup")
    BY <1>0, <2>4 DEF Removes, Turn
  <2>5. CASE Removes("promoteUndo", "working", "backup", "backup")
    BY <1>0, <2>5 DEF Removes, Turn
  <2> QED BY <1>0, <1>2, <2>1, <2>2, <2>3, <2>4, <2>5, PromoteSteps
<1>3. CASE Backup
  <2> USE DEF FilesOK, OneDatabase, IsWhole, Complete, Cleared, Copied, FilesTyped
  <2>1. CASE Goes("backup", IF Complete("resources") THEN "backupClear" ELSE "open")
    BY <1>0, <2>1 DEF Goes
  <2>2. CASE Removes("backupClear", "test", "backupCopy", "backupUndo")
    BY <1>0, <2>2 DEF Removes, Turn
  <2>3. CASE Copies("backupCopy", "resources", "test", "open", "backupUndo")
    BY <1>0, <2>3 DEF Copies, Turn
  <2>4. CASE Removes("backupUndo", "test", "open", "open")
    BY <1>0, <2>4 DEF Removes, Turn
  <2> QED BY <1>0, <1>3, <2>1, <2>2, <2>3, <2>4, BackupSteps
<1>4. ASSUME NEW mode, NEW content,
             files' = [files EXCEPT !["resources"] = InUse(mode, content)]
      PROVE  /\ OneDatabase'
             /\ files'["test"] = files["test"] /\ files'["working"] = files["working"]
  BY <1>0, <1>4 DEF OneDatabase, InUse, FilesTyped
<1>5. CASE Open
  <2>1. /\ IsAway'
        /\ files' = [files EXCEPT !["resources"] =
                       InUse(journal, FirstOf("resources"))]
    BY <1>5 DEF Open, Goto, IsAway
  <2> QED BY <1>4, <2>1, StepAway
<1>6. CASE SetJournal
  <2>1. /\ phase' = "schema"
        /\ files' = [files EXCEPT !["resources"] =
                       InUse(journal', files["resources"][1])]
    BY <1>0, <1>6 DEF SetJournal, Goto, FilesTyped
  <2>2. IsAway'
    BY <2>1 DEF IsAway
  <2> QED BY <1>4, <2>1, <2>2, StepAway
<1>7. CASE InitSchema
  <2>1. files' = files /\ IsAway'
    BY <1>7 DEF InitSchema, Goto, IsAway
  <2>2. OneDatabase'
    BY <2>1 DEF FilesOK, OneDatabase
  <2> QED BY <2>1, <2>2, StepAway
<1>8. CASE Write
  <2>1. /\ IsAway'
        /\ files' = [files EXCEPT !["resources"] = InUse(journal, writes')]
    BY <1>8 DEF Write, IsAway
  <2> QED BY <1>4, <2>1, StepAway
<1>9. CASE ReportError
  <2>1. OneDatabase'
    BY <1>9 DEF ReportError, FilesOK, OneDatabase
  <2>2. IsAway'
    BY <1>9 DEF ReportError, Goto, IsAway
  <2> QED BY <1>9, <2>1, <2>2, StepAway DEF ReportError
<1>10. CASE HandleError
  <2>1. Removes("errored", "test", "schema", "schema")
    BY <1>0, <1>10, Removing DEF HandleError, Phases
  <2> QED BY <1>0, <2>1 DEF Removes, Turn, FilesOK, OneDatabase, IsWhole, Complete,
                            Cleared, Copied, FilesTyped
<1>13. CASE HandleErrorLate
  <2>1. CASE files' = files
    <3>1. OneDatabase' /\ IsAway'
      BY <1>13, <2>1 DEF HandleErrorLate, Goto, IsAway, FilesOK, OneDatabase
    <3> QED BY <2>1, <3>1, StepAway
  <2>2. ASSUME NEW f \in File, files' = [files EXCEPT !["test"][f] = None],
               phase' = phase
        PROVE  FilesOK'
    BY <1>0, <1>13, <2>2 DEF HandleErrorLate, FilesOK, OneDatabase, IsWhole,
                             Complete, Cleared, Copied, FilesTyped
  <2> QED BY <1>13, <2>1, <2>2 DEF HandleErrorLate
<1>11. CASE End
  <2>1. IsAway'
    BY <1>11 DEF End, Goto, IsAway
  <2>2. CASE files' = files
    <3>1. OneDatabase'
      BY <2>2 DEF FilesOK, OneDatabase
    <3> QED BY <2>1, <2>2, <3>1, StepAway
  <2>3. CASE files' = [files EXCEPT !["resources"] = InUse("truncate", @[1])]
    <3>1. files' = [files EXCEPT !["resources"] =
                     InUse("truncate", files["resources"][1])]
      BY <1>0, <2>3 DEF FilesTyped
    <3> QED BY <1>4, <2>1, <3>1, StepAway
  <2> QED BY <1>11, <2>2, <2>3 DEF End
<1>12. CASE UNCHANGED vars
  BY <1>12 DEF vars, filing, FilesOK, OneDatabase, IsWhole, Complete, Cleared, Copied
<1> QED BY <1>1, <1>2, <1>3, <1>5, <1>6, <1>7, <1>8, <1>9, <1>10, <1>11, <1>12,
           <1>13 DEF Next, FileSteps

(* What the steps that are not about the backups leave as it is.             *)
LEMMA Elsewhere ==
    ASSUME FilesTyped,
           Open \/ SetJournal \/ InitSchema \/ Write \/ ReportError
    PROVE  /\ phase \in {"open", "journal", "schema", "running"}
           /\ IsAway' /\ phase' \notin {"down", "without"}
           /\ \/ phase' \in {"schema", "running", "errored", "late"}
              \/ phase = "open" /\ errors' = errors
           /\ files'["test"] = files["test"] /\ files'["working"] = files["working"]
           /\ UNCHANGED <<failures, clean, spared, kept>>
           /\ errors' = "handled" => errors = "handled"
<1>1. CASE Open \/ SetJournal
  BY <1>1 DEF Open, SetJournal, Goto, IsAway, FilesTyped, Dir, history
<1>2. CASE InitSchema
  BY <1>2 DEF InitSchema, Goto, IsAway, Reported
<1>3. CASE Write
  BY <1>3 DEF Write, Goto, IsAway, FilesTyped, Dir, history
<1>4. CASE ReportError
  BY <1>4 DEF ReportError, Goto, IsAway, Reported
<1> QED BY <1>1, <1>2, <1>3, <1>4

(* An error that comes late may take any file of the fresh backup.           *)
LEMMA Late ==
    ASSUME FilesTyped, HandleErrorLate
    PROVE  /\ phase = "late" /\ phase' \in {"late", "running"}
           /\ files'["working"] = files["working"]
           /\ \A f \in File : files'["test"][f] \in {files["test"][f], None}
           /\ UNCHANGED <<failures, errors, clean, spared, kept>>
BY DEF HandleErrorLate, Goto, FilesTyped, Dir, File, history

LEMMA AtTheEnd ==
    ASSUME FilesTyped, End
    PROVE  /\ phase # "down" /\ phase' = "down" /\ at' = 1
           /\ files'["test"] = files["test"] /\ files'["working"] = files["working"]
           /\ UNCHANGED <<failures, errors, kept>>
BY DEF End, Goto, FilesTyped, Dir

LEMMA BackupOKStep == TypeOK /\ FilesOK /\ BackupOK /\ [Next]_vars => BackupOK'
<1> SUFFICES ASSUME TypeOK, FilesOK, BackupOK, [Next]_vars PROVE BackupOK'
  OBVIOUS
<1>0. FilesTyped
  BY TypedFiles
<1> USE DEF File, Dir
<1>1. CASE Start
  <2>1. CASE Goto("promote") /\ UNCHANGED failures
    BY <1>1, <2>1 DEF Start, Goto, BackupOK, Complete
  <2>2. CASE Fails
    BY <1>0, <2>2 DEF Fails, FilesTyped, BackupOK
  <2> QED BY <1>1, <2>1, <2>2 DEF Start
<1>2. CASE Promote /\ kept' = (kept \/ Complete("working")')
  <2>0. kept' => kept \/ Complete("working")'
    BY <1>2, Zenon
  <2> USE DEF FilesOK, BackupOK, Complete, Cleared, Copied, FilesTyped
  <2>1. CASE Goes("promote", IF Complete("test") THEN "promoteClear" ELSE "backup")
    BY <1>0, <2>0, <2>1 DEF Goes
  <2>2. CASE Removes("promoteClear", "working", "promoteCopy", "promoteUndo")
    BY <1>0, <2>0, <2>2 DEF Removes, Turn
  <2>3. CASE Copies("promoteCopy", "test", "working", "promoteClean", "promoteUndo")
    BY <1>0, <2>0, <2>3 DEF Copies, Turn
  <2>4. CASE Removes("promoteClean", "test", "backup", "backup")
    BY <1>0, <2>0, <2>4 DEF Removes, Turn
  <2>5. CASE Removes("promoteUndo", "working", "backup", "backup")
    BY <1>0, <2>0, <2>5 DEF Removes, Turn
  <2> QED BY <1>0, <1>2, <2>1, <2>2, <2>3, <2>4, <2>5, PromoteSteps
<1>3. CASE Backup /\ kept' = (kept \/ Complete("working")')
  <2>0. kept' => kept \/ Complete("working")'
    BY <1>3, Zenon
  <2>1. /\ phase \in {"backup", "backupClear", "backupCopy", "backupUndo"}
        /\ files'["working"] = files["working"]
        /\ failures' = failures \/ failures' > 0
        /\ phase' # "promoteClean"
        /\ phase' = "backupUndo" => phase = "backupUndo" \/ failures' > 0
        /\ phase' \notin {"promoteUndo", "without"}
    BY <1>0, <1>3, BackupSteps DEF Goes, Removes, Copies, Turn, FilesTyped
  <2> QED BY <2>0, <2>1 DEF BackupOK, Complete
<1>4. CASE Open \/ SetJournal \/ InitSchema \/ Write \/ ReportError
  BY <1>0, <1>4, Elsewhere DEF BackupOK, Complete, IsAway
<1>5. CASE HandleError
  <2>1. Removes("errored", "test", "schema", "schema") /\ kept' = kept
    BY <1>0, <1>5, Removing DEF HandleError, Phases
  <2> QED BY <1>0, <2>1 DEF Removes, Turn, BackupOK, Complete, FilesTyped
<1>6. CASE End
  BY <1>0, <1>6, AtTheEnd DEF BackupOK, Complete
<1>8. CASE HandleErrorLate
  BY <1>0, <1>8, Late DEF BackupOK, Complete
<1>7. CASE UNCHANGED vars
  BY <1>7 DEF vars, filing, history, BackupOK, Complete
<1> QED BY <1>1, <1>2, <1>3, <1>4, <1>5, <1>6, <1>7, <1>8 DEF Next, FileSteps

LEMMA CleanOKStep == IInv /\ [Next]_vars => CleanOK'
<1> SUFFICES ASSUME IInv, [Next]_vars PROVE CleanOK'
  OBVIOUS
<1>0. FilesTyped /\ FilesOK /\ BackupOK /\ CleanOK
  BY TypedFiles DEF IInv
<1> USE DEF File, Dir
<1>1. CASE Start
  <2>1. CASE Goto("promote") /\ UNCHANGED failures
    BY <1>0, <1>1, <2>1 DEF Start, Goto, CleanOK, Complete
  <2>2. CASE Fails
    BY <1>0, <2>2 DEF Fails, FilesTyped, CleanOK
  <2> QED BY <1>1, <2>1, <2>2 DEF Start
<1>2. CASE Promote /\ UNCHANGED <<errors, clean, spared>>
  <2> USE DEF FilesOK, BackupOK, CleanOK, Complete, Cleared, Copied, FilesTyped
  <2>1. CASE Goes("promote", IF Complete("test") THEN "promoteClear" ELSE "backup")
    BY <1>0, <1>2, <2>1 DEF Goes
  <2>2. CASE Removes("promoteClear", "working", "promoteCopy", "promoteUndo")
    BY <1>0, <1>2, <2>2 DEF Removes, Turn
  <2>3. CASE Copies("promoteCopy", "test", "working", "promoteClean", "promoteUndo")
    BY <1>0, <1>2, <2>3 DEF Copies, Turn
  <2>4. CASE Removes("promoteClean", "test", "backup", "backup")
    BY <1>0, <1>2, <2>4 DEF Removes, Turn
  <2>5. CASE Removes("promoteUndo", "working", "backup", "backup")
    BY <1>0, <1>2, <2>5 DEF Removes, Turn
  <2> QED BY <1>0, <1>2, <2>1, <2>2, <2>3, <2>4, <2>5, PromoteSteps
<1>3. CASE Backup /\ UNCHANGED <<errors, clean, spared>>
  <2>1. /\ phase \in {"backup", "backupClear", "backupCopy", "backupUndo"}
        /\ phase' \in {"backup", "backupClear", "backupCopy", "backupUndo", "open"}
        /\ files'["working"] = files["working"]
        /\ failures' = failures \/ failures' > 0
    BY <1>0, <1>3, BackupSteps DEF Goes, Removes, Copies, Turn, FilesTyped
  <2> QED BY <1>0, <1>3, <2>1 DEF CleanOK, Complete
<1>4. CASE Open \/ SetJournal \/ InitSchema \/ Write \/ ReportError
  BY <1>0, <1>4, Elsewhere DEF CleanOK, Complete, IsAway
<1>5. CASE HandleError
  <2>1. Removes("errored", "test", "schema", "schema") 
        /\ clean' = clean /\ spared' = spared /\ errors' = "handled"
    BY <1>0, <1>5, Removing DEF HandleError, Phases
  <2> QED BY <1>0, <2>1 DEF Removes, Turn, FilesOK, CleanOK, Complete, FilesTyped
<1>6. CASE End
  <2>1. clean \subseteq clean' /\ spared \subseteq spared'
    BY <1>6 DEF End
  <2>2. errors \in {"none", "reported", "handled"}
    BY DEF IInv, TypeOK
  <2>3. errors # "handled" /\ Complete("test") =>
            files["test"][1] \in clean' \cup spared'
    BY <1>6, <2>2 DEF End, Whole
  <2>4. failures = 0 /\ errors = "handled" => ~Complete("test")
    BY <1>0 DEF CleanOK, Complete
  <2> QED BY <1>0, <1>6, <2>1, <2>3, <2>4, AtTheEnd DEF CleanOK, Complete
<1>8. CASE HandleErrorLate
  BY <1>0, <1>8, Late DEF CleanOK, Complete
<1>7. CASE UNCHANGED vars
  BY <1>0, <1>7 DEF vars, filing, history, CleanOK, Complete
<1> QED BY <1>1, <1>2, <1>3, <1>4, <1>5, <1>6, <1>7, <1>8 DEF Next, FileSteps

-----------------------------------------------------------------------------
(* The upgrade.  A table of an old name is still to be renamed before        *)
(* anything else is executed; what is not there yet, or not filled in yet,   *)
(* is still to be executed.                                                  *)
Fields == {"activity", "agent"}
Has(s, x) == \E i \in 1..Len(s) : s[i] = x

RenamesOwed ==
    \A t \in DOMAIN OldName : OldName[t] \in tables =>
        /\ t \notin tables
        /\ version < Renamed
        /\ statements # <<>> =>
              \E i \in 1..Len(statements) :
                  /\ statements[i] = Do("rename", t)
                  /\ \A j \in 1..(i - 1) : statements[j].op = "rename"

UpgradeOwed ==
    ~collided /\ (statements # <<>> \/ (version = Current /\ ~torn)) =>
        /\ \A t \in NewTables : t \in tables \/ Has(statements, Do("create", t))
        /\ \A t \in Keyed, f \in Fields :
              \/ \A r \in rows[t] : r[f] # "empty"
              \/ Has(statements, Do(f, t))

SchemaOK == SchemaTypeOK /\ RenamesOwed /\ UpgradeOwed

LEMMA HasConcat ==
    ASSUME NEW s \in Seq(Statement), NEW u \in Seq(Statement), NEW x,
           Has(s, x) \/ Has(u, x)
    PROVE  Has(s \o u, x)
<1>1. Len(s \o u) = Len(s) + Len(u) /\ Len(s) \in Nat /\ Len(u) \in Nat
  BY ConcatProperties, LenProperties
<1>2. CASE Has(s, x)
  <2>1. PICK i \in 1..Len(s) : s[i] = x
    BY <1>2 DEF Has
  <2>2. (s \o u)[i] = x /\ i \in 1..Len(s \o u)
    BY <1>1, <2>1, ConcatProperties
  <2> QED BY <2>2 DEF Has
<1>3. CASE Has(u, x)
  <2>1. PICK i \in 1..Len(u) : u[i] = x
    BY <1>3 DEF Has
  <2>2. (s \o u)[Len(s) + i] = x /\ Len(s) + i \in 1..Len(s \o u)
    BY <1>1, <2>1, ConcatProperties
  <2> QED BY <2>2 DEF Has
<1> QED BY <1>2, <1>3

LEMMA HasTail ==
    ASSUME NEW s \in Seq(Statement), s # <<>>, NEW x, Has(s, x), x # Head(s)
    PROVE  Has(Tail(s), x)
<1>1. PICK i \in 1..Len(s) : s[i] = x
  BY DEF Has
<1>2. i # 1
  BY <1>1
<1>3. i - 1 \in 1..Len(Tail(s)) /\ Tail(s)[i - 1] = x
  BY <1>1, <1>2
<1> QED BY <1>3 DEF Has

(* What an upgrade begins with, and what it has.                             *)
LEMMA RenamesFirst ==
    ASSUME NEW v \in Version, v < Renamed, NEW t \in DOMAIN OldName
    PROVE  \E i \in 1..Len(Upgrade(v)) :
               /\ Upgrade(v)[i] = Do("rename", t)
               /\ \A j \in 1..(i - 1) : Upgrade(v)[j].op = "rename"
<1>1. v # Current
  BY DEF Version, Renamed, Current
<1>2. PICK last \in Seq(Statement) :
        /\ Renames \o SchemaQueries \in Seq(Statement)
        /\ Renames \o SchemaQueries \o Probes \in Seq(Statement)
        /\ Upgrade(v) = Renames \o SchemaQueries \o Probes \o last
  BY <1>1, UpgradeParts, Zenon
<1>3. /\ Len(Renames) = 2
      /\ Renames[1] = Do("rename", "ResourceEvent")
      /\ Renames[2] = Do("rename", "ResourceScoreCache")
  BY DEF Renames, OnEach
<1>4. ASSUME NEW s \in Seq(Statement), NEW u \in Seq(Statement), Len(s) >= 2
      PROVE  Len(s \o u) >= 2 /\ (s \o u)[1] = s[1] /\ (s \o u)[2] = s[2]
  BY <1>4, ConcatProperties, LenProperties
<1>5. /\ Len(Upgrade(v)) >= 2
      /\ Upgrade(v)[1] = Renames[1] /\ Upgrade(v)[2] = Renames[2]
  <2>1. /\ Len(Renames \o SchemaQueries) >= 2
        /\ (Renames \o SchemaQueries)[1] = Renames[1]
        /\ (Renames \o SchemaQueries)[2] = Renames[2]
    <3>1. Renames \in Seq(Statement) /\ SchemaQueries \in Seq(Statement)
      BY PartsType
    <3>2. Len(Renames) >= 2
      BY <1>3
    <3> QED BY <1>4, <3>1, <3>2
  <2>2. /\ Len(Renames \o SchemaQueries \o Probes) >= 2
        /\ (Renames \o SchemaQueries \o Probes)[1] = Renames[1]
        /\ (Renames \o SchemaQueries \o Probes)[2] = Renames[2]
    BY <1>2, <1>4, <2>1, PartsType
  <2> QED BY <1>2, <1>4, <2>2
<1>6. Len(Upgrade(v)) \in Nat /\ Upgrade(v)[1].op = "rename"
  BY <1>3, <1>5, UpgradeType, LenProperties DEF Do
<1>7. CASE t = "ResourceEvent"
  BY <1>3, <1>5, <1>6, <1>7
<1>8. CASE t = "ResourceScoreCache"
  <2>1. 2 \in 1..Len(Upgrade(v)) /\ Upgrade(v)[2] = Do("rename", t)
    BY <1>3, <1>5, <1>6, <1>8
  <2>2. \A j \in 1..(2 - 1) : Upgrade(v)[j].op = "rename"
    BY <1>6
  <2> QED BY <2>1, <2>2
<1> QED BY <1>7, <1>8 DEF OldName

LEMMA UpgradeHas ==
    ASSUME NEW v \in Version, v # Current
    PROVE  /\ Upgrade(v) # <<>>
           /\ \A t \in NewTables : Has(Upgrade(v), Do("create", t))
           /\ \A t \in Keyed, f \in Fields : Has(Upgrade(v), Do(f, t))
<1>1. v < Current
  BY DEF Version, Current
<1>2. PICK first \in Seq(Statement) :
        /\ first \o SchemaQueries \in Seq(Statement)
        /\ first \o SchemaQueries \o Probes \in Seq(Statement)
        /\ Upgrade(v) = first \o SchemaQueries \o Probes \o Fills
  BY <1>1, UpgradeParts, Zenon
<1>3. ASSUME NEW t \in NewTables PROVE Has(SchemaQueries, Do("create", t))
  <2> DEFINE begin == <<Do("create", "SchemaInfo"), Do("insertVersion", "SchemaInfo"),
                        Do("updateVersion", "SchemaInfo")>>
             names == <<"ResourceEvent", "ResourceScoreCache", "ResourceLink",
                        "ResourceInfo">>
             creates == OnEach("create", names)
  <2>1. names \in Seq(NewTables) /\ Len(names) = 4
    BY DEF NewTables
  <2>2. creates \in Seq(Statement)
    BY <2>1, OnEachType
  <2>3. begin \in Seq(Statement)
    BY StatementType DEF NewTables
  <2>4. Has(begin, Do("create", "SchemaInfo"))
    BY DEF Has
  <2>5. t # "SchemaInfo" => Has(creates, Do("create", t))
    BY DEF Has, OnEach, NewTables
  <2>6. SchemaQueries = begin \o creates
    BY DEF SchemaQueries
  <2> HIDE DEF begin, creates, names
  <2> QED BY <2>2, <2>3, <2>4, <2>5, <2>6, HasConcat
<1>4. ASSUME NEW t \in Keyed, NEW f \in Fields PROVE Has(Fills, Do(f, t))
  BY DEF Has, Fills, Keyed, Fields
<1>5. ASSUME NEW t \in NewTables PROVE Has(Upgrade(v), Do("create", t))
  <2>1. Has(first \o SchemaQueries, Do("create", t))
    BY <1>3, PartsType, HasConcat
  <2>2. Has(first \o SchemaQueries \o Probes, Do("create", t))
    BY <1>2, <2>1, PartsType, HasConcat
  <2> QED BY <1>2, <2>2, PartsType, HasConcat
<1>6. ASSUME NEW t \in Keyed, NEW f \in Fields PROVE Has(Upgrade(v), Do(f, t))
  BY <1>2, <1>4, PartsType, HasConcat
<1>7. Upgrade(v) # <<>>
  BY <1>5 DEF Has, NewTables
<1> QED BY <1>5, <1>6, <1>7

LEMMA FilledFacts ==
    ASSUME NEW r \in Row, NEW g \in Fields
    PROVE  /\ Filled(r, g) \in Row
           /\ Filled(r, g)[g] # "empty"
           /\ \A f \in Fields : r[f] # "empty" => Filled(r, g)[f] # "empty"
<1>1. CASE g = "activity"
  BY <1>1 DEF Filled, Row, Field, Fields
<1>2. CASE g = "agent"
  BY <1>2 DEF Filled, Row, Field, Fields
<1> QED BY <1>1, <1>2 DEF Fields

LEMMA SchemaOKInit == SchemaInit => SchemaOK
<1> SUFFICES ASSUME SchemaInit PROVE SchemaOK
  OBVIOUS
<1>1. PICK c \in OldDatabases : tables = c.tables /\ version = c.version /\ rows = c.rows
  BY DEF SchemaInit
<1>2. c \in Contents /\ version \in Version /\ rows \in [Keyed -> SUBSET Row]
      /\ statements = <<>>
  BY <1>1, OldDatabasesAssumption DEF SchemaInit, Contents
<1>3. RenamesOwed
  <2> SUFFICES ASSUME NEW t \in DOMAIN OldName, OldName[t] \in tables
               PROVE  t \notin tables /\ version < Renamed
    BY <1>2 DEF RenamesOwed
  <2>1. version < Renamed
    BY <1>1, <1>2, HistoryAssumption DEF OldTables, Version, Renamed
  <2> QED BY <1>1, <2>1, HistoryAssumption
<1>4. UpgradeOwed
  <2> SUFFICES ASSUME version = Current
               PROVE  /\ NewTables \subseteq tables
                      /\ \A t \in Keyed, f \in Fields : \A r \in rows[t] : r[f] # "empty"
    BY <1>2 DEF UpgradeOwed
  <2> QED BY <1>1, HistoryAssumption DEF Fields
<1> QED BY <1>3, <1>4, SchemaInitType DEF SchemaOK

LEMMA SchemaOKBegin == SchemaOK /\ statements = <<>> /\ BeginSchema => SchemaOK'
<1> SUFFICES ASSUME SchemaOK, statements = <<>>, BeginSchema PROVE SchemaOK'
  OBVIOUS
<1>1. /\ version \in Version
      /\ statements' = Upgrade(version)
      /\ UNCHANGED <<tables, version, rows, collided, torn>>
  BY DEF SchemaOK, SchemaTypeOK, BeginSchema, database
<1>2. RenamesOwed'
  <2> SUFFICES ASSUME NEW t \in DOMAIN OldName, OldName[t] \in tables
               PROVE  /\ t \notin tables /\ version < Renamed
                      /\ \E i \in 1..Len(Upgrade(version)) :
                            /\ Upgrade(version)[i] = Do("rename", t)
                            /\ \A j \in 1..(i - 1) : Upgrade(version)[j].op = "rename"
    BY <1>1 DEF RenamesOwed
  <2>1. t \notin tables /\ version < Renamed
    BY DEF SchemaOK, RenamesOwed
  <2> QED BY <1>1, <2>1, RenamesFirst
<1>3. UpgradeOwed'
  <2>1. CASE version = Current
    <3>1. Upgrade(version) = <<>>
      BY <2>1 DEF Upgrade
    <3>2. \A x : ~Has(<<>>, x)
      BY DEF Has
    <3> QED BY <1>1, <3>1, <3>2 DEF SchemaOK, UpgradeOwed
  <2>2. CASE version # Current
    BY <1>1, <2>2, UpgradeHas DEF UpgradeOwed
  <2> QED BY <2>1, <2>2
<1> QED BY <1>2, <1>3, BeginSchemaType DEF SchemaOK

(* What is executed leaves nothing behind, and does what it is for.          *)
LEMMA RenamesOwedNext == SchemaOK /\ ExecuteNext => RenamesOwed'
<1> SUFFICES ASSUME SchemaOK, ExecuteNext, NEW t \in DOMAIN OldName,
                    OldName[t] \in tables'
             PROVE  /\ t \notin tables'
                    /\ version' < Renamed
                    /\ statements' # <<>> =>
                          \E i \in 1..Len(statements') :
                              /\ statements'[i] = Do("rename", t)
                              /\ \A j \in 1..(i - 1) : statements'[j].op = "rename"
  BY DEF RenamesOwed
<1> DEFINE s == Head(statements)
<1>1. /\ statements \in Seq(Statement) /\ statements # <<>>
      /\ s \in Statement /\ s = statements[1]
      /\ Len(statements) \in Nat /\ Len(statements) >= 1
      /\ statements' = Tail(statements)
      /\ Execute(s)
  BY HeadTailProperties DEF SchemaOK, SchemaTypeOK, ExecuteNext
<1>2. s.on \in NewTables
  BY <1>1, NamesDiffer DEF Statement, Keyed, NewTables
<1>3. OldName[t] \in tables
  <2>1. tables' \subseteq tables \cup {s.on}
    BY <1>1 DEF Execute, database
  <2> QED BY <1>2, <2>1, NamesDiffer
<1>4. t \notin tables /\ version < Renamed
  BY <1>3 DEF SchemaOK, RenamesOwed
<1>5. PICK i \in 1..Len(statements) :
        /\ statements[i] = Do("rename", t)
        /\ \A j \in 1..(i - 1) : statements[j].op = "rename"
  BY <1>1, <1>3 DEF SchemaOK, RenamesOwed
<1>6. s.op = "rename"
  <2>1. CASE i = 1
    BY <1>1, <1>5, <2>1 DEF Do
  <2>2. CASE i # 1
    BY <1>1, <1>5, <2>2
  <2> QED BY <2>1, <2>2
<1>7. /\ tables' = IF OldName[s.on] \in tables /\ s.on \notin tables
                  THEN (tables \ {OldName[s.on]}) \cup {s.on}
                  ELSE tables
      /\ version' = version
  BY <1>1, <1>6 DEF Execute
<1>8. s.on # t
  BY <1>2, <1>3, <1>4, <1>7, NamesDiffer
<1>9. i # 1
  BY <1>1, <1>5, <1>8 DEF Do
<1>10. /\ i - 1 \in 1..Len(statements')
       /\ statements'[i - 1] = Do("rename", t)
       /\ \A j \in 1..((i - 1) - 1) : statements'[j].op = "rename"
  <2>1. /\ Len(statements') = Len(statements) - 1
        /\ \A j \in 1..Len(statements') : statements'[j] = statements[j + 1]
    BY <1>1
  <2>2. i - 1 \in 1..Len(statements') /\ statements'[i - 1] = Do("rename", t)
    BY <1>1, <1>5, <1>9, <2>1
  <2>3. ASSUME NEW j \in 1..((i - 1) - 1) PROVE statements'[j].op = "rename"
    <3>1. j + 1 \in 1..(i - 1) /\ j \in 1..Len(statements')
      BY <1>1, <1>5, <1>9, <2>1
    <3> QED BY <1>5, <2>1, <3>1
  <2> QED BY <2>2, <2>3
<1> QED BY <1>4, <1>7, <1>8, <1>10

LEMMA UpgradeOwedNext == SchemaOK /\ ExecuteNext => UpgradeOwed'
<1> SUFFICES ASSUME SchemaOK, ExecuteNext, ~collided'
             PROVE  /\ \A t \in NewTables :
                          t \in tables' \/ Has(statements', Do("create", t))
                    /\ \A t \in Keyed, f \in Fields :
                          \/ \A r \in rows'[t] : r[f] # "empty"
                          \/ Has(statements', Do(f, t))
  BY DEF UpgradeOwed
<1> DEFINE s == Head(statements)
<1>1. /\ statements \in Seq(Statement) /\ statements # <<>>
      /\ s \in Statement
      /\ statements' = Tail(statements)
      /\ Execute(s)
      /\ tables \subseteq NewTables \cup OldTables
      /\ rows \in [Keyed -> SUBSET Row]
  BY HeadTailProperties DEF SchemaOK, SchemaTypeOK, ExecuteNext
<1>2. ~collided
  BY <1>1 DEF Execute, database
<1>3. ASSUME NEW t \in NewTables
      PROVE  t \in tables' \/ Has(statements', Do("create", t))
  <2>1. CASE t \in tables
    <3>1. s.op = "rename" => OldName[s.on] # t
      BY <1>1, NamesDiffer DEF Statement
    <3> QED BY <1>1, <2>1, <3>1 DEF Execute, database
  <2>2. CASE t \notin tables
    <3>1. Has(statements, Do("create", t))
      BY <1>1, <1>2, <2>2 DEF SchemaOK, UpgradeOwed
    <3>2. CASE s = Do("create", t)
      <4>1. s.op = "create" /\ s.on = t
        BY <3>2 DEF Do
      <4> QED BY <1>1, <4>1 DEF Execute
    <3> QED BY <1>1, <3>1, <3>2, HasTail
  <2> QED BY <2>1, <2>2
<1>4. ASSUME NEW t \in Keyed, NEW f \in Fields
      PROVE  (\A r \in rows'[t] : r[f] # "empty") \/ Has(statements', Do(f, t))
  <2>1. /\ s.op \in Fields => s.on \in Keyed
        /\ rows' = IF s.op \in Fields
                   THEN [rows EXCEPT ![s.on] = {Filled(r, s.op) : r \in @}]
                   ELSE rows
    BY <1>1 DEF Execute, Statement, Fields, database
  <2>2. CASE \A r \in rows[t] : r[f] # "empty"
    BY <1>1, <2>1, <2>2, FilledFacts
  <2>3. CASE ~\A r \in rows[t] : r[f] # "empty"
    <3>1. Has(statements, Do(f, t))
      BY <1>1, <1>2, <2>3 DEF SchemaOK, UpgradeOwed
    <3>2. CASE s = Do(f, t)
      <4>1. s.op = f /\ s.on = t
        BY <3>2 DEF Do
      <4>2. rows'[t] = {Filled(r, f) : r \in rows[t]}
        BY <1>1, <2>1, <4>1
      <4> QED BY <1>1, <4>2, FilledFacts
    <3> QED BY <1>1, <3>1, <3>2, HasTail
  <2> QED BY <2>2, <2>3
<1> QED BY <1>3, <1>4

LEMMA SchemaOKNext == SchemaOK /\ ExecuteNext => SchemaOK'
BY ExecuteNextType, RenamesOwedNext, UpgradeOwedNext DEF SchemaOK

LEMMA SchemaOKEnd == SchemaOK /\ EndOfProcess => SchemaOK'
<1> SUFFICES ASSUME SchemaOK, EndOfProcess PROVE SchemaOK'
  OBVIOUS
<1>1. /\ statements' = <<>>
      /\ UNCHANGED <<tables, version, rows, collided>>
  BY DEF EndOfProcess, database
<1>2. torn' = (torn \/ statements # <<>>)
  BY Zenon DEF EndOfProcess
<1>3. ~torn' => ~torn /\ statements = <<>>
  BY <1>2, Zenon
<1>4. RenamesOwed'
  BY <1>1 DEF SchemaOK, RenamesOwed
<1>5. UpgradeOwed'
  BY <1>1, <1>3 DEF SchemaOK, UpgradeOwed
<1> QED BY <1>4, <1>5, EndOfProcessType DEF SchemaOK

LEMMA SchemaOKSame == SchemaOK /\ UNCHANGED schemaVars => SchemaOK'
<1> SUFFICES ASSUME SchemaOK, UNCHANGED schemaVars PROVE SchemaOK'
  OBVIOUS
<1>1. UNCHANGED <<tables, version, rows, statements, collided, torn>>
  BY DEF schemaVars, database
<1> QED BY <1>1 DEF SchemaOK, SchemaTypeOK, RenamesOwed, UpgradeOwed, Has

(* The steps of Database, as Schema sees them.                               *)
LEMMA SchemaSteps ==
    ASSUME [Next]_vars
    PROVE  \/ phase = "journal" /\ phase' = "schema" /\ BeginSchema
           \/ phase = "schema" /\ phase' \in {"schema", "errored"} /\ ExecuteNext
           \/ EndOfProcess
           \/ /\ UNCHANGED schemaVars
              /\ \/ phase' = phase
                 \/ phase \notin {"schema", "running", "errored", "late"}
                 \/ phase' \in {"schema", "running", "errored", "late"}
<1>1. CASE Start \/ FileSteps
  <2>1. UNCHANGED schemaVars
    BY <1>1 DEF Start, FileSteps
  <2>2. phase \notin {"schema", "running", "errored", "late"}
    BY <1>1 DEF Start, FileSteps, Promote, Backup, CopyDatabaseFiles, RemoveFiles
  <2> QED BY <2>1, <2>2
<1>2. CASE Open \/ SetJournal \/ InitSchema \/ Write \/ ReportError
  BY <1>2 DEF Open, SetJournal, InitSchema, Write, ReportError, Goto
<1>3. CASE HandleError \/ HandleErrorLate
  BY <1>3 DEF HandleError, HandleErrorLate, RemoveFiles, Advance, Goto
<1>4. CASE End \/ UNCHANGED vars
  BY <1>4 DEF End, vars, filing
<1> QED BY <1>1, <1>2, <1>3, <1>4 DEF Next

(* Statements are left only where they are executed.                         *)
InSchema == statements # <<>> => phase \in {"schema", "running", "errored", "late"}
SInv == SchemaOK /\ InSchema

LEMMA SInvAlways == Spec => []SInv
<1>1. Init => SInv
  BY SchemaOKInit DEF Init, SInv, InSchema, SchemaInit
<1>2. SInv /\ [Next]_vars => SInv'
  <2> SUFFICES ASSUME SInv, [Next]_vars PROVE SInv'
    OBVIOUS
  <2>1. CASE phase = "journal" /\ phase' = "schema" /\ BeginSchema
    BY <2>1, SchemaOKBegin DEF SInv, InSchema
  <2>2. CASE phase = "schema" /\ phase' \in {"schema", "errored"} /\ ExecuteNext
    BY <2>2, SchemaOKNext DEF SInv, InSchema
  <2>3. CASE EndOfProcess
    BY <2>3, SchemaOKEnd DEF SInv, InSchema, EndOfProcess
  <2>4. CASE /\ UNCHANGED schemaVars
             /\ \/ phase' = phase
                \/ phase \notin {"schema", "running", "errored", "late"}
                \/ phase' \in {"schema", "running", "errored", "late"}
    BY <2>4, SchemaOKSame DEF SInv, InSchema, schemaVars
  <2> QED BY <2>1, <2>2, <2>3, <2>4, SchemaSteps
<1> QED BY <1>1, <1>2, PTL DEF Spec

(* Rows that do not collide are as many when they are filled in.             *)
LEMMA RowIsFinite == IsFiniteSet(Row)
<1> DEFINE number(x) == CASE x = "empty" -> 0 [] x = "global" -> 1 [] OTHER -> 2
           f == [r \in Row |-> 3 * number(r.activity) + number(r.agent)]
<1>1. \A r \in Row : f[r] \in 0..8
  BY DEF Row, Field
<1>2. \A r, q \in Row : f[r] = f[q] => r = q
  <2> TAKE r, q \in Row
  <2>1. /\ r = [activity |-> r.activity, agent |-> r.agent]
        /\ q = [activity |-> q.activity, agent |-> q.agent]
        /\ {r.activity, r.agent, q.activity, q.agent} \subseteq Field
    BY DEF Row
  <2>2. \A x, y, u, v \in Field :
          3 * number(x) + number(y) = 3 * number(u) + number(v) => x = u /\ y = v
    BY DEF Field
  <2>3. f[r] = 3 * number(r.activity) + number(r.agent)
        /\ f[q] = 3 * number(q.activity) + number(q.agent)
    OBVIOUS
  <2> HIDE DEF f, number
  <2> QED BY <2>1, <2>2, <2>3
<1>3. f \in Injection(Row, 0..8)
  <2> HIDE DEF number
  <2>1. f \in [Row -> 0..8]
    BY <1>1
  <2> HIDE DEF f
  <2> QED BY <1>2, <2>1 DEF Injection, IsInjective
<1>4. IsFiniteSet(0..8)
  <2>1. 0 \in Int /\ 8 \in Int
    OBVIOUS
  <2> QED BY <2>1, FS_Interval, Zenon
<1> HIDE DEF f
<1> QED BY <1>3, <1>4, FS_Injection

LEMMA FilledRowsKept ==
    ASSUME NEW S \in SUBSET Row, NEW g \in Fields,
           \A r, q \in S : r # q => Filled(r, g) # Filled(q, g)
    PROVE  Cardinality({Filled(r, g) : r \in S}) = Cardinality(S)
<1> DEFINE T == {Filled(r, g) : r \in S}
           f == [r \in S |-> Filled(r, g)]
<1>1. IsFiniteSet(S)
  BY RowIsFinite, FS_Subset
<1>2. f \in Surjection(S, T)
  BY DEF Surjection
<1>3. f \in Injection(S, T)
  BY DEF Injection, IsInjective
<1> QED BY <1>1, <1>2, <1>3, FS_Surjection

LEMMA RowsKeptStep ==
    ASSUME SchemaTypeOK, [Next]_vars
    PROVE  [\A t \in Keyed : Cardinality(rows'[t]) >= Cardinality(rows[t])]_rows
<1> SUFFICES ASSUME rows' # rows, NEW t \in Keyed
             PROVE  Cardinality(rows'[t]) >= Cardinality(rows[t])
  BY DEF SchemaTypeOK
<1> DEFINE s == Head(statements)
<1>1. ExecuteNext
  BY SchemaSteps DEF BeginSchema, EndOfProcess, schemaVars, database
<1>2. /\ s \in Statement /\ Execute(s)
      /\ rows \in [Keyed -> SUBSET Row]
  BY <1>1, HeadTailProperties DEF SchemaTypeOK, ExecuteNext
<1>3. /\ s.op \in Fields /\ s.on \in Keyed /\ ~Collides(s.on, s.op)
      /\ rows' = [rows EXCEPT ![s.on] = {Filled(r, s.op) : r \in @}]
  BY <1>2 DEF Execute, Statement, Fields, database
<1>4. \A u \in Keyed : Cardinality(rows[u]) \in Nat
  BY <1>2, RowIsFinite, FS_Subset, FS_CardinalityType
<1>5. CASE t = s.on
  <2>1. rows'[t] = {Filled(r, s.op) : r \in rows[t]} /\ rows[t] \in SUBSET Row
    BY <1>2, <1>3, <1>5
  <2>2. \A r, q \in rows[t] : r # q => Filled(r, s.op) # Filled(q, s.op)
    BY <1>3, <1>5 DEF Collides
  <2>3. Cardinality(rows'[t]) = Cardinality(rows[t])
    BY <1>3, <2>1, <2>2, FilledRowsKept
  <2> QED BY <1>4, <2>3
<1>6. CASE t # s.on
  <2>1. rows'[t] = rows[t]
    BY <1>2, <1>3, <1>6
  <2> QED BY <1>4, <2>1
<1> QED BY <1>5, <1>6

LEMMA IInvAlways == Spec => []IInv
<1>1. IInv /\ [Next]_vars => IInv'
  BY TypeOKStep, FilesOKStep, BackupOKStep, CleanOKStep DEF IInv
<1> QED BY <1>1, IInvInit, PTL DEF Spec

-----------------------------------------------------------------------------
(* Every variable stays in its type, those of Schema included                *)
(* (Database.cpp, ResourcesDatabaseSchema.cpp).                              *)
THEOREM TypeCorrect == Spec => []TypeOK
<1>1. IInv => TypeOK
  BY DEF IInv
<1> QED BY <1>1, IInvAlways, PTL

(* What the two backups are worth, through any deaths and any failures of    *)
(* file operations: of one state; never without one as long as nothing       *)
(* fails; and the working one not from a process that removed the first file *)
(* after an error before initDatabase() returned, though perhaps from one    *)
(* with an error after that, or that died before it removed a file           *)
(* (Database.cpp:84-91, 107, 127-173, 182-196).                              *)
THEOREM BackupsStayGood == Spec => []BackupsAreGood
<1>1. IInv => BackupsAreGood
  <2> SUFFICES ASSUME IInv PROVE BackupsAreGood
    OBVIOUS
  <2>1. BackupsWhole
    BY DEF IInv, FilesOK, IsWhole, BackupsWhole
  <2>2. BackupKept
    BY DEF IInv, BackupOK, BackupKept
  <2>3. WorkingIsClean
    BY DEF IInv, CleanOK, WorkingIsClean
  <2> QED BY <2>1, <2>2, <2>3 DEF BackupsAreGood
<1> QED BY <1>1, IInvAlways, PTL

(* What an upgrade owes to the data, from any version, through deaths at any *)
(* statement: it is complete, leaves no old table behind and keeps all rows  *)
(* (ResourcesDatabaseSchema.cpp:139-212).                                    *)
THEOREM UpgradeStaysSound == Spec => UpgradeIsSound
<1>1. SInv => UpgradeIsComplete
  <2> SUFFICES ASSUME SInv, version = Current, statements = <<>>, ~torn, ~collided
               PROVE  UpToDate
    BY DEF UpgradeIsComplete
  <2>1. \A x : ~Has(statements, x)
    BY DEF Has
  <2>2. /\ NewTables \subseteq tables
        /\ \A t \in Keyed, f \in Fields : \A r \in rows[t] : r[f] # "empty"
    BY <2>1 DEF SInv, SchemaOK, UpgradeOwed
  <2> QED BY <2>2 DEF UpToDate, Fields
<1>2. SInv => NothingLeftBehind
  BY DEF SInv, SchemaOK, RenamesOwed, NothingLeftBehind, OldTables, Renamed, Current
<1>3. SInv /\ [Next]_vars =>
        [\A t \in Keyed : Cardinality(rows'[t]) >= Cardinality(rows[t])]_rows
  BY RowsKeptStep DEF SInv, SchemaOK
<1>4. Spec => RowsKept
  BY <1>3, SInvAlways, PTL DEF Spec, RowsKept
<1> QED BY <1>1, <1>2, <1>4, SInvAlways, PTL DEF UpgradeIsSound
=============================================================================
