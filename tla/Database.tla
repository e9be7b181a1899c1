------------------------------ MODULE Database ------------------------------
(* The files of the resources database (plugins/sqlite/Database.cpp): at     *)
(* each start what was backed up last becomes the working backup, what there *)
(* is now is backed up, and the database is opened; an error that a query    *)
(* reports is to take the fresh backup away.  Opening is                     *)
(* common/database/Database.cpp, bringing the tables up to date is module    *)
(* Schema.                                                                   *)
(*                                                                           *)
(* A file is copied or removed in one step.  The process may die between any *)
(* two steps, and a file operation may fail.                                 *)
(*                                                                           *)
(* Abstracted: contents of the files to the number of the last write; the    *)
(* part after a failed open, which is never reached: instance() ends the     *)
(* process when it cannot open for writing and never returns null then       *)
(* (common/database/Database.cpp:102-104), so that nothing is ever restored. *)
EXTENDS Schema

CONSTANTS MaxWrites,    \* bounds: writes of the database,
          MaxFailures   \*   file operations that fail

ASSUME BoundsAssumption == {MaxWrites, MaxFailures} \subseteq Nat

None == -1
File == 1..3            \* database, database-wal, database-shm
Dir == {"resources", "test", "working"}
Content == 0..MaxWrites
Empty == [f \in File |-> None]

VARIABLES files,     \* per directory and file, what is in it, or None
          journal,   \* how sqlite keeps its journal in this database
          phase,     \* where the process is
          at,        \* the file that a loop over the files is at
          writes, failures,
          errors,    \* did this process report errors, and was any handled
          clean,     \* the backups whose processes reported none
          spared,    \* those that an error should have taken away
          kept       \* was there ever a working backup

filing == <<files, phase, at>>
history == <<errors, clean, spared, kept>>
vars == <<schemaVars, filing, journal, writes, failures, history>>

Phases == {"down", "promote", "promoteClear", "promoteCopy", "promoteClean",
           "promoteUndo", "backup", "backupClear", "backupCopy", "backupUndo",
           "open", "journal", "schema", "errored", "running", "late", "without"}

(* A database of an earlier version keeps a write-ahead log, and whoever     *)
(* used it last may have left the two files of it.                           *)
Init == /\ SchemaInit
        /\ journal \in {"wal", "truncate"}
        /\ files = [d \in Dir |->
                      IF d # "resources" \/ tables = {} THEN Empty
                      ELSE [f \in File |-> IF f = 1 \/ journal = "wal" THEN 0
                                                                       ELSE None]]
        /\ phase = "down"
        /\ at = 1
        /\ writes = 0
        /\ failures = 0
        /\ errors = "none"
        /\ clean = {}
        /\ spared = {}
        /\ kept = FALSE

-----------------------------------------------------------------------------
(* databaseFilesExistIn()                                                    *)
Complete(dir) == \A f \in File : files[dir][f] # None

Goto(p) == phase' = p /\ at' = 1

(* The loop goes on, or ends.                                                *)
Advance(next) == IF at = 3 THEN Goto(next) ELSE at' = at + 1 /\ UNCHANGED phase

Fails == failures < MaxFailures /\ failures' = failures + 1

(* removeDatabaseFiles(), which ends at the first file it cannot remove.     *)
RemoveFiles(p, dir, next, failed) ==
    /\ phase = p
    /\ \/ /\ files' = [files EXCEPT ![dir][at] = None]
          /\ Advance(next)
          /\ UNCHANGED failures
       \/ /\ files[dir][at] # None
          /\ Fails
          /\ Goto(failed)
          /\ UNCHANGED files

(* copyDatabaseFiles(): what is there is removed first, as QFile::copy does  *)
(* not overwrite.                                                            *)
CopyDatabaseFiles(clear, copy, from, to, next, failed) ==
    \/ RemoveFiles(clear, to, copy, failed)
    \/ /\ phase = copy
       /\ \/ /\ files' = [files EXCEPT ![to][at] = files[from][at]]
             /\ Advance(next)
             /\ UNCHANGED failures
          \/ Fails /\ Goto(failed) /\ UNCHANGED files

(* Mutant: the files are moved.                                              *)
PromoteMoving ==
    \/ /\ phase = "promote"
       /\ Goto(IF Complete("test") THEN "promoteClear" ELSE "backup")
       /\ UNCHANGED <<files, failures>>
    \/ RemoveFiles("promoteClear", "working", "promoteCopy", "backup")
    \/ /\ phase = "promoteCopy"
       /\ files' = [files EXCEPT !["working"][at] = files["test"][at],
                                !["test"][at] = None]
       /\ Advance("backup")
       /\ UNCHANGED failures

(* "Marking the test backup as working"                                      *)
Promote ==
    \/ /\ phase = "promote"
       /\ Goto(IF Complete("test") THEN "promoteClear" ELSE "backup")
       /\ UNCHANGED <<files, failures>>
    \/ CopyDatabaseFiles("promoteClear", "promoteCopy", "test", "working",
                         "promoteClean", "promoteUndo")
    \/ RemoveFiles("promoteClean", "test", "backup", "backup")
    \/ RemoveFiles("promoteUndo", "working", "backup", "backup")

(* "Creating the backup of the current database"                             *)
Backup ==
    \/ /\ phase = "backup"
       /\ Goto(IF Complete("resources") THEN "backupClear" ELSE "open")
       /\ UNCHANGED <<files, failures>>
    \/ CopyDatabaseFiles("backupClear", "backupCopy", "resources", "test",
                         "open", "backupUndo")
    \/ RemoveFiles("backupUndo", "test", "open", "open")

FileSteps ==
    /\ Promote \/ Backup
    /\ kept' = (kept \/ Complete("working")')
    /\ UNCHANGED <<schemaVars, journal, writes, errors, clean, spared>>

(* initDatabase() begins, or finds that it has no directories.               *)
Start ==
    /\ phase = "down"
    /\ errors' = "none"
    /\ \/ Goto("promote") /\ UNCHANGED failures
       \/ Fails /\ Goto("without")
    /\ UNCHANGED <<schemaVars, files, journal, writes, clean, spared, kept>>

-----------------------------------------------------------------------------
(* Opening.                                                                  *)

(* The files that sqlite uses, after a write or when the journal changes.    *)
InUse(mode, content) == [f \in File |-> IF f = 1 \/ mode = "wal" THEN content
                                                                 ELSE None]
FirstOf(dir) == IF files[dir][1] = None THEN 0 ELSE files[dir][1]

(* instance(): a missing database is created.                                *)
Open ==
    /\ phase = "open"
    /\ files' = [files EXCEPT !["resources"] = InUse(journal, FirstOf("resources"))]
    /\ Goto("journal")
    /\ UNCHANGED <<schemaVars, journal, writes, failures, history>>

(* journal_mode = TRUNCATE, which is without effect while another program    *)
(* has the database open in the other mode.  Nobody hears of errors yet.     *)
SetJournal ==
    /\ phase = "journal"
    /\ journal' \in {journal, "truncate"}
    /\ files' = [files EXCEPT !["resources"] = InUse(journal', @[1])]
    /\ BeginSchema
    /\ Goto("schema")
    /\ UNCHANGED <<writes, failures, history>>

Reported == errors' = IF errors = "none" THEN "reported" ELSE errors

InitSchema ==
    /\ phase = "schema"
    /\ \/ /\ ExecuteNext
          /\ IF Reports(Head(statements)) THEN Goto("errored") /\ Reported
                                          ELSE Goto("schema") /\ UNCHANGED errors
       \/ /\ statements = <<>>
          /\ Goto("running")
          /\ UNCHANGED <<schemaVars, errors>>
    /\ UNCHANGED <<files, journal, writes, failures, clean, spared, kept>>

(* The slot connected to the error signal.                                   *)
HandleError ==
    /\ RemoveFiles("errored", "test", "schema", "schema")
    /\ errors' = "handled"
    /\ UNCHANGED <<schemaVars, journal, writes, clean, spared, kept>>

-----------------------------------------------------------------------------
(* Running.                                                                  *)

Write ==
    /\ phase \in {"schema", "running"}
    /\ writes < MaxWrites
    /\ writes' = writes + 1
    /\ files' = [files EXCEPT !["resources"] = InUse(journal, writes')]
    /\ UNCHANGED <<schemaVars, journal, phase, at, failures, history>>

(* A query fails: Utils::exec() reports it.                                  *)
ReportError ==
    /\ phase = "running"
    /\ Goto("late")
    /\ Reported
    /\ UNCHANGED <<schemaVars, files, journal, writes, failures, clean, spared, kept>>

(* The slot has removeDatabaseFiles() by value, but that has the list of the *)
(* names by reference, a local variable of initDatabase(): after this has    *)
(* returned any of the files may go or stay, or the process crashes.         *)
HandleErrorLate ==
    /\ phase = "late"
    /\ \/ \E f \in File : files' = [files EXCEPT !["test"][f] = None]
          /\ UNCHANGED <<phase, at>>
       \/ Goto("running") /\ UNCHANGED files
    /\ UNCHANGED <<schemaVars, journal, writes, failures, history>>

Whole(dir) == IF Complete(dir) THEN {files[dir][1]} ELSE {}

(* The process ends, at any point and for any reason; when it was the last   *)
(* to use a write-ahead log it may have removed its files.                   *)
End ==
    /\ phase # "down"
    /\ Goto("down")
    /\ EndOfProcess
    /\ files' \in {files} \cup
         IF phase # "running" THEN {}
         ELSE {[files EXCEPT !["resources"] = InUse("truncate", @[1])]}
    /\ clean' = clean \cup IF errors = "none" THEN Whole("test") ELSE {}
    /\ spared' = spared \cup IF errors = "reported" THEN Whole("test") ELSE {}
    /\ UNCHANGED <<journal, writes, failures, errors, kept>>

-----------------------------------------------------------------------------
Next == \/ Start \/ FileSteps \/ Open \/ SetJournal \/ InitSchema
        \/ HandleError \/ Write \/ ReportError \/ HandleErrorLate \/ End

Spec == Init /\ [][Next]_vars

-----------------------------------------------------------------------------
TypeOK == /\ SchemaTypeOK
          /\ files \in [Dir -> [File -> Content \cup {None}]]
          /\ journal \in {"wal", "truncate"}
          /\ phase \in Phases
          /\ at \in File
          /\ writes \in 0..MaxWrites
          /\ failures \in 0..MaxFailures
          /\ errors \in {"none", "reported", "handled"}
          /\ {clean, spared} \subseteq SUBSET Content
          /\ kept \in BOOLEAN

(* A backup that has all its files has them from one state of the database,  *)
(* wherever processes died and whatever could not be copied or removed       *)
(* (Database.cpp:127-143, 156-173).                                          *)
BackupsWhole == \A dir \in {"test", "working"} :
                    Complete(dir) => \A f \in File : files[dir][f] = files[dir][1]

(* Once there is a working backup there is a backup at every moment, through *)
(* deaths at any step, as long as no file operation fails: the copy becomes  *)
(* the working backup before what it was made from goes                      *)
(* (Database.cpp:156-173).                                                   *)
BackupKept == kept /\ failures = 0 => Complete("working") \/ Complete("test")

(* "it will be the last database that produced no errors at runtime" is kept *)
(* only so far: a backup becomes the working one after an error of its       *)
(* process only if that died before it had removed a file, or if no error    *)
(* came before initDatabase() had returned, as then it may be that none is   *)
(* removed (Database.cpp:84-91, 107, 127-133, 156-164, 182-196).             *)
WorkingIsClean ==
    failures = 0 /\ Complete("working") => files["working"][1] \in clean \cup spared

(* What the two backups are worth, through deaths between any two steps and  *)
(* file operations that fail (Database.cpp:84-91, 127-173, 182-196).         *)
BackupsAreGood == BackupsWhole /\ BackupKept /\ WorkingIsClean
=============================================================================
