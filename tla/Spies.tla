-------------------------------- MODULE Spies -------------------------------
(* The two plugins that find out which documents other programs use: one     *)
(* watches the directory of recent documents (plugins/eventspy), the other   *)
(* one the history file of GTK programs (plugins/gtk-eventspy).  Both tell   *)
(* what is new by its time, against the time of their last update, and       *)
(* register it as accessed.                                                  *)
(*                                                                           *)
(* All of this runs on the main thread; programs use documents meanwhile.    *)
(* The watch reports that something has changed, not what, nor how often.    *)
(* Times in the history file are whole seconds, all others are exact.        *)
(*                                                                           *)
(* Abstracted: names, and the programs that used a document; the format of   *)
(* the two kinds of files, but that the history file may be half-written;    *)
(* the way of an event through the queue of Resources (module Resources).    *)
EXTENDS Integers, Sequences, FiniteSets

CONSTANTS Doc,       \* documents
          GtkDoc,    \* ... that GTK programs use
          MaxTime,   \* bounds: the clock, in half seconds,
          MaxUses    \*   and uses of documents

ASSUME DocAssumption == IsFiniteSet(Doc) /\ GtkDoc \subseteq Doc
ASSUME TimeAssumption == MaxTime \in Nat /\ MaxUses \in Nat

Time == 0..MaxTime
Spy == {"kde", "gtk"}
SpyOn(d) == IF d \in GtkDoc THEN "gtk" ELSE "kde"
DocsOf(s) == {d \in Doc : SpyOn(d) = s}

VARIABLES now,         \* the clock
          stamp,       \* per document, the time of its last use, or -1
          uses,        \* per document, how often it was used
          half,        \* is the history file half-written
          dirty,       \* per spy, has its watch something to report
          lastUpdate,  \* m_lastUpdate of each spy
          main,        \* what the main thread is at
          left,        \* documents the spy at work has still to look at, with
                       \*   the use it knows of or 0
          accessed,    \* documents on their way to the statistics
          mimetypes,   \* ... and those whose mime type is
          seen,        \* per document, the last use that was registered
          late,        \* per document, was it last used while its spy was at
                       \*   work, in the second of its last update, or before
                       \*   a restart
          again        \* was one use registered twice

files == <<stamp, uses, half, dirty>>
spies == <<lastUpdate, left, seen, again>>
spyVars == <<now, files, spies, main, accessed, mimetypes, late>>

SpyInit == /\ now = 0
           /\ stamp = [d \in Doc |-> -1]
           /\ uses = [d \in Doc |-> 0]
           /\ half = FALSE
           /\ dirty = [s \in Spy |-> FALSE]
           /\ lastUpdate = [s \in Spy |-> 0]
           /\ main = "idle"
           /\ left = {}
           /\ accessed = {}
           /\ mimetypes = {}
           /\ seen = [d \in Doc |-> 0]
           /\ late = [d \in Doc |-> FALSE]
           /\ again = FALSE

Tick == /\ now < MaxTime
        /\ now' = now + 1
        /\ UNCHANGED <<files, spies, main, accessed, mimetypes, late>>

-----------------------------------------------------------------------------
(* Programs.                                                                 *)

TotalUses == Cardinality({u \in Doc \X (1..MaxUses) : u[2] <= uses[u[1]]})

StampOf(d) == IF d \in GtkDoc THEN now - (now % 2) ELSE now

Use(d) ==
    LET s == SpyOn(d)
    IN  /\ TotalUses < MaxUses
        /\ stamp' = [stamp EXCEPT ![d] = StampOf(d)]
        /\ uses' = [uses EXCEPT ![d] = @ + 1]
        /\ dirty' = [dirty EXCEPT ![s] = TRUE]
        /\ half' = (half /\ s # "gtk")
        /\ late' = [late EXCEPT ![d] = main = s \/ StampOf(d) <= lastUpdate[s]]
        /\ UNCHANGED <<now, spies, main, accessed, mimetypes>>

(* The history file is also written for other reasons than a use.            *)
Rewrite ==
    /\ half' = ~half
    /\ dirty' = [dirty EXCEPT !["gtk"] = TRUE]
    /\ UNCHANGED <<now, stamp, uses, spies, main, accessed, mimetypes, late>>

-----------------------------------------------------------------------------
(* The spies.                                                                *)

Report(s) == /\ main = "idle"
             /\ dirty[s]
             /\ dirty' = [dirty EXCEPT ![s] = FALSE]

IsNew(d) == stamp[d] > lastUpdate[SpyOn(d)]

(* directoryUpdated(): the directory is listed; each document is looked at   *)
(* later, as it is then.                                                     *)
DirectoryUpdated ==
    /\ Report("kde")
    /\ main' = "kde"
    /\ left' = {<<d, 0>> : d \in {d \in DocsOf("kde") : uses[d] > 0}}
    /\ UNCHANGED <<now, stamp, uses, half, lastUpdate, seen, again, accessed, mimetypes, late>>

(* Mutant: what could not be read counts as an update.                       *)
FileUpdatedAnyway ==
    /\ Report("gtk")
    /\ IF half
       THEN lastUpdate' = [lastUpdate EXCEPT !["gtk"] = now] /\ UNCHANGED <<main, left>>
       ELSE /\ main' = "gtk"
            /\ left' = {<<d, uses[d]>> : d \in {d \in DocsOf("gtk") : IsNew(d)}}
            /\ UNCHANGED lastUpdate
    /\ UNCHANGED <<now, stamp, uses, half, seen, again, accessed, mimetypes, late>>

(* fileUpdated(): the file is read as a whole, or cannot be parsed.          *)
FileUpdated ==
    /\ Report("gtk")
    /\ IF half
       THEN UNCHANGED <<main, left>>
       ELSE /\ main' = "gtk"
            /\ left' = {<<d, uses[d]>> : d \in {d \in DocsOf("gtk") : IsNew(d)}}
    /\ UNCHANGED <<now, stamp, uses, half, lastUpdate, seen, again, accessed, mimetypes, late>>

(* Mutant: every spy tells of mime types.                                    *)
AddDocumentMimetype(d, use) ==
    /\ accessed' = accessed \cup {d}
    /\ mimetypes' = mimetypes \cup {d}
    /\ seen' = [seen EXCEPT ![d] = use]
    /\ again' = (again \/ seen[d] >= use)

(* addDocument(): the mime type is told past Resources, and sooner.          *)
AddDocument(d, use) ==
    /\ accessed' = accessed \cup {d}
    /\ mimetypes' = IF d \in GtkDoc THEN mimetypes \cup {d} ELSE mimetypes
    /\ seen' = [seen EXCEPT ![d] = use]
    /\ again' = (again \/ seen[d] >= use)

LookAt(d, use) ==
    /\ main \in Spy
    /\ <<d, use>> \in left
    /\ left' = left \ {<<d, use>>}
    /\ IF use > 0 THEN AddDocument(d, use)
       ELSE IF IsNew(d) THEN AddDocument(d, uses[d])
       ELSE UNCHANGED <<accessed, mimetypes, seen, again>>
    /\ UNCHANGED <<now, files, lastUpdate, main, late>>

(* The last update is now.                                                   *)
Updated ==
    /\ main \in Spy
    /\ left = {}
    /\ lastUpdate' = [lastUpdate EXCEPT ![main] = now]
    /\ main' = "idle"
    /\ UNCHANGED <<now, files, left, seen, again, accessed, mimetypes, late>>

(* The program ends in any way and starts again: the last update is the time *)
(* of the start.                                                             *)
RestartSpies ==
    /\ main' = "idle"
    /\ left' = {}
    /\ dirty' = [s \in Spy |-> FALSE]
    /\ lastUpdate' = [s \in Spy |-> now]
    /\ accessed' = {}
    /\ mimetypes' = {}
    /\ late' = [d \in Doc |-> late[d] \/ uses[d] > seen[d]]
    /\ UNCHANGED <<now, stamp, uses, half, seen, again>>

SpyNext == \/ Tick
           \/ \E d \in Doc : Use(d)
           \/ Rewrite
           \/ DirectoryUpdated
           \/ FileUpdated
           \/ \E d \in Doc, use \in 0..MaxUses : LookAt(d, use)
           \/ Updated

-----------------------------------------------------------------------------
(* The last use of each document is registered once the watch has reported,  *)
(* and no use twice; left out are only uses while the spy was at work, in    *)
(* the second of its last update or before a restart                         *)
(* (EventSpy.cpp:45-58, GtkEventSpy.cpp:173-205).                            *)
EachUseOnce ==
    /\ ~again
    /\ \A d \in Doc : /\ main = "idle"
                      /\ ~dirty[SpyOn(d)]
                      /\ ~half
                      /\ uses[d] > seen[d]
                      => late[d]
=============================================================================
