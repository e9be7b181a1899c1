---------------------------- MODULE ResourceInfo ----------------------------
(* What the statistics write when documents are accessed or described        *)
(* (plugins/sqlite/StatsPlugin.cpp): rows of ResourceEvent, and the title    *)
(* and mime type of each resource in ResourceInfo, which it finds out by     *)
(* itself or is told by programs.  The documents come from the spies.        *)
(*                                                                           *)
(* A transaction is begun and committed by its scope (Database::Locker), and *)
(* scopes are nested: to begin one in another fails and changes nothing, to  *)
(* commit the inner one commits the outer one.  todo holds the statements    *)
(* that the methods on the main thread still have to execute; the program    *)
(* may end before any of them.                                               *)
(*                                                                           *)
(* Abstracted: titles and mime types to where they are from; documents are   *)
(* files that exist.                                                         *)
EXTENDS Spies

CONSTANT Described   \* documents that programs describe, each field once
ASSUME DescribedAssumption == Described \subseteq Doc

(* A document is known by its path.  The history file, and with it the spy   *)
(* that tells mime types, knows it by a URL.                                 *)
Uri == [doc : Doc, form : {"path", "url"}]
Path(d) == [doc |-> d, form |-> "path"]
Url(d) == [doc |-> d, form |-> "url"]

(* A row of ResourceInfo: empty, found out or told.                          *)
Value == {"", "auto", "told"}
Info == [title : Value, mimetype : Value]
NoInfo == [title |-> "none", mimetype |-> "none"]
EmptyInfo == [title |-> "", mimetype |-> ""]

Statement == [do : {"begin", "commit", "row", "title", "mimetype", "detect", "record"},
              uri : Uri, value : Value]
NoUri == CHOOSE u \in Uri : TRUE
Do(what, uri, value) == [do |-> what, uri |-> uri, value |-> value]
Begin == Do("begin", NoUri, "")
Commit == Do("commit", NoUri, "")

VARIABLES todo,         \* statements to execute
          info,         \* the table ResourceInfo
          recorded,     \* documents of the batch that are in ResourceEvent
          transaction,  \* is there one
          saved,        \* info and recorded as a crash leaves them
          batch,        \* what addEvents() is at
          detected,     \* has it found a resource that had no row
          told,         \* fields that programs have told
          cut           \* resources that were written about in a crash

tables == <<info, recorded, transaction, saved>>
history == <<batch, detected, told, cut>>
infoVars == <<todo, tables, history>>
vars == <<spyVars, infoVars>>

Init == /\ SpyInit
        /\ todo = <<>>
        /\ info = [u \in Uri |-> NoInfo]
        /\ recorded = {}
        /\ transaction = FALSE
        /\ saved = [info |-> info, recorded |-> {}]
        /\ batch = {}
        /\ detected = FALSE
        /\ told = [u \in Uri |-> {}]
        /\ cut = {}

-----------------------------------------------------------------------------
(* The methods, as the statements they execute.                              *)

(* saveResourceTitle(), saveResourceMimetype(): insertResourceInfo() makes   *)
(* sure of the row before the transaction.                                   *)
Save(field, uri, value) ==
    <<Do("row", uri, ""), Begin, Do(field, uri, value), Commit>>

(* detectResourceInfo() and the insertion, of openResourceEvent().           *)
OpenResourceEvent(d) == <<Do("detect", Path(d), ""), Do("record", Path(d), "")>>

(* addEvents(), up to the first event of the batch.                          *)
AddEvents(docs) ==
    /\ main = "idle"
    /\ docs # {} /\ docs \subseteq accessed
    /\ accessed' = accessed \ docs
    /\ main' = "events"
    /\ \E d \in docs : todo' = <<Begin>> \o OpenResourceEvent(d) \o <<Commit>>
    /\ batch' = docs
    /\ recorded' = {}
    /\ saved' = [saved EXCEPT !.recorded = {}]
    /\ detected' = FALSE
    /\ UNCHANGED <<now, files, spies, mimetypes, late, info, transaction, told, cut>>

(* RegisterResourceTitle() and RegisterResourceMimetype() of programs, the   *)
(* second of which lets nothing pass but an empty one; and the mime type the *)
(* spy tells.                                                                *)
Describe(field, uri, value) ==
    /\ main = "idle"
    /\ main' = "describe"
    /\ todo' = Save(field, uri, value)
    /\ UNCHANGED <<now, files, spies, accessed, late, tables, history>>

RegisteredResourceTitle(d) ==
    /\ "title" \notin told[Path(d)]
    /\ Describe("title", Path(d), "told")
    /\ UNCHANGED mimetypes

RegisteredResourceMimetype(d) ==
    /\ "mimetype" \notin told[Path(d)]
    /\ Describe("mimetype", Path(d), "")
    /\ UNCHANGED mimetypes

RegisteredResourceMimetypeOfSpy(d) ==
    /\ d \in mimetypes
    /\ mimetypes' = mimetypes \ {d}
    /\ Describe("mimetype", Url(d), "told")

-----------------------------------------------------------------------------
(* The statements.                                                           *)

Execute(statements) ==
    /\ todo' = statements \o Tail(todo)
    /\ main' = IF todo' = <<>> THEN "idle" ELSE main
    /\ UNCHANGED <<now, files, spies, accessed, mimetypes, late, batch, cut>>

At(what) == todo # <<>> /\ Head(todo).do = what
This == Head(todo)

(* Outside of a transaction each statement is saved at once.                 *)
Write(i, r) ==
    /\ info' = i
    /\ recorded' = r
    /\ saved' = IF transaction THEN saved ELSE [info |-> i, recorded |-> r]

DoBegin == /\ At("begin")
           /\ transaction' = TRUE
           /\ Execute(<<>>)
           /\ UNCHANGED <<info, recorded, saved, detected, told>>

DoCommit == /\ At("commit")
            /\ transaction' = FALSE
            /\ saved' = [info |-> info, recorded |-> recorded]
            /\ Execute(<<>>)
            /\ UNCHANGED <<info, recorded, detected, told>>

(* insertResourceInfo()                                                      *)
InsertRow(u) == Write(IF info[u] = NoInfo THEN [info EXCEPT ![u] = EmptyInfo]
                                          ELSE info, recorded)

DoInsertRow == /\ At("row")
               /\ InsertRow(This.uri)
               /\ Execute(<<>>)
               /\ UNCHANGED <<transaction, detected, told>>

DoUpdate == /\ At("title") \/ At("mimetype")
            /\ LET s == This IN
               /\ Write(IF s.do = "title" THEN [info EXCEPT ![s.uri].title = s.value]
                                          ELSE [info EXCEPT ![s.uri].mimetype = s.value],
                        recorded)
               /\ told' = IF main = "describe"
                          THEN [told EXCEPT ![s.uri] = @ \cup {s.do}] ELSE told
            /\ Execute(<<>>)
            /\ UNCHANGED <<transaction, detected>>

(* Mutant: what is known already is found out once more.                     *)
DetectAlways ==
    /\ At("detect")
    /\ LET u == This.uri IN
       /\ InsertRow(u)
       /\ detected' = TRUE
       /\ Execute(Save("mimetype", u, "auto") \o Save("title", u, "auto"))
    /\ UNCHANGED <<transaction, told>>

(* detectResourceInfo(): only of what is not known yet.                      *)
Detect ==
    /\ At("detect")
    /\ LET u == This.uri IN
       IF info[u] # NoInfo
       THEN Execute(<<>>) /\ UNCHANGED <<info, recorded, saved, detected>>
       ELSE /\ InsertRow(u)
            /\ detected' = TRUE
            /\ Execute(Save("mimetype", u, "auto") \o Save("title", u, "auto"))
    /\ UNCHANGED <<transaction, told>>

(* The loop of addEvents() goes on with the next event, if there is one.     *)
DoRecord == /\ At("record")
            /\ Write(info, recorded \cup {This.uri.doc})
            /\ IF recorded' = batch
               THEN Execute(<<>>)
               ELSE \E d \in batch \ recorded' : Execute(OpenResourceEvent(d))
            /\ UNCHANGED <<transaction, detected, told>>

Interrupted(u) ==
    \/ info[u] # saved.info[u]
    \/ /\ info[u] # NoInfo
       /\ \E i \in DOMAIN todo : /\ todo[i].do \in {"title", "mimetype"}
                                /\ todo[i].uri = u

(* The program ends in any way and starts again; which documents the batch   *)
(* had got to is of no more interest.                                        *)
Restart ==
    /\ RestartSpies
    /\ todo' = <<>>
    /\ info' = saved.info
    /\ recorded' = {}
    /\ saved' = [saved EXCEPT !.recorded = {}]
    /\ batch' = {}
    /\ detected' = FALSE
    /\ transaction' = FALSE
    /\ cut' = cut \cup {u \in Uri : Interrupted(u)}
    /\ UNCHANGED told

-----------------------------------------------------------------------------
Statements == DoBegin \/ DoCommit \/ DoInsertRow \/ DoUpdate \/ Detect \/ DoRecord

Next == \/ SpyNext /\ UNCHANGED infoVars
        \/ \E docs \in SUBSET Doc : AddEvents(docs)
        \/ \E d \in Described : RegisteredResourceTitle(d) \/ RegisteredResourceMimetype(d)
        \/ \E d \in GtkDoc : RegisteredResourceMimetypeOfSpy(d)
        \/ Statements
        \/ Restart

Spec == Init /\ [][Next]_vars

-----------------------------------------------------------------------------
TypeOK == /\ now \in Time
          /\ stamp \in [Doc -> Time \cup {-1}]
          /\ uses \in [Doc -> 0..MaxUses] /\ seen \in [Doc -> 0..MaxUses]
          /\ dirty \in [Spy -> BOOLEAN] /\ late \in [Doc -> BOOLEAN]
          /\ lastUpdate \in [Spy -> Time]
          /\ main \in Spy \cup {"idle", "events", "describe"}
          /\ left \subseteq Doc \X (0..MaxUses)
          /\ accessed \subseteq Doc /\ mimetypes \subseteq GtkDoc
          /\ {half, again, transaction, detected} \subseteq BOOLEAN
          /\ todo \in Seq(Statement)
          /\ todo # <<>> <=> main \in {"events", "describe"}
          /\ info \in [Uri -> Info \cup {NoInfo}]
          /\ saved.info \in [Uri -> Info \cup {NoInfo}]
          /\ recorded \subseteq batch /\ saved.recorded \subseteq batch
          /\ batch \subseteq Doc /\ cut \subseteq Uri
          /\ told \in [Uri -> SUBSET {"title", "mimetype"}]

(* A batch of events is recorded as a whole or, in a crash, not at all,      *)
(* unless one of its resources was new: finding out about it ends the        *)
(* transaction of the batch (StatsPlugin.cpp:216-234, 279, 302, 395).        *)
TornOnlyIf ==
    saved.recorded \notin {{}, batch} => detected

(* When nothing is being written a resource that has a row has the title and *)
(* the mime type that were told or found out, and none that was told is      *)
(* replaced; one is missing only where the other one was told first, or a    *)
(* crash came in between (StatsPlugin.cpp:231-268).                          *)
InfoIsKept ==
    main = "idle" =>
        \A u \in {u \in Uri : info[u] # NoInfo} :
            /\ "" \in {info[u].title, info[u].mimetype} => told[u] # {} \/ u \in cut
            /\ "title" \in told[u] /\ u \notin cut => info[u].title = "told"
            /\ info[u] = saved.info[u]

(* But for a batch in which something is found out, documents come in as a   *)
(* whole, and always with what is known of them (StatsPlugin.cpp:216-317).   *)
RecordedWhole == TornOnlyIf /\ InfoIsKept
=============================================================================
