------------------------------- MODULE Linking ------------------------------
(* Links between resources and activities (plugins/sqlite/                   *)
(* ResourceLinking.cpp): D-Bus methods that add links to a table and take    *)
(* them away, and the announcements that file views follow.                  *)
(*                                                                           *)
(* The methods run on the main thread, one at a time, as a list of steps:    *)
(* look at the file, read the current activity, read the list of             *)
(* activities, change the table, announce, commit.  Between any two of them  *)
(* the thread of Activities adds, removes and switches activities, other     *)
(* programs make and delete files, and the program may die.                  *)
(*                                                                           *)
(* Abstracted: a resource to what is told apart: a file, an application, or  *)
(* an application with the prefix "applications:"; file URLs and links to a  *)
(* path that canonicalFilePath() resolves.  An id that is removed does not   *)
(* come back.  Assertions are off, as in a release.                          *)
EXTENDS Integers, FiniteSets, Sequences

CONSTANTS ActivityId,  \* activity ids
          NoActivity,  \* the empty id
          Path,        \* paths of files
          Application, \* names of applications, without a prefix
          Agent,       \* agents, an empty one being ":global", and among
          Favorites,   \*   them org.kde.plasma.favorites.applications
          Inherited,   \* the rows that the table has from the start
          MaxLinks,    \* bounds: rows of the table,
          MaxCalls     \*   calls of the methods

ASSUME NoActivityAssumption == NoActivity \notin ActivityId
ASSUME SpecialAssumption ==
    (ActivityId \cup {NoActivity}) \cap {":current", ":any", ":global"} = {}
ASSUME AgentAssumption == Favorites \in Agent
ASSUME LimitsAssumption == {MaxLinks, MaxCalls} \subseteq Nat

FileResource == [kind : {"file"}, name : Path]
Resource == FileResource
              \cup [kind : {"plain", "prefixed"}, name : Application]
Link == [act : ActivityId \cup {NoActivity, ":global"}, agent : Agent, res : Resource]
ASSUME InheritedAssumption == Inherited \subseteq Link

(* What callers pass for an activity; the empty id stands for ":global".     *)
Special == {":current", ":any", ":global", NoActivity}
Operation == {"link", "unlink"}
Stages == {"activity", "exists", "execute", "announce", "commit"}
Request == [op : Operation, stage : Stages, agent : Agent, res : Resource,
            act : ActivityId \cup Special]
Idle == [op |-> "none"]

(* What a view is told: that there are new items, so that it reads them all  *)
(* again, or that one is gone; and with the latter why that may be wrong.    *)
Reason == {"early", "any", "died", "failed", "prefix", "shared"}
Gone(res, why) == [told |-> "removed", res |-> res, why |-> why]
NewItems == [told |-> "added"]
Announcement == {NewItems}
                  \cup [told : {"removed"}, res : Resource, why : SUBSET Reason]

VARIABLES listed,      \* ListActivities()
          removed,     \* activities that were removed
          current,     \* CurrentActivity()
          files,       \* the files that exist
          links,       \* the table ResourceLink
          uncommitted, \* the table inside of the transaction
          request,     \* the method that runs
          changed,     \* is a CurrentActivityChanged on its way to this thread
          announced,   \* announcements on their way to the view
          shown,       \* what a view of activities:/current shows
          stale,       \* why that may be out of date
          valid,       \* what there was at some time during the request
          calls

surround == <<listed, removed, current, files>>
store == <<links, uncommitted>>
view == <<shown, stale>>
linkVars == <<surround, store, request, changed, announced, view, valid, calls>>

(* The resources linked to the current activity, by any agent.               *)
LinkedIn(table) == {l \in table : l.act = current /\ current # NoActivity}
Items(table) == {l.res : l \in LinkedIn(table)}
Here == listed \cup files \cup ({current} \cap {NoActivity})

LinkInit == /\ listed \in SUBSET ActivityId
            /\ removed = {}
            /\ current = NoActivity
            /\ files \in SUBSET FileResource
            /\ links = Inherited
            /\ uncommitted = links
            /\ request = Idle
            /\ changed = FALSE
            /\ announced = <<>>
            /\ shown = {}
            /\ stale = {}
            /\ valid = {}
            /\ calls = 0

-----------------------------------------------------------------------------
(* validateArguments()                                                       *)

(* The next stage, or none: the method returns.                              *)
Running(stage) == request # Idle /\ request.stage = stage
Continue(stage) == request' = [request EXCEPT !.stage = stage] /\ UNCHANGED valid
Return == request' = Idle /\ valid' = {}

Begin(op, agent, res, act) ==
    /\ request = Idle
    /\ calls < MaxCalls
    /\ op = "link" => Cardinality(links) < MaxLinks
    /\ calls' = calls + 1
    /\ request' = [op |-> op, stage |-> "activity", agent |-> agent, res |-> res,
                   act |-> act]
    /\ valid' = Here
    /\ UNCHANGED <<surround, store, changed, announced, view>>

(* A call about a file that does not exist ends at once.                     *)
Call(op, agent, res, act) ==
    /\ res.kind = "file" => res \in files
    /\ Begin(op, agent, res, act)

Resolved == CASE request.act = ":current" -> current
              [] request.act = NoActivity -> ":global"
              [] OTHER -> request.act

ResolveActivity ==
    /\ Running("activity")
    /\ request' = [request EXCEPT !.stage = "exists", !.act = Resolved]
    /\ UNCHANGED <<surround, store, changed, announced, view, valid, calls>>

(* Mutant: the activity is not looked up.                                    *)
CheckActivityNever ==
    /\ Running("exists")
    /\ Continue("execute")
    /\ UNCHANGED <<surround, store, changed, announced, view, calls>>

(* An empty id of the current activity is let through.                       *)
CheckActivity ==
    /\ Running("exists")
    /\ IF request.act \in listed \cup {NoActivity, ":global", ":any"}
       THEN Continue("execute") ELSE Return
    /\ UNCHANGED <<surround, store, changed, announced, view, calls>>

-----------------------------------------------------------------------------
(* The queries.                                                              *)

(* Mutant: ":any" is put in the table.                                       *)
LinkedToAny == request.act

LinkedTo == IF request.act = ":any" THEN ":global" ELSE request.act

(* An unlink for favorites goes by the name without the prefix ...           *)
Stripped == IF request.agent = Favorites /\ request.res.kind = "prefixed"
            THEN [kind |-> "plain", name |-> request.res.name]
            ELSE request.res

(* ... and deletes the rows that have it and those that lack it.             *)
Matches(l) ==
    /\ request.act = ":any" \/ l.act = request.act
    /\ l.agent = request.agent
    /\ \/ l.res = Stripped
       \/ /\ request.agent = Favorites
          /\ Stripped.kind = "plain"
          /\ l.res = [kind |-> "prefixed", name |-> Stripped.name]

(* The answer of IsResourceLinkedToActivity(), asked with the same           *)
(* arguments; no row is linked to ":any".                                    *)
IsLinked(table) ==
    \E l \in table : /\ l.act = request.act
                     /\ l.agent = request.agent
                     /\ l.res = request.res

Changed(table) ==
    IF request.op = "link"
    THEN table \cup {[act |-> LinkedTo, agent |-> request.agent,
                      res |-> request.res]}
    ELSE {l \in table : ~Matches(l)}

(* A query that fails is reported and leaves the table as it is; what        *)
(* follows is done all the same.                                             *)
Execute ==
    /\ Running("execute")
    /\ uncommitted' \in {Changed(links), links}
    /\ Continue("announce")
    /\ UNCHANGED <<surround, links, changed, announced, view, calls>>

Named == request.act # NoActivity /\ request.act = current
FromAny == IF request.op = "unlink" /\ request.act = ":any" THEN {"any"} ELSE {}
Uncommitted == Running("commit") /\ uncommitted # links

(* The item that is announced as gone has the name without the prefix.  It   *)
(* is not what goes if the rows that go have one, if none goes because the   *)
(* query failed, or if another agent has linked the same resource.           *)
Misnamed ==
    {why \in {"failed", "prefix", "shared"} :
       CASE why = "failed" -> uncommitted # Changed(links)
         [] why = "prefix" -> \E l \in links : Matches(l) /\ l.res # Stripped
         [] why = "shared" -> Stripped \in {l.res : l \in {m \in LinkedIn(links) :
                                                          ~Matches(m)}}}

(* Two announcements in a row to read everything come to one.                *)
Send(news) ==
    announced' = IF news = NewItems /\ announced # <<>>
                      /\ announced[Len(announced)] = NewItems
                 THEN announced ELSE Append(announced, news)

(* Mutant: the view is not told what is linked.                              *)
AnnounceUnlinked ==
    /\ Running("announce")
    /\ IF Named /\ request.op = "unlink" THEN Send(Gone(Stripped, Misnamed))
                                          ELSE UNCHANGED announced
    /\ stale' = stale \cup FromAny
    /\ Continue("commit")
    /\ UNCHANGED <<surround, store, changed, shown, calls>>

(* The view of the current activity is told if its id is the one passed.     *)
Announce ==
    /\ Running("announce")
    /\ IF Named THEN Send(IF request.op = "link" THEN NewItems
                                                 ELSE Gone(Stripped, Misnamed))
                ELSE UNCHANGED announced
    /\ stale' = stale \cup FromAny
    /\ Continue("commit")
    /\ UNCHANGED <<surround, store, changed, shown, calls>>

(* The transaction ends with the scope, after the announcement.              *)
Commit ==
    /\ Running("commit")
    /\ links' = uncommitted
    /\ Return
    /\ UNCHANGED <<surround, uncommitted, changed, announced, view, calls>>

-----------------------------------------------------------------------------
(* Around the methods.                                                       *)

(* onCurrentActivityChanged(), on the main thread when no method runs.       *)
OnCurrentActivityChanged ==
    /\ request = Idle
    /\ changed
    /\ changed' = FALSE
    /\ Send(NewItems)
    /\ UNCHANGED <<surround, store, request, view, valid, calls>>

(* The view, in a process of its own, takes the announcements in order and   *)
(* reads the table, which does not have what was not committed yet ...       *)
ReadView ==
    /\ announced # <<>>
    /\ Head(announced) = NewItems
    /\ announced' = Tail(announced)
    /\ shown' = Items(links)
    /\ stale' = IF ~Running("commit") THEN {}
                ELSE FromAny \cup IF Uncommitted THEN {"early"} ELSE {}
    /\ UNCHANGED <<surround, store, request, changed, valid, calls>>

(* ... or drops the item that is gone, without reading.                      *)
DropItem ==
    /\ announced # <<>>
    /\ Head(announced) # NewItems
    /\ announced' = Tail(announced)
    /\ shown' = shown \ {Head(announced).res}
    /\ stale' = stale \cup Head(announced).why
    /\ UNCHANGED <<surround, store, request, changed, valid, calls>>

SeenToo == valid' = IF request = Idle THEN {} ELSE valid \cup Here'

AddOrRemoveActivity(a) ==
    /\ a \notin removed
    /\ listed' = (listed \ {a}) \cup ({a} \ listed)
    /\ removed' = removed \cup ({a} \cap listed)
    /\ UNCHANGED <<current, files, store, request, changed, announced, view, calls>>
    /\ SeenToo

SwitchActivity(a) ==
    /\ current' = a
    /\ changed' = TRUE
    /\ UNCHANGED <<listed, removed, files, store, request, announced, view, calls>>
    /\ SeenToo

MakeOrDeleteFile(f) ==
    /\ files' = (files \ {f}) \cup ({f} \ files)
    /\ UNCHANGED <<listed, removed, current, store, request, changed, announced,
                   view, calls>>
    /\ SeenToo

Doubted(news) == IF news = NewItems THEN news
                 ELSE [news EXCEPT !.why = @ \cup {"died"}]

(* What was not committed is lost, though it may have been announced, and    *)
(* what was to be announced.                                                 *)
Die ==
    /\ uncommitted' = links
    /\ changed' = FALSE
    /\ stale' = stale \cup IF changed \/ Uncommitted THEN {"died"} ELSE {}
    /\ announced' = IF changed \/ Uncommitted
                    THEN [i \in 1..Len(announced) |-> Doubted(announced[i])]
                    ELSE announced
    /\ Return
    /\ UNCHANGED <<surround, links, shown, calls>>

-----------------------------------------------------------------------------
LinkNext == \/ \E op \in Operation, agent \in Agent, res \in Resource,
                 act \in ActivityId \cup Special : Call(op, agent, res, act)
            \/ ResolveActivity \/ CheckActivity
            \/ Execute \/ Announce \/ Commit
            \/ OnCurrentActivityChanged \/ ReadView \/ DropItem
            \/ \E a \in ActivityId : AddOrRemoveActivity(a)
            \/ \E a \in listed \cup {NoActivity} : SwitchActivity(a)
            \/ \E f \in FileResource : MakeOrDeleteFile(f)
            \/ Die

LinkSpec == LinkInit /\ [][LinkNext]_linkVars

-----------------------------------------------------------------------------
LinkTypeOK == /\ {listed, removed} \subseteq SUBSET ActivityId
              /\ current \in ActivityId \cup {NoActivity}
              /\ files \in SUBSET FileResource
              /\ {links, uncommitted} \subseteq SUBSET Link
              /\ request \in Request \cup {Idle}
              /\ changed \in BOOLEAN
              /\ announced \in Seq(Announcement)
              /\ shown \in SUBSET Resource
              /\ stale \in SUBSET Reason
              /\ valid \in SUBSET (ActivityId \cup FileResource \cup {NoActivity})
              /\ calls \in 0..MaxCalls

(* What is linked is an activity and a file that were there at some time     *)
(* while the method ran, though each is looked at once and the activities    *)
(* change on another thread (ResourceLinking.cpp:257-289).  To ":current"    *)
(* the empty id is linked if there was no current activity then, although    *)
(* the program asserts that it never is (ResourceLinking.cpp:83-85).         *)
LinkedToWhatWas ==
    [][\A l \in links' \ links :
          /\ l.act = ":global" \/ l.act \in valid
          /\ l.res \in FileResource => l.res \in valid]_linkVars

(* What outlives its activity or its file stays: nothing takes such a link   *)
(* away when the activity is removed, and an unlink reaches it only through  *)
(* ":any", or not at all if it is the file that is gone                      *)
(* (ResourceLinking.cpp:257-289, 307-315).                                   *)
OrphansStay ==
    [][\A l \in links \ links' :
          /\ request.op = "unlink"
          /\ \/ l.act = ":global"
             \/ l.act \in valid
             \/ request.act = ":any"
          /\ l.res \in FileResource => l.res \in valid]_linkVars

(* After an unlink that was carried out the program says of the same         *)
(* arguments that they are not linked, with and without the prefix that      *)
(* some entries lack (ResourceLinking.cpp:149-180, 225-240).                 *)
UnlinkUndoesLink ==
    [][Execute /\ request.op = "unlink" /\ uncommitted' = Changed(links) =>
          ~IsLinked(uncommitted')]_linkVars

(* Whatever changes around a method while it runs, a link comes and goes     *)
(* with what the method was asked for (ResourceLinking.cpp:64-240).          *)
LinksStand == LinkedToWhatWas /\ OrphansStay /\ UnlinkUndoesLink

(* When nothing is under way the view of the current activity shows what the *)
(* table has.  It is out of date only if it read between the announcement    *)
(* and the commit, after an unlink from ":any", of which it is not told,     *)
(* after an unlink that announced another item than the one that went, or    *)
(* after a death (ResourceLinking.cpp:101-122, 174-204, 317-325).            *)
ViewIsFresh ==
    request = Idle /\ ~changed /\ announced = <<>> /\ stale = {} =>
        shown = Items(links)
=============================================================================
