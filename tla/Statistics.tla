----------------------------- MODULE Statistics -----------------------------
(* The sqlite plugin: StatsPlugin records what is done with resources, in    *)
(* rows of ResourceEvent; ResourceScoreMaintainer schedules, by activity and *)
(* resource, the scores that an event may change; ResourceScoreCache adds    *)
(* what is new in the rows to the score it keeps; D-Bus methods, and the     *)
(* configuration when it is loaded, delete parts of the history.             *)
(*                                                                           *)
(* All of this runs on the main thread, but the current activity is read     *)
(* from Activities each time it is needed, and another thread may change it  *)
(* between any two reads: each read gives any activity.  To end in the       *)
(* middle of addEvents() comes to ending before or after one of its events   *)
(* (module ResourceInfo has its transaction).                                *)
(*                                                                           *)
(* Abstracted: a score, to which rows were added to it; agents and resources *)
(* to pairs of them (Item); titles and mime types; the filters that are only *)
(* configured, so that no event is one they refuse.  A batch of events is    *)
(* handled one by one.  The activity is never empty, as the assertions ask.  *)
EXTENDS Integers, FiniteSets, FiniteSetsExt

CONSTANTS Activity,   \* activities
          Item,       \* pairs of an agent and a resource
          Private,    \* those that are put off the record at times
          MaxTime,    \* bounds: the clock,
          MaxDelay,   \*   how late an event is recorded,
          MaxRows     \*   rows at a time

ASSUME PrivateAssumption == Private \subseteq Activity
ASSUME BoundsAssumption == {MaxTime, MaxDelay, MaxRows} \subseteq Nat

Time == 0..MaxTime
Null == -1       \* end of a row that is open
Id == 1..MaxRows
Key == [act : Activity, item : Item]
Event == [item : Item, type : {"Accessed", "Opened", "Closed"}, time : Time]

(* A row, and with it how often its length was added to a score.             *)
Row == [id : Id, key : Key, start : Time, end : Time \cup {Null}, added : Nat]
Score == [first : Time, last : Time]
NoScore == [first |-> Null, last |-> Null]

KeyOf(a, i) == [act |-> a, item |-> i]

VARIABLES now,        \* the clock, in seconds
          otr,        \* the activities that are off the record
          rows,       \* the table ResourceEvent
          cache,      \* the table ResourceScoreCache
          scheduled,  \* scheduledResources
          timer,      \* processResourcesTimer: how long it has run
          updating    \* what processResources() still has to update

world == <<now, otr>>
tables == <<rows, cache>>
maintainer == <<scheduled, timer, updating>>
vars == <<world, tables, maintainer>>

Init == /\ now = 0
        /\ otr = {}
        /\ rows = {}
        /\ cache = [k \in Key |-> NoScore]
        /\ scheduled = {}
        /\ timer = "stopped"
        /\ updating = {}

-----------------------------------------------------------------------------
(* Recording.                                                                *)

(* Events come in the order of their times (module EventChannel), not long   *)
(* after they were registered.                                               *)
InOrder(t) == /\ t \in (now - MaxDelay)..now
              /\ \A r \in rows : r.start <= t /\ r.end <= t

(* Mutant: what is accessed is given a length.                               *)
OpenResourceEventLonger(k, start, end) ==
    LET ids == Id \ {r.id : r \in rows}
    IN  /\ ids # {}
        /\ rows' = rows \cup {[id |-> Min(ids), key |-> k, start |-> start,
                               end |-> IF end = Null THEN Null ELSE end + 1,
                               added |-> 0]}

(* openResourceEvent()                                                       *)
OpenResourceEvent(k, start, end) ==
    LET ids == Id \ {r.id : r \in rows}
    IN  /\ ids # {}
        /\ rows' = rows \cup {[id |-> Min(ids), key |-> k, start |-> start,
                               end |-> end, added |-> 0]}

(* closeResourceEvent(): every open row is closed.                           *)
CloseResourceEvent(k, end) ==
    LET open == {r \in rows : r.key = k /\ r.end = Null}
    IN  rows' = (rows \ open) \cup {[r EXCEPT !.end = end] : r \in open}

(* Mutant: only the last one is scheduled.                                   *)
ProcessResourceLast(k) ==
    /\ scheduled' = {k}
    /\ timer' = "running"

(* ResourceScoreMaintainer::processResource(): the timer starts anew, also   *)
(* when its second is over and processResources() has not been called yet.   *)
ProcessResource(k) ==
    /\ scheduled' = scheduled \cup {k}
    /\ timer' = "running"

(* addEvents().  The current activity is read three times: when              *)
(* acceptedEvent() asks whether it is off the record, for the row, and when  *)
(* processResource() asks whose score to update.                             *)
AddEvent(e, accepted, recorded, processed) ==
    /\ updating = {}
    /\ InOrder(e.time)
    /\ accepted \notin otr
    /\ \/ /\ e.type = "Accessed"
          /\ OpenResourceEvent(KeyOf(recorded, e.item), e.time, e.time)
          /\ ProcessResource(KeyOf(processed, e.item))
       \/ /\ e.type = "Opened"
          /\ OpenResourceEvent(KeyOf(recorded, e.item), e.time, Null)
          /\ UNCHANGED <<scheduled, timer>>
       \/ /\ e.type = "Closed"
          /\ CloseResourceEvent(KeyOf(recorded, e.item), e.time)
          /\ ProcessResource(KeyOf(processed, e.item))
    /\ UNCHANGED <<world, cache, updating>>

-----------------------------------------------------------------------------
(* Scoring.                                                                  *)

(* Mutant: what is scheduled is copied.                                      *)
ProcessResourcesCopied ==
    /\ updating = {}
    /\ timer = "due"
    /\ timer' = "stopped"
    /\ updating' = scheduled
    /\ UNCHANGED <<world, tables, scheduled>>

(* A second has passed since the timer was started last.                     *)
Elapse ==
    /\ timer = "running"
    /\ timer' = "due"
    /\ UNCHANGED <<world, tables, scheduled, updating>>

(* processResources(): the timer is a single shot.                           *)
ProcessResources ==
    /\ updating = {}
    /\ timer = "due"
    /\ timer' = "stopped"
    /\ updating' = scheduled
    /\ scheduled' = {}
    /\ UNCHANGED <<world, tables>>

Created(k) == IF cache[k] = NoScore THEN [first |-> now, last |-> now]
                                    ELSE cache[k]

(* Mutant: from the last one that was added.                                 *)
AdditionsFrom(k) == {r \in rows : r.key = k /\ r.start >= Created(k).last}

(* The rows that come after the last one that was added.                     *)
Additions(k) == {r \in rows : r.key = k /\ r.start > Created(k).last}

(* ResourceScoreCache::update(), of one scheduled score after the other.  A  *)
(* row that is still open ends in 1970 for it and adds next to nothing.      *)
UpdateScore(k) ==
    LET new == Additions(k)
    IN  /\ k \in updating
        /\ updating' = updating \ {k}
        /\ cache' = [cache EXCEPT ![k] =
                       [first |-> Created(k).first,
                        last |-> IF new = {} THEN now
                                 ELSE Max({r.start : r \in new})]]
        /\ rows' = (rows \ new)
              \cup {[r EXCEPT !.added = IF r.end = Null THEN @ ELSE @ + 1] :
                      r \in new}
        /\ UNCHANGED <<world, scheduled, timer>>

-----------------------------------------------------------------------------
(* Deleting, for the activities in acts: one, or all of them.                *)

Some == {{a} : a \in Activity} \cup {Activity}

Keep(rowsKept, keysKept) ==
    /\ updating = {}
    /\ rows' = rowsKept
    /\ cache' = [k \in Key |-> IF k \in keysKept THEN cache[k] ELSE NoScore]
    /\ UNCHANGED <<world, maintainer>>

(* Mutant: scores go by their last update.                                   *)
DeleteRecentStatsByLast(acts, since) ==
    Keep({r \in rows : r.key.act \notin acts \/ r.end <= since},
         {k \in Key : k.act \notin acts \/ cache[k].last <= since})

(* DeleteRecentStats(), "everything" and since a time.  A row that is open   *)
(* has no end to compare.                                                    *)
DeleteEverything(acts) ==
    Keep({r \in rows : r.key.act \notin acts}, {k \in Key : k.act \notin acts})

DeleteRecentStats(acts, since) ==
    Keep({r \in rows : r.key.act \notin acts \/ r.end <= since},
         {k \in Key : k.act \notin acts \/ cache[k].first <= since})

(* DeleteEarlierStats(), also called whenever the configuration is loaded.   *)
DeleteEarlierStats(acts, time) ==
    Keep({r \in rows : r.key.act \notin acts \/ r.start >= time},
         {k \in Key : k.act \notin acts \/ cache[k].last >= time})

(* DeleteStatsForResource(), for what matches agent and pattern.             *)
DeleteStatsForResource(acts, items) ==
    Keep({r \in rows : r.key.act \notin acts \/ r.key.item \notin items},
         {k \in Key : k.act \notin acts \/ k.item \notin items})

Delete == \E acts \in Some :
            \/ DeleteEverything(acts)
            \/ \E t \in 0..now : DeleteRecentStats(acts, t)
            \/ \E t \in 0..now : DeleteEarlierStats(acts, t)
            \/ \E items \in SUBSET Item : DeleteStatsForResource(acts, items)

-----------------------------------------------------------------------------
(* What goes on around.                                                      *)

(* setFeatureValue(), on the thread of Features (module Features).           *)
SetOffTheRecord(a) ==
    /\ updating = {}
    /\ otr' = IF a \in otr THEN otr \ {a} ELSE otr \cup {a}
    /\ UNCHANGED <<now, tables, maintainer>>

Tick == /\ now < MaxTime
        /\ now' = now + 1
        /\ UNCHANGED <<otr, tables, maintainer>>

(* The program ends in any way and starts again.                             *)
Restart ==
    /\ scheduled' = {}
    /\ timer' = "stopped"
    /\ updating' = {}
    /\ UNCHANGED <<world, tables>>

-----------------------------------------------------------------------------
AddEvents == \E e \in Event, accepted, recorded, processed \in Activity :
                AddEvent(e, accepted, recorded, processed)

UpdateScores == \E k \in Key : UpdateScore(k)

Next == \/ AddEvents
        \/ Elapse
        \/ ProcessResources
        \/ UpdateScores
        \/ Delete
        \/ \E a \in Private : SetOffTheRecord(a)
        \/ Tick
        \/ Restart

Spec == Init /\ [][Next]_vars

(* A method of the main thread goes on, time passes, and the event loop gets *)
(* to a timer that stays due.  It is not fair to one that is started anew    *)
(* each time: events may hold up processResources() for ever.                *)
Fairness == /\ WF_vars(UpdateScores)
            /\ WF_vars(Elapse)
            /\ WF_vars(ProcessResources)

FairSpec == Spec /\ Fairness

-----------------------------------------------------------------------------
TypeOK == /\ now \in Time
          /\ otr \in SUBSET Activity
          /\ rows \in SUBSET Row
          /\ cache \in [Key -> Score \cup {NoScore}]
          /\ scheduled \in SUBSET Key
          /\ timer \in {"stopped", "running", "due"}
          /\ updating \in SUBSET Key

(* No row is added to scores twice, over updates, deletions of scores and    *)
(* restarts (ResourceScoreCache.cpp:83-84, 215-217, 244).                    *)
AddedOnce == \A r \in rows : r.added <= 1

(* No deletion takes away a score and leaves a row that was added to it with *)
(* its length, though rows and scores are compared by different times        *)
(* (StatsPlugin.cpp:487-497, 526-536).                                       *)
CreditedHasScore ==
    \A r \in rows : r.added > 0 => cache[r.key] # NoScore

(* A row that an update would add to a score that is kept has that update    *)
(* scheduled or under way.  It is left out only by a restart, or if the      *)
(* activity changes between recording and scheduling (StatsPlugin.cpp:       *)
(* 399-425, ResourceScoreMaintainer.cpp:132-155).                            *)
Forgotten(r) ==
    /\ r.end # Null
    /\ cache[r.key] # NoScore
    /\ r.start > cache[r.key].last
    /\ r.key \notin scheduled \cup updating
ForgottenOnlyIf ==
    [][\A r \in rows' : Forgotten(r)' =>
          \/ \E q \in rows : q.id = r.id /\ Forgotten(q)
          \/ Restart
          \/ \E e \in Event, accepted, processed \in Activity :
                /\ AddEvent(e, accepted, r.key.act, processed)
                /\ processed # r.key.act]_vars

(* What is scheduled is updated in the end or forgotten in a restart, unless *)
(* events start the timer again and again: those that keep coming hold up    *)
(* the update of all scores, and nothing bounds for how long                 *)
(* (ResourceScoreMaintainer.cpp:69-95, 119-125, 156).                        *)
ScheduledIsUpdated ==
    []<>(timer = "running") \/ (scheduled # {} ~> scheduled \cup updating = {})
=============================================================================
