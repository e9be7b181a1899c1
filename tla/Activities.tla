----------------------------- MODULE Activities -----------------------------
(* Activities.cpp: the activities, their states, the current one, the sorted *)
(* list that clients read, and the configuration that survives a restart.    *)
(*                                                                           *)
(* Two threads run this code.  Activities itself is moved to a thread of its *)
(* own, where the D-Bus adaptor calls the public methods (thread DBus).      *)
(* Activities::Private has no parent and stays on the main thread (Main),    *)
(* where session outcomes, configSync() and the plugins run.  A lock is held *)
(* only around single sections, never across a method, so a method is a list *)
(* of steps: one per locked section or unlocked access.  todo[t] holds the   *)
(* steps that the methods thread t is inside of still have to make; a step   *)
(* that calls another method puts that method's steps in front.              *)
(*                                                                           *)
(* Abstracted: descriptions and icons, which are handled as names are; the   *)
(* order of the sorted list; D-Bus signals; authorization, since a refused   *)
(* call changes nothing; the sync timer, as configSync() may run whenever    *)
(* the main thread is free (module ConfigSync).  A copy of the whole table   *)
(* and a write of both state lists are single steps.                         *)
EXTENDS Integers, Sequences, FiniteSets, Functions

CONSTANTS Activity,        \* activity ids
          NoActivity,      \* the empty id
          Main, DBus,      \* the two threads
          InitialConfigs,  \* the configurations the first start may find
          DefaultNames,    \* how many activities the very first start adds
          MaxOwed,         \* bounds: outcomes owed to one activity,
          MaxCalls,        \*   calls and restarts together,
          MaxRestarts      \*   restarts

ASSUME NoActivityAssumption == NoActivity \notin Activity
ASSUME ThreadAssumption == Main # DBus
ASSUME BoundsAssumption == /\ DefaultNames \in Nat
                           /\ MaxOwed \in Nat \ {0}
                           /\ {MaxCalls, MaxRestarts} \subseteq Nat

Thread == {Main, DBus}

(* States of Activities.h, and Absent for an id the table does not contain.  *)
Transitional == {"Starting", "Stopping"}
State == {"Invalid", "Running", "Stopped"} \cup Transitional
Table == [Activity -> State \cup {"Absent"}]
Ids(table) == {a \in Activity : table[a] # "Absent"}
InState(table, s) == {a \in Activity : table[a] = s}

(* state & 4: what the configuration file distinguishes.                     *)
Down(s) == s \in {"Stopped", "Stopping"}

(* The entries of kactivitymanagerdrc; lists says which of the two state     *)
(* lists the file has at all.                                                *)
Config == [names : SUBSET Activity,
           running : SUBSET Activity,
           stopped : SUBSET Activity,
           lists : SUBSET {"running", "stopped"},
           current : Activity \cup {NoActivity}]

(* The program writes both state lists or none.                              *)
ASSUME ConfigAssumption ==
    /\ InitialConfigs \subseteq Config
    /\ \A c \in InitialConfigs : c.lists \in {{}, {"running", "stopped"}}

(* A step still to be made: of the thread itself, about an activity, or      *)
(* setActivityState() with the state it is called for.                       *)
OwnSteps == {"add", "writeLists", "snapshot", "publish", "ensure", "startThread"}
IdSteps == {"start", "stop", "session", "assign", "save", "setName",
            "writeName", "erase", "dropEntries"}
Todo == [step : OwnSteps, act : {NoActivity}, state : {"None"}]
          \cup [step : IdSteps, act : Activity, state : {"None"}]
          \cup [step : {"setCurrent"}, act : Activity \cup {NoActivity},
                state : {"None"}]
          \cup [step : {"setState"}, act : Activity, state : State]
Step(name) == [step |-> name, act |-> NoActivity, state |-> "None"]
StepOn(name, a) == [step |-> name, act |-> a, state |-> "None"]
SetState(a, s) == [step |-> "setState", act |-> a, state |-> s]
Update == <<Step("snapshot"), Step("publish")>>  \* updateSortedActivityList()

VARIABLES activities,       \* the table: activities
          sorted,           \* the ids sortedActivities lists as running
          currentActivity,
          cfg,              \* the configuration in memory
          disk,             \* the configuration file
          todo,             \* per thread, the steps it is inside of
          copy,             \* per thread, the copy updateSorted... publishes
          owed,             \* outcomes that may still come (Sessions)
          dropped,          \* activities whose request no outcome will answer
          up,               \* does the thread DBus run yet
          gone,             \* ids removed, or lost in a restart, or that the
                            \*   first file speaks of without knowing them
          pretended,        \* are states not yet written since all were
                            \*   enlisted as stopped and taken as running
          calls,            \* calls of the public methods so far
          restarts

table == <<activities, sorted, copy>>
stored == <<cfg, disk, pretended>>
sessions == <<owed, dropped>>
history == <<gone, calls, restarts>>
vars == <<table, currentActivity, stored, todo, sessions, up, history>>

-----------------------------------------------------------------------------
(* Starting up: Activities::Private() and Activities(), on the main thread.  *)

DefaultState(c) == IF "running" \notin c.lists THEN "Running"
                   ELSE IF "stopped" \notin c.lists THEN "Stopped"
                   ELSE "Running"

ListedState(c, a) == CASE a \in c.running -> "Running"
                       [] a \notin c.running /\ a \in c.stopped -> "Stopped"
                       [] OTHER -> DefaultState(c)

AllListedStopped(c) == /\ c.names # {}
                       /\ \A a \in c.names : ListedState(c, a) = "Stopped"

LoadedState(c, a) == IF AllListedStopped(c) THEN "Running" ELSE ListedState(c, a)

Loaded(c) == [a \in Activity |-> IF a \in c.names THEN LoadedState(c, a)
                                                  ELSE "Absent"]

(* Mutant: no activity is chosen when none is recorded.                      *)
LastUsedOnly(c) == {c.current}

(* loadLastActivity(): with none recorded, whichever comes first.            *)
LastUsed(c) == IF c.current = NoActivity /\ c.names # {} THEN c.names
                                                         ELSE {c.current}

(* The other thread starts when the constructor is done; what was posted     *)
(* runs after that.                                                          *)
StartUp(c, last) ==
    [t \in Thread |->
        IF t = Main
        THEN <<StepOn("setCurrent", last), Step("startThread")>> \o Update
        ELSE IF c.names # {} THEN <<>>
        ELSE [i \in 1..DefaultNames |-> Step("add")]]

Init == /\ disk \in InitialConfigs
        /\ cfg = disk
        /\ activities = Loaded(disk)
        /\ sorted = {}
        /\ copy = [t \in Thread |-> {}]
        /\ currentActivity = NoActivity
        /\ \E last \in LastUsed(disk) : todo = StartUp(disk, last)
        /\ owed = [a \in Activity |-> 0]
        /\ dropped = {}
        /\ up = FALSE
        /\ gone = (disk.running \cup disk.stopped \cup {disk.current})
                     \ (disk.names \cup {NoActivity})
        /\ pretended = AllListedStopped(disk)
        /\ calls = 0
        /\ restarts = 0

(* The process ends, leaving configuration c on disk, and starts again.      *)
Restart(c) ==
    /\ restarts < MaxRestarts
    /\ restarts' = restarts + 1
    /\ disk' = c
    /\ cfg' = c
    /\ activities' = Loaded(c)
    /\ sorted' = {}
    /\ copy' = [t \in Thread |-> {}]
    /\ currentActivity' = NoActivity
    /\ \E last \in LastUsed(c) : todo' = StartUp(c, last)
    /\ owed' = [a \in Activity |-> 0]
    /\ dropped' = {}
    /\ up' = FALSE
    /\ pretended' = AllListedStopped(c)
    /\ gone' = gone \cup (Ids(activities) \ c.names)
    /\ UNCHANGED calls

-----------------------------------------------------------------------------
(* Making the steps.                                                         *)

Runs(t) == t = Main \/ up

Idle(t) == Runs(t) /\ todo[t] = <<>>

(* Thread t makes the step that is next, if it is the one named ...          *)
At(t, name) == Runs(t) /\ todo[t] # <<>> /\ Head(todo[t]).step = name

Act(t) == Head(todo[t]).act

(* ... and goes on with these steps first.                                   *)
Then(t, steps) == todo' = [todo EXCEPT ![t] = steps \o Tail(@)]

Begin(t, steps) == Idle(t) /\ todo' = [todo EXCEPT ![t] = steps]

Optional(cond, steps) == IF cond THEN steps ELSE <<>>

(* setActivityState(): an id that is not in the table reads as Invalid and   *)
(* is put into it.                                                           *)
Value(a) == IF activities[a] = "Absent" THEN "Invalid" ELSE activities[a]

DoSetState(t) ==
    /\ At(t, "setState")
    /\ LET a == Act(t)
           s == Head(todo[t]).state
       IN  IF Value(a) = s
           THEN /\ UNCHANGED <<activities, dropped>>
                /\ Then(t, <<>>)
           ELSE /\ activities' = [activities EXCEPT ![a] = s]
                /\ dropped' = dropped \ {a}
                /\ Then(t, Optional(Down(Value(a)) # Down(s),
                                    <<Step("writeLists")>>) \o Update)
    /\ UNCHANGED <<sorted, copy, currentActivity, stored, owed, up, history>>

(* Mutant: an activity that is stopping is in neither list.                  *)
WriteListsSettled(t) ==
    /\ At(t, "writeLists")
    /\ cfg' = [cfg EXCEPT
                 !.running = InState(activities, "Running")
                               \cup InState(activities, "Starting"),
                 !.stopped = InState(activities, "Stopped"),
                 !.lists = {"running", "stopped"}]
    /\ pretended' = FALSE
    /\ Then(t, <<>>)
    /\ UNCHANGED <<table, currentActivity, disk, sessions, up, history>>

DoWriteLists(t) ==
    /\ At(t, "writeLists")
    /\ cfg' = [cfg EXCEPT
                 !.running = InState(activities, "Running")
                               \cup InState(activities, "Starting"),
                 !.stopped = InState(activities, "Stopped")
                               \cup InState(activities, "Stopping"),
                 !.lists = {"running", "stopped"}]
    /\ pretended' = FALSE
    /\ Then(t, <<>>)
    /\ UNCHANGED <<table, currentActivity, disk, sessions, up, history>>

DoSnapshot(t) ==
    /\ At(t, "snapshot")
    /\ copy' = [copy EXCEPT ![t] = InState(activities, "Running")]
    /\ Then(t, <<>>)
    /\ UNCHANGED <<activities, sorted, currentActivity, stored, sessions, up, history>>

DoPublish(t) ==
    /\ At(t, "publish")
    /\ sorted' = copy[t]
    /\ copy' = [copy EXCEPT ![t] = {}]
    /\ Then(t, <<>>)
    /\ UNCHANGED <<activities, currentActivity, stored, sessions, up, history>>

(* StartActivity() and StopActivity().                                       *)
DoStart(t) ==
    /\ At(t, "start")
    /\ Then(t, Optional(activities[Act(t)] = "Stopped",
                        <<SetState(Act(t), "Starting"), StepOn("session", Act(t))>>))
    /\ UNCHANGED <<table, currentActivity, stored, sessions, up, history>>

MayStop(a) == /\ activities[a] \notin {"Absent", "Stopped"}
              /\ Cardinality(Ids(activities)) # 1
              /\ Cardinality(InState(activities, "Running")) > 1

DoStop(t) ==
    /\ At(t, "stop")
    /\ Then(t, Optional(MayStop(Act(t)),
                        <<SetState(Act(t), "Stopping"), StepOn("session", Act(t))>>))
    /\ UNCHANGED <<table, currentActivity, stored, sessions, up, history>>

-----------------------------------------------------------------------------
(* The session manager, as module Sessions describes it.                     *)

(* Mutant: the session manager's word is taken for the state.                *)
OutcomeAsState(a, e) ==
    IF activities[a] = "Absent" THEN <<>> ELSE <<SetState(a, e)>>

(* Mutant: a failure to stop changes nothing.                                *)
OutcomeNoFailure(a, e) ==
    IF activities[a] = "Absent" \/ e = "FailedToStop" THEN <<>>
    ELSE <<SetState(a, IF e = "Stopped" THEN "Stopped" ELSE "Running")>>

(* activitySessionStateChanged(): nothing for an id that is gone by then.    *)
Outcome(a, e) ==
    IF activities[a] = "Absent" THEN <<>>
    ELSE IF e = "Stopped"
    THEN <<SetState(a, "Stopped")>>
           \o Optional(currentActivity = a, <<Step("ensure")>>)
    ELSE <<SetState(a, "Running")>>

Event == {"Started", "Stopped", "FailedToStop"}

(* A request is accepted, and may then be answered more than once; or it is  *)
(* dropped, since one waits already, without KWin, or by two threads at it.  *)
Accept(a) == /\ owed' = [owed EXCEPT ![a] = MaxOwed]
             /\ dropped' = dropped \ {a}

Drop(a) == dropped' = IF owed'[a] = 0 THEN dropped \cup {a} ELSE dropped

(* Without KWin an outcome is told within the call, though about whatever is *)
(* being processed.  The main thread handles it there and then, any other    *)
(* posts it.                                                                 *)
DoSession(t) ==
    /\ At(t, "session")
    /\ \/ Accept(Act(t)) /\ Then(t, <<>>)
       \/ UNCHANGED owed /\ Drop(Act(t)) /\ Then(t, <<>>)
       \/ /\ t = Main
          /\ \E a \in Activity, e \in Event :
                /\ owed[a] > 0
                /\ owed' = [owed EXCEPT ![a] = @ - 1]
                /\ Then(t, Outcome(a, e))
          /\ Drop(Act(t))
    /\ UNCHANGED <<table, currentActivity, stored, up, history>>

(* What was accepted is lost: by a reply that comes while another request is *)
(* being processed, or that never comes (Sessions).                          *)
Forget(a) ==
    /\ owed[a] > 0
    /\ owed' = [owed EXCEPT ![a] = 0]
    /\ Drop(a)
    /\ UNCHANGED <<table, currentActivity, stored, todo, up, history>>

(* An outcome arrives on the main thread.                                    *)
SessionStateChanged(a, e) ==
    /\ owed[a] > 0
    /\ owed' = [owed EXCEPT ![a] = @ - 1]
    /\ Begin(Main, Outcome(a, e))
    /\ UNCHANGED <<table, currentActivity, stored, dropped, up, history>>

-----------------------------------------------------------------------------
(* The current activity.                                                     *)

(* setCurrentActivity(): the locked check, then start, assign and save, of   *)
(* which only the first takes the lock again.                                *)
DoSetCurrent(t) ==
    /\ At(t, "setCurrent")
    /\ LET a == Act(t)
       IN  /\ currentActivity' = IF a = NoActivity THEN a ELSE currentActivity
           /\ Then(t, Optional(a # currentActivity /\ a \in Ids(activities),
                               <<StepOn("start", a), StepOn("assign", a),
                                 StepOn("save", a)>>))
    /\ UNCHANGED <<table, stored, sessions, up, history>>

DoAssign(t) ==
    /\ At(t, "assign")
    /\ currentActivity' = Act(t)
    /\ Then(t, <<>>)
    /\ UNCHANGED <<table, stored, sessions, up, history>>

DoSave(t) ==
    /\ At(t, "save")
    /\ cfg' = [cfg EXCEPT !.current = Act(t)]
    /\ Then(t, <<>>)
    /\ UNCHANGED <<table, currentActivity, disk, pretended, sessions, up, history>>

(* ensureCurrentActivityIsRunning()                                          *)
DoEnsure(t) ==
    /\ At(t, "ensure")
    /\ IF currentActivity \in sorted \/ sorted = {}
       THEN Then(t, <<>>)
       ELSE \E a \in sorted : Then(t, <<StepOn("setCurrent", a)>>)
    /\ UNCHANGED <<table, currentActivity, stored, sessions, up, history>>

-----------------------------------------------------------------------------
(* Adding and removing.                                                      *)

(* addActivity() up to the end of the locked section that makes the new id,  *)
(* and the steps after it.  An id is never made twice, so the ids of a model *)
(* may be used up.                                                           *)
NewId(a) == /\ a \notin Ids(activities) \cup gone
            /\ activities' = [activities EXCEPT ![a] = "Invalid"]

AddSteps(a) == <<SetState(a, "Running"), StepOn("setName", a)>> \o Update
                 \o Optional(Ids(activities) = {}, <<StepOn("setCurrent", a)>>)

(* The first start has AddActivity called once the thread runs.              *)
DoAdd(t) ==
    /\ At(t, "add")
    /\ \E a \in Activity : NewId(a) /\ Then(t, AddSteps(a))
    /\ UNCHANGED <<sorted, copy, currentActivity, stored, sessions, up, history>>

(* SetActivityName(): the check under the lock, then the write.              *)
DoSetName(t) ==
    /\ At(t, "setName")
    /\ Then(t, Optional(Act(t) \in Ids(activities), <<StepOn("writeName", Act(t))>>))
    /\ UNCHANGED <<table, currentActivity, stored, sessions, up, history>>

DoWriteName(t) ==
    /\ At(t, "writeName")
    /\ cfg' = [cfg EXCEPT !.names = @ \cup {Act(t)}]
    /\ Then(t, <<>>)
    /\ UNCHANGED <<table, currentActivity, disk, pretended, sessions, up, history>>

(* Mutant: the last activity is not spared.                                  *)
MayRemoveAny(a) == a \in Ids(activities)

(* The sanity checks of removeActivity(), under the lock.                    *)
MayRemove(a) == a \in Ids(activities) /\ Cardinality(Ids(activities)) # 1

RemoveSteps(a) == Optional(MayRemove(a),
    <<StepOn("stop", a), SetState(a, "Invalid"), StepOn("erase", a)>>)

(* The locked section at its end, and what follows.                          *)
DoErase(t) ==
    /\ At(t, "erase")
    /\ LET a == Act(t)
       IN  /\ activities' = [activities EXCEPT ![a] = "Absent"]
           /\ sorted' = sorted \ {a}
           /\ gone' = gone \cup {a}
           /\ Then(t, <<StepOn("dropEntries", a)>>
                        \o Optional(currentActivity = a, <<Step("ensure")>>))
    /\ UNCHANGED <<copy, currentActivity, stored, sessions, up, calls, restarts>>

DoDropEntries(t) ==
    /\ At(t, "dropEntries")
    /\ cfg' = [cfg EXCEPT !.names = @ \ {Act(t)}]
    /\ Then(t, <<>>)
    /\ UNCHANGED <<table, currentActivity, disk, pretended, sessions, up, history>>

DoStartThread ==
    /\ At(Main, "startThread")
    /\ up' = TRUE
    /\ Then(Main, <<>>)
    /\ UNCHANGED <<table, currentActivity, stored, sessions, history>>

-----------------------------------------------------------------------------
(* The public methods, each called when its thread is free.                  *)

(* An id that is being added is unknown to clients until its first state is  *)
(* signalled.                                                                *)
Known(a) == a \in Activity => activities[a] # "Invalid"

Called(t, steps) == /\ calls < MaxCalls
                    /\ calls' = calls + 1
                    /\ Begin(t, steps)

Call(steps) ==
    /\ Called(DBus, steps)
    /\ UNCHANGED <<table, currentActivity, stored, sessions, up, gone, restarts>>

(* Mutant: the empty id is not refused.                                      *)
SetAnyCurrentActivity(a) == Call(<<StepOn("setCurrent", a)>>)

(* Public method can not put us in a limbo state: the empty id is refused.   *)
SetCurrentActivity(a) == a # NoActivity /\ Call(<<StepOn("setCurrent", a)>>)

(* PreviousActivity() and NextActivity(): from the current one to another of *)
(* the running ones.                                                         *)
CycleActivity ==
    /\ currentActivity \in sorted
    /\ \E a \in sorted \ {currentActivity} : Call(<<StepOn("setCurrent", a)>>)

StartActivity(a) == Call(<<StepOn("start", a)>>)

StopActivity(a) == Call(<<StepOn("stop", a)>>)

SetActivityName(a) == Call(<<StepOn("setName", a)>>)

RemoveActivity(a) == Call(RemoveSteps(a))

(* AddActivity(), by a client or by the plugin that makes activities from    *)
(* templates, which runs on the main thread.                                 *)
AddActivity(t) ==
    /\ up
    /\ \E a \in Activity : NewId(a) /\ Called(t, AddSteps(a))
    /\ UNCHANGED <<sorted, copy, currentActivity, stored, sessions, up, gone, restarts>>

-----------------------------------------------------------------------------
(* The configuration file.                                                   *)

(* configSync(), on the main thread.  What it leaves on disk is kept here    *)
(* only while a restart can still read it.                                   *)
ConfigSync ==
    /\ Idle(Main)
    /\ disk' = IF restarts < MaxRestarts THEN cfg ELSE disk
    /\ UNCHANGED <<table, currentActivity, cfg, pretended, todo, sessions, up, history>>

Crash == Restart(disk)

(* The event loops end and the destructor syncs.                             *)
Quit == Idle(Main) /\ Idle(DBus) /\ Restart(cfg)

-----------------------------------------------------------------------------
StepOf(t) == \/ DoAdd(t) \/ DoSetState(t) \/ DoWriteLists(t) \/ DoSnapshot(t)
             \/ DoPublish(t) \/ DoStart(t) \/ DoStop(t) \/ DoSession(t)
             \/ DoSetCurrent(t) \/ DoAssign(t) \/ DoSave(t) \/ DoEnsure(t)
             \/ DoSetName(t) \/ DoWriteName(t) \/ DoErase(t) \/ DoDropEntries(t)

Client == \/ \E a \in Activity : /\ Known(a)
                                 /\ \/ StartActivity(a)
                                    \/ StopActivity(a)
                                    \/ SetActivityName(a)
                                    \/ RemoveActivity(a)
          \/ \E a \in Activity \cup {NoActivity} : Known(a) /\ SetCurrentActivity(a)
          \/ CycleActivity
          \/ \E t \in Thread : AddActivity(t)

Next == \/ \E t \in Thread : StepOf(t)
        \/ DoStartThread
        \/ Client
        \/ \E a \in Activity : Forget(a)
        \/ \E a \in Activity, e \in Event : SessionStateChanged(a, e)
        \/ ConfigSync
        \/ Crash
        \/ Quit

Spec == Init /\ [][Next]_vars

-----------------------------------------------------------------------------
TypeOK == /\ activities \in Table
          /\ sorted \in SUBSET Activity
          /\ currentActivity \in Activity \cup {NoActivity}
          /\ cfg \in Config
          /\ disk \in Config
          /\ todo \in [Thread -> Seq(Todo)]
          /\ copy \in [Thread -> SUBSET Activity]
          /\ owed \in [Activity -> 0..MaxOwed]
          /\ dropped \in SUBSET Activity
          /\ up \in BOOLEAN
          /\ gone \in SUBSET Activity
          /\ pretended \in BOOLEAN
          /\ calls \in 0..MaxCalls
          /\ restarts \in 0..MaxRestarts

(* The steps thread t is still to make.                                      *)
Steps(t) == Range(todo[t])

NoWritePending == \A t \in Thread : Step("writeLists") \notin Steps(t)

(* The state lists in the configuration bring each activity back as it is,   *)
(* up or down, unless a thread is still to write them: no order of state     *)
(* changes on the two threads leaves a stale list behind, though the lists   *)
(* are written only when state & 4 changes (Activities.cpp:403, 423-433).    *)
(* Ids that were removed are left out: the other thread may bring one back.  *)
ListsMatchStates ==
    ~pretended /\ NoWritePending =>
        \A a \in Ids(activities) \ gone :
            Down(ListedState(cfg, a)) <=> Down(activities[a])

(* An activity that is starting or stopping waits for an outcome that may    *)
(* come or for a step of a thread, unless the session manager let the        *)
(* request of this very transition drop: nothing Activities does itself, on  *)
(* either thread, leaves it there for good (Activities.cpp:658-659, 675-676, *)
(* 463-476).                                                                 *)
TransitionIsOwed ==
    \A a \in Activity : activities[a] \in Transitional =>
        \/ owed[a] > 0
        \/ \E t \in Thread : \E e \in Steps(t) :
              e.act = a /\ e.step \in {"session", "setState"}
        \/ a \in dropped

(* Once there is a current activity there is one until the process ends: no  *)
(* method of the bus and no outcome empties it (Activities.cpp:529).         *)
NoLimbo == [][restarts' = restarts /\ currentActivity # NoActivity
                => currentActivity' # NoActivity]_vars

(* The last activity cannot be removed, whatever the other thread adds or    *)
(* changes between the check and the removal (Activities.cpp:314-317, 327).  *)
NeverEmptied == [][restarts' = restarts /\ Ids(activities) # {}
                     => Ids(activities') # {}]_vars

(* With activities around and nothing going on there is a current one, over  *)
(* crashes and restarts at any point and whichever thread adds the first     *)
(* one, until an activity was removed or was lost in a crash                 *)
(* (Activities.cpp:174-186, 282, 295-297).                                   *)
Quiet == \A t \in Thread : Idle(t)
LimboNeedsLoss ==
    Quiet /\ Ids(activities) # {} /\ currentActivity = NoActivity => gone # {}

-----------------------------------------------------------------------------
(* What comments and assertions say and the code does not keep.              *)

(* Q_ASSERT(activities.contains(activity)) in setActivityState(), on a build *)
(* without assertions as on one with them (Activities.cpp:395).              *)
StateIsOfKnown ==
    \A t \in Thread :
        At(t, "setState") => Act(t) \in Ids(activities)
=============================================================================
