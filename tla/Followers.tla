------------------------------ MODULE Followers -----------------------------
(* The plugins that follow the activities: a shortcut for each of them       *)
(* (GlobalShortcutsPlugin), programs run as they are switched, started and   *)
(* stopped (RunApplicationPlugin), a virtual desktop remembered for each     *)
(* (VirtualDesktopSwitchPlugin).                                             *)
(*                                                                           *)
(* They live on the main thread and hear the signals of Activities.  A       *)
(* signal emitted on the thread of D-Bus waits in the main thread's queue,   *)
(* one emitted on the main thread (Activities::Private lives there, and the  *)
(* templates plugin calls it) is delivered at once and overtakes those.      *)
(* While the plugins are initialised nothing is taken from the queue: each   *)
(* asks for what there is, and connects, before or after it asks.            *)
(*                                                                           *)
(* Abstracted: Activities to what it may do to the table, the sorted list    *)
(* and the current id, and the signals it emits; starting and stopping, to   *)
(* one state of transition; a copy of the whole table is a single step; what *)
(* a script or an application is, to the directory it is run from; a         *)
(* desktop, to there being an entry.                                         *)
EXTENDS Integers, Sequences, FiniteSets

CONSTANTS Activity, NoActivity,  \* activity ids, and the empty id
          MaxChanges,            \* bounds: changes of the activities,
          MaxQueue               \*   signals on their way

ASSUME NoActivityAssumption == NoActivity \notin Activity
ASSUME ChangesAssumption == {MaxChanges, MaxQueue} \subseteq Nat

Id == Activity \cup {NoActivity}
Plugin == {"shortcuts", "runner", "desktops"}
Thread == {"main", "dbus"}

(* What a method of Activities still has to do: to emit a signal, or to      *)
(* change the current activity before that.                                  *)
Outcome == {"running", "stopped"}
Kind == {"added", "removed", "current"} \cup Outcome
Step == [kind : Kind \cup {"assign", "ensure"}, act : Id]
Signal(kind, a) == [kind |-> kind, act |-> a]

(* What sortedActivities tells: the ids, and which of them it has as running.*)
Listing == [all : SUBSET Activity, running : SUBSET Activity]

(* A method that made its checks under the lock and let go of it: what it is *)
(* going to change, and the current activity that it read.                   *)
Checked == [change : Outcome \cup {"remove"}, act : Activity, was : Id]

(* The signals that each of the plugins connects to.                         *)
Wants(p) == CASE p = "shortcuts" -> {"added", "removed"}
              [] p = "runner" -> {"current", "running", "stopped"}
              [] p = "desktops" -> {"current", "removed"}

VARIABLES known,      \* the table of activities
          used,       \* ids that were ever in it
          revived,    \* ids that an outcome put back after their removal
          state,      \* the state of each that is in it
          current,    \* the current activity
          sorted,     \* sortedActivities
          copy,       \* per thread, what updateSortedActivityList() publishes
          updating,   \* per thread, how often it still has to run that
          checked,    \* per thread, the method that made its checks
          todo,       \* per thread, what its method still has to do
          again,      \* ids whose removal is going to be emitted once more
          queue,      \* events for the main thread, and whom they are for
          setup,      \* per plugin: what it has done of its initialisation
          changes

VARIABLES shortcuts,  \* activities that have a shortcut
          following,  \* m_currentActivity of the two that follow it
          activated,  \* whose "activated" ran last, without a "deactivated"
          previous,   \* m_previousActivities
          entries     \* activities whose desktop is in the configuration

VARIABLES missed,     \* ids the list was wrong about, or that were told of
                      \*   while the shortcuts did not listen yet
          astray,     \* who may follow a current activity of the past
          runs,       \* how often the programs in "started" were run
          said        \* how often the runner was told an activity runs

activities == <<known, used, revived, state, current>>
listing == <<sorted, copy, updating>>
ways == <<todo, again, queue>>
plugins == <<shortcuts, following, activated, previous, entries>>
ledger == <<missed, astray, runs, said>>
followVars == <<activities, listing, checked, ways, setup, changes, plugins, ledger>>

Ready == \A p \in Plugin : setup[p] = "ready"
Listens(p) == setup[p] = "ready" \/ (p = "runner" /\ setup[p] = "half")

(* The constructor posts the first updateSortedActivityList().               *)
FollowInit == /\ known \in SUBSET Activity
              /\ used = known
              /\ revived = {}
              /\ state = [a \in Activity |-> IF a \in known THEN "running" ELSE "invalid"]
              /\ current \in known \cup {NoActivity}
              /\ sorted = [all |-> {}, running |-> {}]
              /\ copy = [t \in Thread |-> {}]
              /\ updating = [t \in Thread |-> IF t = "main" THEN 1 ELSE 0]
              /\ checked = [t \in Thread |-> {}]
              /\ todo = [t \in Thread |-> <<>>]
              /\ again = {}
              /\ queue = <<>>
              /\ setup = [p \in Plugin |-> "new"]
              /\ changes = 0
              /\ shortcuts = {}
              /\ following = [p \in {"runner", "desktops"} |-> NoActivity]
              /\ activated = {}
              /\ previous = {}
              /\ entries \in SUBSET known
              /\ missed = {}
              /\ astray = {}
              /\ runs = [a \in Id |-> 0]
              /\ said = runs

-----------------------------------------------------------------------------
(* What the plugins do when they hear a signal.                              *)

(* Mutant: the shortcut of what is removed is left.                          *)
HearShortcutsAddedOnly(s) ==
    shortcuts' = IF s.kind = "added" THEN shortcuts \cup {s.act} ELSE shortcuts

(* GlobalShortcutsPlugin::activityAdded(), activityRemoved()                 *)
HearShortcuts(s) ==
    shortcuts' = IF s.kind = "added" THEN shortcuts \cup {s.act}
                                     ELSE shortcuts \ {s.act}

Started(a) == runs' = [runs EXCEPT ![a] = @ + 1]

(* RunApplicationPlugin::currentActivityChanged() to another one than        *)
(* m_currentActivity: "pretending it has just been started" the first time.  *)
RunnerCurrent(a) ==
    /\ following["runner"] # a
    /\ activated' = (activated \ ({following["runner"]} \ {NoActivity})) \cup {a}
    /\ IF a \in previous THEN UNCHANGED runs ELSE Started(a)
    /\ previous' = previous \cup {a}

(* activityStateChanged(): in transition nothing is run.                     *)
HearRunner(s) ==
    \/ s.kind = "current" /\ RunnerCurrent(s.act)
    \/ /\ s.kind = "running" /\ Started(s.act)
       /\ UNCHANGED <<activated, previous>>
    \/ /\ \/ s.kind = "stopped"
          \/ s.kind = "current" /\ following["runner"] = s.act
       /\ UNCHANGED <<activated, previous, runs>>

(* Mutant: the entry of what is removed is left.                             *)
HearDesktopsCurrentOnly(s) ==
    entries' = IF s.kind = "current" /\ following["desktops"] # s.act
               THEN entries \cup {following["desktops"]} ELSE entries

(* VirtualDesktopSwitchPlugin::currentActivityChanged(), activityRemoved()   *)
HearDesktops(s) ==
    entries' = CASE s.kind = "removed" -> entries \ {s.act}
                 [] s.kind = "current" /\ following["desktops"] # s.act ->
                        entries \cup {following["desktops"]}
                 [] OTHER -> entries

(* Whoever is among these, and wants to, hears the signal.                   *)
Tell(s, to) ==
    LET hears(p) == p \in to /\ s.kind \in Wants(p)
    IN  /\ IF hears("shortcuts") THEN HearShortcuts(s) ELSE UNCHANGED shortcuts
        /\ IF hears("runner") THEN HearRunner(s)
                              ELSE UNCHANGED <<activated, previous, runs>>
        /\ IF hears("desktops") THEN HearDesktops(s) ELSE UNCHANGED entries
        /\ following' = [p \in DOMAIN following |->
                           IF s.kind = "current" /\ hears(p) THEN s.act
                                                             ELSE following[p]]

-----------------------------------------------------------------------------
(* Initialisation, of one plugin after the other, once the list is there.    *)
Initialise(p, from, to) == /\ updating["main"] = 0
                           /\ setup[p] = from
                           /\ setup' = [setup EXCEPT ![p] = to]
                           /\ UNCHANGED <<activities, listing, checked, ways, changes>>

ToBeTold(kind, a) == \E i \in DOMAIN todo["dbus"] : todo["dbus"][i] = Signal(kind, a)

(* What a list has too few or too many, and nobody is going to tell of.      *)
Mistaken(list) ==
    {a \in known \ list : ~ToBeTold("added", a)}
      \cup {a \in list \ known : ~ToBeTold("removed", a) /\ a \notin again}

(* GlobalShortcutsPlugin::init(): ListActivities(), then the connections.    *)
InitShortcuts ==
    \/ /\ Initialise("shortcuts", "new", "half")
       /\ shortcuts' = sorted.all
       /\ missed' = missed \cup Mistaken(sorted.all)
       /\ UNCHANGED <<following, activated, previous, entries, astray, runs, said>>
    \/ /\ Initialise("shortcuts", "half", "ready")
       /\ UNCHANGED <<plugins, ledger>>

(* RunApplicationPlugin::init(): the connections, then what is current.      *)
InitRunner ==
    \/ /\ Initialise("runner", "new", "half")
       /\ UNCHANGED <<plugins, ledger>>
    \/ /\ Initialise("runner", "half", "ready")
       /\ Tell(Signal("current", current), {"runner"})
       /\ UNCHANGED <<missed, astray, said>>

(* VirtualDesktopSwitchPlugin::init(): what is current, then the connections.*)
InitDesktops ==
    \/ /\ Initialise("desktops", "new", "half")
       /\ following' = [following EXCEPT !["desktops"] = current]
       /\ UNCHANGED <<shortcuts, activated, previous, entries, ledger>>
    \/ /\ Initialise("desktops", "half", "ready")
       /\ UNCHANGED <<plugins, ledger>>

-----------------------------------------------------------------------------
(* Signals on their way.                                                     *)

(* The steps of main are made while it is not inside of an initialisation.   *)
At(t, kinds) == /\ t = "main" => Ready
                /\ updating[t] = 0
                /\ todo[t] # <<>>
                /\ Head(todo[t]).kind \in kinds
Then(t, steps) == todo' = [todo EXCEPT ![t] = steps \o Tail(@)]

Pending == {q.signal : q \in {queue[i] : i \in DOMAIN queue}}
             \cup {todo["dbus"][i] : i \in DOMAIN todo["dbus"]}

(* setActivityState() tells of the state before it updates the sorted list,  *)
(* which addActivity() does once more before it tells of the new activity.   *)
UpdateAfter(t) ==
    LET s == Head(todo[t])
        tells == \E i \in DOMAIN todo[t] : todo[t][i] = Signal("added", s.act)
        n == IF s.kind \in Outcome THEN IF tells THEN 2 ELSE 1 ELSE 0
    IN  /\ updating' = [updating EXCEPT ![t] = n]
        /\ UNCHANGED <<sorted, copy>>

(* ActivityStateChanged goes to the runner.                                  *)
Said(s) == said' = [said EXCEPT ![s.act] = IF s.kind = "running" THEN @ + 1 ELSE @]

(* Delivered at once; a change of the current one on its way comes after it. *)
EmitOnMain ==
    /\ At("main", Kind)
    /\ LET s == Head(todo["main"])
       IN  /\ Tell(s, Plugin)
           /\ Said(s)
           /\ astray' = IF s.kind # "current" THEN astray
                        ELSE IF \E q \in Pending : q.kind = "current"
                        THEN {"runner", "desktops"} ELSE {}
    /\ Then("main", <<>>)
    /\ UpdateAfter("main")
    /\ UNCHANGED <<activities, checked, again, queue, setup, changes, missed>>

Post(s) ==
    LET to == {p \in Plugin : Listens(p) /\ s.kind \in Wants(p)}
    IN  /\ Len(queue) < MaxQueue
        /\ queue' = IF to = {} THEN queue
                    ELSE Append(queue, [signal |-> s, to |-> to])
        /\ missed' = missed \cup
             IF setup["shortcuts"] = "half" /\ s.kind \in Wants("shortcuts")
             THEN {s.act} ELSE {}
        /\ astray' = astray \cup
             IF setup["desktops"] = "half" /\ s.kind = "current"
             THEN {"desktops"} ELSE {}
        /\ IF "runner" \in to THEN Said(s) ELSE UNCHANGED said

EmitOnDBus ==
    /\ At("dbus", Kind)
    /\ Post(Head(todo["dbus"]))
    /\ again' = again \cup {s.act : s \in {q \in {Head(todo["dbus"])} :
                                             q.kind = "removed"}}
    /\ Then("dbus", <<>>)
    /\ UpdateAfter("dbus")
    /\ UNCHANGED <<activities, checked, setup, changes, plugins, runs>>

(* The thread is inside of no method.                                        *)
Idle(t) == /\ todo[t] = <<>>
           /\ updating[t] = 0
           /\ checked[t] = {}

(* The second ActivityRemoved, which removeActivity() posts to its thread.   *)
EmitAgain(a) ==
    /\ Idle("dbus")
    /\ a \in again
    /\ again' = again \ {a}
    /\ Post(Signal("removed", a))
    /\ UNCHANGED <<activities, listing, checked, todo, setup, changes, plugins,
                   runs>>

HearNext ==
    /\ Ready
    /\ Idle("main")
    /\ queue # <<>>
    /\ Tell(Head(queue).signal, Head(queue).to)
    /\ queue' = Tail(queue)
    /\ UNCHANGED <<activities, listing, checked, todo, again, setup, changes, missed,
                   astray, said>>

-----------------------------------------------------------------------------
(* Activities: updateSortedActivityList(), which copies the table without a  *)
(* lock and publishes the copy under one.                                    *)

IsRunning(a) == state[a] = "running"

Copy(t) ==
    /\ updating[t] > 0
    /\ copy[t] = {}
    /\ copy' = [copy EXCEPT ![t] = {[all |-> known,
                                     running |-> {a \in known : IsRunning(a)}]}]
    /\ UNCHANGED <<activities, sorted, updating, checked, ways, setup, changes,
                   plugins, ledger>>

Publish(t) ==
    /\ \E l \in copy[t] : sorted' = l
    /\ copy' = [copy EXCEPT ![t] = {}]
    /\ updating' = [updating EXCEPT ![t] = @ - 1]
    /\ UNCHANGED <<activities, checked, ways, setup, changes, plugins, ledger>>

-----------------------------------------------------------------------------
(* The other methods.  The id of a new activity was never used.              *)

Change == /\ changes < MaxChanges
          /\ changes' = changes + 1

Plan(t, steps) == /\ t = "main" => Ready
                  /\ todo[t] = <<>>
                  /\ updating[t] = 0
                  /\ todo' = [todo EXCEPT ![t] = steps]
                  /\ UNCHANGED <<copy, again, queue, setup, plugins>>

(* A method that is not divided, and how often it updates the list first.    *)
Begin(t, steps, updates) ==
    /\ checked[t] = {}
    /\ Change
    /\ Plan(t, steps)
    /\ updating' = [updating EXCEPT ![t] = updates]
    /\ UNCHANGED <<sorted, checked, ledger>>

(* One that lets go of the lock after it made its checks.                    *)
Check(t, change, a, was, updates) ==
    /\ checked[t] = {}
    /\ Change
    /\ Plan(t, <<>>)
    /\ updating' = [updating EXCEPT ![t] = updates]
    /\ checked' = [checked EXCEPT ![t] = {[change |-> change, act |-> a, was |-> was]}]
    /\ UNCHANGED <<sorted, ledger>>

Switch(a) == IF a = current THEN <<>>
             ELSE <<Signal("assign", a), Signal("current", a)>>

IsStopped(a) == a \in Activity /\ state[a] = "stopped"
Stops(a) == state[a] # "stopped" /\ Cardinality({b \in known : IsRunning(b)}) > 1

(* StartActivity() as setCurrentActivity() calls it.                         *)
Woken(a) == [state EXCEPT ![a] = IF IsStopped(a) THEN "transition" ELSE @]
Updates(changed) == IF changed THEN 1 ELSE 0

(* Mutant: the state that it is made with is left.                           *)
AddUnstarted(t, a) ==
    /\ a \notin used
    /\ known' = known \cup {a}
    /\ used' = used \cup {a}
    /\ Begin(t, <<Signal("added", a)>>, 1)
    /\ UNCHANGED <<state, current, revived>>

(* AddActivity(), which the templates plugin calls too, in createActivity(). *)
Add(t, a) ==
    /\ a \notin used
    /\ known' = known \cup {a}
    /\ used' = used \cup {a}
    /\ state' = [state EXCEPT ![a] = "running"]
    /\ Begin(t, <<Signal("running", a), Signal("added", a)>>
                  \o IF known = {} THEN Switch(a) ELSE <<>>, 0)
    /\ UNCHANGED <<current, revived>>

(* RemoveActivity(): checks, StopActivity(), Invalid; then the erasure.      *)
Remove(a) ==
    /\ a \in known
    /\ Cardinality(known) > 1
    /\ state' = [state EXCEPT ![a] = "invalid"]
    /\ Check("dbus", "remove", a, NoActivity, Updates(Stops(a)) + 1)
    /\ UNCHANGED <<known, used, revived, current>>

Erase(a) ==
    /\ \E c \in checked["dbus"] : c.change = "remove" /\ c.act = a
    /\ known' = known \ {a}
    /\ state' = [state EXCEPT ![a] = "invalid"]
    /\ Plan("dbus", (IF current = a THEN <<Signal("ensure", a)>> ELSE <<>>)
                       \o <<Signal("removed", a)>>)
    /\ sorted' = [all |-> sorted.all \ {a}, running |-> sorted.running \ {a}]
    /\ checked' = [checked EXCEPT !["dbus"] = {}]
    /\ UNCHANGED <<used, revived, current, changes, updating, ledger>>

(* SetCurrentActivity(), which starts the activity if it is stopped.         *)
SetCurrent(a) ==
    /\ a \in known
    /\ a # current
    /\ state' = Woken(a)
    /\ Begin("dbus", Switch(a), Updates(IsStopped(a)))
    /\ UNCHANGED <<known, used, revived, current>>

(* StartActivity() and StopActivity().                                       *)
StartOrStop(a) ==
    /\ a \in known
    /\ state[a] # "transition"
    /\ IsStopped(a) \/ Stops(a)
    /\ state' = [state EXCEPT ![a] = "transition"]
    /\ Begin("dbus", <<>>, 1)
    /\ UNCHANGED <<known, used, revived, current>>

(* activitySessionStateChanged(), as the session manager is done: the check, *)
(* and setActivityState(), which puts back what was removed in between.      *)
SessionStateChanged(a, s) ==
    /\ a \in known
    /\ state[a] = "transition"
    /\ Check("main", s, a, current, 0)
    /\ UNCHANGED activities

SetActivityState(a, s) ==
    /\ \E c \in checked["main"] :
          /\ c.change = s /\ c.act = a
          /\ Plan("main", (IF state[a] = s THEN <<>> ELSE <<Signal(s, a)>>)
                             \o IF s = "stopped" /\ c.was = a
                                THEN <<Signal("ensure", a)>> ELSE <<>>)
    /\ state' = [state EXCEPT ![a] = s]
    /\ known' = known \cup {a}
    /\ revived' = revived \cup ({a} \ known)
    /\ checked' = [checked EXCEPT !["main"] = {}]
    /\ UNCHANGED <<used, current, changes, updating, sorted, ledger>>

(* ensureCurrentActivityIsRunning(), by the sorted list.                     *)
Ensure(t) ==
    /\ At(t, {"ensure"})
    /\ \/ /\ \/ current \in sorted.running \/ sorted.running = {}
             \/ \E a \in sorted.running : a \notin known
          /\ Then(t, <<>>)
          /\ UNCHANGED <<state, updating>>
       \/ /\ current \notin sorted.running
          /\ \E a \in sorted.running \cap known :
                /\ Then(t, Switch(a))
                /\ state' = Woken(a)
                /\ updating' = [updating EXCEPT ![t] = Updates(IsStopped(a))]
    /\ UNCHANGED <<known, used, revived, current, sorted, copy, checked, again, queue,
                   setup, changes, plugins, ledger>>

(* Of the current activity the last signal from D-Bus will be the right one. *)
Assign(t) ==
    /\ At(t, {"assign"})
    /\ current' = Head(todo[t]).act
    /\ astray' = IF t = "dbus" THEN {} ELSE astray
    /\ Then(t, <<>>)
    /\ UNCHANGED <<known, used, revived, state, listing, checked, again, queue, setup,
                   changes, plugins, missed, runs, said>>

-----------------------------------------------------------------------------
FollowNext == \/ InitShortcuts \/ InitRunner \/ InitDesktops
              \/ EmitOnMain \/ EmitOnDBus \/ HearNext
              \/ \E a \in Activity :
                    \/ EmitAgain(a) \/ Remove(a) \/ Erase(a)
                    \/ SetCurrent(a) \/ StartOrStop(a)
                    \/ \E t \in Thread : Add(t, a)
                    \/ \E s \in Outcome : SessionStateChanged(a, s) \/ SetActivityState(a, s)
              \/ \E t \in Thread : Copy(t) \/ Publish(t) \/ Ensure(t) \/ Assign(t)

FollowSpec == FollowInit /\ [][FollowNext]_followVars

-----------------------------------------------------------------------------
FollowTypeOK == /\ {known, used, revived} \subseteq SUBSET Activity
                /\ state \in [Activity -> {"running", "stopped", "transition", "invalid"}]
                /\ \A a \in known : state[a] = "invalid" =>
                      \E c \in checked["dbus"] : c.change = "remove" /\ c.act = a
                /\ current \in Id
                /\ sorted \in Listing
                /\ copy \in [Thread -> SUBSET Listing]
                /\ updating \in [Thread -> 0..2]
                /\ checked \in [Thread -> SUBSET Checked]
                /\ todo \in [Thread -> Seq(Step)]
                /\ again \in SUBSET Activity
                /\ queue \in Seq([signal : [kind : Kind, act : Id], to : SUBSET Plugin])
                /\ setup \in [Plugin -> {"new", "half", "ready"}]
                /\ changes \in 0..MaxChanges
                /\ shortcuts \in SUBSET Activity
                /\ following \in [{"runner", "desktops"} -> Id]
                /\ {activated, previous, entries} \subseteq SUBSET Id
                /\ missed \in SUBSET Activity
                /\ astray \in SUBSET {"runner", "desktops"}
                /\ {runs, said} \subseteq [Id -> Nat]

(* All that was emitted has been heard.                                      *)
Quiet == /\ Ready
         /\ \A t \in Thread : Idle(t)
         /\ again = {}
         /\ queue = <<>>

(* There is a shortcut for each activity and for nothing else, except for    *)
(* what the sorted list was behind with, what was added or removed between   *)
(* the list and the connections, and what an outcome put back into the table *)
(* (GlobalShortcutsPlugin.cpp:56-69, 76-117, Activities.cpp:162-172,         *)
(* 456-476).                                                                 *)
ShortcutsOfKnown ==
    Quiet => \A a \in Activity \ (missed \cup revived) : a \in shortcuts <=> a \in known

(* The activity whose programs are activated is the current one, through all *)
(* changes during and after the initialisation, unless a change on the main  *)
(* thread overtook one on the other (RunApplicationPlugin.cpp:59-67, 78-90). *)
ActivatedIsCurrent ==
    Quiet /\ "runner" \notin astray =>
        activated \ {NoActivity} = {current} \ {NoActivity}

(* The desktop is remembered for the right activity; one that asks before it *)
(* connects may also miss a change in between                                *)
(* (VirtualDesktopSwitchPlugin.cpp:47-53, 58-68).                            *)
DesktopsFollow ==
    Quiet /\ "desktops" \notin astray => following["desktops"] = current

(* The programs to be run when an activity starts run once for each time     *)
(* that it does, and once for the first time it becomes current, no matter   *)
(* which of the two comes first (RunApplicationPlugin.cpp:92-112).           *)
StartedOnceMore ==
    Quiet => \A a \in Id :
        runs[a] = said[a] + IF a \in previous THEN 1 ELSE 0

(* Once all that was emitted has been heard the plugins agree with           *)
(* Activities, whatever changed during and after the initialisation.         *)
FollowersAgree == /\ ShortcutsOfKnown
                  /\ ActivatedIsCurrent
                  /\ DesktopsFollow
                  /\ StartedOnceMore

(* An entry stays behind for an activity that was removed only if the plugin *)
(* still took it for the current one when it last heard of that, or did not  *)
(* listen yet (VirtualDesktopSwitchPlugin.cpp:50-53, 64-66, 77-81).          *)
LeftBehind(a) ==
    /\ a \in entries \cap (used \ known)
    /\ a \notin again
    /\ \A i \in DOMAIN todo["dbus"] : todo["dbus"][i] # Signal("removed", a)
    /\ \A i \in DOMAIN queue : \/ queue[i].signal # Signal("removed", a)
                               \/ "desktops" \notin queue[i].to
LeftBehindOnlyIf ==
    [][\A a \in Activity : LeftBehind(a)' /\ ~LeftBehind(a) =>
          setup["desktops"] # "ready" \/ following["desktops"] = a]_followVars
=============================================================================
