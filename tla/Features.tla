------------------------------ MODULE Features ------------------------------
(* The daemon from its start to its end, as far as its modules call each     *)
(* other: the main thread (Application.cpp) starts a thread for each module  *)
(* in Threads, loads plugins, reloads the configuration when its file        *)
(* changes (Config.cpp) and, in the end, stops the threads and deletes the   *)
(* plugins.  On a thread of its own Features.cpp passes calls of programs on *)
(* to whatever the table of modules (Module.cpp) has under a name.  Nothing  *)
(* is ever taken out of that table.                                          *)
(*                                                                           *)
(* What such a call is for is to put activities on and off the record: the   *)
(* statistics keep the list in memory, and in a configuration that the two   *)
(* threads use without a lock.                                               *)
(*                                                                           *)
(* Abstracted: features other than isOTR; settings other than its list; the  *)
(* race of two threads for the hash table itself.                            *)
EXTENDS Integers, Sequences, FiniteSets

CONSTANTS Activity,      \* activities that calls name
          NoActivity,    \* the empty id
          Plugin,        \* plugins that are installed
          Enabled,       \* ... that are loaded at the start
          Broken,        \* ... whose library cannot be loaded
          Scoring,       \* the plugin that keeps the statistics
          NoPlugin,      \* none of them
          Calls,         \* the calls of programs
          MaxChanges     \* bound: calls, and changes of the file by others

ASSUME PluginAssumption == /\ Scoring \in Enabled
                           /\ Enabled \subseteq Plugin
                           /\ Broken \subseteq Plugin
                           /\ NoPlugin \notin Plugin
                           /\ NoActivity \notin Activity
ASSUME BoundAssumption == MaxChanges \in Nat

(* The modules with a thread, in the order in which threads are stopped.     *)
Threads == <<"resources", "activities", "features">>
Thread == {"resources", "activities", "features"}
Name == Thread \cup Plugin
ASSUME NameAssumption == Thread \cap Plugin = {}

List == SUBSET (Activity \cup {NoActivity})
Kind == {"on", "off", "get", "bare"}

(* A call: of a feature of the module name (a bare one names no feature),    *)
(* about an activity or about the current one; how far it has come, and      *)
(* whether the object that was looked up for it has been replaced since.     *)
Call == [at : {"none", "use", "write", "sync"}, name : Name, kind : Kind,
         activity : Activity, current : BOOLEAN, lost : BOOLEAN]
ASSUME CallsAssumption == Calls # {} /\ Calls \subseteq Call

NoCall == [CHOOSE c \in Calls : TRUE EXCEPT !.at = "none", !.lost = FALSE]

VARIABLES main,      \* what the main thread does
          loading,   \* the plugin it loads
          offers,    \* plugins loadPlugins() still has to load
          stopped,   \* how many threads it has stopped
          plugins,   \* how many instances of each plugin it keeps
          module,    \* what the table has under a name
          thread,    \* the threads of modules
          database,  \* can the database be opened
          call,      \* the call on the thread of Features
          otr,       \* m_otrActivities
          entry,     \* the list in the configuration in memory
          unsaved,   \* has it been written to since it was last saved
          file,      \* the list in the file
          dirty,     \* has the watch of the file something to report
          changes,   \* calls and changes so far
          asked,     \* the list as programs want it
          raced,     \* did the two threads race for the list
          astray     \* what was called after it had been deleted

lifecycle == <<main, loading, offers, stopped, plugins, module, thread, database>>
config == <<entry, unsaved, file, dirty>>
history == <<asked, raced, astray>>
vars == <<lifecycle, call, otr, config, changes, history>>

Init == /\ main = "load"
        /\ loading = NoPlugin
        /\ offers = Enabled
        /\ stopped = 0
        /\ plugins = [p \in Plugin |-> 0]
        /\ module = [n \in Name |-> IF n \in Thread THEN "live" ELSE "none"]
        /\ thread = [t \in Thread |-> "running"]
        /\ database \in BOOLEAN
        /\ call = NoCall
        /\ otr = {}
        /\ file \in SUBSET Activity
        /\ entry = file
        /\ unsaved = FALSE
        /\ dirty = FALSE
        /\ changes = 0
        /\ asked = file
        /\ raced = FALSE
        /\ astray = {}

Main(from, to) == main = from /\ main' = to

Change == changes < MaxChanges /\ changes' = changes + 1

-----------------------------------------------------------------------------
(* Loading plugins.                                                          *)

(* Between two plugins the main thread goes on with the ones it was to load  *)
(* at the start, before it takes anything else.                              *)
Loaded == IF offers = {} THEN "idle" ELSE "load"

(* Mutant: a plugin that is there already is loaded again.                   *)
LoadPluginAnyway(p) ==
    IF p \in Broken THEN main' = Loaded' /\ UNCHANGED loading
                    ELSE main' = "register" /\ loading' = p

(* Private::loadPlugin(), up to the instance.                                *)
LoadPlugin(p) ==
    IF plugins[p] > 0 \/ p \in Broken
    THEN main' = Loaded' /\ UNCHANGED loading
    ELSE main' = "register" /\ loading' = p

(* loadPlugins()                                                             *)
LoadPlugins ==
    /\ main = "load"
    /\ \E p \in offers : offers' = offers \ {p} /\ LoadPlugin(p)
    /\ UNCHANGED <<stopped, plugins, module, thread, database, call, otr,
                   config, changes, history>>

(* A program asks for a plugin.                                              *)
LoadPluginById ==
    /\ main = "idle"
    /\ Change
    /\ UNCHANGED offers
    /\ \E p \in Plugin : LoadPlugin(p)
    /\ UNCHANGED <<stopped, plugins, module, thread, database, call, otr,
                   config, history>>

(* Plugin::init()                                                            *)
Register ==
    /\ Main("register", "init")
    /\ module' = [module EXCEPT ![loading] = "starting"]
    /\ call' = [call EXCEPT !.lost = @ \/ (call.at # "none" /\ call.name = loading)]
    /\ otr' = IF loading = Scoring THEN {} ELSE otr
    /\ UNCHANGED <<loading, offers, stopped, plugins, thread, database, config,
                   changes, history>>

(* ... and the rest of init(): without a database there are no statistics,   *)
(* and the instance is deleted.                                              *)
InitPlugin ==
    /\ main = "init"
    /\ IF loading = Scoring /\ ~database
       THEN /\ main' = Loaded
            /\ module' = [module EXCEPT ![loading] = "deleted"]
            /\ UNCHANGED plugins
       ELSE /\ module' = [module EXCEPT ![loading] = "live"]
            /\ IF loading = Scoring
               THEN main' = "reparse" /\ UNCHANGED plugins
               ELSE main' = Loaded /\ plugins' = [plugins EXCEPT ![loading] = @ + 1]
    /\ UNCHANGED <<loading, offers, stopped, thread, database, call, otr,
                   config, changes, history>>

-----------------------------------------------------------------------------
(* The configuration.  A KConfig that is written to is saved before it is    *)
(* read again; whoever saves it causes the watch to report.                  *)
Save == IF unsaved THEN file' = entry /\ dirty' = TRUE
                   ELSE UNCHANGED <<file, dirty>>

(* The settings change the file, but not this list.                          *)
ChangeFile ==
    /\ Change
    /\ main # "gone"
    /\ dirty' = TRUE
    /\ UNCHANGED <<lifecycle, call, otr, entry, unsaved, file, history>>

(* configFileChanged(): the statistics listen if they are there.             *)
ConfigFileChanged ==
    /\ main = "idle"
    /\ dirty
    /\ dirty' = FALSE
    /\ main' = IF plugins[Scoring] > 0 THEN "reparse" ELSE main
    /\ loading' = NoPlugin
    /\ UNCHANGED <<offers, stopped, plugins, module, thread, database, call,
                   otr, entry, unsaved, file, changes, history>>

(* loadConfiguration(): first of all the file is read ...                    *)
Reparse ==
    /\ Main("reparse", "assign")
    /\ Save
    /\ entry' = file'
    /\ unsaved' = FALSE
    /\ UNCHANGED <<loading, offers, stopped, plugins, module, thread, database, call,
                   otr, changes, history>>

(* ... and last, when old events have been deleted, the list is taken over.  *)
LoadConfiguration ==
    /\ Main("assign", Loaded)
    /\ otr' = entry
    /\ raced' = (raced \/ call.at = "write")
    /\ plugins' = IF loading = NoPlugin THEN plugins
                  ELSE [plugins EXCEPT ![loading] = @ + 1]
    /\ UNCHANGED <<loading, offers, stopped, module, thread, database, call,
                   config, changes, asked, astray>>

-----------------------------------------------------------------------------
(* The thread of Features.                                                   *)

(* passToModule(): the name is looked up.                                    *)
PassToModule(c) ==
    /\ thread["features"] # "finished"
    /\ main # "crashed"
    /\ call.at = "none"
    /\ module[c.name] # "none"
    /\ Change
    /\ call' = [c EXCEPT !.at = "use", !.lost = FALSE]
    /\ UNCHANGED <<lifecycle, otr, config, history>>

Return == call' = NoCall

(* What has been deleted is called: the daemon crashes, or it goes on.       *)
GoAstray(name) ==
    /\ astray' = astray \cup {name}
    /\ \/ main' = "crashed"
       \/ UNCHANGED main
    /\ Return
    /\ UNCHANGED <<loading, offers, stopped, plugins, module, thread, database, otr,
                   config, changes, asked, raced>>

Deleted == call.lost \/ module[call.name] = "deleted"

CallDeleted ==
    /\ call.at # "none"
    /\ Deleted
    /\ GoAstray(call.name)

(* No module but the statistics has a feature.                               *)
UseModule ==
    /\ call.at = "use"
    /\ ~Deleted
    /\ call.name # Scoring
    /\ Return
    /\ UNCHANGED <<lifecycle, otr, config, changes, history>>

AtScoring == /\ call.at = "use"
             /\ ~Deleted
             /\ call.name = Scoring

(* Which activity is the current one only Activities knows; the plugin has   *)
(* no pointer to it before the rest of init().                               *)
HasActivities == module[Scoring] = "live"

AskDeletedActivities ==
    /\ AtScoring
    /\ call.kind # "bare"
    /\ call.current
    /\ HasActivities
    /\ module["activities"] = "deleted"
    /\ GoAstray("activities")

Resolved ==
    IF ~call.current THEN {call.activity}
    ELSE IF ~HasActivities THEN {NoActivity}
    ELSE IF module["activities"] = "deleted" THEN {}
    ELSE Activity

Put(list, a) == IF call.kind = "on" THEN list \cup {a} ELSE list \ {a}

(* featureValue() and setFeatureValue() look at the first of the parameters, *)
(* and without a feature in the key there is none.                           *)
ReadPastEnd ==
    /\ AtScoring
    /\ call.kind = "bare"
    /\ main' \in {main, "crashed"}
    /\ Return
    /\ UNCHANGED <<loading, offers, stopped, plugins, module, thread, database, otr,
                   config, changes, history>>

(* featureValue()                                                            *)
FeatureValue ==
    /\ AtScoring
    /\ call.kind = "get"
    /\ Resolved # {}
    /\ Return
    /\ UNCHANGED <<lifecycle, otr, config, changes, history>>

(* setFeatureValue(): the list in memory is changed, ...                     *)
SetFeatureValue ==
    /\ AtScoring
    /\ call.kind \in {"on", "off"}
    /\ \E a \in Resolved : otr' = Put(otr, a) /\ asked' = Put(asked, a)
    /\ raced' = (raced \/ plugins[Scoring] = 0)
    /\ call' = [call EXCEPT !.at = "write"]
    /\ UNCHANGED <<lifecycle, config, changes, astray>>

(* Mutant: the list is written by whoever wants an activity off the record.  *)
WriteEntryOn ==
    /\ call.at = "write"
    /\ ~Deleted
    /\ entry' = IF call.kind = "on" THEN otr ELSE entry
    /\ unsaved' = (unsaved \/ entry' # entry)
    /\ call' = [call EXCEPT !.at = "sync"]
    /\ UNCHANGED <<lifecycle, otr, file, dirty, changes, history>>

(* ... then what is there is written to the configuration, ...               *)
WriteEntry ==
    /\ call.at = "write"
    /\ ~Deleted
    /\ entry' = otr
    /\ unsaved' = (unsaved \/ entry' # entry)
    /\ call' = [call EXCEPT !.at = "sync"]
    /\ UNCHANGED <<lifecycle, otr, file, dirty, changes, history>>

(* ... which is saved.                                                       *)
Sync ==
    /\ call.at = "sync"
    /\ ~Deleted
    /\ Save
    /\ unsaved' = FALSE
    /\ Return
    /\ UNCHANGED <<lifecycle, otr, entry, changes, history>>

-----------------------------------------------------------------------------
(* The end: ~Application(), once the event loop has ended.                   *)
Quit ==
    /\ Main("idle", "stop")
    /\ UNCHANGED <<loading, offers, stopped, plugins, module, thread, database, call,
                   otr, config, changes, history>>

(* Mutant: a thread is waited for that was not told to quit.                 *)
QuitThreadWait ==
    /\ Main("stop", "wait")
    /\ UNCHANGED <<loading, offers, stopped, plugins, module, thread, database, call,
                   otr, config, changes, history>>

QuitThread ==
    /\ Main("stop", "wait")
    /\ thread' = [thread EXCEPT ![Threads[stopped + 1]] = "quitting"]
    /\ UNCHANGED <<loading, offers, stopped, plugins, module, database, call,
                   otr, config, changes, history>>

(* run() of a thread ends with its event loop, and its module is deleted.    *)
ThreadEnds(t) ==
    /\ thread[t] = "quitting"
    /\ t = "features" => call.at = "none"
    /\ thread' = [thread EXCEPT ![t] = "finished"]
    /\ module' = [module EXCEPT ![t] = "deleted"]
    /\ main # "crashed"
    /\ UNCHANGED <<main, loading, offers, stopped, plugins, database, call, otr,
                   config, changes, history>>

(* Mutant: plugins are deleted once nobody tells them of resources.          *)
WaitEarly ==
    /\ main = "wait"
    /\ thread[Threads[stopped + 1]] = "finished"
    /\ stopped' = stopped + 1
    /\ main' = IF stopped' = 3 THEN "delete" ELSE "stop"
    /\ module' = [n \in Name |-> IF n \in Plugin /\ module[n] # "none"
                                 THEN "deleted" ELSE module[n]]
    /\ UNCHANGED <<loading, offers, plugins, thread, database, call, otr,
                   config, changes, history>>

Wait ==
    /\ main = "wait"
    /\ thread[Threads[stopped + 1]] = "finished"
    /\ stopped' = stopped + 1
    /\ main' = IF stopped' = 3 THEN "delete" ELSE "stop"
    /\ UNCHANGED <<loading, offers, plugins, module, thread, database, call, otr,
                   config, changes, history>>

DeletePlugins ==
    /\ Main("delete", "gone")
    /\ module' = [n \in Name |-> IF n \in Plugin /\ plugins[n] > 0
                                 THEN "deleted" ELSE module[n]]
    /\ plugins' = [p \in Plugin |-> 0]
    /\ UNCHANGED <<loading, offers, stopped, thread, database, call, otr,
                   config, changes, history>>

-----------------------------------------------------------------------------
MainThread == LoadPlugins \/ Register \/ InitPlugin \/ Reparse \/ LoadConfiguration
                \/ QuitThread \/ Wait \/ DeletePlugins

FeaturesThread ==
    /\ main # "crashed"
    /\ CallDeleted \/ UseModule \/ AskDeletedActivities \/ ReadPastEnd
         \/ FeatureValue \/ SetFeatureValue \/ WriteEntry \/ Sync

Others == \/ LoadPluginById \/ Quit \/ ChangeFile
          \/ \E c \in Calls : PassToModule(c)

Next == MainThread \/ FeaturesThread \/ ConfigFileChanged \/ Others
          \/ \E t \in Thread : ThreadEnds(t)

Spec == Init /\ [][Next]_vars

(* Threads go on.  No fairness for programs.                                 *)
FairSpec == /\ Spec
            /\ WF_vars(MainThread)
            /\ WF_vars(FeaturesThread)
            /\ \A t \in Thread : WF_vars(ThreadEnds(t))

-----------------------------------------------------------------------------
TypeOK == /\ main \in {"load", "register", "init", "reparse", "assign", "idle",
                      "stop", "wait", "delete", "gone", "crashed"}
          /\ loading \in Plugin \cup {NoPlugin}
          /\ offers \subseteq Enabled
          /\ stopped \in 0..3
          /\ plugins \in [Plugin -> 0..1]
          /\ module \in [Name -> {"none", "starting", "live", "deleted"}]
          /\ thread \in [Thread -> {"running", "quitting", "finished"}]
          /\ database \in BOOLEAN
          /\ call \in Call
          /\ otr \in List /\ entry \in List /\ file \in List /\ asked \in List
          /\ unsaved \in BOOLEAN /\ dirty \in BOOLEAN /\ raced \in BOOLEAN
          /\ changes \in 0..MaxChanges
          /\ astray \subseteq Name

(* A call on the thread of Features reaches no object that has been deleted, *)
(* but for the statistics that could not be initialised, which stay in the   *)
(* table of modules, and for a module whose thread has been stopped before   *)
(* this one, at the end; never a plugin that was loaded                      *)
(* (Application.cpp:182-190, 237-252, Module.cpp:58-67).                     *)
CallsAreSound ==
    \A n \in astray : \/ n = Scoring /\ ~database
                      \/ /\ n \in {"resources", "activities"}
                         /\ main \in {"stop", "wait", "delete", "gone", "crashed"}

(* When all is quiet the statistics keep off the record what the file says,  *)
(* and that is what programs have asked for, unless the configuration was    *)
(* loaded between the change of the list and its being written, or the list  *)
(* was changed before it was first loaded (StatsPlugin.cpp:95-140, 672-697). *)
RequestsStand ==
    main = "idle" /\ plugins[Scoring] > 0 /\ call.at = "none" =>
        /\ otr = file
        /\ ~raced => otr = asked

(* What is behind the names programs use is there, and does what they ask.   *)
FeaturesAreSound == CallsAreSound /\ RequestsStand

(* Once the event loop has ended the daemon ends: no thread is waited for    *)
(* that does not end (Application.cpp:237-254).                              *)
ShutdownEnds == main = "stop" ~> main \in {"gone", "crashed"}
=============================================================================
