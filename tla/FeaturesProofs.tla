--------------------------- MODULE FeaturesProofs ---------------------------
(* What Features keeps to for any plugins, activities and calls.             *)
EXTENDS Features, TLAPS

-----------------------------------------------------------------------------
(* Calls.                                                                    *)

LEMMA NoCallIs == /\ NoCall \in Call
                  /\ NoCall.at = "none"
                  /\ ~NoCall.lost
<1> DEFINE c == CHOOSE c \in Calls : TRUE
<1>1. c \in Call
  BY CallsAssumption
<1>2. NoCall = [c EXCEPT !.at = "none", !.lost = FALSE]
  BY DEF NoCall
<1> HIDE DEF c
<1> QED BY <1>1, <1>2 DEF Call

(* How far a call has come changes nothing else of it.                       *)
LEMMA CallGoesOn ==
    ASSUME NEW c \in Call, NEW at \in {"none", "use", "write", "sync"},
           NEW d, d = [c EXCEPT !.at = at]
    PROVE  /\ d \in Call
           /\ d.at = at /\ d.name = c.name /\ d.lost = c.lost /\ d.kind = c.kind
BY DEF Call

LEMMA CallBegins ==
    ASSUME NEW c \in Call, NEW d, d = [c EXCEPT !.at = "use", !.lost = FALSE]
    PROVE  d \in Call /\ d.at = "use" /\ d.name = c.name /\ ~d.lost
BY DEF Call

LEMMA CallIsLost ==
    ASSUME NEW c \in Call, NEW lost \in BOOLEAN, NEW d, d = [c EXCEPT !.lost = lost]
    PROVE  /\ d \in Call
           /\ d.at = c.at /\ d.name = c.name /\ d.kind = c.kind
           /\ d.lost = lost
BY DEF Call

LEMMA ResolvedType ==
    ASSUME call \in Call PROVE Resolved \subseteq Activity \cup {NoActivity}
BY DEF Resolved, Call

-----------------------------------------------------------------------------
(* Flags.                                                                    *)
Flags == {database, unsaved, dirty, raced} \subseteq BOOLEAN

LEMMA FlagsStep == Flags /\ [Next]_vars => Flags'
<1> SUFFICES ASSUME Flags, [Next]_vars PROVE Flags'
  OBVIOUS
<1>0. database \in BOOLEAN /\ unsaved \in BOOLEAN /\ dirty \in BOOLEAN /\ raced \in BOOLEAN
  BY DEF Flags
<1> USE DEF Next, MainThread, FeaturesThread, Others, lifecycle, config, history, vars
<1>1. /\ database' = database
      /\ unsaved' = unsaved \/ Reparse \/ WriteEntry \/ Sync
      /\ dirty' = dirty \/ Reparse \/ Sync \/ ChangeFile \/ ConfigFileChanged
      /\ raced' = raced \/ LoadConfiguration \/ SetFeatureValue
  BY DEF LoadPlugins, Register, InitPlugin, Reparse, LoadConfiguration, QuitThread, Wait,
         DeletePlugins, CallDeleted, GoAstray, UseModule, AskDeletedActivities,
         FeatureValue, ReadPastEnd, SetFeatureValue, WriteEntry, Sync, LoadPluginById, Quit,
         ChangeFile, PassToModule, ThreadEnds, ConfigFileChanged
<1>2. ASSUME Reparse \/ WriteEntry \/ Sync PROVE unsaved' \in BOOLEAN
  BY <1>2, Zenon DEF Reparse, WriteEntry, Sync
<1>3. ASSUME Save PROVE dirty' \in BOOLEAN
  BY <1>0, <1>3, Zenon DEF Save
<1>4. ASSUME Reparse \/ Sync \/ ChangeFile \/ ConfigFileChanged
      PROVE  dirty' \in BOOLEAN
  BY <1>3, <1>4, Zenon DEF Reparse, Sync, ChangeFile, ConfigFileChanged
<1>5. ASSUME LoadConfiguration \/ SetFeatureValue PROVE raced' \in BOOLEAN
  BY <1>5, Zenon DEF LoadConfiguration, SetFeatureValue
<1>6. /\ database' \in BOOLEAN /\ unsaved' \in BOOLEAN /\ dirty' \in BOOLEAN
      /\ raced' \in BOOLEAN
  BY <1>0, <1>1, <1>2, <1>4, <1>5, Zenon
<1> QED BY <1>6 DEF Flags

-----------------------------------------------------------------------------
(* The lifecycle: what the main thread is at, and how far the threads, the   *)
(* plugins and the table of modules have come with it.                       *)
MainTypes ==
    /\ main \in {"load", "register", "init", "reparse", "assign", "idle",
                 "stop", "wait", "delete", "gone", "crashed"}
    /\ loading \in Plugin \cup {NoPlugin}
    /\ offers \subseteq Enabled
    /\ stopped \in 0..3
    /\ plugins \in [Plugin -> 0..1]
    /\ module \in [Name -> {"none", "starting", "live", "deleted"}]
    /\ thread \in [Thread -> {"running", "quitting", "finished"}]
    /\ call \in Call

(* What is loaded is not there yet; only the statistics, with a database,    *)
(* come as far as their configuration.                                       *)
LoadingOK ==
    /\ main \in {"register", "init"} => loading \in Plugin /\ plugins[loading] = 0
    /\ main \in {"reparse", "assign"} =>
          loading = NoPlugin \/ (loading = Scoring /\ plugins[Scoring] = 0 /\ database)
    /\ plugins[Scoring] > 0 => database

(* Threads end after the event loop of the main thread, Features last.       *)
StoppingOK ==
    main # "crashed" =>
        /\ main \in {"stop", "wait"} => stopped < 3
        /\ main \notin {"stop", "wait", "delete", "gone"} => stopped = 0
        /\ main \in {"delete", "gone"} => stopped = 3
        /\ \A i \in 1..3 :
              /\ i <= stopped => thread[Threads[i]] = "finished"
              /\ i > stopped => \/ thread[Threads[i]] = "running"
                                \/ main = "wait" /\ i = stopped + 1

(* The table of modules: what is under a name was loaded, or is statistics   *)
(* without a database; what has been deleted are those, modules whose thread *)
(* has ended and, in the end, plugins.                                       *)
TableOK ==
    /\ \A p \in Plugin : module[p] # "none" =>
          \/ plugins[p] > 0
          \/ p = Scoring /\ ~database
          \/ main \in {"init", "reparse", "assign"} /\ loading = p
          \/ main \in {"gone", "crashed"}
    /\ \A n \in Name : module[n] = "deleted" =>
          \/ n \in Thread /\ thread[n] = "finished"
          \/ n = Scoring /\ ~database
          \/ n \in Plugin /\ main = "gone"

(* A call is of a module that is in the table, and ends before its thread.   *)
CallOK ==
    /\ call.at # "none" => thread["features"] # "finished" /\ module[call.name] # "none"
    /\ call.at \in {"write", "sync"} => call.name = Scoring
    /\ call.lost => call.at # "none" /\ call.name = Scoring /\ ~database

Lifecycle == MainTypes /\ LoadingOK /\ StoppingOK /\ TableOK /\ CallOK

LEMMA ThreadsAre ==
    /\ \A i \in 1..3 : Threads[i] \in Thread
    /\ \A i, j \in 1..3 : Threads[i] = Threads[j] => i = j
    /\ \A t \in Thread : \E i \in 1..3 : Threads[i] = t
    /\ Threads[3] = "features"
BY DEF Threads, Thread

LEMMA LifecycleInit == Init => Lifecycle
<1> SUFFICES ASSUME Init PROVE Lifecycle
  OBVIOUS
<1>1. call = NoCall
  BY DEF Init
<1>2. MainTypes
  BY <1>1, NoCallIs, PluginAssumption DEF Init, MainTypes
<1>3. LoadingOK
  BY PluginAssumption DEF Init, LoadingOK
<1>4. StoppingOK
  <2>1. \A i \in 1..3 : thread[Threads[i]] = "running"
    BY ThreadsAre DEF Init
  <2>2. stopped = 0 /\ main = "load"
    BY DEF Init
  <2> QED BY <2>1, <2>2 DEF StoppingOK
<1>5. TableOK
  BY NameAssumption DEF Init, TableOK, Name
<1>6. CallOK
  BY <1>1, NoCallIs DEF CallOK
<1> QED BY <1>2, <1>3, <1>4, <1>5, <1>6 DEF Lifecycle

LEMMA MainStep ==
    ASSUME Lifecycle, Flags, MainThread \/ ConfigFileChanged \/ LoadPluginById \/ Quit
    PROVE  Lifecycle'
<1> USE PluginAssumption, NameAssumption
    DEF Lifecycle, MainTypes, LoadingOK, StoppingOK, TableOK, CallOK, Name, Thread, Main
<1>1. ASSUME NEW p \in Plugin, LoadPlugin(p), main \in {"load", "idle"}, offers' \subseteq offers,
             UNCHANGED <<stopped, plugins, module, thread, database, call>>
      PROVE  Lifecycle'
  BY <1>1 DEF LoadPlugin, Loaded
<1>2. CASE LoadPlugins
  <2>1. PICK p \in offers : offers' = offers \ {p} /\ LoadPlugin(p)
    BY <1>2 DEF LoadPlugins
  <2>2. p \in Plugin /\ offers' \subseteq offers /\ main \in {"load", "idle"}
        /\ UNCHANGED <<stopped, plugins, module, thread, database, call>>
    BY <1>2, <2>1 DEF LoadPlugins
  <2> QED BY <1>1, <2>1, <2>2
<1>3. CASE LoadPluginById
  <2>1. PICK p \in Plugin : LoadPlugin(p)
    BY <1>3 DEF LoadPluginById
  <2>2. offers' \subseteq offers /\ main \in {"load", "idle"}
        /\ UNCHANGED <<stopped, plugins, module, thread, database, call>>
    BY <1>3 DEF LoadPluginById
  <2> QED BY <1>1, <2>1, <2>2
<1>4. CASE Register
  <2>1. /\ main = "register" /\ main' = "init" /\ loading' = loading
        /\ module' = [module EXCEPT ![loading] = "starting"]
        /\ UNCHANGED <<offers, stopped, plugins, thread, database>>
    BY <1>4 DEF Register
  <2>2. loading \in Plugin /\ plugins[loading] = 0
    BY <2>1
  <2>3. PICK lost \in BOOLEAN :
           /\ call' = [call EXCEPT !.lost = lost]
           /\ lost => call.lost \/ (call.at # "none" /\ call.name = loading)
    <3>1. (call.lost \/ (call.at # "none" /\ call.name = loading)) \in BOOLEAN
      OBVIOUS
    <3> QED BY <1>4, <3>1, Zenon DEF Register
  <2>4. /\ call' \in Call /\ call'.at = call.at /\ call'.name = call.name
        /\ call'.lost = lost
    BY <2>3, CallIsLost
  <2>5. call.at # "none" /\ call.name = loading => loading = Scoring /\ ~database
    BY <2>1, <2>2
  <2>6. CallOK'
    BY <2>1, <2>2, <2>3, <2>4, <2>5
  <2>7. MainTypes' /\ LoadingOK' /\ StoppingOK' /\ TableOK'
    BY <2>1, <2>2, <2>4
  <2> QED BY <2>6, <2>7
<1>5. CASE InitPlugin
  <2>0. /\ main = "init" /\ loading \in Plugin /\ plugins[loading] = 0 /\ loading' = loading
        /\ UNCHANGED <<offers, stopped, thread, database, call>>
    BY <1>5 DEF InitPlugin
  <2>1. CASE loading = Scoring /\ ~database
    <3>1. /\ main' \in {"idle", "load"} /\ plugins' = plugins
          /\ module' = [module EXCEPT ![loading] = "deleted"]
      BY <1>5, <2>1 DEF InitPlugin, Loaded
    <3> QED BY <2>0, <2>1, <3>1
  <2>2. CASE loading = Scoring /\ database
    <3>1. /\ main' = "reparse" /\ plugins' = plugins
          /\ module' = [module EXCEPT ![loading] = "live"]
      BY <1>5, <2>2 DEF InitPlugin
    <3> QED BY <2>0, <2>2, <3>1
  <2>3. CASE loading # Scoring
    <3>1. /\ main' \in {"idle", "load"}
          /\ plugins' = [plugins EXCEPT ![loading] = 1]
          /\ module' = [module EXCEPT ![loading] = "live"]
      BY <1>5, <2>0, <2>3 DEF InitPlugin, Loaded
    <3> QED BY <2>0, <2>3, <3>1
  <2> QED BY <2>1, <2>2, <2>3
<1>6. CASE Reparse
  BY <1>6 DEF Reparse
<1>7. CASE LoadConfiguration
  BY <1>7 DEF LoadConfiguration, Loaded, config
<1>8. CASE QuitThread
  <2>1. /\ main = "stop" /\ main' = "wait" /\ stopped + 1 \in 1..3
        /\ thread' = [thread EXCEPT ![Threads[stopped + 1]] = "quitting"]
        /\ UNCHANGED <<loading, offers, stopped, plugins, module, database, call>>
    BY <1>8 DEF QuitThread
  <2>2. /\ Threads[stopped + 1] \in Thread
        /\ thread[Threads[stopped + 1]] = "running"
    BY <2>1, ThreadsAre
  <2>3. StoppingOK'
    BY <2>1, <2>2, ThreadsAre
  <2> QED BY <2>1, <2>2, <2>3
<1>9. CASE Wait
  <2>1. /\ main = "wait" /\ stopped + 1 \in 1..3 /\ stopped' = stopped + 1
        /\ thread[Threads[stopped + 1]] = "finished"
        /\ main' = IF stopped' = 3 THEN "delete" ELSE "stop"
        /\ UNCHANGED <<loading, offers, plugins, module, thread, database, call>>
    BY <1>9 DEF Wait
  <2>2. StoppingOK'
    BY <2>1, ThreadsAre
  <2> QED BY <2>1, <2>2
<1>10. CASE DeletePlugins
  <2>1. /\ main = "delete" /\ main' = "gone"
        /\ module' = [n \in Name |-> IF n \in Plugin /\ plugins[n] > 0
                                    THEN "deleted" ELSE module[n]]
        /\ plugins' = [p \in Plugin |-> 0]
        /\ UNCHANGED <<loading, offers, stopped, thread, database, call>>
    BY <1>10 DEF DeletePlugins
  <2>2. thread["features"] = "finished"
    BY <2>1, ThreadsAre
  <2>3. call.at = "none"
    BY <2>2
  <2>4. MainTypes' /\ LoadingOK' /\ StoppingOK'
    BY <2>1
  <2>5. TableOK'
    BY <2>1
  <2> QED BY <2>1, <2>2, <2>3, <2>4, <2>5
<1>11. CASE ConfigFileChanged
  BY <1>11 DEF ConfigFileChanged
<1>12. CASE Quit
  BY <1>12 DEF Quit
<1> QED BY <1>2, <1>3, <1>4, <1>5, <1>6, <1>7, <1>8, <1>9, <1>10, <1>11, <1>12
        DEF MainThread

LEMMA CallStep ==
    ASSUME Lifecycle, FeaturesThread \/ \E c \in Calls : PassToModule(c)
    PROVE  Lifecycle'
<1> USE DEF Lifecycle, MainTypes, LoadingOK, StoppingOK, TableOK, CallOK, lifecycle
<1>0. call \in Call
  OBVIOUS
<1>1. ASSUME main' \in {main, "crashed"}, call' = NoCall,
             UNCHANGED <<loading, offers, stopped, plugins, module, thread, database>>,
             main # "gone"
      PROVE  Lifecycle'
  BY <1>1, NoCallIs
<1>2. ASSUME call.at # "none" PROVE main # "gone"
  BY <1>2, ThreadsAre
<1>3. ASSUME NEW at \in {"write", "sync"}, call' = [call EXCEPT !.at = at],
             call.at # "none", call.name = Scoring, UNCHANGED lifecycle
      PROVE  Lifecycle'
  <2>1. /\ call' \in Call
        /\ call'.at = at /\ call'.name = call.name /\ call'.lost = call.lost
    BY <1>0, <1>3, CallGoesOn
  <2> QED BY <1>3, <2>1
<1>4. CASE CallDeleted
  BY <1>1, <1>2, <1>4 DEF CallDeleted, GoAstray, Return
<1>5. CASE UseModule
  BY <1>1, <1>2, <1>5 DEF UseModule, Return
<1>6. CASE AskDeletedActivities
  BY <1>1, <1>2, <1>6 DEF AskDeletedActivities, AtScoring, GoAstray, Return
<1>7. CASE FeatureValue
  BY <1>1, <1>2, <1>7 DEF FeatureValue, AtScoring, Return
<1>12. CASE ReadPastEnd
  BY <1>1, <1>2, <1>12 DEF ReadPastEnd, AtScoring, Return
<1>8. CASE SetFeatureValue
  BY <1>3, <1>8 DEF SetFeatureValue, AtScoring
<1>9. CASE WriteEntry
  BY <1>3, <1>9 DEF WriteEntry
<1>10. CASE Sync
  BY <1>1, <1>2, <1>10 DEF Sync, Return
<1>11. ASSUME NEW c \in Calls, PassToModule(c) PROVE Lifecycle'
  <2>1. /\ c \in Call /\ call' = [c EXCEPT !.at = "use", !.lost = FALSE]
        /\ thread["features"] # "finished" /\ module[c.name] # "none"
        /\ UNCHANGED lifecycle
    BY <1>11, CallsAssumption DEF PassToModule
  <2>2. /\ call' \in Call
        /\ call'.at = "use" /\ call'.name = c.name /\ ~call'.lost
    BY <2>1, CallBegins
  <2> QED BY <2>1, <2>2
<1> QED BY <1>4, <1>5, <1>6, <1>7, <1>8, <1>9, <1>10, <1>11, <1>12 DEF FeaturesThread

LEMMA ThreadStep ==
    ASSUME Lifecycle, NEW t \in Thread, ThreadEnds(t)
    PROVE  Lifecycle'
<1> USE DEF Lifecycle, MainTypes, LoadingOK, StoppingOK, TableOK, CallOK
<1>1. /\ thread[t] = "quitting" /\ main # "crashed"
      /\ t = "features" => call.at = "none"
      /\ thread' = [thread EXCEPT ![t] = "finished"]
      /\ module' = [module EXCEPT ![t] = "deleted"]
      /\ UNCHANGED <<main, loading, offers, stopped, plugins, database, call>>
  BY DEF ThreadEnds
<1>2. t \in Name /\ t \notin Plugin
  BY NameAssumption DEF Name
<1>3. main = "wait" /\ t = Threads[stopped + 1] /\ stopped + 1 \in 1..3
  <2>1. PICK i \in 1..3 : Threads[i] = t
    BY ThreadsAre
  <2> QED BY <1>1, <2>1
<1>4. MainTypes' /\ LoadingOK'
  BY <1>1, <1>2
<1>5. StoppingOK'
  BY <1>1, <1>3, ThreadsAre
<1>6. TableOK'
  BY <1>1, <1>2 DEF Thread
<1>7. CallOK'
  BY <1>1, <1>2, <1>3 DEF Call
<1> QED BY <1>4, <1>5, <1>6, <1>7

LEMMA LifecycleStep == Lifecycle /\ Flags /\ [Next]_vars => Lifecycle'
<1> SUFFICES ASSUME Lifecycle, Flags, [Next]_vars PROVE Lifecycle'
  OBVIOUS
<1>1. CASE ChangeFile \/ UNCHANGED vars
  BY <1>1 DEF ChangeFile, vars, lifecycle, Lifecycle, MainTypes, LoadingOK, StoppingOK,
              TableOK, CallOK
<1> QED BY <1>1, MainStep, CallStep, ThreadStep DEF Next, Others

-----------------------------------------------------------------------------
(* Lists of activities.                                                      *)
Lists == /\ {otr, entry, file, asked} \subseteq List
         /\ changes \in 0..MaxChanges
         /\ astray \subseteq Name

LEMMA PutType ==
    ASSUME call \in Call, NEW list \in List, NEW a \in Resolved
    PROVE  Put(list, a) \in List
BY ResolvedType DEF Put, List

LEMMA ListsStep == Lifecycle /\ Lists /\ [Next]_vars => Lists'
<1> SUFFICES ASSUME Lifecycle, Lists, [Next]_vars PROVE Lists'
  OBVIOUS
<1>0. /\ otr \in List /\ entry \in List /\ file \in List /\ asked \in List
      /\ changes \in 0..MaxChanges /\ astray \subseteq Name
      /\ call \in Call /\ {} \in List
  BY DEF Lists, Lifecycle, MainTypes, List
<1>1. /\ changes' = changes \/ Change
      /\ otr' = otr \/ Register \/ LoadConfiguration \/ SetFeatureValue
      /\ asked' = asked \/ SetFeatureValue
      /\ entry' = entry \/ Reparse \/ WriteEntry
      /\ file' = file \/ Save
      /\ astray' = astray \/ CallDeleted \/ AskDeletedActivities
  BY DEF Next, MainThread, FeaturesThread, Others, lifecycle, config, history, vars,
         LoadPlugins, Register, InitPlugin, Reparse, LoadConfiguration, QuitThread, Wait,
         DeletePlugins, CallDeleted, GoAstray, UseModule, AskDeletedActivities,
         FeatureValue, ReadPastEnd, SetFeatureValue, WriteEntry, Sync, LoadPluginById, Quit,
         ChangeFile, PassToModule, ThreadEnds, ConfigFileChanged
<1>2. changes' \in 0..MaxChanges
  BY <1>0, <1>1, BoundAssumption DEF Change
<1>3. ASSUME SetFeatureValue PROVE otr' \in List /\ asked' \in List
  BY <1>0, <1>3, PutType, Zenon DEF SetFeatureValue
<1>4. otr' \in List /\ asked' \in List
  BY <1>0, <1>1, <1>3, Zenon DEF Register, LoadConfiguration
<1>5. file' \in List
  BY <1>0, <1>1, Zenon DEF Save
<1>6. entry' \in List
  BY <1>0, <1>1, <1>5, Zenon DEF Reparse, WriteEntry
<1>7. astray' \subseteq Name
  BY <1>0, <1>1 DEF CallDeleted, AskDeletedActivities, GoAstray, Call, Name, Thread
<1> QED BY <1>2, <1>4, <1>5, <1>6, <1>7 DEF Lists

LEMMA ListsInit == Init => Lists /\ Flags
<1> SUFFICES ASSUME Init PROVE Lists /\ Flags
  OBVIOUS
<1>1. /\ file \in SUBSET Activity /\ entry = file /\ asked = file /\ otr = {}
      /\ database \in BOOLEAN /\ ~unsaved /\ ~dirty /\ ~raced
      /\ unsaved \in BOOLEAN /\ dirty \in BOOLEAN /\ raced \in BOOLEAN
      /\ changes = 0 /\ astray = {}
  BY Zenon DEF Init
<1> QED BY <1>1, BoundAssumption DEF Lists, Flags, List

(* The main thread, the threads and the table of modules, the call and the   *)
(* lists keep to their types (Application.cpp, Module.cpp, Features.cpp).    *)
THEOREM TypeCorrect == Spec => []TypeOK
<1> DEFINE Typed == Lifecycle /\ Flags /\ Lists
<1>1. Init => Typed
  BY LifecycleInit, ListsInit
<1>2. Typed /\ [Next]_vars => Typed'
  BY LifecycleStep, FlagsStep, ListsStep
<1>3. Typed => TypeOK
  BY DEF Lifecycle, MainTypes, Flags, Lists, TypeOK
<1> QED BY <1>1, <1>2, <1>3, PTL DEF Spec

-----------------------------------------------------------------------------
(* Calls of what has been deleted.                                           *)

(* What a call finds deleted are statistics without a database, or a module  *)
(* whose thread has been stopped.                                            *)
LEMMA DeletedIs ==
    ASSUME Lifecycle, call.at # "none", NEW n \in Name,
           (n = call.name /\ Deleted) \/ (n = "activities" /\ module[n] = "deleted")
    PROVE  \/ n = Scoring /\ ~database
           \/ /\ n \in {"resources", "activities"}
              /\ main \in {"stop", "wait", "delete", "gone", "crashed"}
<1> USE DEF Lifecycle, MainTypes, CallOK
<1>1. CASE n = call.name /\ call.lost
  BY <1>1
<1>2. CASE module[n] = "deleted"
  <2>1. thread["features"] # "finished"
    OBVIOUS
  <2>2. main # "gone"
    BY <2>1, ThreadsAre DEF StoppingOK
  <2>3. CASE n \in Thread /\ thread[n] = "finished"
    <3>1. n \in {"resources", "activities"}
      BY <2>1, <2>3 DEF Thread
    <3>2. PICK i \in 1..3 : Threads[i] = n
      BY <2>3, ThreadsAre
    <3>3. main \in {"stop", "wait", "delete", "gone", "crashed"}
      BY <2>3, <3>2 DEF StoppingOK
    <3> QED BY <3>1, <3>3
  <2> QED BY <1>2, <2>2, <2>3 DEF TableOK
<1> QED BY <1>1, <1>2 DEF Deleted

LEMMA AstrayStep == Lifecycle /\ CallsAreSound /\ [Next]_vars => CallsAreSound'
<1> SUFFICES ASSUME Lifecycle, CallsAreSound, [Next]_vars PROVE CallsAreSound'
  OBVIOUS
<1> DEFINE Ending == main \in {"stop", "wait", "delete", "gone", "crashed"}
<1>1. database' = database
  BY DEF Next, MainThread, FeaturesThread, Others, lifecycle, vars,
         LoadPlugins, Register, InitPlugin, Reparse, LoadConfiguration, QuitThread, Wait,
         DeletePlugins, CallDeleted, GoAstray, UseModule, AskDeletedActivities,
         FeatureValue, ReadPastEnd, SetFeatureValue, WriteEntry, Sync, LoadPluginById, Quit,
         ChangeFile, PassToModule, ThreadEnds, ConfigFileChanged
<1>2. Ending => Ending'
  BY DEF Next, MainThread, FeaturesThread, Others, lifecycle, vars, Main,
         LoadPlugins, Register, InitPlugin, Reparse, LoadConfiguration, QuitThread, Wait,
         DeletePlugins, CallDeleted, GoAstray, UseModule, AskDeletedActivities,
         FeatureValue, ReadPastEnd, SetFeatureValue, WriteEntry, Sync, LoadPluginById, Quit,
         ChangeFile, PassToModule, ThreadEnds, ConfigFileChanged
<1>3. ASSUME NEW n \in astray'
      PROVE  \/ n \in astray
             \/ /\ n \in Name /\ call.at # "none"
                /\ (n = call.name /\ Deleted) \/ (n = "activities" /\ module[n] = "deleted")
  <2>1. \/ astray' = astray
        \/ CallDeleted /\ astray' = astray \cup {call.name}
        \/ AskDeletedActivities /\ astray' = astray \cup {"activities"}
    BY DEF Next, MainThread, FeaturesThread, Others, history, vars,
         LoadPlugins, Register, InitPlugin, Reparse, LoadConfiguration, QuitThread, Wait,
         DeletePlugins, CallDeleted, GoAstray, UseModule, AskDeletedActivities,
         FeatureValue, ReadPastEnd, SetFeatureValue, WriteEntry, Sync, LoadPluginById, Quit,
         ChangeFile, PassToModule, ThreadEnds, ConfigFileChanged
  <2>2. call.name \in Name /\ "activities" \in Name
    BY DEF Lifecycle, MainTypes, Call, Name, Thread
  <2> QED BY <1>3, <2>1, <2>2 DEF CallDeleted, AskDeletedActivities, AtScoring
<1> QED BY <1>1, <1>2, <1>3, DeletedIs DEF CallsAreSound

-----------------------------------------------------------------------------
(* The list that programs ask for, the one in memory, the one in the         *)
(* configuration and the one in the file.                                    *)

(* The configuration in memory is the file until it is written to, which a   *)
(* call that reaches the statistics does just before it saves it.            *)
ConfigOK == /\ ~unsaved => entry = file
            /\ database /\ unsaved => call.at = "sync"
            /\ plugins[Scoring] > 0 /\ main \notin {"assign", "crashed"} =>
                  otr = entry \/ call.at = "write"

(* Without a race each of the lists is as programs want it, in its turn.     *)
AskedOK == ~raced => /\ call.at # "write" => entry = asked
                     /\ call.at = "write" => otr = asked /\ plugins[Scoring] > 0
                     /\ plugins[Scoring] > 0 => otr = asked

ListsOK == ConfigOK /\ AskedOK

(* Most steps have nothing to do with any of it.                             *)
LEMMA ListsFrame ==
    ASSUME ListsOK,
           UNCHANGED <<otr, entry, unsaved, file, asked, raced, database>>,
           plugins'[Scoring] = plugins[Scoring],
           \/ call'.at = call.at
           \/ call.at \notin {"write", "sync"} /\ call'.at \notin {"write", "sync"},
           main \in {"assign", "crashed"} => main' \in {"assign", "crashed"}
    PROVE  ListsOK'
BY DEF ListsOK, ConfigOK, AskedOK

(* A call that has come to the statistics is not lost to it: if it was       *)
(* deleted they had no database, and were never kept.                        *)
LEMMA WritingIsRaced ==
    ASSUME Lifecycle, ListsOK, call.at # "none", Deleted
    PROVE  /\ call.at \in {"write", "sync"} => ~database /\ plugins[Scoring] = 0
           /\ call.at = "write" => raced
<1>1. ASSUME call.at \in {"write", "sync"}
      PROVE  ~database /\ plugins[Scoring] = 0
  <2>1. call.name = Scoring /\ Scoring \in Name /\ Scoring \in Plugin
    BY <1>1, PluginAssumption DEF Lifecycle, CallOK, Name
  <2>2. Scoring \notin {"resources", "activities"}
    BY <2>1, NameAssumption DEF Thread
  <2>3. ~database
    BY <2>1, <2>2, DeletedIs
  <2> QED BY <2>1, <2>3 DEF Lifecycle, LoadingOK, MainTypes
<1> QED BY <1>1 DEF ListsOK, AskedOK

(* The main thread.                                                          *)
LEMMA ListsMainStep ==
    ASSUME Lifecycle, Flags, Lists, ListsOK,
           MainThread \/ ConfigFileChanged \/ LoadPluginById \/ Quit
    PROVE  ListsOK'
<1>0. /\ Scoring \in Plugin /\ call \in Call /\ plugins \in [Plugin -> 0..1]
      /\ unsaved \in BOOLEAN /\ raced \in BOOLEAN
  BY PluginAssumption DEF Lifecycle, MainTypes, Flags
<1>1. CASE LoadPlugins \/ LoadPluginById \/ Wait \/ Quit \/ QuitThread \/ ConfigFileChanged
  BY <1>1, ListsFrame DEF LoadPlugins, LoadPluginById, Wait, Quit, QuitThread,
       ConfigFileChanged, Main, config, history
<1>2. CASE Register
  <2>1. /\ main = "register" /\ main' = "init"
        /\ UNCHANGED <<entry, unsaved, file, asked, raced, database, plugins>>
        /\ otr' = IF loading = Scoring THEN {} ELSE otr
    BY <1>2 DEF Register, Main, config, history
  <2>2. call'.at = call.at
    BY <1>0, <1>2 DEF Register, Call
  <2>3. loading = Scoring => plugins[Scoring] = 0
    BY <2>1 DEF Lifecycle, LoadingOK
  <2> QED BY <1>0, <2>1, <2>2, <2>3 DEF ListsOK, ConfigOK, AskedOK
<1>3. CASE InitPlugin
  <2>1. /\ main = "init" /\ plugins'[Scoring] = plugins[Scoring]
        /\ UNCHANGED <<otr, call, entry, unsaved, file, asked, raced, database>>
    BY <1>0, <1>3 DEF InitPlugin, config, history
  <2> QED BY <2>1, ListsFrame
<1>4. CASE Reparse
  <2>1. /\ main' = "assign" /\ entry' = file' /\ unsaved' = FALSE /\ Save
        /\ UNCHANGED <<otr, call, asked, raced, database, plugins>>
    BY <1>4 DEF Reparse, Main, history
  <2>2. entry' = entry
    BY <2>1 DEF Save, ListsOK, ConfigOK
  <2> QED BY <2>1, <2>2 DEF ListsOK, ConfigOK, AskedOK
<1>5. CASE LoadConfiguration
  <2>1. /\ main = "assign" /\ otr' = entry
        /\ UNCHANGED <<call, entry, unsaved, file, asked, database>>
    BY <1>5 DEF LoadConfiguration, Main, config
  <2>2. ~raced' => ~raced /\ call.at # "write"
    BY <1>5, Zenon DEF LoadConfiguration
  <2> QED BY <2>1, <2>2 DEF ListsOK, ConfigOK, AskedOK
<1>6. CASE DeletePlugins
  <2>1. /\ main = "delete" /\ main' = "gone" /\ plugins'[Scoring] = 0
        /\ UNCHANGED <<otr, call, entry, unsaved, file, asked, raced, database>>
    BY <1>0, <1>6 DEF DeletePlugins, Main, config, history
  <2>2. call.at = "none"
    BY <2>1, ThreadsAre DEF Lifecycle, StoppingOK, MainTypes, CallOK
  <2> QED BY <2>1, <2>2 DEF ListsOK, ConfigOK, AskedOK
<1> QED BY <1>1, <1>2, <1>3, <1>4, <1>5, <1>6 DEF MainThread

(* The thread of Features.                                                   *)
LEMMA ListsCallStep ==
    ASSUME Lifecycle, Flags, Lists, ListsOK, FeaturesThread
    PROVE  ListsOK'
<1>0. /\ call \in Call /\ unsaved \in BOOLEAN /\ raced \in BOOLEAN
      /\ plugins[Scoring] \in 0..1
  BY PluginAssumption DEF Lifecycle, MainTypes, Flags
<1>1. CASE CallDeleted \/ AskDeletedActivities
  <2>1. /\ call.at # "none" /\ call'.at = "none" /\ main' \in {main, "crashed"}
        /\ UNCHANGED <<otr, entry, unsaved, file, asked, raced, database, plugins>>
    BY <1>1, NoCallIs
       DEF CallDeleted, AskDeletedActivities, AtScoring, GoAstray, Return, config
  <2>2. \/ Deleted
        \/ call.at = "use"
    BY <1>1 DEF CallDeleted, AskDeletedActivities, AtScoring
  <2>3. /\ call.at = "sync" => ~database
        /\ call.at = "write" => ~database /\ raced
        /\ plugins[Scoring] > 0 => database
    BY <2>1, <2>2, WritingIsRaced DEF Lifecycle, LoadingOK
  <2> QED BY <2>1, <2>3 DEF ListsOK, ConfigOK, AskedOK
<1>2. CASE UseModule \/ FeatureValue
  BY <1>2, NoCallIs, ListsFrame
     DEF UseModule, FeatureValue, AtScoring, Return, lifecycle, config, history
<1>3. CASE SetFeatureValue
  <2>1. /\ call.at = "use" /\ call'.at = "write"
        /\ UNCHANGED <<main, plugins, entry, unsaved, file, database>>
    BY <1>0, <1>3, CallGoesOn DEF SetFeatureValue, AtScoring, lifecycle, config
  <2>2. PICK a \in Resolved : otr' = Put(otr, a) /\ asked' = Put(asked, a)
    BY <1>3 DEF SetFeatureValue
  <2>3. ~raced' => ~raced /\ plugins[Scoring] # 0
    BY <1>3, Zenon DEF SetFeatureValue
  <2> QED BY <1>0, <2>1, <2>2, <2>3 DEF ListsOK, ConfigOK, AskedOK
<1>4. CASE WriteEntry
  <2>1. /\ call.at = "write" /\ call'.at = "sync" /\ entry' = otr
        /\ UNCHANGED <<main, plugins, otr, file, database, asked, raced>>
    BY <1>0, <1>4, CallGoesOn DEF WriteEntry, lifecycle, history
  <2>2. ~unsaved' => ~unsaved /\ entry' = entry
    BY <1>4, Zenon DEF WriteEntry
  <2> QED BY <2>1, <2>2 DEF ListsOK, ConfigOK, AskedOK
<1>5. CASE Sync
  <2>1. /\ call.at = "sync" /\ call'.at = "none" /\ unsaved' = FALSE /\ Save
        /\ UNCHANGED <<main, plugins, otr, entry, database, asked, raced>>
    BY <1>5, NoCallIs DEF Sync, Return, lifecycle, history
  <2>2. file' = entry
    BY <2>1 DEF Save, ListsOK, ConfigOK
  <2> QED BY <2>1, <2>2 DEF ListsOK, ConfigOK, AskedOK
<1>6. CASE ReadPastEnd
  <2>1. /\ call.at = "use" /\ call'.at = "none" /\ main' \in {main, "crashed"}
        /\ UNCHANGED <<otr, entry, unsaved, file, asked, raced, database, plugins>>
    BY <1>6, NoCallIs DEF ReadPastEnd, AtScoring, Return, config, history
  <2> QED BY <2>1, ListsFrame
<1> QED BY <1>1, <1>2, <1>3, <1>4, <1>5, <1>6 DEF FeaturesThread

LEMMA ListsOKStep == Lifecycle /\ Flags /\ Lists /\ ListsOK /\ [Next]_vars => ListsOK'
<1> SUFFICES ASSUME Lifecycle, Flags, Lists, ListsOK, [Next]_vars PROVE ListsOK'
  OBVIOUS
<1>1. CASE ChangeFile \/ (\E t \in Thread : ThreadEnds(t)) \/ UNCHANGED vars
  BY <1>1, ListsFrame DEF ChangeFile, ThreadEnds, vars, lifecycle, config, history
<1>2. ASSUME NEW c \in Calls, PassToModule(c) PROVE ListsOK'
  <2>1. /\ c \in Call /\ call' = [c EXCEPT !.at = "use", !.lost = FALSE]
        /\ call.at = "none"
        /\ UNCHANGED <<lifecycle, otr, config, history>>
    BY <1>2, CallsAssumption DEF PassToModule
  <2>2. call'.at = "use"
    BY <2>1, CallBegins
  <2> QED BY <2>1, <2>2, ListsFrame DEF lifecycle, config, history
<1> QED BY <1>1, <1>2, ListsMainStep, ListsCallStep DEF Next, Others

(* Calls of programs reach nothing that was deleted, but for the two ways    *)
(* that CallsAreSound names, and without a race the list off the record is   *)
(* what they asked for, in memory and in the file (Application.cpp:182-252,  *)
(* Module.cpp:58-67, StatsPlugin.cpp:95-140, 672-697).                       *)
THEOREM FeaturesStaySound == Spec => []FeaturesAreSound
<1> DEFINE IInv == Lifecycle /\ Flags /\ Lists /\ CallsAreSound /\ ListsOK
<1>1. ASSUME Init PROVE CallsAreSound /\ ListsOK
  <2>1. /\ plugins[Scoring] = 0 /\ call = NoCall /\ entry = file /\ asked = file
        /\ unsaved = FALSE /\ astray = {}
    BY <1>1, PluginAssumption DEF Init
  <2> QED BY <2>1, NoCallIs DEF CallsAreSound, ListsOK, ConfigOK, AskedOK
<1>2. Init => IInv
  BY <1>1, LifecycleInit, ListsInit
<1>3. IInv /\ [Next]_vars => IInv'
  BY LifecycleStep, FlagsStep, ListsStep, AstrayStep, ListsOKStep
<1>4. IInv => FeaturesAreSound
  <2> SUFFICES ASSUME IInv PROVE RequestsStand
    BY DEF FeaturesAreSound
  <2> SUFFICES ASSUME main = "idle", plugins[Scoring] > 0, call.at = "none"
               PROVE  otr = file /\ (~raced => otr = asked)
    BY DEF RequestsStand
  <2>1. database
    BY DEF Lifecycle, LoadingOK
  <2> QED BY <2>1 DEF ListsOK, ConfigOK, AskedOK
<1> QED BY <1>2, <1>3, <1>4, PTL DEF Spec
=============================================================================
