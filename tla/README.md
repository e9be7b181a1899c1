# A verification development of kactivitymanagerd

kactivitymanagerd is the daemon behind Plasma activities. It keeps the activities, their states and
the current one; it has their windows saved and restored by KWin; it collects what programs tell
about documents ("resources"), and a plugin records and scores that in a database.

This directory holds TLA+ modules of these parts, TLC configurations that check them on small
instances, and theorems about them that TLAPS checks for every value of the constants. The
reference is the C++ code; paths below are relative to `src/src/service/`.

## 1. Inventory

### Threads

`Application::init` moves `Resources`, `Activities` and `Features` each to a thread of their own
(`runInQThread`, Application.cpp:68-98). Objects without a parent stay on the main thread, however:
`Activities::Private`, `KSMServer::Private`, `configSyncTimer`, and all plugins. So the public
methods of `Activities` run on its D-Bus thread, while session outcomes, `configSync()` and a few calls
of plugins run on the main thread, with the same data. `Resources::Private` is itself a thread that
empties the event queue. Plugins ask for the current activity with a direct call across threads
(`Plugin::retrieve`).

### Components

| Component | State | Operations | Talks to | Hard | What makes it correct |
|---|---|---|---|---|---|
| Activities (Activities.cpp) | table of states, sorted list, current activity, configuration in memory and on disk | add, remove, start, stop, set current, cycle, rename; session outcomes; start, restart | KSMServer (requests, outcomes), plugins (signals) | two threads, locks around sections only, several writes per method, crash at any point | lists on disk match the states; a transition ends with an outcome; there is always an activity and a current one |
| KSMServer (ksmserver/) | list of requests, processing flag, activity being processed | processLater, process, replies | Activities, KWin over D-Bus | no lock at all, two threads test, tell and clear the activity being processed, replies in any order, KWin comes and goes | no outcome nobody asked for, none more often than once per thread and call from within, the flag never stays up, the list is bounded |
| Configuration sync (Activities.cpp:360-385) | timer, posted events | schedule, start, stop, timeout, sync | Activities | timer of another thread looked at and told by posted events | a change reaches the file |
| Resources (Resources.cpp) | event queue, last event, windows, focus, worker thread | register an event, window closed, window activated, run | programs and window manager, all plugins | queue shared by two threads, events withdrawn and made up, start() of a thread that is ending | order kept, nothing lost or doubled but what is withdrawn; followers know the focus |
| Statistics (plugins/sqlite/StatsPlugin.cpp) | rows of events, off-the-record activities | add events, delete recent, earlier or single ones | Resources, Activities, scores | current activity changes between two reads | nothing recorded off the record |
| Resource scores (ResourceScoreMaintainer, ResourceScoreCache) | scheduled resources, timer, score rows | schedule, process, update | statistics | updates later than events, restarts, deletions in between | each row counts once, scores go with their rows, updates come once events pause |
| Resource linking (ResourceLinking.cpp) | table of links | link, unlink, is linked, current activity changed | Activities, file views | special values, activities and files that go while a method runs, announcements before the commit | a link is made to what was there; a view shows the table |
| Databases (plugins/sqlite/Database.cpp, common/database) | database files, two backups, connections, transactions | open with backup and restore, error, nested transactions | file system, SQLite | death between two files, file operations that fail | a backup is whole, there is one, the working one is from a process whose errors did not take the files away |
| Schema (common/database/schema) | version, tables, rows | initSchema | databases | no transaction, updates that collide | no table and no row is left behind |
| Application, modules, plugins (Application.cpp, Module.cpp, Plugin.cpp) | threads, table of modules, loaded plugins | load at start and on demand, quit | all | calls on another thread while plugins fail to load and threads end | a plugin is loaded once; nothing deleted is called; the daemon ends |
| Features, Config (Features.cpp, Config.cpp) | none of their own; the list of activities off the record in the plugin they reach | get, set, file changed | modules, configuration file | the list is set and loaded by two threads | what programs ask for stands |
| Plugins that follow activities (global shortcuts, run application, virtual desktop, templates) | one small table each | initialise, hear a signal | Activities | changes during initialisation, a list that is behind, signals that overtake each other | the tables agree with the activities |
| Share-like-connect plugin (plugins/slc) | resource in focus | RegisteredResourceEvent | Resources | depends on the order of events of several windows | its focus is that of the active window |
| Event spies (plugins/eventspy, plugins/gtk-eventspy) | time of the last update | directory updated, file updated | file watch, Resources | times to compare, files that change under way | each use is registered once |
| Utilities, D-Bus types | none | | | marshalling | left out, see section 9 |

The hazards found in this code, each at its line, are listed in PROJECT.json together with the
properties that watch over them.

## 2. Plan

The order was: the activities with the session manager below them (`Sessions`, `KSMServer`, `Activities`,
`ConfigSync`); the way of an event (`EventChannel`, `Resources`, `Statistics`) with the proofs of both;
then what surrounds them: `Linking`, `Schema` and `Database`, `Followers`, `Slc`, `Features`, `Spies` and
`ResourceInfo`.

Every safety property that a run checks is also a theorem. Left for later: a refinement between `Activities`
and the few actions of it that `Followers`, `Linking` and `Features` repeat; files and applications that filters
of the configuration keep out of the statistics.

## 3. Modules and code

How the modules relate:

    Sessions  <-- implemented by --  KSMServer           (refinement, checked and proved)
    Sessions  ... assumed by ...     Activities          (owed, Outcome, SessionStateChanged)
    EventChannel <-- implemented by -- Resources         (refinement, checked and proved)
    EventChannel ... assumed by ...  Statistics          (events come in order, each once)
    ConfigSync   ... refines the one action ConfigSync of Activities in time (when it may happen)
    Schema       <-- extended by --   Database           (opening, and dying, at any statement)
    Resources    <-- extended by --   Slc                (each registered event is a step of both)
    Spies        <-- extended by --   ResourceInfo       (what spies find is recorded and described)
    Followers, Linking, Features      each with what it sees of Activities as actions of its own

* **Sessions** is what the session manager promises to `Activities`: an outcome is told only for an
  activity that is owed one. It promises no more, because KSMServer keeps the requests of all
  activities in one place: requests may be forgotten, and the outcome may be any.
* **KSMServer** has one action per access to the list, the flag or `processingActivity`, per frame: a thread, or
  the call `Inner` that an outcome told on the main thread makes from within (Activities.cpp:473).
  `processLater()` is `AskKWin`, `Scan`, `AppendRequest` (or `LoseAppend`, when two threads append to the
  `QList` at once), `TestProcessing`, `RaiseProcessing`, `PostProcess`; without KWin it is `AskWithoutKWin`.
  `subSessionSendEvent()` is `TestActivity`, `Emit` and `ClearActivity`, on any frame. `process()` is `TakeFirst`,
  `AssignActivity`, `MakeRunning`, `CallKWin`, `ProcessAgain`, or `FindEmpty` and `LowerProcessing`; a reply is
  `CallFinished`. Other operations on the list and on a `QString` are taken to be atomic, which Qt does not
  promise without a lock. `processingActivity` goes to the slot by reference; the model has it copied when
  the signal is emitted.
* **Activities** keeps, per thread, the list `todo` of steps that the methods it is inside of still
  have to make, one step per locked section or unlocked access; a step that calls a method puts that
  method's steps in front. `DoX` is a step, an action named like a method begins a call. `Crash`
  loses memory and loads what is on disk, `Quit` syncs first. Descriptions and icons go the way of
  names. A copy of the table and the writing of both lists are one step each. `DoSession` is a request to the session manager: it is accepted, or it is dropped, because one waits already
  or there is no KWin, and then an outcome may be told from within the call. `owed` is how many outcomes may come
  for an activity, `Forget` takes them away, as Sessions allows; `dropped` is history: whose last request no
  outcome will answer any more. `gone` is a history
  variable: ids that were removed or lost, and at the start those that the file speaks of without having them.
* **ConfigSync** is the timer behind the action `ConfigSync` of Activities: posted starts, stops and
  syncs, and the look at `isActive()` from another thread. Its names are its own (`SyncInit`, `Writer` ...), so
  that one module of proofs can extend it together with Activities.
* **EventChannel** is the event queue as the statistics see it: first in, first out, with withdrawal. What is
  left after a withdrawal is said by positions (`IsThinned`): an order-preserving map onto those that stay.
* **Resources** keeps the steps of its thread in `todo` (`addEvent`, `insertEvent`, `start`, the end of
  `windowClosed`) so that `run()`, on its own thread, comes in between; `events` is only accessed
  under its mutex, so an access is a step. Times are abstracted: an event equal to the last one is or
  is not dropped, depending on the time both bear. The set of resources of a window is never filled
  by the code, so `windowClosed()` registers no Closed event and every FocussedIn has an Opened put
  before it; both are modelled as they are. `Thinned` is the removal
  of events from the queue, by positions as in EventChannel. `told` and `left` are history variables: what someone who
  follows `RegisteredResourceEvent` takes to be in focus in each window, from the events alone, and the windows that
  were closed with something told to be in focus, of which nothing was told since.
* **Statistics** is the sqlite plugin. `AddEvent` handles one event of a batch; it reads the current
  activity up to three times and each read may give any activity, because Activities changes it on
  another thread. `UpdateScore` is one `ResourceScoreCache::update()`; a score is abstracted to the
  times of its first and last update, and each row counts in `added` how often its length was added
  to a score. The single-shot timer is `stopped`, `running` or `due`: an event starts it anew even when its second
  is over and `processResources()` has not been called yet. Ignored patterns and blocked applications are left out: they refuse an event before anything
  is done with it. Titles and mime types are in ResourceInfo.
* **Schema** is `initSchema()`: `Upgrade(v)` is the list of statements for the version that is read, and
  `ExecuteNext` executes one of them. Of the rows it keeps whether activity and agent are filled in, as
  that decides whether two rows get the same key. A comment: `.tables` is a command of the sqlite3
  shell; sent as a query it always fails, so each upgrade reports an error and takes the fresh backup
  away (`Reports`).
* **Database** extends Schema with the files: `RemoveFiles` and `CopyDatabaseFiles` make one file
  operation per step; `Promote` and `Backup` are the two parts of `initDatabase()`; `Open`,
  `SetJournal` and `InitSchema` follow; `End` is the death of the process in any phase. An error of the upgrade
  is handled by `HandleError`, which takes the fresh backup away. Once `initDatabase()` has returned the handler
  (`HandleErrorLate`) uses a list of names that is gone, since `removeDatabaseFiles` has it by reference
  (Database.cpp:107, 127, 183): any of the files goes or stays, or the process dies. `errors` says whether an
  error was reported and whether it was handled; `clean` and `spared` are history: what a process without an
  error left as a fresh backup, and what one left whose error should have taken it away. The journal is
  part of it because a backup is only made when all three files are there
  (Database.cpp:107, 145-152), which they no longer are once the journal is `TRUNCATE`
  (common/database/Database.cpp:209).
* **Linking** is one D-Bus method at a time as stages (`activity`, `exists`, `execute`, `announce`,
  `commit`) of a `request`. `announced` is what is on its way to a view of the current activity in another process:
  that there are new items, at which it reads the table (`ReadView`), or that one item is gone, by the name
  without its prefix, at which it drops that one (`DropItem`). `valid` is a history variable: what was there at
  some time since the call. `stale` names why a view may be out of date; an announcement carries its own reasons
  (`Misnamed`). `Inherited` are rows the table has from earlier versions. Names that Statistics has as well are
  `LinkInit`, `ActivityId` and so on, for the proofs of both are in one module.
* **Followers** has the three plugins that follow activities, the queue of signals for the main thread, and of
  Activities what it may do to the table and the current id. A method is a list of steps (`todo`), as a signal
  comes after the change it tells of. One that makes its checks under one lock and its change under another is two
  actions with `checked` in between: `Remove` and `Erase`, `SessionStateChanged` and `SetActivityState`, which
  puts back what was removed meanwhile (`revived`). `sorted` is the list that plugins are given: it is copied from
  the table without a lock (`Copy`) and published under one (`Publish`), on either thread, so it may be behind.
  `setup` is how far each plugin has come in its initialisation. The `ledger`
  is history: what was missed before a plugin listened, who was led astray, and how often what was run.
* **Slc** extends Resources: its next step is a step of Resources, and if that registers an event, also a step
  of the plugin (`SlcSpec`; `SlcFairSpec` is the one that is checked). `strayed` says that a window other than
  the active one had a say in the focus.
* **Features** has the main thread from the loading of plugins to their deletion, the thread of
  Features with one call at a time, and the statistics plugin as far as a call reaches it: the list of
  activities off the record in memory (`otr`), in the shared configuration (`entry`) and on disk (`file`). A key
  that names no feature leads to `ReadPastEnd`: the first element of an empty list is read.
* **Spies** has documents, the times of their last use, and the two spies, which look at one document after the
  other while time goes on. **ResourceInfo** extends it with what the statistics do with a
  document: `todo` holds the statements of the running method, `saved` what a death leaves. A batch of events
  begins with any event that is waiting and goes on with any other, one at a time.

`MC*` modules give the constants values. Definitions named "Mutant" state a plausible mistake
for one definition each; they are used by no action, and serve to see that a property can fail.

## 4. Runs

| Run | What it asks | Bounds and why they are enough |
|---|---|---|
| `ksm` | Does KSMServer keep to Sessions, is the flag never stuck, the list bounded, posted work done? | two threads and the call from within, two activities (one started and stopped, one started), 2 waiting, 1 call of a kind and 1 posted when a request is made: two of each actor is what a race needs; more are posted and waiting once two are in `processLater()`. Both threads are past the test at once, KWin goes while an activity is being processed, and every action fires, a lost append included |
| `activities` | Do lists, states, current and last activity keep to each other? | three ids (one may be added while two exist), two calls, one outcome that may come per activity, one restart, from no file, from a file with one activity up and one down, either of them last used, or from one whose last used activity was removed; symmetry over ids, no liveness. With two outcomes per activity nothing changes (4 690 751 states) |
| `activities_assert` | Does an assertion hold? | the same; violated |
| `resources` | Is the queue a channel, is the focus told and followed, is the queue emptied? | two resources, one of them an `about:` page, two windows, seven kinds of events, two in the queue when something is registered: a window or resource is closed while another has the focus, and events put in for a program exceed the two. With three the invariants hold too (1 188 956 states) |
| `config_sync` | Does a change reach the file? | two threads, four posted events when a change is made: more than one of each kind |
| `statistics` | Does each row count once, do scores go with rows, are updates scheduled and done? | two activities, one agent and resource, two rows, times 0 to 2, events at most one second late: CreditedHasScore needs three times (a score kept from the first, updated at the third, a deletion between) and two activities are needed for a switch in mid-event |
| `database` | What are the backups worth, does an upgrade lose anything? | databases of four ages with rows that do and do not collide; two writes, so that both backups and the database can differ; one file operation that fails, at any point; errors and deaths without a bound |
| `schema_crash` | Is a database of the current version complete? | the same; violated |
| `linking` | Is what is linked there, does the view show it? | two activities, one file, one application with and without prefix, two agents, four rows from earlier versions (a prefixed one and one of the other agent per activity), one call while all else happens: the rows are what calls before it left, so an unlink meets some with and without prefix and of another agent; symmetry over ids. Two calls with fewer rows were checked once (5 554 522 states, too many for a run); the theorems are for any number |
| `followers` | Do the plugins agree with the activities once all is heard? | two activities, four changes, three signals on their way: one change during each plugin's initialisation and another after, a removal between the check and the change of an outcome, a copy of the list older than the last change; symmetry over ids |
| `features` | Is what is called there, do requests stand, does the daemon end? | three plugins (the statistics, one without features, one that cannot be loaded), two activities, four calls or changes of the file: one call, a reload during it, and another of each; one kind of call has a key without a feature |
| `spies` | Is each use registered once, is what is recorded whole? | one document of each kind, two uses, three half seconds: within one second, and on both sides of its end |

`CHECK_DEADLOCK FALSE` is said where the system may rightly stop: `Resources` is told to end,
`ConfigSync` after `ProgramEnds`, `Statistics` when the clock is at its bound and nothing is scheduled, the
daemon of `Features` when it is gone, and the others when a bound on what happens around them is
reached.

## 5. What the code does not keep

Two of these are runs that are expected to be violated, with a finding in PROJECT.json: the
assertion and the upgrade. The others came up in modelling; each is a behaviour of the model as it
stands, and can be seen by stating what is given here as an invariant.

* `setActivityState()` asserts that the activity exists, which was checked under an earlier lock
  (`StateIsOfKnown`, Activities.cpp:395).
* A death after the version was written and before the upgrade is done leaves a database that is taken to
  be up to date for good (`BailsOutUpToDate`, ResourcesDatabaseSchema.cpp:48).
* `subSessionSendEvent()` tests, emits and clears without a lock. Two threads may both tell an outcome of the same
  activity before either clears it, one may clear what `process()` has just set, so that KWin is asked about an
  empty id, and an outcome told on the main thread may ask for another session before it is cleared
  (ksmserver/KSMServer.cpp:99, 117, 182-191; Activities.cpp:473). `Sessions` counts them: once per thread and once more
  from within.
* A request made without KWin is announced as the outcome of whatever is being processed, or of nothing; the
  activity it was about stays `Starting` or `Stopping` (`dropped` in Activities, ksmserver/KSMServer.cpp:83-87). So does one whose
  request is lost in other ways; `TransitionIsOwed` says that nothing else leaves it there.
* A reply of KWin is reported for the request processed last, not for its own: `process()` posts itself again
  without waiting for the reply (ksmserver/KSMServer.cpp:104, 136).
* A request appended while `process()` is about to lower the flag waits with nobody to take it (`queue` not
  empty, `processing` down, nothing posted; ksmserver/KSMServer.cpp:94).
* Removing the current activity while the others are stopped leaves the id of the removed one current
  (Activities.cpp:445).
* A change of the configuration that is left to a timer whose stop is already posted stays out of the file
  until another one (`missed` in ConfigSync, Activities.cpp:373). `ForgottenOnlyIfMissed` says that this is the only way.
* Events of all types are withdrawn from the queue, not only Accessed ones (Resources.cpp:119).
* `windowClosed()` goes through `resources` of the window, which nothing ever fills (Resources.cpp:223-228): a window
  that is closed while a resource is in focus in it tells nobody, and followers keep that resource in focus (`left` in
  Resources). If the program closes the document later, no FocussedOut is put before its Closed, as :131-133 promise.
* Events that come within a second of each other hold up the update of all scores for as long as they come,
  as each starts the timer anew (ResourceScoreMaintainer.cpp:121, 156).
* An empty mime type passes and every other one is stopped (Resources.cpp:302).
* The current activity may go off the record between the test and the recording
  (plugins/sqlite/StatsPlugin.cpp:336, 399).
* A batch of events about a resource that is not known yet is not recorded as a whole: finding out about it
  commits the transaction (StatsPlugin.cpp:279, 302; `detected` in ResourceInfo).
* A link announced inside of its transaction may be read before the commit (ResourceLinking.cpp:101-122;
  `"early"` in `stale`), and an unlink from `:any` is never announced to the view of the current activity (`"any"`).
* An unlink announces that one item is gone, by the name it has without its prefix (:178-200), whatever the query did: a view
  drops an item that stays, since the DELETE failed (`"failed"`), the transaction was lost with the process (`"died"`) or another agent has linked the
  same resource (`"shared"`), and it keeps the one that goes if that has the prefix (`"prefix"`).
* To `:current` without a current activity the empty id is linked (:275, 283): `validateArguments()` lets it
  pass, and `Q_ASSERT_X(!usedActivity.isEmpty(), ..., "Activity should not be empty")` fails (:83-85; :140-142 and :218-220 for the
  other methods). The model goes on as the program does with assertions off; `LinkedToWhatWas` allows the empty id only there.
* An upgrade stops at rows that get the same key, and leaves their table as it was (`collided` in Schema).
* The working backup is said to be "the last database that produced no errors at runtime" (Database.cpp:89-91). It is not, if an
  error came after `initDatabase()` had returned, when its handler refers to a list that is gone (:107, 127,
  183-195), or if the process died between the error and the first removal (`spared` in Database). The model takes that
  any of the backup's files may be removed or stay; what else the reference might name is not modelled.
* No backup is made of a database without a write-ahead log, as two of the three files are missing
  (Database.cpp:107, 167).
* The list of activities off the record loses a request when the configuration is loaded between its
  change and its being written (`raced` in Features, StatsPlugin.cpp:142, 696-705).
* Statistics whose database directory cannot be made are deleted and stay in the table of modules: a
  call of Features reaches the deleted object (`astray` in Features, Application.cpp:186-197, Module.cpp:60).
* At the end the modules `resources` and `activities` are deleted before the thread that still calls them is
  stopped (Application.cpp:241-246).
* A key without a feature makes `featureValue()` and `setFeatureValue()` read the first element of an empty list: the
  daemon crashes, or what is there is no feature it knows (`ReadPastEnd` in Features, StatsPlugin.cpp:667, 685).
* The list of activities that plugins are given is published from copies made without a lock and may be behind the
  table until the next change: a shortcut is missing or left over (`missed` in Followers, Activities.cpp:162-172, GlobalShortcutsPlugin.cpp:56).
* An outcome that comes while its activity is being removed puts the id back into the table (`revived` in Followers,
  `StateIsOfKnown`), and no plugin is told.
* A signal of the main thread overtakes those that wait for it, and a plugin may follow a current activity of the
  past (`astray` in Followers).

## 6. Fairness

* A thread that is inside a method goes on: WF of the steps of each thread (`Caller` and `Sender` of a thread,
  `OnMain`, `Step`, `Worker`, `Inside`, `UpdateScores`).
* The event loop of the main thread delivers posted events and timeouts in the order they come,
  whatever else it has to do; as other handlers disable them for a while this is SF (`Process`, `Deliver`,
  `Timeout`). A posted event stays posted meanwhile. The timer of the
  configuration is started only by those who found it stopped, and stopped only by a sync, which does what it was for.
* For the timer of the scores that is not so, since each event starts it anew. It runs out if it is left alone, and is
  handled if it stays due: WF of `Elapse` and `ProcessResources`.
* In `Features` the main thread goes on with what it does, the thread of Features with a call, and a thread that
  was told to quit leaves its event loop (WF of `MainThread`, `FeaturesThread`, `ThreadEnds`). `ShutdownEnds`
  needs the last two: the main thread waits for each thread.
* `Slc` keeps the fairness of `Resources`. `Linking`, `Followers`, `Database` and `Spies` are checked for safety
  only and state none: what they follow is under the control of programs.
* Nothing is assumed of clients, of KWin and its replies, of the window manager or of restarts.

So `PostedWorkIsDone`, `ChangesAreSaved`, `QueueIsEmptied`, `ShutdownEnds` and `ScheduledIsUpdated` hold against any
behaviour of those. `QueueIsEmptied` asks that events go on being registered: a `start()` that comes
while `run()` is returning does nothing, and only a later one helps. `ScheduledIsUpdated` has the other case in the
property itself: what is scheduled is updated, or the timer is started again and again.

## 7. Proofs

All theorems are of the unfair specifications and for every value of the constants.

* **KSMServerProofs**: `TypeCorrect`; `FlagIsNeverStuck`, inductive as it stands; `ReportsAreOutstanding`,
  likewise, with types that say what a frame holds at each place (`ReqReady`, `EventReady`) and that the main
  thread is telling an outcome while it calls from within (`MainWaits`); `KSMServerImplementsSessions`, by a lemma for
  each way in which what is owed changes: a request that waits is owed an answer by each frame (`Due`), the one that is
  processed by those that have not told since (`Tellers`), so that telling uses one up and no step but a request
  adds any; `QueueIsBounded`. The last is not inductive: between its search and its append a frame
  holds a request that is not in the list yet. The invariant `Room` counts those as well: per activity,
  the requests that wait and the frames about to append one are together no more than the threads, as the main
  thread does nothing else while it calls from within.
* **ActivitiesProofs**: `TypeCorrect`; `ListsAreRight`, with the invariant `Kept`: ids that are listed or that
  a pending `setState` is about are in the table or in `gone`, and the lists match. The hard steps are
  `DoSetState`, which either leaves the side of the lists an activity is on or leaves a write pending,
  and `DoWriteLists`, which reads the whole table at once.
  Four theorems of the same module rest on `UnderWay`, which says what each kind of pending step is followed by:
  `TransitionsAreOwed`, `LimboOnlyAfterLoss`, `NeverInLimbo` and `LastStays`. An activity put in transition has a
  step that asks the session manager right behind it (`SessionFollows`), which may accept or drop it; one activity at a time is being removed
  and another one is there (`LastIsSpared`); and while no activity is the current one, some thread is about to
  choose one, unless something was lost (`CurrentIsComing`). That `NoLimbo` and `NeverEmptied` hold of each step is
  `Spared`, which follows from `UnderWay` before the step.
  For ConfigSync: `SyncTypeCorrect` and `OnlyMissedIsForgotten`. The invariant `Remembered` says that an
  unsaved change has hope: a thread still has to schedule it, a start or sync is posted with no stop
  after it, or the timer runs with no stop ahead; otherwise it was missed.
* **SlcProofs**, of Resources: `ResourcesTypeCorrect`; `ResourcesImplementsChannel`, step by step: registering is
  `Put`, `insertEvent` withdraws the superseded ones (`ThinnedBehind`: the n-th position that stays, `Nth`, is
  the order-preserving map that `IsThinned` asks for, with the batch on its way left alone in front), `run()` hands over what is pending, and every other
  step stutters; `WorkerOK` says that the batch the thread took is handed over before it takes another.
  `FocusIsReleased` and `FollowersKnowTheFocus` need the invariant `Followed`: the steps still in `todo` bring what was
  told (`told`) to what is in focus. They come in a certain order (`OutFirst`, `Alone`), and an event that is dropped
  for being like the last one tells nothing new (`LastTold`). A window that is closed takes what was in focus with it and
  tells nobody, so `Fits` has an exception for those in `left`, which ends with the next event that tells of
  the window. Of Slc: `FocusIsShared`, from `Shared`, which says of the plugin's resource what `Followed` says of
  `told`: it is that of the active window, or that of a window closed in focus while the active one has none (`Right`); that `SlcSpec` implies the specification of Resources is a lemma.
* **StatisticsProofs**, of Statistics: `TypeCorrect`, `EachRowCountsOnce` and `ScoresGoWithTheirRows`, from the
  invariant `Accounted`. Neither property is inductive: that a row is not added again follows from the
  times. `Accounted` says that times are in order, and that a row that was added has an end, was added
  once, began after the first update of its score (so a deletion that takes the score takes the row)
  and not after the last one (so no update finds it new). That the latest of some rows exists is taken from the
  well-foundedness of the numbers (`WFMin`), as induction itself cannot be used. `LittleIsForgotten` is the action
  property: under `Accounted` no deletion and no update makes a row one that no update will find
  (`ForgottenAlready`), which leaves restarts and a switch in the middle of an event.
  Of Linking, which is the other half of the same plugin: `LinkTypeCorrect`; `ViewStaysFresh`;
  `LinksAlwaysStand`. The invariant adds three things to the types: what a method acts upon was there while it ran (`Seen`: the file was found, and the activity that
  passed the look-up is in `valid` although it may be gone by now); the transaction holds the outcome of one
  query (`Going`); and `Fresh`, which strengthens `ViewIsFresh` to every moment between an announcement and its being heard. If nothing
  makes stale, the view has at least what the current activity is about to have, and what it has too much is going to be
  dropped (`SoundView`); and what an announcement without a reason drops is not there and does not come back before the next
  reading (`SoundDrops`).
* **DatabaseProofs**: `TypeCorrect`; `BackupsStayGood`; `UpgradeStaysSound`. `FilesOK` says, per phase, how far
  the copying of files has come and that what is left of a backup is of one state; `BackupOK` that a backup is
  replaced only when there is another one; `CleanOK` that an error that was handled has taken the first file of the fresh one away, so that a whole one is
  `clean` or was `spared`. For the
  upgrade, `RenamesOwed` and `UpgradeOwed` say that what is not done yet is among the statements still to be
  executed, with renames before anything that makes a table. That no row is lost is an injection of the rows before an
  update into those after it.
* **FeaturesProofs**: `TypeCorrect`; `FeaturesStaySound`. `StoppingOK` relates how many threads have been
  stopped to what each of them does; `TableOK` says why each name is in the table of modules, and in particular
  that one of a deleted object is of a thread that has ended, of statistics without a database, or there when all
  is over; `CallOK` that a call ends before its thread. `ConfigOK` and `AskedOK` say at which stage of a call which two of the
  lists (asked for, in memory, in the configuration, in the file) are the same.
* **ResourceInfoProofs**: `UsesAreCounted`, `BatchesAreWhole` and `SpiesTypeCorrect`. `SeenOK` says
  that a use that was registered is no longer new by its time, once the spy is done with the document; `OwedOK` that one that was not is still new, and that its spy has it
  to look at or is going to be told. `OneThread` keeps what the statistics do from coming in between.
  `BatchesAreWhole` exempts batches in which something was found out (section 5); statements do not fail in this
  model. For the batches `InfoOK` has two parts. `Plans` is about the statements to come: outside of transactions nothing waits to be
  saved (`SavedOK`), a batch goes on to its end and is in one transaction unless something is found out about a
  resource (`Whole`), a field is only written of a row that is there (`Describing`), and what is found out is of a
  row no program told of (`FoundOut`). `Rows` is about the tables: an empty field is going to be written or has
  a reason to be (`FilledIn`), and a title a program told is kept (`KeptTold`). `SpiesTypeCorrect` adds the bounds of
  the clock and of the uses (`InBounds`), and needs that documents are finitely many (`DocAssumption`).
* **FollowersProofs**: `FollowersTypeCorrect`, `PluginsAgree`, `DesktopsForget`. The property speaks of quiet states
  only; `FollowOK` says what it takes for every state to become such a one. The list, and copies of it on their way, have only ids that were used (`ListOK`). Methods still emit, and the queue
  still holds, signals about ids that were in the table, and a change of the current activity is followed by its
  signal on the same thread (`PlansOK`, `QueueOK`). A shortcut that is missing is going to be added, and one that is
  left over is going to be removed, after any signal that would add it (`ShortcutOK`). Between a change of the
  current activity and its signal, on either thread, the others may be wrong (`Mid`, `Coming`); else the last each
  plugin is told is the right one, unless it is in `astray` (`FollowingOK`). What the runner ran and what
  still waits to be told to it add up to what was said, and once for each first time (`StartsOK`).
  `DesktopsForget` adds that the removal of an activity stays on its way until the plugin hears of it (`OnItsWay`).

Assumptions are the named ASSUMEs on the constants, which TLC evaluates in the runs: the empty id is no id,
there are threads, bounds are numbers; no activity is called like a special value (`SpecialAssumption` of
Linking), no plugin like a module with a thread (`NameAssumption` of Features). `HistoryAssumption` of
Schema says what databases there are at the start: an earlier version has renamed its tables, or it has not, as its
number says, and one of the current version is complete. The finding about the upgrade is a database that this
code itself leaves otherwise; the theorem has it under `torn`.

## 8. What is only model-checked

Liveness and ENABLED are out of the prover's reach: `PostedWorkIsDone`, `ChangesAreSaved`, `QueueIsEmptied`,
`ScheduledIsUpdated` and `ShutdownEnds` stay with TLC, and so do the absence of deadlock, where it is checked, and the two
counterexamples. Every invariant and every action property of the passing runs is proved.

## 9. What is not modelled

* A statement of the statistics that fails, in ResourceInfo and Statistics; one that fails in an upgrade or an unlink is
  modelled.
* Utilities (templates around algorithms, futures and queries, part of what uses them) and D-Bus types (marshalling).
* The part of `initDatabase()` after a failed open (plugins/sqlite/Database.cpp:199-218): `instance()` ends the process
  when it cannot open for writing (common/database/Database.cpp:102-104), so it is never reached.
* The timer that deletes old events twice a day (StatsPlugin.cpp:123-125) is never started; deletions by
  it are those of `DeleteEarlierStats`.
* Reading of `.desktop` and XBEL files but for times and whether they can be read; ignored patterns and blocked
  applications, which refuse an event before anything is done with it.
* Titles and mime types in the share-like-connect plugin, numbers of virtual desktops, what a script does.
* The numbers in a score, and with them the underflow at ResourceScoreCache.cpp:221 for rows that are still
  open, of which the model takes that they add nothing that counts. Sizes of strings, authorization
  and all user-visible text.
* The races of two threads for the hash table of modules (Module.cpp:60-71) and for a `KConfig`: an access is
  one step.
