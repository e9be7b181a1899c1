----------------------------- MODULE Resources ------------------------------
(* Resources.cpp: events about resources, from programs on the bus, are      *)
(* completed with the events that programs leave out, told to the plugins at *)
(* once (RegisteredResourceEvent) and put in a queue that a second thread    *)
(* hands over to the statistics in batches (ProcessedResourceEvents).        *)
(*                                                                           *)
(* Calls of the bus and signals of the window manager are handled one after  *)
(* the other on the thread Resources was moved to.  todo holds the steps     *)
(* that thread is inside of still has to make, one per use of the queue,     *)
(* which a mutex guards; the state of the windows is of that thread alone.   *)
(* The second thread is Resources::Private::run(): it sleeps, takes what is  *)
(* in the queue, and returns when it finds nothing; each event that is       *)
(* registered calls start(), which does nothing while it has not ended.      *)
(*                                                                           *)
(* Abstracted: time, so that two equal events may or may not bear the same   *)
(* one; mime types and titles, which are only passed on.                     *)
EXTENDS Integers, Sequences, FiniteSets

CONSTANTS App, Uri,   \* programs and resources
          Wid,        \* windows of the window manager
          NoWid,      \* no window: 0
          NoUri,      \* the empty uri
          Inputs,     \* the events that programs register
          MaxQueue    \* bound: events on their way when something is called

ASSUME NothingAssumption == NoUri \notin Uri /\ NoWid \notin Wid
ASSUME BoundAssumption == MaxQueue \in Nat \ {0}

FocusType == {"FocussedIn", "FocussedOut"}
Type == {"Accessed", "Opened", "Modified", "Closed"} \cup FocusType
Event == [app : App, wid : Wid \cup {NoWid}, uri : Uri, type : Type]
ASSUME InputsAssumption == Inputs \subseteq Event

NoEvent == [app |-> "None", wid |-> NoWid, uri |-> NoUri, type |-> "Accessed"]

DeriveWithType(e, type) == [e EXCEPT !.type = type]

WindowData == [app : App, focussed : Uri \cup {NoUri}]

(* A step still to be made: addEvent() or insertEvent() of an event,         *)
(* start(), or the end of windowClosed().                                    *)
Todo == [step : {"add", "insert"}, event : Event, wid : {NoWid}]
          \cup [step : {"start"}, event : {NoEvent}, wid : {NoWid}]
          \cup [step : {"remove"}, event : {NoEvent}, wid : Wid]
Add(e) == [step |-> "add", event |-> e, wid |-> NoWid]
Insert(e) == [step |-> "insert", event |-> e, wid |-> NoWid]
Start == [step |-> "start", event |-> NoEvent, wid |-> NoWid]
RemoveWindow(w) == [step |-> "remove", event |-> NoEvent, wid |-> w]

VARIABLES events,          \* the queue: events
          lastEvent,       \* what was put in it last
          windows,         \* the windows that events came from
          focussedWindow,  \* the active window, or NoWid
          todo,            \* steps of the thread of Resources
          run,             \* where run() is
          currentEvents,   \* the batch run() has taken
          interrupted,     \* was it told to end
          processed,       \* the batch that the last step handed over
          told,            \* per window, the resource that the events told
                           \*   about it so far leave in focus
          left             \* windows closed with a resource told to be in
                           \*   focus, of which nothing was told since

queue == <<events, lastEvent>>
desktop == <<windows, focussedWindow>>
worker == <<run, currentEvents, interrupted>>
followers == <<told, left>>
vars == <<queue, desktop, todo, worker, processed, followers>>

Init == /\ events = <<>>
        /\ lastEvent = NoEvent
        /\ windows = [w \in {} |-> NoUri]
        /\ focussedWindow = NoWid
        /\ todo = <<>>
        /\ run = "ended"
        /\ currentEvents = <<>>
        /\ interrupted = FALSE
        /\ processed = <<>>
        /\ told = [w \in Wid \cup {NoWid} |-> NoUri]
        /\ left = {}

At(step) == todo # <<>> /\ Head(todo).step = step

Then(steps) == todo' = steps \o Tail(todo)

(* The next call or signal is taken when the last one is done.               *)
Begin(steps) == /\ todo = <<>>
                /\ ~interrupted
                /\ Len(currentEvents \o events) < MaxQueue
                /\ todo' = steps

Optional(cond, steps) == IF cond THEN steps ELSE <<>>

-----------------------------------------------------------------------------
(* Putting an event in the queue.                                            *)

(* What the event tells whoever follows them all about the focus.            *)
TellsOfFocus(e) == \/ e.type = "FocussedIn"
                   \/ e.type = "FocussedOut" /\ told[e.wid] = e.uri

Tell(e) ==
    IF TellsOfFocus(e)
    THEN /\ told' = [told EXCEPT ![e.wid] = IF e.type = "FocussedIn"
                                           THEN e.uri ELSE NoUri]
         /\ left' = left \ {e.wid}
    ELSE UNCHANGED followers

(* insertEvent(): an event like the last one, of the same time, is dropped.  *)
DoInsert ==
    /\ At("insert")
    /\ LET e == Head(todo).event
       IN  \/ /\ lastEvent # e
              /\ lastEvent' = e
              /\ events' = Append(events, e)
              /\ Tell(e)
           \/ /\ lastEvent = e
              /\ \/ UNCHANGED <<queue, followers>>
                 \/ /\ events' = Append(events, e)
                    /\ Tell(e)
                    /\ UNCHANGED lastEvent
    /\ Then(<<>>)
    /\ UNCHANGED <<desktop, worker>>

DoStart ==
    /\ At("start")
    /\ run' = IF run = "ended" THEN "asleep" ELSE run
    /\ Then(<<>>)
    /\ UNCHANGED <<queue, desktop, currentEvents, interrupted, followers>>

(* Mutant: the focus is released after the resource is closed.               *)
CompletedLate(e, focussed) ==
    CASE e.type = "Opened" ->
            <<Insert(e)>> \o Optional(focussed = NoUri,
                                      <<Insert(DeriveWithType(e, "FocussedIn"))>>)
      [] e.type = "FocussedIn" ->
            <<Insert(DeriveWithType(e, "Opened")), Insert(e)>>
      [] e.type = "Closed" ->
            <<Insert(e)>> \o Optional(focussed = e.uri,
                                      <<Insert(DeriveWithType(e, "FocussedOut"))>>)
      [] OTHER -> <<Insert(e)>>

(* The events that the thread puts in for one that comes from a window: "the *)
(* missing events".  Nothing is ever added to the resources a window is      *)
(* recorded to contain, so that each FocussedIn has an Opened before it ...  *)
Completed(e, focussed) ==
    CASE e.type = "Opened" ->
            <<Insert(e)>> \o Optional(focussed = NoUri,
                                      <<Insert(DeriveWithType(e, "FocussedIn"))>>)
      [] e.type = "FocussedIn" ->
            <<Insert(DeriveWithType(e, "Opened")), Insert(e)>>
      [] e.type = "Closed" ->
            Optional(focussed = e.uri,
                     <<Insert(DeriveWithType(e, "FocussedOut"))>>) \o <<Insert(e)>>
      [] OTHER -> <<Insert(e)>>

(* The resource in focus in the window after the event.                      *)
Focussed(e, focussed) ==
    CASE e.type = "Opened" /\ focussed = NoUri -> e.uri
      [] e.type = "FocussedIn" -> e.uri
      [] e.type \in {"Closed", "FocussedOut"} /\ focussed = e.uri -> NoUri
      [] OTHER -> focussed

FocussedIn(w) == IF w \in DOMAIN windows THEN windows[w].focussed ELSE NoUri

WindowAfter(e) == [app |-> e.app, focussed |-> Focussed(e, FocussedIn(e.wid))]

(* The elements of s at the positions of S, in their order.                 *)
Nth(S, n) == CHOOSE i \in S : Cardinality({j \in S : j <= i}) = n
Thinned(s, S) == [n \in 1..Cardinality(S) |-> s[Nth(S, n)]]

(* Any event but an Accessed one takes out of the queue what is about the    *)
(* same application and resource.                                            *)
Superseded(e) ==
    LET Stays == {i \in 1..Len(events) :
                    ~(events[i].app = e.app /\ events[i].uri = e.uri)}
    IN  IF e.type = "Accessed" THEN events ELSE Thinned(events, Stays)

(* addEvent()                                                                *)
DoAdd ==
    /\ At("add")
    /\ LET e == Head(todo).event
           w == e.wid
       IN  /\ events' = Superseded(e)
           /\ IF w = NoWid
              THEN /\ Then(Optional(e.type \notin FocusType, <<Insert(e)>>)
                             \o <<Start>>)
                   /\ UNCHANGED windows
              ELSE /\ Then(Completed(e, FocussedIn(w)) \o <<Start>>)
                   /\ windows' = [v \in DOMAIN windows \cup {w} |->
                                    IF v = w THEN WindowAfter(e) ELSE windows[v]]
    /\ UNCHANGED <<lastEvent, focussedWindow, worker, followers>>

(* RegisterResourceEvent(), by programs and by the plugins that spy on them. *)
RegisterResourceEvent(e) ==
    /\ Begin(<<Add(e)>>)
    /\ UNCHANGED <<queue, desktop, worker, followers>>

-----------------------------------------------------------------------------
(* The window manager.                                                       *)

(* windowClosed(): ... and no resource of the window is registered as closed *)
(* before the window is forgotten.                                           *)
WindowClosed(w) ==
    /\ w \in DOMAIN windows
    /\ Begin(<<RemoveWindow(w)>>)
    /\ focussedWindow' = IF focussedWindow = w THEN NoWid ELSE focussedWindow
    /\ UNCHANGED <<queue, windows, worker, followers>>

(* Nobody is told: what followers took to be in focus in the window stays.   *)
DoRemoveWindow ==
    /\ At("remove")
    /\ LET w == Head(todo).wid
       IN  /\ windows' = [v \in DOMAIN windows \ {w} |-> windows[v]]
           /\ left' = IF told[w] = NoUri THEN left ELSE left \cup {w}
    /\ Then(<<>>)
    /\ UNCHANGED <<queue, focussedWindow, worker, told>>

(* Mutant: a window without a resource in focus is not left out.             *)
FocusEventAlways(w, type) ==
    IF w \notin DOMAIN windows THEN <<>>
    ELSE <<Insert([app |-> windows[w].app, wid |-> w,
                   uri |-> FocussedIn(w), type |-> type])>>

(* The event about the resource that a window has in focus, if it has one.   *)
FocusEvent(w, type) ==
    IF FocussedIn(w) = NoUri THEN <<>>
    ELSE <<Insert([app |-> windows[w].app, wid |-> w,
                   uri |-> FocussedIn(w), type |-> type])>>

(* Mutant: the window that becomes active is not told about.                 *)
ActiveWindowLeft(w) ==
    /\ w # focussedWindow
    /\ Begin(FocusEvent(focussedWindow, "FocussedOut"))
    /\ focussedWindow' = w
    /\ UNCHANGED <<queue, windows, worker, followers>>

(* activeWindowChanged()                                                     *)
ActiveWindowChanged(w) ==
    /\ w # focussedWindow
    /\ Begin(FocusEvent(focussedWindow, "FocussedOut") \o FocusEvent(w, "FocussedIn"))
    /\ focussedWindow' = w
    /\ UNCHANGED <<queue, windows, worker, followers>>

-----------------------------------------------------------------------------
(* run(), on a thread of its own.                                            *)

(* Mutant: run() leaves a single event for the next time.                    *)
TakeSeveral ==
    /\ run = "asleep"
    /\ IF Len(events) <= 1
       THEN run' = "ending" /\ UNCHANGED <<events, currentEvents>>
       ELSE /\ run' = "handing"
            /\ currentEvents' = events
            /\ events' = <<>>
    /\ UNCHANGED <<lastEvent, desktop, todo, interrupted, followers>>

(* Mutant: the queue is copied and not swapped.                              *)
TakeCopy ==
    /\ run = "asleep"
    /\ IF events = <<>>
       THEN run' = "ending" /\ UNCHANGED currentEvents
       ELSE /\ run' = "handing"
            /\ currentEvents' = events
    /\ UNCHANGED <<queue, desktop, todo, interrupted, followers>>

(* After a second the queue is emptied, or run() returns.                    *)
Take ==
    /\ run = "asleep"
    /\ IF events = <<>>
       THEN run' = "ending" /\ UNCHANGED <<events, currentEvents>>
       ELSE /\ run' = "handing"
            /\ currentEvents' = events
            /\ events' = <<>>
    /\ UNCHANGED <<lastEvent, desktop, todo, interrupted, followers>>

HandOver ==
    /\ run = "handing"
    /\ processed' = currentEvents
    /\ currentEvents' = <<>>
    /\ run' = IF interrupted THEN "ending" ELSE "asleep"
    /\ UNCHANGED <<queue, desktop, todo, interrupted, followers>>

(* The thread has ended a moment after run() has returned.                   *)
End ==
    /\ run = "ending"
    /\ run' = "ended"
    /\ UNCHANGED <<queue, desktop, todo, currentEvents, interrupted, followers>>

(* ~Private()                                                                *)
RequestInterruption ==
    /\ todo = <<>>
    /\ ~interrupted
    /\ interrupted' = TRUE
    /\ UNCHANGED <<queue, desktop, todo, run, currentEvents, followers>>

-----------------------------------------------------------------------------
Silent == processed' = <<>>

Step == Silent /\ (DoInsert \/ DoStart \/ DoAdd \/ DoRemoveWindow)

Worker == HandOver \/ (Silent /\ (Take \/ End))

Call == /\ Silent
        /\ \/ \E e \in Inputs : RegisterResourceEvent(e)
           \/ \E w \in Wid : WindowClosed(w)
           \/ \E w \in Wid \cup {NoWid} : ActiveWindowChanged(w)
           \/ RequestInterruption

Next == Step \/ Worker \/ Call

Spec == Init /\ [][Next]_vars

(* Threads go on.  No fairness for programs and the window manager.          *)
FairSpec == Spec /\ WF_vars(Step) /\ WF_vars(Worker)

-----------------------------------------------------------------------------
TypeOK == /\ events \in Seq(Event)
          /\ lastEvent \in Event \cup {NoEvent}
          /\ DOMAIN windows \subseteq Wid
          /\ windows \in [DOMAIN windows -> WindowData]
          /\ focussedWindow \in Wid \cup {NoWid}
          /\ todo \in Seq(Todo)
          /\ run \in {"ended", "asleep", "handing", "ending"}
          /\ currentEvents \in Seq(Event)
          /\ interrupted \in BOOLEAN
          /\ processed \in Seq(Event)
          /\ told \in [Wid \cup {NoWid} -> Uri \cup {NoUri}]
          /\ left \subseteq Wid

(* Events are handed over in the order of their registration, none twice and *)
(* none lost on the way from one thread to the other, but for those that a   *)
(* later one about the same application and resource withdraws               *)
(* (Resources.cpp:61-86, 98, 119-126).                                       *)
Channel == INSTANCE EventChannel WITH pending <- currentEvents \o events

ImplementsChannel == Channel!Spec

(* Who follows the events knows what is in focus in the active window, and   *)
(* takes nothing to be in focus in a window that has given it up, whatever   *)
(* the programs left out and however windows were switched                   *)
(* (Resources.cpp:136-197, 233-262).  The one exception are windows that     *)
(* were closed with a resource in focus: windowClosed() registers no event,  *)
(* as the resources it goes through are none (Resources.cpp:223-230), until  *)
(* a window of the same id has something in focus.                           *)
FocusIsTold ==
    todo = <<>> =>
        \A w \in Wid : \/ told[w] = FocussedIn(w)
                       \/ told[w] = NoUri /\ w # focussedWindow
                       \/ w \in left /\ FocussedIn(w) = NoUri

(* A resource is told to be closed in a window only after it was told to be  *)
(* out of focus there: "events like FocussedOut before Closed"               *)
(* (Resources.cpp:131-133, 170-182).  When the window manager closed the     *)
(* window before the program says so, that the resource was in focus is      *)
(* forgotten, and a Closed comes without a FocussedOut.                      *)
ReleasedBeforeClosed ==
    At("insert") /\ Head(todo).event.type = "Closed" =>
        \/ told[Head(todo).event.wid] # Head(todo).event.uri
        \/ Head(todo).event.wid \in left

(* What is in the queue is handed over as long as events go on being         *)
(* registered: a start() that comes while run() is returning does nothing,   *)
(* but the next one does (Resources.cpp:77-81, 208).                         *)
QueueIsEmptied ==
    []<><<DoStart>>_vars => (events # <<>> ~> events = <<>>)
=============================================================================
