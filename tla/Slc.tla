-------------------------------- MODULE Slc ---------------------------------
(* The share-like-connect plugin (plugins/slc/SlcPlugin.cpp) with the        *)
(* Resources it listens to.  It takes each event that is registered as it    *)
(* comes and keeps one resource in focus, whatever window an event is about. *)
(*                                                                           *)
(* Abstracted: the queue of signals between the two threads, which only      *)
(* delays all events alike; mime types and titles, which are passed on.      *)
EXTENDS Resources

CONSTANT AboutUri   \* resources with an address that begins with "about"

VARIABLES focussedResource,  \* m_focussedResource
          strayed            \* has a window that is not the active one had
                             \*   a say since the active one had

slcVars == <<vars, focussedResource, strayed>>

SlcInit == /\ Init
           /\ focussedResource = NoUri
           /\ strayed = FALSE

(* What the plugin has in focus when a resource is.                          *)
Shown(u) == IF u \in AboutUri THEN NoUri ELSE u

(* Mutant: an "about:" page leaves what is in focus alone.                   *)
RegisteredResourceEventNoAbout(e) ==
    focussedResource' = CASE e.type = "FocussedIn" /\ e.uri \notin AboutUri -> e.uri
                          [] e.type = "FocussedOut" /\ focussedResource = e.uri ->
                                NoUri
                          [] OTHER -> focussedResource

(* registeredResourceEvent()                                                 *)
RegisteredResourceEvent(e) ==
    focussedResource' = CASE e.type = "FocussedIn" -> Shown(e.uri)
                          [] e.type = "FocussedOut" /\ focussedResource = e.uri ->
                                NoUri
                          [] OTHER -> focussedResource

(* insertEvent() emits what it puts in the queue.                            *)
Emits == At("insert") /\ todo' # todo /\ events' # events

(* The active window takes over with the resource it has in focus.           *)
Strays ==
    strayed' =
      IF At("insert") /\ todo' # todo
      THEN strayed /\ ~(/\ Head(todo).event.type = "FocussedIn"
                        /\ Head(todo).event.wid = focussedWindow)
      ELSE \/ strayed
           \/ At("add") /\ todo' # todo
                /\ Head(todo).event.wid \notin {NoWid, focussedWindow}

SlcStep == /\ IF Emits THEN RegisteredResourceEvent(Head(todo).event)
                       ELSE UNCHANGED focussedResource
           /\ Strays

SlcNext == Next /\ SlcStep

SlcSpec == SlcInit /\ [][SlcNext]_slcVars

(* Threads go on, as in Resources.                                           *)
SlcFairSpec == /\ SlcSpec
               /\ WF_slcVars(Step /\ SlcStep)
               /\ WF_slcVars(Worker /\ SlcStep)

-----------------------------------------------------------------------------
(* What the plugin has in focus is the resource in focus in the active       *)
(* window, however windows are switched and closed, as long as programs tell *)
(* only of the active one.  While there is none in focus, it may keep the    *)
(* resource of a window that was closed with it in focus, about which no     *)
(* FocussedOut came (SlcPlugin.cpp:57-92, Resources.cpp:211-262).            *)
SlcShowsActive ==
    /\ focussedResource \in Uri \cup {NoUri}
    /\ todo = <<>> /\ ~strayed =>
          \/ focussedResource = Shown(FocussedIn(focussedWindow))
          \/ /\ FocussedIn(focussedWindow) = NoUri
             /\ \E w \in left : focussedResource = Shown(told[w])

(* The focus is told of all windows, and kept of the active one.             *)
FocusIsFollowed == FocusIsTold /\ SlcShowsActive
=============================================================================
