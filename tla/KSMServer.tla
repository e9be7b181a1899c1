----------------------------- MODULE KSMServer ------------------------------
(* ksmserver/KSMServer.cpp: requests to start or stop the window session of  *)
(* an activity wait in one list; the main thread takes them one by one, asks *)
(* KWin over D-Bus and reports the outcome.                                  *)
(*                                                                           *)
(* KSMServer::Private has no parent, so it stays on the main thread when     *)
(* Activities is moved to a thread of its own, and its process() and reply   *)
(* slots run there.  processLater() runs on whichever thread called          *)
(* StartActivity or StopActivity: the thread of the D-Bus adaptor or the     *)
(* main thread.  Nothing locks the list, the flag or processingActivity, so  *)
(* an action is one access to them.  Single list operations are taken to be  *)
(* atomic, except that two appends at once may keep only one request; the    *)
(* look for a first request and its taking are one action, as only the main  *)
(* thread takes any.                                                         *)
(*                                                                           *)
(* An outcome reported on the main thread is handled by Activities there and *)
(* then, which may ask for a session from within: Inner is that call.        *)
EXTENDS Integers, Sequences, FiniteSets

CONSTANTS Activity,    \* activity ids
          NoActivity,  \* the empty id
          Thread,      \* the threads that ask for sessions, Main included
          Main,        \* the thread that owns KSMServer::Private
          Inner,       \* a call from within an outcome told on Main
          Asked,       \* the requests that are made
          MaxQueue,    \* bounds: requests waiting,
          MaxCalls,    \*   calls of one kind without a reply,
          MaxPosted    \*   process() events posted, when a request is made

ASSUME NoActivityAssumption == NoActivity \notin Activity
ASSUME ThreadAssumption == /\ IsFiniteSet(Thread)
                           /\ Main \in Thread
                           /\ Inner \notin Thread
ASSUME BoundsAssumption == {MaxQueue, MaxCalls, MaxPosted} \subseteq Nat

Frame == Thread \cup {Inner}

VARIABLES kwin,                \* is KWin on the bus: kwin->isValid()
          queue,               \* the requests that wait
          processing,          \* the flag that says process() is posted
          posted,              \* how many process() events are posted
          processingActivity,  \* the activity the next outcome is told about
          calls,               \* D-Bus calls without a reply, by request
          pc,                  \* where each frame is in processLater() or
                               \*   process()
          req,                 \* the request it is about
          sending,             \* where it is in subSessionSendEvent()
          event,               \* the outcome it sends
          reported             \* what the last step told Activities

flags == <<processing, posted>>
callers == <<pc, req>>
senders == <<sending, event>>
vars == <<kwin, queue, flags, processingActivity, calls, callers, senders, reported>>

Request == [act : Activity, start : BOOLEAN]

ASSUME AskedAssumption == Asked \subseteq Request

(* What KWin is asked: the id may have been cleared by then.                 *)
Call == [act : Activity \cup {NoActivity}, start : BOOLEAN]

Event == {"Started", "Stopped", "FailedToStop"}

Nothing == [act |-> NoActivity, event |-> "None"]

NoRequest == [act |-> NoActivity, start |-> FALSE]

Init == /\ kwin \in BOOLEAN
        /\ queue = <<>>
        /\ processing = FALSE
        /\ posted = 0
        /\ processingActivity = NoActivity
        /\ calls = [c \in Call |-> 0]
        /\ pc = [f \in Frame |-> "idle"]
        /\ req = [f \in Frame |-> NoRequest]
        /\ sending = [f \in Frame |-> "no"]
        /\ event = [f \in Frame |-> "None"]
        /\ reported = Nothing

(* The requests about a that wait in list q.                                 *)
Waiting(q, a) == {i \in DOMAIN q : q[i].act = a}

Queued(a) == Waiting(queue, a) # {}

At(f, place) == pc[f] = place /\ sending[f] = "no"

Free(f) == At(f, "idle")

Goto(f, from, to) == At(f, from) /\ pc' = [pc EXCEPT ![f] = to]

Hold(f, r) == req' = [req EXCEPT ![f] = r]

Quiet == reported' = Nothing

-----------------------------------------------------------------------------
(* subSessionSendEvent(), by any thread: the test, ...                       *)

Send(f, e) == /\ sending' = [sending EXCEPT ![f] = "test"]
              /\ event' = [event EXCEPT ![f] = e]

TestActivity(f) ==
    /\ sending[f] = "test"
    /\ \/ /\ processingActivity = NoActivity
          /\ sending' = [sending EXCEPT ![f] = "no"]
          /\ event' = [event EXCEPT ![f] = "None"]
       \/ /\ processingActivity # NoActivity
          /\ sending' = [sending EXCEPT ![f] = "emit"]
          /\ UNCHANGED event
    /\ Quiet
    /\ UNCHANGED <<kwin, queue, flags, processingActivity, calls, callers>>

(* ... the signal, which reads processingActivity again (Activities ignores  *)
(* an empty id) and on the main thread is handled at once, ...               *)
Emit(f) ==
    /\ sending[f] = "emit"
    /\ reported' = IF processingActivity = NoActivity THEN Nothing
                   ELSE [act |-> processingActivity, event |-> event[f]]
    /\ sending' = [sending EXCEPT
                     ![f] = IF f = Main /\ event[f] = "Stopped"
                               /\ processingActivity # NoActivity
                            THEN "told" ELSE "clear"]
    /\ event' = [event EXCEPT ![f] = "None"]
    /\ UNCHANGED <<kwin, queue, flags, processingActivity, calls, callers>>

(* Mutant: the activity is not cleared once its outcome is told.             *)
ClearNothing(f) ==
    /\ sending[f] \in {"told", "clear"}
    /\ f = Main => Free(Inner)
    /\ sending' = [sending EXCEPT ![f] = "no"]
    /\ Quiet
    /\ UNCHANGED <<kwin, queue, flags, processingActivity, calls, callers, event>>

(* ... and the clearing of whatever is being processed by then.              *)
ClearActivity(f) ==
    /\ sending[f] \in {"told", "clear"}
    /\ f = Main => Free(Inner)
    /\ processingActivity' = NoActivity
    /\ sending' = [sending EXCEPT ![f] = "no"]
    /\ Quiet
    /\ UNCHANGED <<kwin, queue, flags, calls, callers, event>>

-----------------------------------------------------------------------------
(* processLater(), by any thread.                                            *)

(* Activities asks for the start of another activity when it was told on the *)
(* main thread that the current one has stopped.                             *)
MayAsk(f, r) == IF f = Inner THEN sending[Main] = "told" /\ r.start ELSE Free(f)

(* The outcome Main is telling has had its one call from within.             *)
Entered(f) == IF f = Inner THEN [sending EXCEPT ![Main] = "clear"] ELSE sending

AskKWin(f, r) ==
    /\ MayAsk(f, r)
    /\ Len(queue) < MaxQueue
    /\ posted < MaxPosted
    /\ \A c \in Call : calls[c] < MaxCalls
    /\ kwin
    /\ pc' = [pc EXCEPT ![f] = "scan"]
    /\ Hold(f, r)
    /\ sending' = Entered(f)
    /\ Quiet
    /\ UNCHANGED <<kwin, queue, flags, processingActivity, calls, event>>

(* Without KWin the outcome is announced at once, from the calling thread:   *)
(* but it is told about whatever activity is being processed.                *)
AskWithoutKWin(f, r) ==
    /\ MayAsk(f, r)
    /\ ~kwin
    /\ sending' = [Entered(f) EXCEPT ![f] = "test"]
    /\ event' = [event EXCEPT ![f] = IF r.start THEN "Started" ELSE "Stopped"]
    /\ Quiet
    /\ UNCHANGED <<kwin, queue, flags, processingActivity, calls, callers>>

(* Mutant: the list is not searched.                                         *)
ScanNothing(f) ==
    /\ Goto(f, "scan", "append")
    /\ Quiet
    /\ UNCHANGED <<kwin, queue, flags, processingActivity, calls, req, senders>>

(* A request about an activity that already has one waiting is dropped.      *)
Scan(f) ==
    /\ \/ ~Queued(req[f].act) /\ Goto(f, "scan", "append") /\ UNCHANGED req
       \/ Queued(req[f].act) /\ Goto(f, "scan", "idle") /\ Hold(f, NoRequest)
    /\ Quiet
    /\ UNCHANGED <<kwin, queue, flags, processingActivity, calls, senders>>

AppendRequest(f) ==
    /\ Goto(f, "append", "flag")
    /\ queue' = Append(queue, req[f])
    /\ Hold(f, NoRequest)
    /\ Quiet
    /\ UNCHANGED <<kwin, flags, processingActivity, calls, senders>>

(* Two threads appending at once may take the same slot.                     *)
LoseAppend(f) ==
    /\ \E g \in Frame \ {f} : pc[g] = "append"
    /\ Goto(f, "append", "flag")
    /\ Hold(f, NoRequest)
    /\ Quiet
    /\ UNCHANGED <<kwin, queue, flags, processingActivity, calls, senders>>

TestProcessing(f) ==
    /\ Goto(f, "flag", IF processing THEN "idle" ELSE "raise")
    /\ Quiet
    /\ UNCHANGED <<kwin, queue, flags, processingActivity, calls, req, senders>>

RaiseProcessing(f) ==
    /\ Goto(f, "raise", "post")
    /\ processing' = TRUE
    /\ Quiet
    /\ UNCHANGED <<kwin, queue, posted, processingActivity, calls, req, senders>>

PostProcess(f) ==
    /\ Goto(f, "post", "idle")
    /\ posted' = posted + 1
    /\ Quiet
    /\ UNCHANGED <<kwin, queue, processing, processingActivity, calls, req, senders>>

-----------------------------------------------------------------------------
(* process(), on the main thread.                                            *)

TakeFirst ==
    /\ posted > 0
    /\ queue # <<>>
    /\ Goto(Main, "idle", "assign")
    /\ posted' = posted - 1
    /\ queue' = Tail(queue)
    /\ Hold(Main, Head(queue))
    /\ Quiet
    /\ UNCHANGED <<kwin, processing, processingActivity, calls, senders>>

AssignActivity ==
    /\ Goto(Main, "assign", "make")
    /\ processingActivity' = req[Main].act
    /\ Quiet
    /\ UNCHANGED <<kwin, queue, flags, calls, req, senders>>

(* Mutant: nothing is announced when there is no KWin.                       *)
MakeRunningSilently ==
    /\ \/ kwin /\ Goto(Main, "make", "call") /\ UNCHANGED req
       \/ ~kwin /\ Goto(Main, "make", "again") /\ Hold(Main, NoRequest)
    /\ Quiet
    /\ UNCHANGED <<kwin, queue, flags, processingActivity, calls, senders>>

(* makeRunning(): with no KWin the outcome is announced, ...                 *)
MakeRunning ==
    /\ \/ kwin /\ Goto(Main, "make", "call") /\ UNCHANGED <<req, senders>>
       \/ /\ ~kwin
          /\ Goto(Main, "make", "again")
          /\ Send(Main, IF req[Main].start THEN "Started" ELSE "Stopped")
          /\ Hold(Main, NoRequest)
    /\ Quiet
    /\ UNCHANGED <<kwin, queue, flags, processingActivity, calls>>

(* ... else KWin is asked about what processingActivity says now.            *)
CallKWin ==
    /\ Goto(Main, "call", "again")
    /\ calls' = [calls EXCEPT
                   ![[act |-> processingActivity, start |-> req[Main].start]] = @ + 1]
    /\ Hold(Main, NoRequest)
    /\ Quiet
    /\ UNCHANGED <<kwin, queue, flags, processingActivity, senders>>

(* Mutant: process() is not posted again.                                    *)
ProcessOnce ==
    /\ Goto(Main, "again", "idle")
    /\ Quiet
    /\ UNCHANGED <<kwin, queue, flags, processingActivity, calls, req, senders>>

(* process() is posted again for the rest of the list.                       *)
ProcessAgain ==
    /\ Goto(Main, "again", "idle")
    /\ posted' = posted + 1
    /\ Quiet
    /\ UNCHANGED <<kwin, queue, processing, processingActivity, calls, req, senders>>

(* Mutant: the flag stays up when the list is empty.                         *)
LeaveProcessing ==
    /\ Goto(Main, "drained", "idle")
    /\ Quiet
    /\ UNCHANGED <<kwin, queue, flags, processingActivity, calls, req, senders>>

(* The list is found empty ...                                               *)
FindEmpty ==
    /\ posted > 0
    /\ queue = <<>>
    /\ Goto(Main, "idle", "drained")
    /\ posted' = posted - 1
    /\ Quiet
    /\ UNCHANGED <<kwin, queue, processing, processingActivity, calls, req, senders>>

(* ... and only then the flag is lowered.                                    *)
LowerProcessing ==
    /\ Goto(Main, "drained", "idle")
    /\ processing' = FALSE
    /\ Quiet
    /\ UNCHANGED <<kwin, queue, posted, processingActivity, calls, req, senders>>

-----------------------------------------------------------------------------
(* Mutant: an error is an outcome of its own.                                *)
OutcomesWithError(c) == {"Error"} \cup IF c.start THEN {"Started", "Stopped"}
                                       ELSE {"Stopped", "FailedToStop"}

(* startCallFinished() and stopCallFinished(): what a reply is taken to mean.*)
Outcomes(c) == IF c.start THEN {"Started", "Stopped"}
                          ELSE {"Stopped", "FailedToStop"}

CallFinished(c) ==
    /\ Free(Main)
    /\ calls[c] > 0
    /\ calls' = [calls EXCEPT ![c] = @ - 1]
    /\ \E e \in Outcomes(c) : Send(Main, e)
    /\ Quiet
    /\ UNCHANGED <<kwin, queue, flags, processingActivity, callers>>

(* KWin starts, crashes or is replaced.                                      *)
KWinComesOrGoes ==
    /\ kwin' = ~kwin
    /\ Quiet
    /\ UNCHANGED <<queue, flags, processingActivity, calls, callers, senders>>

-----------------------------------------------------------------------------
Process == TakeFirst \/ FindEmpty

Processing == AssignActivity \/ MakeRunning \/ CallKWin \/ ProcessAgain
                \/ LowerProcessing

Caller(f) == Scan(f) \/ AppendRequest(f) \/ LoseAppend(f) \/ TestProcessing(f)
               \/ RaiseProcessing(f) \/ PostProcess(f)

Sender(f) == TestActivity(f) \/ Emit(f) \/ ClearActivity(f)

Next == \/ \E f \in Frame, r \in Asked : AskKWin(f, r) \/ AskWithoutKWin(f, r)
        \/ \E f \in Frame : Caller(f) \/ Sender(f)
        \/ Process
        \/ Processing
        \/ \E c \in Call : CallFinished(c)
        \/ KWinComesOrGoes

Spec == Init /\ [][Next]_vars

(* A thread inside a call goes on, and the event loop of the main thread     *)
(* gets to every posted event however often other events come first.  No     *)
(* fairness for requests, for replies or for KWin.                           *)
OnMain == Processing \/ \E f \in {Main, Inner} : Caller(f) \/ Sender(f)

Fairness == /\ \A t \in Thread \ {Main} : WF_vars(Caller(t) \/ Sender(t))
            /\ WF_vars(OnMain)
            /\ SF_vars(Process)

FairSpec == Spec /\ Fairness

-----------------------------------------------------------------------------
Places == {"idle", "scan", "append", "flag", "raise", "post",
           "assign", "make", "call", "again", "drained"}

TypeOK == /\ kwin \in BOOLEAN
          /\ queue \in Seq(Request)
          /\ processing \in BOOLEAN
          /\ posted \in Nat
          /\ processingActivity \in Activity \cup {NoActivity}
          /\ calls \in [Call -> Nat]
          /\ pc \in [Frame -> Places]
          /\ req \in [Frame -> Request \cup {NoRequest}]
          /\ sending \in [Frame -> {"no", "test", "emit", "told", "clear"}]
          /\ event \in [Frame -> Event \cup {"None"}]
          /\ reported \in [act : Activity, event : Event] \cup {Nothing}

InProcess == pc[Main] \in {"assign", "make", "call", "again", "drained"}

(* The flag cannot stay up with nobody left to lower it: then every later    *)
(* request would be put in the list and no process() ever posted again       *)
(* (KSMServer.cpp:79-82 and 93-104, two threads on one unprotected flag).    *)
FlagHasProcessor ==
    processing => \/ posted > 0
                  \/ InProcess
                  \/ \E f \in Frame : pc[f] = "post"

(* The activity that the next outcome will be told about has a call without  *)
(* a reply, or the main thread is about to make one or to announce an        *)
(* outcome, whoever clears it in between.  So while a single call is out,    *)
(* its reply is told about the right activity or about none                  *)
(* (KSMServer.cpp:99, 117, 182-191).                                         *)
ReportedCallOutstanding ==
    processingActivity # NoActivity =>
        \/ \E c \in Call : c.act = processingActivity /\ calls[c] > 0
        \/ pc[Main] \in {"make", "call"}
        \/ sending[Main] # "no"

(* What is in the list when a process() event is posted is taken out of it,  *)
(* whatever other requests and replies come in between                       *)
(* (KSMServer.cpp:98-104, "Calling process again for the rest of the list"). *)
PostedWorkIsDone ==
    \A a \in Activity : (Queued(a) /\ posted > 0) ~> ~Queued(a)

(* The list cannot grow without bound though nothing limits it: the search   *)
(* before an append lets each thread add at most one request about an        *)
(* activity to those that wait (KSMServer.cpp:71-77, unlocked).              *)
QueueBounded ==
    \A a \in Activity : Cardinality(Waiting(queue, a)) <= Cardinality(Thread)

(* What Activities relies on.  A request that waits or is about to be        *)
(* processed may be answered by each frame; once it is processed, by those   *)
(* that have not told an outcome since and are not about to clear it.        *)
Tellers == {f \in Frame : sending[f] \notin {"told", "clear"}}

Owed == [a \in Activity |->
           Cardinality(Frame) * Cardinality(Waiting(queue, a))
             + (IF pc[Main] = "assign" /\ req[Main].act = a
                THEN Cardinality(Frame) ELSE 0)
             + (IF processingActivity = a THEN Cardinality(Tellers) ELSE 0)]

Contract == INSTANCE Sessions WITH owed <- Owed,
                                   MaxAnswers <- Cardinality(Frame)

(* No outcome is told about an activity nobody asked for, and about none     *)
(* more often than once per request and thread, and once more by a call from *)
(* within: two threads may both be past the test before either clears        *)
(* processingActivity, but none of them tells again without a new request    *)
(* (KSMServer.cpp:182-191).                                                  *)
ImplementsSessions == Contract!Spec
=============================================================================
