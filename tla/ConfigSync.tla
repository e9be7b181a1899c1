----------------------------- MODULE ConfigSync -----------------------------
(* When what Activities writes to its configuration reaches the file.        *)
(*                                                                           *)
(* Every change to the entries ends in scheduleConfigSync(), which has the   *)
(* timer started unless it runs already, or in a posted configSync().  The   *)
(* timer, configSync() and what is posted to them belong to the main thread, *)
(* while changes come from the threads of module Activities: a thread writes *)
(* an entry, looks at the timer and posts an event, in steps that those of   *)
(* the others come between.  configSync() itself posts the stop of the timer *)
(* and does not wait for it.                                                 *)
(*                                                                           *)
(* Abstracted: the entries, to whether one differs from the file; the time   *)
(* the timer takes.                                                          *)
EXTENDS Naturals, Sequences, Functions

CONSTANTS Writer,    \* the threads that change entries, Owner included
          Owner,     \* the main thread, of the timer and of configSync()
          MaxPosted  \* bound: events posted when a change is made

ASSUME OwnerAssumption == Owner \in Writer
ASSUME PostedAssumption == MaxPosted \in Nat

VARIABLES dirty,   \* is there a change that the file has not
          active,  \* configSyncTimer.isActive()
          posted,  \* the events posted to the main thread
          pc,      \* where each thread is
          missed,  \* since the last sync, was a change left to a timer that
                   \*   was going to be stopped
          ended    \* has the program ended

syncVars == <<dirty, active, posted, pc, missed, ended>>

Posted == {"start", "stop", "sync"}

SyncInit == /\ dirty = FALSE
            /\ active = FALSE
            /\ posted = <<>>
            /\ pc = [t \in Writer |-> "idle"]
            /\ missed = FALSE
            /\ ended = FALSE

Goto(t, from, to) == pc[t] = from /\ pc' = [pc EXCEPT ![t] = to]

Post(e) == posted' = Append(posted, e)

-----------------------------------------------------------------------------
(* Changes, by any thread.                                                   *)

(* An entry is written; scheduleConfigSync() comes next.                     *)
WriteEntry(t) ==
    /\ ~ended
    /\ Len(posted) < MaxPosted
    /\ Goto(t, "idle", "schedule")
    /\ dirty' = TRUE
    /\ UNCHANGED <<active, posted, missed, ended>>

StopIsPosted == "stop" \in Range(posted)

(* Mutant: the timer is started when it runs already.                        *)
ScheduleConfigSyncInverted(t) ==
    /\ Goto(t, "schedule", IF active THEN "start" ELSE "idle")
    /\ missed' = (missed \/ (active /\ StopIsPosted))
    /\ UNCHANGED <<dirty, active, posted, ended>>

(* scheduleConfigSync(): the look at the timer ...                           *)
ScheduleConfigSync(t) ==
    /\ Goto(t, "schedule", IF active THEN "idle" ELSE "start")
    /\ missed' = (missed \/ (active /\ StopIsPosted))
    /\ UNCHANGED <<dirty, active, posted, ended>>

(* Mutant: another slot of the timer is named, which it has not.             *)
PostStartNamed(t) ==
    /\ Goto(t, "start", "idle")
    /\ Post("schedule")
    /\ UNCHANGED <<dirty, active, missed, ended>>

(* ... and the event.                                                        *)
PostStart(t) ==
    /\ Goto(t, "start", "idle")
    /\ Post("start")
    /\ UNCHANGED <<dirty, active, missed, ended>>

(* Removing an activity deletes its entries and posts a configSync(); an     *)
(* outcome of a session only posts one.                                      *)
DeleteEntries(t) ==
    /\ ~ended
    /\ Len(posted) < MaxPosted
    /\ Goto(t, "idle", "sync")
    /\ dirty' \in {dirty, TRUE}
    /\ UNCHANGED <<active, posted, missed, ended>>

PostSync(t) ==
    /\ Goto(t, "sync", "idle")
    /\ Post("sync")
    /\ UNCHANGED <<dirty, active, missed, ended>>

-----------------------------------------------------------------------------
(* The event loop of the main thread.                                        *)

Take(e) == /\ ~ended
           /\ pc[Owner] = "idle"
           /\ posted # <<>>
           /\ Head(posted) = e

TimerStarts ==
    /\ Take("start")
    /\ posted' = Tail(posted)
    /\ active' = TRUE
    /\ UNCHANGED <<dirty, pc, missed, ended>>

TimerStops ==
    /\ Take("stop")
    /\ posted' = Tail(posted)
    /\ active' = FALSE
    /\ UNCHANGED <<dirty, pc, missed, ended>>

(* Mutant: the timer that has run out does nothing.                          *)
TimeoutSilent ==
    /\ ~ended
    /\ pc[Owner] = "idle"
    /\ active
    /\ active' = FALSE
    /\ UNCHANGED <<dirty, posted, pc, missed, ended>>

(* The timer has run out: it is a single shot, and its signal is queued.     *)
Timeout ==
    /\ ~ended
    /\ pc[Owner] = "idle"
    /\ active
    /\ active' = FALSE
    /\ Post("sync")
    /\ UNCHANGED <<dirty, pc, missed, ended>>

(* configSync(): the stop of the timer is posted ...                         *)
PostStop ==
    /\ Take("sync")
    /\ posted' = Append(Tail(posted), "stop")
    /\ pc' = [pc EXCEPT ![Owner] = "write"]
    /\ UNCHANGED <<dirty, active, missed, ended>>

(* ... and the changes are written to the file.                              *)
WriteFile ==
    /\ Goto(Owner, "write", "idle")
    /\ dirty' = FALSE
    /\ missed' = FALSE
    /\ UNCHANGED <<active, posted, ended>>

(* The event loops end, and ~Private() syncs.                                *)
ProgramEnds ==
    /\ ~ended
    /\ \A t \in Writer : pc[t] = "idle"
    /\ ended' = TRUE
    /\ dirty' = FALSE
    /\ missed' = FALSE
    /\ Post("stop")
    /\ UNCHANGED <<active, pc>>

-----------------------------------------------------------------------------
Change == \E t \in Writer : WriteEntry(t) \/ DeleteEntries(t)

Inside(t) == ScheduleConfigSync(t) \/ PostStart(t) \/ PostSync(t)

Deliver == TimerStarts \/ TimerStops \/ PostStop

SyncNext == \/ Change
            \/ \E t \in Writer : Inside(t)
            \/ Deliver
            \/ Timeout
            \/ WriteFile
            \/ ProgramEnds

SyncSpec == SyncInit /\ [][SyncNext]_syncVars

(* Threads inside a call go on, posted events are taken and the timer runs   *)
(* out, however often other handlers of the main thread come first.  No      *)
(* fairness for changes and for the end.                                     *)
SyncFairness == /\ \A t \in Writer : WF_syncVars(Inside(t))
                /\ WF_syncVars(WriteFile)
                /\ SF_syncVars(Deliver)
                /\ SF_syncVars(Timeout)

SyncFairSpec == SyncSpec /\ SyncFairness

-----------------------------------------------------------------------------
SyncTypeOK == /\ dirty \in BOOLEAN
              /\ active \in BOOLEAN
              /\ posted \in Seq(Posted)
              /\ pc \in [Writer -> {"idle", "schedule", "start", "sync", "write"}]
              /\ missed \in BOOLEAN
              /\ ended \in BOOLEAN

(* What will still bring a change to the file.                               *)
Settled == /\ \A t \in Writer : pc[t] = "idle"
           /\ posted = <<>>
           /\ ~active

(* A change is never forgotten with the timer off and nothing posted, except *)
(* in one way: it was made between a sync and the stop of the timer that the *)
(* sync had posted (Activities.cpp:373-384, on two threads).                 *)
ForgottenOnlyIfMissed == Settled /\ dirty => missed

(* A change reaches the file, unless it is missed in that way, whatever      *)
(* other changes, syncs and stops of the timer come in between               *)
(* (Activities.cpp:360-385, 503-507).                                        *)
ChangesAreSaved == dirty ~> (~dirty \/ missed)
=============================================================================
