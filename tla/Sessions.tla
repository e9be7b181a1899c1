------------------------------ MODULE Sessions ------------------------------
(* What the session manager promises to Activities, and no more than that:   *)
(* an outcome is reported for an activity only while a request about it is   *)
(* owed an answer, and each report uses up an answer.  A request may have    *)
(* several answers, or be forgotten, and the outcome that is reported may be *)
(* any of the three: KSMServer keeps the requests of all the activities in   *)
(* one place, without a lock, and does not say which of them a reply was     *)
(* about.                                                                    *)
EXTENDS Integers

CONSTANTS Activity,    \* activity ids
          NoActivity,  \* the empty id
          MaxAnswers   \* how often one request may be answered

VARIABLES owed,      \* how many answers about each activity may still come
          reported   \* what the last step told Activities, or Nothing

vars == <<owed, reported>>

Event == {"Started", "Stopped", "FailedToStop"}

Nothing == [act |-> NoActivity, event |-> "None"]

Init == /\ owed = [a \in Activity |-> 0]
        /\ reported = Nothing

(* A request about activity a is accepted.                                   *)
Ask(a) == /\ owed' = [owed EXCEPT ![a] = @ + MaxAnswers]
          /\ reported' = Nothing

(* Requests may be forgotten at any time, or nothing happens to them.        *)
NoMoreOwed == \A a \in Activity : owed'[a] <= owed[a]

Forget == /\ owed' \in [Activity -> Nat]
          /\ NoMoreOwed
          /\ reported' = Nothing

(* An outcome e is told about a, which is owed one.                          *)
Tell(a, e) == /\ owed' \in [Activity -> Nat]
              /\ NoMoreOwed
              /\ owed'[a] < owed[a]
              /\ reported' = [act |-> a, event |-> e]

Next == \/ \E a \in Activity : Ask(a)
        \/ Forget
        \/ \E a \in Activity, e \in Event : Tell(a, e)

Spec == Init /\ [][Next]_vars
=============================================================================
