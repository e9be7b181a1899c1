---------------------------- MODULE EventChannel ----------------------------
(* What the event queue of Resources promises to the plugins that process    *)
(* events, and no more than that: events are processed in the order in which *)
(* they were put in, none is processed twice and none is made up.  One may   *)
(* be withdrawn before that, together with the later ones about the same     *)
(* application and resource, and nothing says when one is processed.         *)
EXTENDS Naturals, Sequences

CONSTANTS Event  \* what can be registered: records with fields app and uri

VARIABLES pending,   \* put in and not yet processed, the oldest first
          processed  \* what the last step handed over

vars == <<pending, processed>>

Init == /\ pending = <<>>
        /\ processed = <<>>

Put(e) == /\ pending' = Append(pending, e)
          /\ processed' = <<>>

About(e, f) == e.app = f.app /\ e.uri = f.uri

(* t is s without its elements at other positions than those of S, which     *)
(* keep their order.                                                         *)
IsThinned(t, s, S) ==
    /\ t \in Seq(Event)
    /\ \E place \in [1..Len(t) -> S] :
          /\ \A m, n \in 1..Len(t) : m < n => place[m] < place[n]
          /\ \A i \in S : \E n \in 1..Len(t) : place[n] = i
          /\ \A n \in 1..Len(t) : t[n] = s[place[n]]

(* Nothing behind the first k that is about what f is about stays.           *)
Withdraw(f) ==
    /\ \E k \in 0..Len(pending) :
          IsThinned(pending', pending,
                    {i \in 1..Len(pending) : i <= k \/ ~About(pending[i], f)})
    /\ processed' = <<>>

(* The oldest ones are processed, all at once.                               *)
Process ==
    \E k \in 1..Len(pending) :
        /\ processed' = SubSeq(pending, 1, k)
        /\ pending' = SubSeq(pending, k + 1, Len(pending))

Rest == processed' = <<>> /\ UNCHANGED pending

Next == \/ \E e \in Event : Put(e) \/ Withdraw(e)
        \/ Process
        \/ Rest

Spec == Init /\ [][Next]_vars
=============================================================================
