-------------------------- MODULE FollowersProofs ---------------------------
(* What the plugins that follow the activities keep to, for any activities,  *)
(* any number of changes and of signals on their way.                        *)
(*                                                                           *)
(* FollowOK is inductive.  Its parts: the sorted list and the copies of it,  *)
(* what methods still emit and what waits in the queue is about ids that     *)
(* were in the table, and a change of the current activity is followed by    *)
(* its signal; a shortcut that is missing, if the list that the plugin began *)
(* with was not mistaken about it, is going to be added, and one too many is *)
(* going to be removed after that;                                           *)
(* whoever is told of a current activity last is told the right one, unless  *)
(* it was led astray; and what the runner has run and still waits to be told *)
(* adds up to what was said to it.                                           *)
EXTENDS Followers, FiniteSetTheorems, FunctionTheorems, SequenceTheorems, TLAPS

-----------------------------------------------------------------------------
(* What the methods and the queue hold.                                      *)

SignalSet == [kind : Kind, act : Id]
Item == [signal : SignalSet, to : SUBSET Plugin]
Used == used \cup {NoActivity}
StepsIn(r) == {r[i] : i \in 1..Len(r)}
StepsOf(t) == StepsIn(todo[t])
Places == 1..Len(queue)

(* Removals are told of what is gone, if no outcome put it back.             *)
Gone == {a \in used : a \notin known \/ a \in revived}

(* What the steps and signals of methods are about.                          *)
ToldOf(s) == /\ s.kind \in {"added", "removed", "running", "stopped"} => s.act \in used
             /\ s.kind \in {"assign", "current"} => s.act \in Used
             /\ s.kind = "removed" => s.act \in Gone

(* The current activity is changed, and then that is told.                   *)
InTurn(s) == \A i \in 1..Len(s) :
    /\ s[i].kind = "assign" => i < Len(s) /\ s[i + 1] = Signal("current", s[i].act)
    /\ s[i].kind = "current" /\ i > 1 => s[i - 1].kind = "assign"

PlansOK == /\ \A t \in Thread : InTurn(todo[t]) /\ \A s \in StepsOf(t) : ToldOf(s)
           /\ \A s \in StepsOf("main") : s.kind # "removed"
           /\ \A s \in StepsOf("dbus") : s.kind = "added" => s.act \in known
           /\ ~Ready => todo["main"] = <<>>
QueueOK == \A i \in Places :
    /\ ToldOf(queue[i].signal)
    /\ \A p \in queue[i].to : Listens(p) /\ queue[i].signal.kind \in Wants(p)
WaysOK == PlansOK /\ QueueOK /\ again \subseteq Gone

UsedOK == /\ known \subseteq used /\ current \in Used
          /\ \A p \in {"runner", "desktops"} : following[p] \in Used
          /\ entries \subseteq Used /\ shortcuts \subseteq used

(* What the list and its copies hold was in the table, a copy is there only  *)
(* while the list is updated, and a method makes its checks once.            *)
ListOK == /\ sorted.all \subseteq used
          /\ \A t \in Thread : \A l \in copy[t] : l.all \subseteq used
          /\ \A t \in Thread : copy[t] # {} => updating[t] > 0
          /\ \A t \in Thread : \A c \in checked[t] : c.act \in used
          /\ \A t \in Thread : \A c, d \in checked[t] : c = d

(* A shortcut that is missing is going to be added, one that is left over is *)
(* going to be removed, after it was added.                                  *)
AddedAt(i, a) == queue[i].signal = Signal("added", a) /\ "shortcuts" \in queue[i].to
RemovedAt(i, a) == queue[i].signal = Signal("removed", a) /\ "shortcuts" \in queue[i].to
RemovedAfter(i, a) == \/ Signal("removed", a) \in StepsOf("dbus")
                      \/ a \in again
                      \/ \E j \in Places : j > i /\ RemovedAt(j, a)

ShortcutOK(a) ==
    /\ a \in known => \/ a \in shortcuts
                      \/ \E t \in Thread : Signal("added", a) \in StepsOf(t)
                      \/ \E i \in Places : AddedAt(i, a)
    /\ a \notin known =>
         /\ a \in shortcuts \/ Signal("added", a) \in StepsOf("main") => RemovedAfter(0, a)
         /\ \A i \in Places : AddedAt(i, a) => RemovedAfter(i, a)
Exempt == missed \cup revived
ShortcutsOK == setup["shortcuts"] # "new" => \A a \in Activity \ Exempt : ShortcutOK(a)

(* Between a change on a thread and its being told the others may be wrong.  *)
Mid == todo["main"] # <<>> /\ Head(todo["main"]).kind = "current"
Coming == todo["dbus"] # <<>> /\ Head(todo["dbus"]).kind = "current"
MidOK == Mid => \/ Head(todo["main"]).act = current
                \/ \E s \in Pending : s.kind = "current"

CurrentAt(p, i) == queue[i].signal.kind = "current" /\ p \in queue[i].to
LastCurrent(p, i) == CurrentAt(p, i) /\ \A j \in Places : j > i => ~CurrentAt(p, j)
Asked(p) == setup[p] = "ready" \/ (p = "desktops" /\ setup[p] = "half")

(* The last that is told of the current activity is the right one.           *)
Told(p) == /\ \A i \in Places : LastCurrent(p, i) => queue[i].signal.act = current
           /\ Asked(p) /\ (\A i \in Places : ~CurrentAt(p, i)) => following[p] = current
FollowingOK(p) == p \notin astray /\ ~Mid =>
    IF Coming THEN Head(todo["dbus"]).act = current ELSE Told(p)
CurrentOK == MidOK /\ \A p \in {"runner", "desktops"} : FollowingOK(p)

RunnerOK == activated \ {NoActivity} = {following["runner"]} \ {NoActivity}

(* What the runner has been told of and has not heard yet.                   *)
Waits(a) == {i \in Places : /\ queue[i].signal = Signal("running", a)
                            /\ "runner" \in queue[i].to}
StartsOK == \A a \in Id :
    runs[a] + Cardinality(Waits(a)) = said[a] + (IF a \in previous THEN 1 ELSE 0)

-----------------------------------------------------------------------------
(* What hearing a signal does.                                               *)

LEMMA SignalIs ==
    /\ Kind = {"added", "removed", "current", "running", "stopped"}
    /\ Outcome = {"running", "stopped"}
    /\ SignalSet \subseteq Step
    /\ \A s \in Step : s.kind \in Kind => s \in SignalSet
    /\ \A k \in Kind, a \in Id : Signal(k, a) \in SignalSet
    /\ \A k, a : Signal(k, a).kind = k /\ Signal(k, a).act = a
    /\ \A k \in Kind \cup {"assign", "ensure"}, a \in Id : Signal(k, a) \in Step
    /\ \A k, s \in Step : s = Signal(s.kind, s.act)
    /\ Activity \subseteq Id /\ NoActivity \in Id
<1>1. \A s \in Step : s.kind \in Kind => s \in SignalSet
  BY DEF Step, SignalSet
<1>2. SignalSet \subseteq Step
  BY DEF Step, SignalSet
<1>3. QED BY <1>1, <1>2 DEF Kind, Outcome, Step, SignalSet, Signal, Id

LEMMA WantsIs ==
    /\ Wants("shortcuts") = {"added", "removed"}
    /\ Wants("runner") = {"current", "running", "stopped"}
    /\ Wants("desktops") = {"current", "removed"}
BY DEF Wants

LEMMA TellFollowing ==
    ASSUME FollowTypeOK, NEW s \in SignalSet, NEW to, Tell(s, to)
    PROVE  /\ following' \in [{"runner", "desktops"} -> Id]
           /\ \A p \in {"runner", "desktops"} :
                following'[p] = IF s.kind = "current" /\ p \in to THEN s.act ELSE following[p]
<1>1. DOMAIN following = {"runner", "desktops"}
  BY DEF FollowTypeOK
<1>2. following' = [p \in {"runner", "desktops"} |->
                      IF s.kind = "current" /\ p \in to /\ s.kind \in Wants(p)
                      THEN s.act ELSE following[p]]
  BY <1>1 DEF Tell
<1>3. \A p \in {"runner", "desktops"} : "current" \in Wants(p)
  BY WantsIs
<1>4. QED BY <1>2, <1>3 DEF FollowTypeOK, SignalSet

LEMMA TellShortcuts ==
    ASSUME NEW s \in SignalSet, NEW to, Tell(s, to)
    PROVE  /\ "shortcuts" \in to /\ s.kind = "added" => shortcuts' = shortcuts \cup {s.act}
           /\ "shortcuts" \in to /\ s.kind = "removed" => shortcuts' = shortcuts \ {s.act}
           /\ "shortcuts" \notin to \/ s.kind \notin {"added", "removed"} =>
                 shortcuts' = shortcuts
BY WantsIs DEF Tell, HearShortcuts

LEMMA TellDesktops ==
    ASSUME NEW s \in SignalSet, NEW to, Tell(s, to)
    PROVE  /\ "desktops" \in to /\ s.kind = "removed" => entries' = entries \ {s.act}
           /\ \/ entries' \subseteq entries
              \/ entries' = entries \cup {following["desktops"]}
<1>1. CASE "desktops" \in to /\ s.kind \in Wants("desktops")
  BY <1>1, WantsIs DEF Tell, HearDesktops
<1>2. CASE ~("desktops" \in to /\ s.kind \in Wants("desktops"))
  BY <1>2, WantsIs DEF Tell
<1>3. QED BY <1>1, <1>2

(* The runner runs what starts, and what becomes current for the first time. *)
LEMMA TellRunner ==
    ASSUME FollowTypeOK, NEW s \in SignalSet, NEW to, Tell(s, to)
    PROVE  /\ activated' \subseteq Id /\ previous' \subseteq Id /\ runs' \in [Id -> Nat]
           /\ RunnerOK => RunnerOK'
           /\ \A a \in Id :
                runs'[a] + (IF a \in previous THEN 1 ELSE 0)
                  = runs[a] + (IF a \in previous' THEN 1 ELSE 0)
                      + (IF s = Signal("running", a) /\ "runner" \in to THEN 1 ELSE 0)
<1>0. /\ activated \subseteq Id /\ previous \subseteq Id /\ runs \in [Id -> Nat]
      /\ s.act \in Id /\ s.kind \in Kind
      /\ \A a : s = Signal("running", a) <=> s.kind = "running" /\ s.act = a
  BY DEF FollowTypeOK, SignalSet, Signal
<1>1. following'["runner"] = IF s.kind = "current" /\ "runner" \in to
                             THEN s.act ELSE following["runner"]
  BY TellFollowing
<1>2. CASE ~("runner" \in to /\ s.kind \in Wants("runner"))
  <2>1. UNCHANGED <<activated, previous, runs>>
    BY <1>2 DEF Tell
  <2>2. ~("runner" \in to /\ s.kind = "running") /\ ~("runner" \in to /\ s.kind = "current")
    BY <1>2, WantsIs
  <2>3. QED BY <1>0, <1>1, <2>1, <2>2 DEF RunnerOK
<1>3. CASE "runner" \in to /\ s.kind \in Wants("runner")
  <2>1. HearRunner(s)
    BY <1>3 DEF Tell
  <2>2. CASE s.kind = "current" /\ RunnerCurrent(s.act)
    <3>1. /\ activated' = (activated \ ({following["runner"]} \ {NoActivity})) \cup {s.act}
          /\ previous' = previous \cup {s.act}
          /\ runs' = IF s.act \in previous THEN runs ELSE [runs EXCEPT ![s.act] = @ + 1]
      BY <2>2 DEF RunnerCurrent, Started
    <3>2. RunnerOK => RunnerOK'
      BY <1>1, <1>3, <2>2, <3>1 DEF RunnerOK
    <3>3. QED BY <1>0, <2>2, <3>1, <3>2
  <2>3. CASE /\ s.kind = "running" /\ Started(s.act)
             /\ UNCHANGED <<activated, previous>>
    BY <1>0, <1>1, <1>3, <2>3 DEF RunnerOK, Started
  <2>4. CASE /\ \/ s.kind = "stopped"
                \/ s.kind = "current" /\ following["runner"] = s.act
             /\ UNCHANGED <<activated, previous, runs>>
    BY <1>0, <1>1, <1>3, <2>4 DEF RunnerOK
  <2>5. QED BY <2>1, <2>2, <2>3, <2>4 DEF HearRunner
<1>4. QED BY <1>2, <1>3

-----------------------------------------------------------------------------
(* The queue and the plans.                                                  *)

LEMMA QueueGrows ==
    ASSUME queue \in Seq(Item), NEW q \in Item, queue' = Append(queue, q)
    PROVE  /\ queue' \in Seq(Item) /\ Len(queue) \in Nat
           /\ Places' = Places \cup {Len(queue) + 1} /\ Len(queue) + 1 \notin Places
           /\ \A i \in Places : queue'[i] = queue[i] /\ i < Len(queue) + 1
           /\ queue'[Len(queue) + 1] = q
<1>1. Len(queue) \in Nat
  OBVIOUS
<1>2. queue' \in Seq(Item) /\ Len(queue') = Len(queue) + 1
  OBVIOUS
<1>3. \A i \in 1..Len(queue) : queue'[i] = queue[i]
  OBVIOUS
<1>4. queue'[Len(queue) + 1] = q
  OBVIOUS
<1>5. 1..(Len(queue) + 1) = 1..Len(queue) \cup {Len(queue) + 1}
  BY <1>1
<1>6. QED BY <1>1, <1>2, <1>3, <1>4, <1>5 DEF Places

LEMMA QueueShrinks ==
    ASSUME queue \in Seq(Item), queue # <<>>, queue' = Tail(queue)
    PROVE  /\ queue' \in Seq(Item) /\ Len(queue) \in Nat
           /\ Places \subseteq Nat /\ Places' \subseteq Nat
           /\ 1 \in Places /\ Head(queue) = queue[1] /\ Head(queue) \in Item
           /\ \A i \in Places' : i + 1 \in Places /\ queue'[i] = queue[i + 1]
           /\ \A i \in Places : i > 1 => i - 1 \in Places' /\ queue'[i - 1] = queue[i]
<1>1. /\ Len(queue) \in Nat \ {0} /\ queue' \in Seq(Item) /\ Len(queue') = Len(queue) - 1
      /\ \A i \in 1..Len(queue') : queue'[i] = queue[i + 1]
      /\ Head(queue) \in Item
  BY HeadTailProperties, EmptySeq
<1>2. Head(queue) = queue[1]
  OBVIOUS
<1>3. \A i \in 2..Len(queue) : i - 1 \in 1..Len(queue') /\ (i - 1) + 1 = i
  BY <1>1
<1>4. QED BY <1>1, <1>2, <1>3 DEF Places

LEMMA WaitsAreFinite == ASSUME queue \in Seq(Item), NEW a PROVE IsFiniteSet(Waits(a))
<1>1. Len(queue) \in Int /\ 1 \in Int
  OBVIOUS
<1>2. IsFiniteSet(1..Len(queue))
  BY <1>1, FS_Interval
<1>3. Waits(a) \subseteq 1..Len(queue)
  BY DEF Waits, Places
<1>4. QED BY <1>2, <1>3, FS_Subset

Counted == queue \in Seq(Item) => \A a : Cardinality(Waits(a)) \in Nat
LEMMA WaitsCounted == Counted
BY WaitsAreFinite, FS_CardinalityType DEF Counted

LEMMA WaitsGrow ==
    ASSUME queue \in Seq(Item), NEW q \in Item, queue' = Append(queue, q), NEW a
    PROVE  Cardinality(Waits(a)') = Cardinality(Waits(a))
             + (IF q.signal = Signal("running", a) /\ "runner" \in q.to THEN 1 ELSE 0)
<1> DEFINE n == Len(queue) + 1
<1>1. /\ Places' = Places \cup {n} /\ n \notin Places
      /\ \A i \in Places : queue'[i] = queue[i]
      /\ queue'[n] = q
  BY QueueGrows
<1>2. IsFiniteSet(Waits(a)) /\ n \notin Waits(a)
  BY <1>1, WaitsAreFinite DEF Waits
<1>3. Waits(a)' = {i \in Places' : /\ queue'[i].signal = Signal("running", a)
                                   /\ "runner" \in queue'[i].to}
  BY DEF Waits
<1>4. CASE q.signal = Signal("running", a) /\ "runner" \in q.to
  <2>1. Waits(a)' = Waits(a) \cup {n}
    BY <1>1, <1>3, <1>4 DEF Waits
  <2>2. Cardinality(Waits(a) \cup {n}) = Cardinality(Waits(a)) + 1
    BY <1>2, FS_AddElement
  <2>3. QED BY <1>4, <2>1, <2>2
<1>5. CASE ~(q.signal = Signal("running", a) /\ "runner" \in q.to)
  <2>1. Waits(a)' = Waits(a)
    BY <1>1, <1>3, <1>5 DEF Waits
  <2>2. Cardinality(Waits(a)) \in Nat
    BY <1>2, FS_CardinalityType
  <2>3. QED BY <1>5, <2>1, <2>2
<1>6. QED BY <1>4, <1>5

LEMMA WaitsShrink ==
    ASSUME queue \in Seq(Item), queue # <<>>, queue' = Tail(queue), NEW a,
           NEW q, q = Head(queue)
    PROVE  Cardinality(Waits(a)) = Cardinality(Waits(a)')
             + (IF q.signal = Signal("running", a) /\ "runner" \in q.to THEN 1 ELSE 0)
<1>1. /\ Places \subseteq Nat /\ Places' \subseteq Nat /\ 1 \in Places /\ q = queue[1]
      /\ queue' \in Seq(Item)
      /\ \A i \in Places' : i + 1 \in Places /\ queue'[i] = queue[i + 1]
      /\ \A i \in Places : i > 1 => i - 1 \in Places' /\ queue'[i - 1] = queue[i]
  BY QueueShrinks
<1>2. IsFiniteSet(Waits(a))
  BY WaitsAreFinite
<1> DEFINE W == Waits(a)
           V == {i \in Places' : /\ queue'[i].signal = Signal("running", a)
                                 /\ "runner" \in queue'[i].to}
           f == [i \in W \ {1} |-> i - 1]
<1>3. Waits(a)' = V
  BY DEF Waits
<1>4. \A i \in W \ {1} : i - 1 \in V /\ i \in Nat
  <2> SUFFICES ASSUME NEW i \in W \ {1} PROVE i - 1 \in V /\ i \in Nat
    OBVIOUS
  <2>1. i \in Places /\ i \in Nat /\ i # 1
    BY <1>1 DEF Waits
  <2>2. i > 1
    BY <2>1 DEF Places
  <2>3. i - 1 \in Places' /\ queue'[i - 1] = queue[i]
    BY <1>1, <2>1, <2>2
  <2>4. QED BY <2>1, <2>3 DEF Waits
<1>5. \A i \in V : i + 1 \in W \ {1} /\ (i + 1) - 1 = i
  <2> SUFFICES ASSUME NEW i \in V PROVE i + 1 \in W \ {1} /\ (i + 1) - 1 = i
    OBVIOUS
  <2>1. i \in Places' /\ i \in Nat /\ i + 1 \in Places /\ queue'[i] = queue[i + 1]
    BY <1>1
  <2>2. i # 0
    BY <2>1 DEF Places
  <2>3. /\ queue[i + 1].signal = Signal("running", a)
        /\ "runner" \in queue[i + 1].to
    BY <2>1
  <2>4. i + 1 \in W
    BY <2>1, <2>3 DEF Waits
  <2>5. i + 1 # 1 /\ (i + 1) - 1 = i
    BY <2>1, <2>2
  <2>6. QED BY <2>4, <2>5
<1> HIDE DEF W, V
<1>6. f \in Bijection(W \ {1}, V)
  <2>1. f \in [W \ {1} -> V]
    BY <1>4
  <2>2. \A x, y \in W \ {1} : f[x] = f[y] => x = y
    BY <1>4
  <2>3. \A v \in V : \E x \in W \ {1} : f[x] = v
    BY <1>5
  <2>4. QED BY <2>1, <2>2, <2>3, Fun_IsBij
<1>7. IsFiniteSet(W \ {1}) /\ Cardinality(W \ {1}) = IF 1 \in W THEN Cardinality(W) - 1
                                                              ELSE Cardinality(W)
  BY <1>2, FS_RemoveElement DEF W
<1>8. Cardinality(V) = Cardinality(W \ {1})
  <2>1. ExistsBijection(W \ {1}, V)
    BY <1>6 DEF ExistsBijection
  <2>2. QED BY <1>7, <2>1, FS_Bijection
<1>9. 1 \in W <=> q.signal = Signal("running", a) /\ "runner" \in q.to
  BY <1>1 DEF W, Waits
<1>10. Cardinality(W) \in Nat
  BY <1>2, FS_CardinalityType DEF W
<1>11. Cardinality(V) = Cardinality(Waits(a)') /\ Cardinality(W) = Cardinality(Waits(a))
  BY <1>3 DEF W
<1>12. QED BY <1>7, <1>8, <1>9, <1>10, <1>11

(* The tail of a plan is a plan.                                             *)
LEMMA TailInTurn ==
    ASSUME NEW r \in Seq(Step), r # <<>>
    PROVE  /\ Head(r) \in Step /\ Head(r) = r[1] /\ Tail(r) \in Seq(Step)
           /\ StepsIn(r) = {Head(r)} \cup StepsIn(Tail(r))
           /\ InTurn(r) => InTurn(Tail(r))
           /\ InTurn(r) /\ Tail(r) # <<>> /\ Head(Tail(r)).kind = "current" =>
                Head(r).kind = "assign"
           /\ InTurn(r) /\ Head(r).kind = "assign" =>
                Tail(r) # <<>> /\ Head(Tail(r)) = Signal("current", Head(r).act)
<1> DEFINE u == Tail(r)
<1>1. /\ Len(r) \in Nat \ {0} /\ u \in Seq(Step) /\ Len(u) = Len(r) - 1
      /\ \A i \in 1..Len(u) : u[i] = r[i + 1]
      /\ Head(r) \in Step
  BY HeadTailProperties, EmptySeq
<1>2. Head(r) = r[1]
  OBVIOUS
<1>3. u # <<>> => Head(u) = u[1] /\ Len(u) > 0
  BY <1>1, EmptySeq
<1> HIDE DEF u
<1>4. \A i \in 1..Len(u) : i \in Nat /\ i + 1 \in 1..Len(r) /\ i + 1 > 1
  BY <1>1
<1>5. \A i \in 1..Len(r) : i # 1 => i - 1 \in 1..Len(u) /\ (i - 1) + 1 = i
  BY <1>1
<1>6. StepsIn(r) = {r[1]} \cup StepsIn(u)
  <2>1. \A i \in 1..Len(r) : r[i] = r[1] \/ r[i] \in StepsIn(u)
    <3> SUFFICES ASSUME NEW i \in 1..Len(r), i # 1 PROVE r[i] \in StepsIn(u)
      OBVIOUS
    <3>1. i - 1 \in 1..Len(u) /\ u[i - 1] = r[(i - 1) + 1] /\ (i - 1) + 1 = i
      BY <1>1, <1>5
    <3>2. QED BY <3>1 DEF StepsIn
  <2>2. \A i \in 1..Len(u) : u[i] \in StepsIn(r)
    BY <1>1, <1>4 DEF StepsIn
  <2>3. r[1] \in StepsIn(r)
    BY <1>1 DEF StepsIn
  <2>4. QED BY <2>1, <2>2, <2>3 DEF StepsIn
<1>7. ASSUME InTurn(r) PROVE InTurn(u)
  <2> SUFFICES ASSUME NEW i \in 1..Len(u)
               PROVE  /\ u[i].kind = "assign" => i < Len(u) /\ u[i + 1] = Signal("current", u[i].act)
                      /\ u[i].kind = "current" /\ i > 1 => u[i - 1].kind = "assign"
    BY DEF InTurn
  <2>1. i \in Nat /\ i + 1 \in 1..Len(r) /\ i + 1 > 1 /\ u[i] = r[i + 1]
    BY <1>1, <1>4
  <2>2. /\ r[i + 1].kind = "assign" =>
             i + 1 < Len(r) /\ r[(i + 1) + 1] = Signal("current", r[i + 1].act)
        /\ r[i + 1].kind = "current" => r[(i + 1) - 1].kind = "assign"
    BY <1>7, <2>1 DEF InTurn
  <2>3. ASSUME u[i].kind = "assign" PROVE i < Len(u) /\ u[i + 1] = Signal("current", u[i].act)
    <3>1. i + 1 < Len(r) /\ r[(i + 1) + 1] = Signal("current", u[i].act)
      BY <2>1, <2>2, <2>3
    <3>2. i < Len(u) /\ i + 1 \in 1..Len(u)
      BY <1>1, <2>1, <3>1
    <3>3. QED BY <1>1, <3>1, <3>2
  <2>4. ASSUME u[i].kind = "current", i > 1 PROVE u[i - 1].kind = "assign"
    <3>1. r[(i + 1) - 1].kind = "assign"
      BY <2>1, <2>2, <2>4
    <3>2. i - 1 \in 1..Len(u) /\ (i - 1) + 1 = i /\ (i + 1) - 1 = i
      BY <1>1, <2>1, <2>4
    <3>3. u[i - 1] = r[(i - 1) + 1]
      BY <1>1, <3>2
    <3>4. QED BY <3>1, <3>2, <3>3
  <2>5. QED BY <2>3, <2>4
<1>8. ASSUME InTurn(r), u # <<>>, Head(u).kind = "current" PROVE r[1].kind = "assign"
  <2>1. 1 \in 1..Len(u) /\ 1 + 1 \in 1..Len(r) /\ 1 + 1 > 1 /\ (1 + 1) - 1 = 1
    BY <1>1, <1>3, <1>8
  <2>2. r[1 + 1].kind = "current"
    BY <1>1, <1>3, <1>8, <2>1
  <2>3. r[(1 + 1) - 1].kind = "assign"
    BY <1>8, <2>1, <2>2 DEF InTurn
  <2>4. QED BY <2>1, <2>3
<1>9. ASSUME InTurn(r), r[1].kind = "assign"
      PROVE  u # <<>> /\ Head(u) = Signal("current", r[1].act)
  <2>1. 1 < Len(r) /\ r[1 + 1] = Signal("current", r[1].act)
    BY <1>1, <1>9 DEF InTurn
  <2>2. Len(u) # 0 /\ 1 \in 1..Len(u)
    BY <1>1, <2>1
  <2>3. u # <<>>
    BY <2>2
  <2>4. QED BY <1>1, <1>3, <2>1, <2>2, <2>3
<1>10. QED BY <1>1, <1>2, <1>6, <1>7, <1>8, <1>9 DEF u

(* The plans that methods begin with.                                        *)
Still(s) == s.kind \notin {"assign", "current"}
Changing(a) == <<Signal("assign", a), Signal("current", a)>>
Both(x, y) == <<x, y>>
BothChanging(x, y, a) == <<x, y, Signal("assign", a), Signal("current", a)>>

LEMMA PlansInTurn ==
    ASSUME NEW x \in Step, NEW y \in Step, Still(x), Still(y), NEW a \in Id
    PROVE  /\ InTurn(<<>>) /\ StepsIn(<<>>) = {}
           /\ InTurn(<<x>>) /\ StepsIn(<<x>>) = {x}
           /\ InTurn(Both(x, y)) /\ StepsIn(Both(x, y)) = {x, y}
           /\ InTurn(Changing(a))
           /\ StepsIn(Changing(a)) = {Signal("assign", a), Signal("current", a)}
           /\ Both(x, y) \o Changing(a) = BothChanging(x, y, a)
           /\ InTurn(BothChanging(x, y, a))
           /\ y \in StepsIn(BothChanging(x, y, a))
           /\ \A s \in StepsIn(BothChanging(x, y, a)) :
                s = x \/ s = y \/ s = Signal("assign", a) \/ s = Signal("current", a)
<1>1. /\ Signal("assign", a).kind = "assign" /\ Signal("assign", a).act = a
      /\ Signal("current", a).kind = "current"
  BY DEF Signal
<1>2. InTurn(<<>>) /\ StepsIn(<<>>) = {}
  BY DEF InTurn, StepsIn
<1>3. InTurn(<<x>>) /\ StepsIn(<<x>>) = {x}
  BY DEF InTurn, StepsIn, Still
<1>4. InTurn(Both(x, y)) /\ StepsIn(Both(x, y)) = {x, y}
  BY DEF InTurn, StepsIn, Still, Both
<1>5. InTurn(Changing(a))
  BY <1>1 DEF InTurn, Changing
<1>6. StepsIn(Changing(a)) = {Signal("assign", a), Signal("current", a)}
  BY DEF StepsIn, Changing
<1>7. Both(x, y) \o Changing(a) = BothChanging(x, y, a)
  <2> DEFINE u == Both(x, y)
             v == Changing(a)
             w == BothChanging(x, y, a)
  <2>1. /\ u \in Seq(Step) /\ Len(u) = 2 /\ u[1] = x /\ u[2] = y
        /\ v \in Seq(Step) /\ Len(v) = 2
        /\ v[1] = Signal("assign", a) /\ v[2] = Signal("current", a)
        /\ w \in Seq(Step) /\ Len(w) = 4 /\ w[1] = x /\ w[2] = y
        /\ w[3] = Signal("assign", a) /\ w[4] = Signal("current", a)
    BY SignalIs DEF Changing, Both, BothChanging
  <2> HIDE DEF u, v, w
  <2>6. /\ u \o v \in Seq(Step) /\ Len(u \o v) = Len(u) + Len(v)
        /\ \A i \in 1..(Len(u) + Len(v)) :
              (u \o v)[i] = IF i <= Len(u) THEN u[i] ELSE v[i - Len(u)]
    BY <2>1, ConcatProperties, Zenon
  <2>2. /\ u \o v \in Seq(Step) /\ Len(u \o v) = 4
        /\ \A i \in 1..4 : (u \o v)[i] = IF i <= 2 THEN u[i] ELSE v[i - 2]
    <3>1. Len(u) + Len(v) = 4 /\ Len(u) = 2
      BY <2>1
    <3>2. QED BY <2>6, <3>1
  <2>3. \A i \in 1..4 : (u \o v)[i] = w[i]
    BY <2>1, <2>2
  <2>4. u \o v = w
    BY <2>1, <2>2, <2>3, SeqEqual
  <2>7. QED BY <2>4 DEF u, v, w
<1>8. InTurn(BothChanging(x, y, a))
  BY <1>1 DEF InTurn, Still, BothChanging
<1>9. /\ y \in StepsIn(BothChanging(x, y, a))
      /\ \A s \in StepsIn(BothChanging(x, y, a)) :
           s = x \/ s = y \/ s = Signal("assign", a) \/ s = Signal("current", a)
  BY DEF StepsIn, BothChanging
<1>10. QED BY <1>2, <1>3, <1>4, <1>5, <1>6, <1>7, <1>8, <1>9

LEMMA ChangingFirst ==
    ASSUME NEW r \in Seq(Step), InTurn(r), r # <<>> => Head(r).kind # "current", NEW a \in Id
    PROVE  /\ Changing(a) \o r \in Seq(Step) /\ InTurn(Changing(a) \o r)
           /\ Changing(a) \o r # <<>> /\ Head(Changing(a) \o r).kind = "assign"
           /\ StepsIn(Changing(a) \o r)
                = {Signal("assign", a), Signal("current", a)} \cup StepsIn(r)
<1> DEFINE v == Changing(a)
           w == v \o r
<1>1. /\ v \in Seq(Step) /\ Len(v) = 2
      /\ v[1] = Signal("assign", a) /\ v[2] = Signal("current", a)
  BY SignalIs DEF Changing
<1>2. /\ Signal("assign", a).kind = "assign" /\ Signal("assign", a).act = a
      /\ Signal("current", a).kind = "current"
  BY DEF Signal
<1> HIDE DEF v
<1>3. /\ w \in Seq(Step) /\ Len(w) = Len(v) + Len(r)
      /\ \A i \in 1..(Len(v) + Len(r)) : w[i] = IF i <= Len(v) THEN v[i] ELSE r[i - Len(v)]
  BY <1>1, ConcatProperties, Zenon
<1>4. Len(r) \in Nat
  OBVIOUS
<1> HIDE DEF w
<1>5. /\ Len(w) = 2 + Len(r)
      /\ w[1] = Signal("assign", a) /\ w[2] = Signal("current", a)
      /\ \A i \in 1..Len(w) : i \in Nat /\ (i = 1 \/ i = 2 \/ i > 2)
      /\ \A i \in 1..Len(w) : i > 2 => i - 2 \in 1..Len(r) /\ w[i] = r[i - 2]
  BY <1>1, <1>3, <1>4
<1>6. \A i \in 1..Len(r) : i + 2 \in 1..Len(w) /\ w[i + 2] = r[i]
  <2> SUFFICES ASSUME NEW i \in 1..Len(r) PROVE i + 2 \in 1..Len(w) /\ w[i + 2] = r[i]
    OBVIOUS
  <2>1. i + 2 \in 1..Len(w) /\ i + 2 > 2 /\ (i + 2) - 2 = i
    BY <1>4, <1>5
  <2>2. QED BY <1>5, <2>1
<1>7. w # <<>> /\ Head(w) = w[1]
  <2>1. Len(w) # 0
    BY <1>4, <1>5
  <2>2. w # <<>>
    BY <2>1
  <2>3. QED BY <1>3, <2>2
<1>8. StepsIn(w) = {Signal("assign", a), Signal("current", a)} \cup StepsIn(r)
  <2>1. \A i \in 1..Len(w) : \/ w[i] \in {Signal("assign", a), Signal("current", a)}
                             \/ w[i] \in StepsIn(r)
    BY <1>5 DEF StepsIn
  <2>2. \A i \in 1..Len(r) : r[i] \in StepsIn(w)
    BY <1>6 DEF StepsIn
  <2>3. 1 \in 1..Len(w) /\ 2 \in 1..Len(w)
    BY <1>4, <1>5
  <2>4. QED BY <1>5, <2>1, <2>2, <2>3 DEF StepsIn
<1>9. InTurn(w)
  <2> SUFFICES ASSUME NEW i \in 1..Len(w)
               PROVE  /\ w[i].kind = "assign" => i < Len(w) /\ w[i + 1] = Signal("current", w[i].act)
                      /\ w[i].kind = "current" /\ i > 1 => w[i - 1].kind = "assign"
    BY DEF InTurn
  <2>1. CASE i = 1
    <3>1. 1 < Len(w) /\ i + 1 = 2
      BY <1>4, <1>5, <2>1
    <3>2. QED BY <1>2, <1>5, <2>1, <3>1
  <2>2. CASE i = 2
    <3>1. i - 1 = 1
      BY <2>2
    <3>2. QED BY <1>2, <1>5, <2>2, <3>1
  <2>3. CASE i > 2
    <3>1. i - 2 \in 1..Len(r) /\ w[i] = r[i - 2]
      BY <1>5, <2>3
    <3>2. PICK k \in 1..Len(r) : k = i - 2
      BY <3>1
    <3>3. /\ r[k].kind = "assign" => k < Len(r) /\ r[k + 1] = Signal("current", r[k].act)
          /\ r[k].kind = "current" /\ k > 1 => r[k - 1].kind = "assign"
      BY DEF InTurn
    <3>4. ASSUME w[i].kind = "assign" PROVE i < Len(w) /\ w[i + 1] = Signal("current", w[i].act)
      <4>1. k < Len(r) /\ r[k + 1] = Signal("current", w[i].act)
        BY <3>1, <3>2, <3>3, <3>4
      <4>2. k + 1 \in 1..Len(r) /\ (k + 1) + 2 = i + 1 /\ i < Len(w)
        BY <1>4, <1>5, <3>2, <4>1
      <4>3. w[(k + 1) + 2] = r[k + 1]
        BY <1>6, <4>2
      <4>4. QED BY <4>1, <4>2, <4>3
    <3>5. ASSUME w[i].kind = "current" PROVE w[i - 1].kind = "assign"
      <4>1. r[k].kind = "current"
        BY <3>1, <3>2, <3>5
      <4>2. CASE k = 1
        <5>1. Len(r) # 0
          BY <4>2
        <5>2. r # <<>>
          BY <5>1
        <5>3. Head(r) = r[1]
          BY <5>2
        <5>4. QED BY <4>1, <4>2, <5>2, <5>3
      <4>3. CASE k > 1
        <5>1. r[k - 1].kind = "assign"
          BY <3>3, <4>1, <4>3
        <5>2. k - 1 \in 1..Len(r) /\ (k - 1) + 2 = i - 1
          BY <1>4, <3>2, <4>3
        <5>3. w[(k - 1) + 2] = r[k - 1]
          BY <1>6, <5>2
        <5>4. QED BY <5>1, <5>2, <5>3
      <4>4. k = 1 \/ k > 1
        OBVIOUS
      <4>5. QED BY <4>2, <4>3, <4>4
    <3>6. QED BY <3>4, <3>5
  <2>4. QED BY <1>5, <2>1, <2>2, <2>3
<1>10. QED BY <1>2, <1>3, <1>5, <1>7, <1>8, <1>9 DEF w, v

-----------------------------------------------------------------------------
(* What a step does to the plans.                                            *)

Changeless(r) == r # <<>> => Head(r).kind # "current"

(* A step of a thread takes the head of its plan.                            *)
LEMMA Goes ==
    ASSUME FollowTypeOK, WaysOK, NEW t \in Thread, NEW K, At(t, K), Then(t, <<>>)
    PROVE  /\ todo' \in [Thread -> Seq(Step)]
           /\ \A u \in Thread : u # t => todo'[u] = todo[u]
           /\ \A u \in Thread : InTurn(todo'[u])
           /\ Head(todo[t]) \in Step /\ Head(todo[t]).kind \in K
           /\ StepsOf(t) = {Head(todo[t])} \cup StepsOf(t)'
           /\ Head(todo[t]).kind # "assign" => Changeless(todo'[t])
           /\ Head(todo[t]).kind = "assign" =>
                todo'[t] # <<>> /\ Head(todo'[t]) = Signal("current", Head(todo[t]).act)
<1>1. todo \in [Thread -> Seq(Step)] /\ todo[t] \in Seq(Step) /\ todo[t] # <<>>
  BY DEF FollowTypeOK, At
<1>2. /\ Head(todo[t]) \in Step /\ Tail(todo[t]) \in Seq(Step)
      /\ StepsIn(todo[t]) = {Head(todo[t])} \cup StepsIn(Tail(todo[t]))
      /\ InTurn(todo[t]) => InTurn(Tail(todo[t]))
      /\ InTurn(todo[t]) /\ Tail(todo[t]) # <<>> /\ Head(Tail(todo[t])).kind = "current" =>
           Head(todo[t]).kind = "assign"
      /\ InTurn(todo[t]) /\ Head(todo[t]).kind = "assign" =>
           /\ Tail(todo[t]) # <<>>
           /\ Head(Tail(todo[t])) = Signal("current", Head(todo[t]).act)
  BY <1>1, TailInTurn
<1>3. <<>> \o Tail(todo[t]) = Tail(todo[t])
  BY <1>2, ConcatEmptySeq
<1>4. todo' = [todo EXCEPT ![t] = Tail(todo[t])]
  BY <1>1, <1>3 DEF Then
<1>5. /\ todo' \in [Thread -> Seq(Step)] /\ todo'[t] = Tail(todo[t])
      /\ \A u \in Thread : u # t => todo'[u] = todo[u]
  BY <1>1, <1>2, <1>4
<1>6. \A u \in Thread : InTurn(todo[u])
  BY DEF WaysOK, PlansOK, QueueOK
<1>7. StepsOf(t)' = StepsIn(todo'[t])
  BY DEF StepsOf
<1>8. \A u \in Thread : InTurn(todo'[u])
  <2> SUFFICES ASSUME NEW u \in Thread PROVE InTurn(todo'[u])
    OBVIOUS
  <2>1. CASE u = t
    BY <1>2, <1>5, <1>6, <2>1
  <2>2. CASE u # t
    BY <1>5, <1>6, <2>2
  <2>3. QED BY <2>1, <2>2
<1>9. QED BY <1>2, <1>5, <1>6, <1>7, <1>8 DEF StepsOf, Changeless, At

(* What makes sure that a running activity is current changes it or not.     *)
LEMMA Ensures ==
    ASSUME FollowTypeOK, WaysOK, NEW t \in Thread, Ensure(t)
    PROVE  /\ todo' \in [Thread -> Seq(Step)]
           /\ \A u \in Thread : u # t => todo'[u] = todo[u]
           /\ \A u \in Thread : InTurn(todo'[u])
           /\ todo[t] # <<>> /\ Head(todo[t]).kind = "ensure"
           /\ StepsOf(t) \subseteq {Head(todo[t])} \cup StepsOf(t)'
           /\ \A s \in StepsOf(t)' : \/ s \in StepsOf(t)
                                     \/ s.kind \in {"assign", "current"} /\ s.act \in known
           /\ Changeless(todo'[t])
<1>1. At(t, {"ensure"})
  BY DEF Ensure
<1>2. CASE Then(t, <<>>)
  <2>1. /\ todo' \in [Thread -> Seq(Step)]
        /\ \A u \in Thread : u # t => todo'[u] = todo[u]
        /\ \A u \in Thread : InTurn(todo'[u])
        /\ StepsOf(t) = {Head(todo[t])} \cup StepsOf(t)'
        /\ Head(todo[t]).kind # "assign" => Changeless(todo'[t])
    BY <1>1, <1>2, Goes
  <2>2. todo[t] # <<>> /\ Head(todo[t]).kind = "ensure"
    BY <1>1 DEF At
  <2>3. QED BY <2>1, <2>2
<1>3. ASSUME NEW a \in known, Then(t, Changing(a))
      PROVE  /\ todo' \in [Thread -> Seq(Step)]
             /\ \A u \in Thread : u # t => todo'[u] = todo[u]
             /\ \A u \in Thread : InTurn(todo'[u])
             /\ todo[t] # <<>> /\ Head(todo[t]).kind = "ensure"
             /\ StepsOf(t) \subseteq {Head(todo[t])} \cup StepsOf(t)'
             /\ \A s \in StepsOf(t)' : \/ s \in StepsOf(t)
                                       \/ s.kind \in {"assign", "current"} /\ s.act \in known
             /\ Changeless(todo'[t])
  <2> DEFINE r == Tail(todo[t])
             w == Changing(a) \o r
  <2>1. todo \in [Thread -> Seq(Step)] /\ todo[t] \in Seq(Step) /\ todo[t] # <<>>
        /\ Head(todo[t]).kind = "ensure" /\ \A u \in Thread : InTurn(todo[u])
    BY <1>1 DEF FollowTypeOK, At, WaysOK, PlansOK, QueueOK
  <2>2. /\ r \in Seq(Step) /\ StepsIn(todo[t]) = {Head(todo[t])} \cup StepsIn(r)
        /\ InTurn(r) /\ (r # <<>> => Head(r).kind # "current")
    BY <2>1, TailInTurn
  <2>3. a \in Id
    BY DEF FollowTypeOK, Id
  <2>4. todo' = [todo EXCEPT ![t] = w]
    BY <1>3, <2>1 DEF Then
  <2> HIDE DEF r
  <2>5. /\ w \in Seq(Step) /\ InTurn(w) /\ w # <<>> /\ Head(w).kind = "assign"
        /\ StepsIn(w) = {Signal("assign", a), Signal("current", a)} \cup StepsIn(r)
    BY <2>2, <2>3, ChangingFirst
  <2> HIDE DEF w
  <2>6. /\ todo' \in [Thread -> Seq(Step)] /\ todo'[t] = w
        /\ \A u \in Thread : u # t => todo'[u] = todo[u]
    BY <2>1, <2>4, <2>5
  <2>7. \A u \in Thread : InTurn(todo'[u])
    <3> SUFFICES ASSUME NEW u \in Thread PROVE InTurn(todo'[u])
      OBVIOUS
    <3>1. CASE u = t
      BY <2>5, <2>6, <3>1
    <3>2. CASE u # t
      BY <2>1, <2>6, <3>2
    <3>3. QED BY <3>1, <3>2
  <2>8. StepsOf(t)' = StepsIn(w)
    BY <2>6 DEF StepsOf
  <2>9. \A s \in {Signal("assign", a), Signal("current", a)} :
          s.kind \in {"assign", "current"} /\ s.act \in known
    BY DEF Signal
  <2>10. QED BY <2>1, <2>2, <2>5, <2>6, <2>7, <2>8, <2>9 DEF StepsOf, Changeless
<1>4. CASE \E a \in known : Then(t, Switch(a))
  <2>1. PICK a \in known : Then(t, Switch(a))
    BY <1>4
  <2>2. CASE a = current
    BY <1>2, <2>1, <2>2 DEF Switch
  <2>3. CASE a # current
    <3>1. Switch(a) = Changing(a)
      BY <2>3 DEF Switch, Changing
    <3>2. Then(t, Changing(a))
      BY <2>1, <3>1
    <3>3. QED BY <1>3, <3>2
  <2>4. QED BY <2>2, <2>3
<1>5. Then(t, <<>>) \/ \E a \in known : Then(t, Switch(a))
  BY DEF Ensure
<1>6. QED BY <1>2, <1>4, <1>5

(* A method begins, or goes on, on a thread that has nothing else to do.     *)
Method(t, r) == Plan(t, r) /\ UNCHANGED ledger

LEMMA Begins ==
    ASSUME FollowTypeOK, WaysOK, NEW t \in Thread, NEW r \in Seq(Step), InTurn(r),
           Changeless(r), Method(t, r)
    PROVE  /\ todo' \in [Thread -> Seq(Step)]
           /\ \A u \in Thread : u # t => todo'[u] = todo[u]
           /\ \A u \in Thread : InTurn(todo'[u])
           /\ todo[t] = <<>> /\ StepsOf(t) = {} /\ StepsOf(t)' = StepsIn(r)
           /\ Changeless(todo'[t])
           /\ t = "main" => Ready
<1>1. todo \in [Thread -> Seq(Step)] /\ \A u \in Thread : InTurn(todo[u])
  BY DEF FollowTypeOK, WaysOK, PlansOK, QueueOK
<1>2. todo[t] = <<>> /\ todo' = [todo EXCEPT ![t] = r] /\ (t = "main" => Ready)
  BY DEF Method, Plan
<1>3. /\ todo' \in [Thread -> Seq(Step)] /\ todo'[t] = r
      /\ \A u \in Thread : u # t => todo'[u] = todo[u]
  BY <1>1, <1>2
<1>4. \A u \in Thread : InTurn(todo'[u])
  <2> SUFFICES ASSUME NEW u \in Thread PROVE InTurn(todo'[u])
    OBVIOUS
  <2>1. CASE u = t
    BY <1>3, <2>1
  <2>2. CASE u # t
    BY <1>1, <1>3, <2>2
  <2>3. QED BY <2>1, <2>2
<1>5. StepsOf(t) = {}
  <2>1. StepsOf(t) = StepsIn(<<>>)
    BY <1>2 DEF StepsOf
  <2>2. QED BY <2>1 DEF StepsIn
<1>6. StepsOf(t)' = StepsIn(r)
  BY <1>3 DEF StepsOf
<1>7. QED BY <1>2, <1>3, <1>4, <1>5, <1>6

LEMMA AddBegins ==
    ASSUME FollowTypeOK, NEW t \in Thread, NEW a \in Activity, Add(t, a)
    PROVE  \E r \in Seq(Step) :
             /\ InTurn(r) /\ Changeless(r) /\ Method(t, r)
             /\ Signal("added", a) \in StepsIn(r)
             /\ \A s \in StepsIn(r) :
                  s.act = a /\ s.kind \in {"running", "added", "assign", "current"}
<1>0. PICK x, y : x = Signal("running", a) /\ y = Signal("added", a)
  OBVIOUS
<1>1. /\ a \in Id /\ x \in Step /\ y \in Step
      /\ x.kind = "running" /\ y.kind = "added" /\ x.act = a /\ y.act = a
      /\ Still(x) /\ Still(y)
  BY <1>0, SignalIs DEF Kind, Still
<1>2. /\ InTurn(Both(x, y)) /\ StepsIn(Both(x, y)) = {x, y}
      /\ Both(x, y) \o Changing(a) = BothChanging(x, y, a)
      /\ InTurn(BothChanging(x, y, a))
      /\ y \in StepsIn(BothChanging(x, y, a))
      /\ \A s \in StepsIn(BothChanging(x, y, a)) :
           s = x \/ s = y \/ s = Signal("assign", a) \/ s = Signal("current", a)
  <2>1. x \in Step /\ y \in Step /\ Still(x) /\ Still(y) /\ a \in Id
    BY <1>1
  <2>2. QED BY <2>1, PlansInTurn, ZenonT(60)
<1>3. PICK q, r : q = Both(x, y) /\ r = BothChanging(x, y, a)
  OBVIOUS
<1>4. /\ q \in Seq(Step) /\ q # <<>> /\ Head(q) = x
      /\ r \in Seq(Step) /\ r # <<>> /\ Head(r) = x
  BY <1>1, <1>3, SignalIs DEF Both, BothChanging, Kind
<1>5. Method(t, q \o IF known = {} THEN Switch(a) ELSE <<>>)
  BY <1>0, <1>3 DEF Add, Begin, Method, Both
<1>6. (IF known = {} THEN Switch(a) ELSE <<>>) \in {<<>>, Changing(a)}
  BY DEF Switch, Changing
<1>7. q \o <<>> = q
  BY <1>4, ConcatEmptySeq
<1>8. Method(t, q) \/ Method(t, r)
  <2>1. CASE (IF known = {} THEN Switch(a) ELSE <<>>) = <<>>
    <3>1. q \o (IF known = {} THEN Switch(a) ELSE <<>>) = q
      BY <1>7, <2>1, Zenon
    <3>2. QED BY <1>5, <3>1, Zenon
  <2>2. CASE (IF known = {} THEN Switch(a) ELSE <<>>) = Changing(a)
    <3>1. q \o (IF known = {} THEN Switch(a) ELSE <<>>) = r
      BY <1>2, <1>3, <2>2, Zenon
    <3>2. QED BY <1>5, <3>1, Zenon
  <2>3. QED BY <1>6, <2>1, <2>2
<1>9. Changeless(q) /\ Changeless(r)
  BY <1>1, <1>4 DEF Changeless
<1>10. CASE Method(t, q)
  <2>1. y \in StepsIn(q)
    BY <1>2, <1>3
  <2>2. \A s \in StepsIn(q) : s.act = a /\ s.kind \in {"running", "added", "assign", "current"}
    BY <1>1, <1>2, <1>3, SignalIs
  <2>3. QED BY <1>0, <1>2, <1>3, <1>4, <1>9, <1>10, <2>1, <2>2
<1>11. CASE Method(t, r)
  <2>1. y \in StepsIn(r)
    BY <1>2, <1>3
  <2>2. \A s \in StepsIn(r) : s.act = a /\ s.kind \in {"running", "added", "assign", "current"}
    BY <1>1, <1>2, <1>3, SignalIs
  <2>3. QED BY <1>0, <1>2, <1>3, <1>4, <1>9, <1>11, <2>1, <2>2
<1>12. QED BY <1>8, <1>10, <1>11

LEMMA OneThenOne == ASSUME NEW x \in Step, NEW y \in Step PROVE <<x>> \o <<y>> = Both(x, y)
<1>1. PICK u, v, w : u = <<x>> /\ v = <<y>> /\ w = Both(x, y)
  OBVIOUS
<1>2. /\ u \in Seq(Step) /\ Len(u) = 1 /\ u[1] = x
      /\ v \in Seq(Step) /\ Len(v) = 1 /\ v[1] = y
      /\ w \in Seq(Step) /\ Len(w) = 2 /\ w[1] = x /\ w[2] = y
  BY <1>1 DEF Both
<1>3. /\ u \o v \in Seq(Step) /\ Len(u \o v) = Len(u) + Len(v)
      /\ \A i \in 1..(Len(u) + Len(v)) :
            (u \o v)[i] = IF i <= Len(u) THEN u[i] ELSE v[i - Len(u)]
  BY <1>2, ConcatProperties, Zenon
<1>4. Len(u) + Len(v) = 2 /\ Len(u) = 1
  BY <1>2
<1>5. Len(u \o v) = 2 /\ \A i \in 1..2 : (u \o v)[i] = w[i]
  BY <1>2, <1>3, <1>4
<1>6. u \o v = w
  BY <1>2, <1>3, <1>5, SeqEqual
<1>7. QED BY <1>1, <1>6, Zenon

(* A plan of one or two steps.                                               *)
LEMMA ShortPlans ==
    ASSUME NEW t \in Thread, NEW x \in Step, NEW y \in Step, Still(x), Still(y)
    PROVE  /\ InTurn(<<x>>) /\ Changeless(<<x>>) /\ <<x>> \in Seq(Step)
           /\ x \in StepsIn(<<x>>) /\ \A s \in StepsIn(<<x>>) : s = x
           /\ InTurn(Both(x, y)) /\ Changeless(Both(x, y)) /\ Both(x, y) \in Seq(Step)
           /\ x \in StepsIn(Both(x, y)) /\ y \in StepsIn(Both(x, y))
           /\ \A s \in StepsIn(Both(x, y)) : s = x \/ s = y
<1>1. InTurn(<<x>>) /\ x \in StepsIn(<<x>>) /\ \A s \in StepsIn(<<x>>) : s = x
  BY DEF InTurn, StepsIn, Still
<1>2. /\ InTurn(Both(x, y))
      /\ x \in StepsIn(Both(x, y)) /\ y \in StepsIn(Both(x, y))
      /\ \A s \in StepsIn(Both(x, y)) : s = x \/ s = y
  BY DEF InTurn, StepsIn, Still, Both
<1>3. Changeless(<<x>>) /\ Changeless(Both(x, y))
  BY DEF Changeless, Both, Still
<1>4. <<x>> \in Seq(Step) /\ Both(x, y) \in Seq(Step)
  BY DEF Both
<1>5. QED BY <1>1, <1>2, <1>3, <1>4

LEMMA EraseBegins ==
    ASSUME NEW a \in Activity, Erase(a)
    PROVE  \E r \in Seq(Step) :
             /\ InTurn(r) /\ Changeless(r) /\ Method("dbus", r)
             /\ Signal("removed", a) \in StepsIn(r)
             /\ \A s \in StepsIn(r) : s.act = a /\ s.kind \in {"ensure", "removed"}
<1>1. PICK x, y : x = Signal("ensure", a) /\ y = Signal("removed", a)
  OBVIOUS
<1>2. /\ x \in Step /\ y \in Step /\ Still(x) /\ Still(y)
      /\ x.act = a /\ y.act = a /\ x.kind = "ensure" /\ y.kind = "removed"
  BY <1>1, SignalIs DEF Kind, Still
<1>3. "dbus" \in Thread
  BY DEF Thread
<1>4. Method("dbus", (IF current = a THEN <<x>> ELSE <<>>) \o <<y>>)
  BY <1>1 DEF Erase, Method
<1>5. <<x>> \o <<y>> = Both(x, y) /\ <<>> \o <<y>> = <<y>>
  <2>1. <<y>> \in Seq(Step)
    BY <1>2
  <2>2. QED BY <1>2, <2>1, OneThenOne, ConcatEmptySeq
<1>6. Method("dbus", Both(x, y)) \/ Method("dbus", <<y>>)
  <2>1. CASE current = a
    <3>1. (IF current = a THEN <<x>> ELSE <<>>) \o <<y>> = Both(x, y)
      BY <1>5, <2>1, Zenon
    <3>2. QED BY <1>4, <3>1, Zenon
  <2>2. CASE current # a
    <3>1. (IF current = a THEN <<x>> ELSE <<>>) \o <<y>> = <<y>>
      BY <1>5, <2>2, Zenon
    <3>2. QED BY <1>4, <3>1, Zenon
  <2>3. QED BY <2>1, <2>2
<1>7. CASE Method("dbus", Both(x, y))
  <2>1. PICK r : r = Both(x, y)
    OBVIOUS
  <2>2. /\ r \in Seq(Step) /\ InTurn(r) /\ Changeless(r) /\ y \in StepsIn(r)
        /\ \A s \in StepsIn(r) : s = x \/ s = y
    BY <1>2, <1>3, <2>1, ShortPlans
  <2>3. Method("dbus", r)
    BY <1>7, <2>1, Zenon
  <2>4. QED BY <1>1, <1>2, <2>2, <2>3
<1>8. CASE Method("dbus", <<y>>)
  <2>1. PICK r : r = <<y>>
    OBVIOUS
  <2>2. /\ r \in Seq(Step) /\ InTurn(r) /\ Changeless(r) /\ y \in StepsIn(r)
        /\ \A s \in StepsIn(r) : s = y
    BY <1>2, <1>3, <2>1, ShortPlans
  <2>3. Method("dbus", r)
    BY <1>8, <2>1, Zenon
  <2>4. QED BY <1>1, <1>2, <2>2, <2>3
<1>9. QED BY <1>6, <1>7, <1>8

LEMMA SetBegins ==
    ASSUME NEW a \in Activity, NEW k \in Outcome, SetActivityState(a, k)
    PROVE  \E r \in Seq(Step) :
             /\ InTurn(r) /\ Changeless(r) /\ Method("main", r)
             /\ \A s \in StepsIn(r) : s.act = a /\ s.kind \in {"running", "stopped", "ensure"}
<1>1. PICK x, y : x = Signal(k, a) /\ y = Signal("ensure", a)
  OBVIOUS
<1>2. /\ x \in Step /\ y \in Step /\ Still(x) /\ Still(y) /\ k \in {"running", "stopped"}
      /\ x.act = a /\ y.act = a /\ x.kind = k /\ y.kind = "ensure"
  BY <1>1, SignalIs DEF Kind, Still
<1>3. "main" \in Thread
  BY DEF Thread
<1>4. PICK p, q : /\ p \in {<<>>, <<x>>} /\ q \in {<<>>, <<y>>}
                  /\ Method("main", p \o q)
  <2>1. PICK c \in checked["main"] :
          Plan("main", (IF state[a] = k THEN <<>> ELSE <<x>>)
                           \o IF k = "stopped" /\ c.was = a THEN <<y>> ELSE <<>>)
    BY <1>1 DEF SetActivityState
  <2>2. PICK p, q : /\ p = IF state[a] = k THEN <<>> ELSE <<x>>
                    /\ q = IF k = "stopped" /\ c.was = a THEN <<y>> ELSE <<>>
    OBVIOUS
  <2>3. p \in {<<>>, <<x>>} /\ q \in {<<>>, <<y>>}
    BY <2>2
  <2>4. Plan("main", p \o q)
    BY <2>1, <2>2, Zenon
  <2>5. QED BY <2>3, <2>4 DEF Method, SetActivityState
<1>5. /\ <<x>> \o <<y>> = Both(x, y) /\ <<x>> \o <<>> = <<x>>
      /\ <<>> \o <<y>> = <<y>> /\ <<>> \o <<>> = <<>>
  <2>1. <<x>> \in Seq(Step) /\ <<y>> \in Seq(Step) /\ <<>> \in Seq(Step)
    BY <1>2
  <2>2. QED BY <1>2, <2>1, OneThenOne, ConcatEmptySeq
<1>6. PICK r : r = p \o q /\ Method("main", r)
  BY <1>4
<1>7. r = <<>> \/ r = <<x>> \/ r = <<y>> \/ r = Both(x, y)
  BY <1>4, <1>5, <1>6, Zenon
<1>8. /\ <<>> \in Seq(Step) /\ Changeless(<<>>)
      /\ InTurn(<<>>) /\ \A s \in StepsIn(<<>>) : FALSE
  BY DEF Changeless, InTurn, StepsIn
<1>9. /\ InTurn(<<x>>) /\ Changeless(<<x>>) /\ <<x>> \in Seq(Step)
      /\ \A s \in StepsIn(<<x>>) : s = x
      /\ InTurn(<<y>>) /\ Changeless(<<y>>) /\ <<y>> \in Seq(Step)
      /\ \A s \in StepsIn(<<y>>) : s = y
      /\ InTurn(Both(x, y)) /\ Changeless(Both(x, y)) /\ Both(x, y) \in Seq(Step)
      /\ \A s \in StepsIn(Both(x, y)) : s = x \/ s = y
  BY <1>2, <1>3, ShortPlans
<1>10. /\ r \in Seq(Step) /\ InTurn(r) /\ Changeless(r)
       /\ \A s \in StepsIn(r) : s = x \/ s = y
  BY <1>7, <1>8, <1>9, Zenon
<1>11. QED BY <1>2, <1>6, <1>10

LEMMA SetCurrentBegins ==
    ASSUME NEW a \in Activity, SetCurrent(a)
    PROVE  \E r \in Seq(Step) :
             /\ InTurn(r) /\ Changeless(r) /\ Method("dbus", r)
             /\ \A s \in StepsIn(r) : s.act = a /\ s.kind \in {"assign", "current"}
<1>1. Switch(a) = Changing(a)
  BY DEF SetCurrent, Switch, Changing
<1>2. Method("dbus", Changing(a))
  <2>1. Method("dbus", Switch(a))
    BY DEF SetCurrent, Begin, Method
  <2>2. QED BY <1>1, <2>1, Zenon
<1>3. PICK r : r = Changing(a)
  OBVIOUS
<1>4. /\ Signal("assign", a) \in Step /\ Signal("current", a) \in Step
      /\ Signal("assign", a).act = a /\ Signal("current", a).act = a
      /\ Signal("assign", a).kind = "assign" /\ Signal("current", a).kind = "current"
  BY SignalIs DEF Kind
<1>5. r \in Seq(Step) /\ Changeless(r)
  BY <1>3, <1>4 DEF Changing, Changeless
<1>6. InTurn(r)
  BY <1>3, <1>4 DEF InTurn, Changing
<1>7. \A s \in StepsIn(r) : s = Signal("assign", a) \/ s = Signal("current", a)
  BY <1>3 DEF StepsIn, Changing
<1>8. Method("dbus", r)
  BY <1>2, <1>3, Zenon
<1>9. QED BY <1>4, <1>5, <1>6, <1>7, <1>8

(* The methods that only check and change a state plan nothing yet.          *)
Quietly(a) == Remove(a) \/ StartOrStop(a) \/ \E k \in Outcome : SessionStateChanged(a, k)

LEMMA QuietlyBegins ==
    ASSUME NEW a \in Activity, Quietly(a)
    PROVE  /\ UNCHANGED <<known, used, revived, current>>
           /\ \E t \in Thread : \E r \in Seq(Step) :
                InTurn(r) /\ Changeless(r) /\ Method(t, r) /\ StepsIn(r) = {}
<1>1. Method("dbus", <<>>) \/ Method("main", <<>>)
  BY DEF Quietly, Remove, StartOrStop, SessionStateChanged, Check, Begin, Method
<1>2. <<>> \in Seq(Step) /\ Changeless(<<>>)
  BY DEF Changeless
<1>3. InTurn(<<>>) /\ StepsIn(<<>>) = {}
  BY DEF InTurn, StepsIn
<1>4. UNCHANGED <<known, used, revived, current>>
  BY DEF Quietly, Remove, StartOrStop, SessionStateChanged, activities
<1>5. "dbus" \in Thread /\ "main" \in Thread
  BY DEF Thread
<1>6. QED BY <1>1, <1>2, <1>3, <1>4, <1>5

(* A signal from D-Bus goes to whoever listens and wants it.                 *)
LEMMA Posts ==
    ASSUME FollowTypeOK, NEW s \in SignalSet, Post(s)
    PROVE  \E q \in Item :
             /\ q.signal = s
             /\ \A p \in Plugin : p \in q.to <=> Listens(p) /\ s.kind \in Wants(p)
             /\ queue' \in Seq(Item)
             /\ Places \subseteq Places' /\ \A i \in Places : queue'[i] = queue[i]
             /\ \A i \in Places' : i \in Places \/ queue'[i] = q
             /\ q.to # {} => \E n \in Places' : queue'[n] = q /\ \A i \in Places : i < n
             /\ \A a : Cardinality(Waits(a)') = Cardinality(Waits(a))
                  + (IF s = Signal("running", a) /\ "runner" \in q.to THEN 1 ELSE 0)
             /\ said' = IF "runner" \in q.to /\ s.kind = "running"
                        THEN [said EXCEPT ![s.act] = @ + 1] ELSE said
<1> DEFINE to == {p \in Plugin : Listens(p) /\ s.kind \in Wants(p)}
<1>1. PICK q : q = [signal |-> s, to |-> to]
  OBVIOUS
<1>2. q \in Item /\ q.signal = s /\ q.to = to
  BY <1>1 DEF Item
<1>3. queue \in Seq(Item) /\ said \in [Id -> Nat] /\ s.act \in Id
  BY DEF FollowTypeOK, Item, SignalSet
<1>4. /\ queue' = IF to = {} THEN queue ELSE Append(queue, q)
      /\ IF "runner" \in to THEN Said(s) ELSE UNCHANGED said
  BY <1>1 DEF Post
<1>5. said' = IF "runner" \in to /\ s.kind = "running" THEN [said EXCEPT ![s.act] = @ + 1]
              ELSE said
  <2>1. [said EXCEPT ![s.act] = said[s.act]] = said
    BY <1>3
  <2>2. CASE "runner" \in to
    <3>1. said' = [said EXCEPT ![s.act] = IF s.kind = "running" THEN @ + 1 ELSE @]
      BY <1>4, <2>2 DEF Said
    <3>2. QED BY <1>3, <2>1, <2>2, <3>1
  <2>3. CASE "runner" \notin to
    BY <1>4, <2>3
  <2>4. QED BY <2>2, <2>3
<1> HIDE DEF to
<1>6. CASE to = {}
  <2>1. queue' = queue
    BY <1>4, <1>6
  <2>2. \A a : Waits(a)' = Waits(a)
    BY <2>1 DEF Waits, Places
  <2>3. \A a : Cardinality(Waits(a)) \in Nat
    BY <1>3, WaitsAreFinite, FS_CardinalityType
  <2>4. "runner" \notin q.to /\ q.to = {}
    BY <1>2, <1>6
  <2>5. \A a : Cardinality(Waits(a)') = Cardinality(Waits(a))
                  + (IF s = Signal("running", a) /\ "runner" \in q.to THEN 1 ELSE 0)
    <3> SUFFICES ASSUME NEW a PROVE Cardinality(Waits(a)') = Cardinality(Waits(a)) + 0
      BY <2>4
    <3>1. Cardinality(Waits(a)') = Cardinality(Waits(a))
      BY <2>2, Zenon
    <3>2. QED BY <2>3, <3>1
  <2>6. \A p \in Plugin : p \in q.to <=> Listens(p) /\ s.kind \in Wants(p)
    BY <1>2 DEF to
  <2>7. Places' = Places
    BY <2>1 DEF Places
  <2>8. QED BY <1>2, <1>3, <1>5, <2>1, <2>4, <2>5, <2>6, <2>7
<1>7. CASE to # {}
  <2>1. queue' = Append(queue, q)
    BY <1>4, <1>7
  <2>2. /\ queue' \in Seq(Item)
        /\ Places' = Places \cup {Len(queue) + 1} /\ Len(queue) + 1 \notin Places
        /\ \A i \in Places : queue'[i] = queue[i] /\ i < Len(queue) + 1
        /\ queue'[Len(queue) + 1] = q
    BY <1>2, <1>3, <2>1, QueueGrows
  <2>3. \A a : Cardinality(Waits(a)') = Cardinality(Waits(a))
                  + (IF q.signal = Signal("running", a) /\ "runner" \in q.to THEN 1 ELSE 0)
    BY <1>2, <1>3, <2>1, WaitsGrow
  <2>4. \A p \in Plugin : p \in q.to <=> Listens(p) /\ s.kind \in Wants(p)
    BY <1>2 DEF to
  <2>5. \E n \in Places' : queue'[n] = q /\ \A i \in Places : i < n
    BY <2>2
  <2>6. /\ Places \subseteq Places' /\ \A i \in Places : queue'[i] = queue[i]
        /\ \A i \in Places' : i \in Places \/ queue'[i] = q
    BY <2>2
  <2>7. \A a : Cardinality(Waits(a)') = Cardinality(Waits(a))
                  + (IF s = Signal("running", a) /\ "runner" \in q.to THEN 1 ELSE 0)
    BY <1>2, <2>3
  <2>8. said' = IF "runner" \in q.to /\ s.kind = "running"
                THEN [said EXCEPT ![s.act] = @ + 1] ELSE said
    BY <1>2, <1>5
  <2>9. QED BY <1>2, <2>2, <2>4, <2>5, <2>6, <2>7, <2>8
<1>8. QED BY <1>6, <1>7

LEMMA PostTypes ==
    ASSUME FollowTypeOK, NEW s \in SignalSet, Post(s), s.kind \in {"added", "removed"} => s.act \in Activity
    PROVE  /\ queue' \in Seq(Item) /\ said' \in [Id -> Nat]
           /\ missed' \in SUBSET Activity /\ astray' \in SUBSET {"runner", "desktops"}
<1>1. queue' \in Seq(Item)
  BY Posts
<1>2. said' \in [Id -> Nat]
  <2>1. PICK b \in BOOLEAN : said' = IF b THEN [said EXCEPT ![s.act] = @ + 1] ELSE said
    BY Posts, Zenon
  <2>2. said \in [Id -> Nat] /\ s.act \in Id
    BY DEF FollowTypeOK, SignalSet
  <2>3. QED BY <2>1, <2>2
<1>3. missed' \in SUBSET Activity
  <2>1. missed' = missed \cup IF setup["shortcuts"] = "half" /\ s.kind \in Wants("shortcuts")
                              THEN {s.act} ELSE {}
    BY DEF Post
  <2>2. missed \subseteq Activity
    BY DEF FollowTypeOK
  <2>3. QED BY <2>1, <2>2, WantsIs
<1>4. astray' \in SUBSET {"runner", "desktops"}
  BY DEF FollowTypeOK, Post
<1>5. QED BY <1>1, <1>2, <1>3, <1>4

-----------------------------------------------------------------------------
(* Types.                                                                    *)

TableTypes == /\ known \subseteq Activity /\ used \subseteq Activity /\ current \in Id
              /\ revived \subseteq Activity
              /\ state \in [Activity -> {"running", "stopped", "transition", "invalid"}]
InvalidOK == \A a \in known : state[a] = "invalid" =>
                \E c \in checked["dbus"] : c.change = "remove" /\ c.act = a
ListTypes == /\ sorted \in Listing /\ copy \in [Thread -> SUBSET Listing]
             /\ updating \in [Thread -> 0..2] /\ checked \in [Thread -> SUBSET Checked]
WayTypes == /\ todo \in [Thread -> Seq(Step)] /\ again \subseteq Activity
            /\ queue \in Seq(Item)
SetupTypes == setup \in [Plugin -> {"new", "half", "ready"}] /\ changes \in 0..MaxChanges
PluginTypes == /\ shortcuts \subseteq Activity
               /\ following \in [{"runner", "desktops"} -> Id]
               /\ activated \subseteq Id /\ previous \subseteq Id /\ entries \subseteq Id
LedgerTypes == /\ missed \subseteq Activity /\ astray \subseteq {"runner", "desktops"}
               /\ runs \in [Id -> Nat] /\ said \in [Id -> Nat]

LEMMA FollowTypes ==
    FollowTypeOK <=> /\ TableTypes /\ InvalidOK /\ ListTypes
                     /\ WayTypes /\ SetupTypes /\ PluginTypes /\ LedgerTypes
<1>1. Item = [signal : [kind : Kind, act : Id], to : SUBSET Plugin]
  BY DEF Item, SignalSet
<1>2. FollowTypeOK => TableTypes /\ InvalidOK /\ ListTypes /\ SetupTypes
  BY DEF FollowTypeOK, TableTypes, InvalidOK, ListTypes, SetupTypes
<1>3. FollowTypeOK => WayTypes /\ PluginTypes /\ LedgerTypes
  BY <1>1 DEF FollowTypeOK, WayTypes, PluginTypes, LedgerTypes
<1>4. ASSUME TableTypes, InvalidOK, ListTypes, WayTypes, SetupTypes, PluginTypes, LedgerTypes
      PROVE  FollowTypeOK
  <2>1. {known, used, revived} \subseteq SUBSET Activity
    BY <1>4 DEF TableTypes
  <2>2. {activated, previous, entries} \subseteq SUBSET Id
    BY <1>4 DEF PluginTypes
  <2>3. {runs, said} \subseteq [Id -> Nat]
    BY <1>4 DEF LedgerTypes
  <2>4. again \in SUBSET Activity /\ shortcuts \in SUBSET Activity /\ missed \in SUBSET Activity
        /\ astray \in SUBSET {"runner", "desktops"}
    BY <1>4 DEF WayTypes, PluginTypes, LedgerTypes
  <2>5. QED BY <1>1, <1>4, <2>1, <2>2, <2>3, <2>4, Zenon
            DEF FollowTypeOK, TableTypes, InvalidOK, ListTypes, WayTypes, SetupTypes,
                PluginTypes
<1>5. QED BY <1>2, <1>3, <1>4, Zenon

(* The table loses activities and gets ones that never were in it, or that   *)
(* an outcome puts back.                                                     *)
TableGrows == /\ used \subseteq used' /\ revived \subseteq revived'
              /\ known' \cap used \subseteq known \cup revived'
SetupGrows == \A p \in Plugin : Listens(p) => Listens(p)'

LEMMA GrowsInAStep ==
    ASSUME FollowTypeOK, UsedOK, [FollowNext]_followVars
    PROVE  TableGrows /\ SetupGrows /\ (Ready => Ready' /\ setup' = setup)
<1>1. setup \in [Plugin -> {"new", "half", "ready"}] /\ known \subseteq used
  BY DEF FollowTypeOK, UsedOK
<1>2. CASE InitShortcuts
  BY <1>1, <1>2 DEF InitShortcuts, Initialise, activities, TableGrows, SetupGrows, Listens, Ready, Plugin
<1>3. CASE InitRunner
  BY <1>1, <1>3 DEF InitRunner, Initialise, activities, TableGrows, SetupGrows, Listens, Ready, Plugin
<1>4. CASE InitDesktops
  BY <1>1, <1>4 DEF InitDesktops, Initialise, activities, TableGrows, SetupGrows, Listens, Ready, Plugin
<1>5. ASSUME setup' = setup PROVE SetupGrows /\ (Ready => Ready' /\ setup' = setup)
  BY <1>5 DEF SetupGrows, Listens, Ready
<1>6. CASE EmitOnMain \/ EmitOnDBus \/ HearNext \/ \E a \in Activity : EmitAgain(a)
  <2>1. UNCHANGED <<activities, setup>>
    BY <1>6 DEF EmitOnMain, EmitOnDBus, HearNext, EmitAgain
  <2>2. QED BY <1>1, <1>5, <2>1 DEF activities, TableGrows
<1>7. CASE \E t \in Thread : Copy(t) \/ Publish(t) \/ Ensure(t) \/ Assign(t)
  <2>1. UNCHANGED <<known, used, revived, setup>>
    BY <1>7 DEF Copy, Publish, Ensure, Assign, activities
  <2>2. QED BY <1>1, <1>5, <2>1 DEF TableGrows
<1>8. CASE \E a \in Activity : Quietly(a)
  <2>1. UNCHANGED <<known, used, revived, setup>>
    BY <1>8, QuietlyBegins DEF Method, Plan
  <2>2. QED BY <1>1, <1>5, <2>1 DEF TableGrows
<1>9. CASE \E a \in Activity : \/ Erase(a) \/ SetCurrent(a) \/ \E t \in Thread : Add(t, a)
                               \/ \E k \in Outcome : SetActivityState(a, k)
  <2>1. setup' = setup
    BY <1>9 DEF Erase, SetCurrent, Add, SetActivityState, Begin, Plan
  <2>2. TableGrows
    BY <1>1, <1>9 DEF Erase, SetCurrent, Add, SetActivityState, TableGrows
  <2>3. QED BY <1>5, <2>1, <2>2
<1>10. CASE UNCHANGED followVars
  BY <1>1, <1>5, <1>10 DEF followVars, activities, TableGrows
<1>11. QED BY <1>2, <1>3, <1>4, <1>6, <1>7, <1>8, <1>9, <1>10 DEF FollowNext, Quietly

LEMMA ListsHold ==
    ASSUME FollowTypeOK, UsedOK, ListOK, [FollowNext]_followVars
    PROVE  ListTypes' /\ InvalidOK' /\ ListOK'
<1>1. /\ TableTypes /\ InvalidOK /\ ListTypes /\ ListOK /\ known \subseteq used
      /\ used \subseteq used' /\ "main" \in Thread /\ "dbus" \in Thread
  BY FollowTypes, GrowsInAStep DEF UsedOK, TableGrows, Thread
<1> DEFINE Lists == /\ sorted \in Listing /\ copy \in [Thread -> SUBSET Listing]
                    /\ updating \in [Thread -> 0..2]
                    /\ sorted.all \subseteq used
                    /\ \A t \in Thread : \A l \in copy[t] : l.all \subseteq used
                    /\ \A t \in Thread : copy[t] # {} => updating[t] > 0
           Checks == /\ checked \in [Thread -> SUBSET Checked]
                     /\ \A t \in Thread : \A c \in checked[t] : c.act \in used
                     /\ \A t \in Thread : \A c, d \in checked[t] : c = d
<1>2. Lists' /\ Checks' => ListTypes' /\ ListOK'
  BY DEF ListTypes, ListOK
<1>3. Lists /\ Checks
  BY <1>1 DEF ListTypes, ListOK
<1>4. UNCHANGED <<sorted, copy, updating>> => Lists'
  BY <1>1, <1>3
<1>5. UNCHANGED checked => Checks'
  BY <1>1, <1>3
<1>6. UNCHANGED <<known, state, checked>> => InvalidOK'
  BY <1>1 DEF InvalidOK
<1>7. ASSUME NEW t \in Thread, NEW n \in 0..2, updating[t] = 0, UNCHANGED <<sorted, copy>>,
             updating' = [updating EXCEPT ![t] = n]
      PROVE  Lists'
  <2>1. updating' \in [Thread -> 0..2] /\ \A u \in Thread : u # t => updating'[u] = updating[u]
    BY <1>3, <1>7
  <2>2. copy[t] = {}
    BY <1>3, <1>7
  <2>3. QED BY <1>1, <1>3, <1>7, <2>1, <2>2
<1>8. \A c : Updates(c) \in {0, 1}
  BY DEF Updates
<1>9. CASE \/ InitShortcuts \/ InitRunner \/ InitDesktops \/ HearNext
           \/ (\E a \in Activity : EmitAgain(a)) \/ (\E t \in Thread : Assign(t))
           \/ UNCHANGED followVars
  <2>1. UNCHANGED <<known, state, sorted, copy, updating, checked>>
    BY <1>9 DEF InitShortcuts, InitRunner, InitDesktops, Initialise, HearNext, EmitAgain,
                Assign, followVars, activities, listing
  <2>2. QED BY <1>2, <1>4, <1>5, <1>6, <2>1
<1>10. CASE EmitOnMain \/ EmitOnDBus
  <2>1. UNCHANGED <<known, state, checked>>
    BY <1>10 DEF EmitOnMain, EmitOnDBus, activities
  <2>2. PICK t \in Thread : updating[t] = 0 /\ UpdateAfter(t)
    BY <1>1, <1>10 DEF EmitOnMain, EmitOnDBus, At
  <2>3. PICK n \in 0..2 : updating' = [updating EXCEPT ![t] = n]
    <3>1. 0 \in 0..2 /\ 1 \in 0..2 /\ 2 \in 0..2
      OBVIOUS
    <3>2. \E n \in {0, 1, 2} : updating' = [updating EXCEPT ![t] = n]
      BY <2>2 DEF UpdateAfter
    <3>3. QED BY <3>1, <3>2
  <2>4. Lists'
    BY <1>7, <2>2, <2>3 DEF UpdateAfter
  <2>5. QED BY <1>2, <1>5, <1>6, <2>1, <2>4
<1>11. ASSUME NEW t \in Thread, Copy(t) PROVE ListTypes' /\ InvalidOK' /\ ListOK'
  <2>1. UNCHANGED <<known, used, state, sorted, updating, checked>> /\ updating[t] > 0
    BY <1>11 DEF Copy, activities
  <2>2. PICK l : /\ l = [all |-> known, running |-> {a \in known : IsRunning(a)}]
                 /\ copy' = [copy EXCEPT ![t] = {l}]
    BY <1>11 DEF Copy
  <2>3. l \in Listing /\ l.all \subseteq used
    BY <1>1, <2>2 DEF Listing, TableTypes
  <2>4. /\ copy' \in [Thread -> SUBSET Listing] /\ copy'[t] = {l}
        /\ \A u \in Thread : u # t => copy'[u] = copy[u]
    BY <1>3, <2>2, <2>3
  <2>5. Lists'
    <3> SUFFICES ASSUME NEW u \in Thread
                 PROVE  /\ \A m \in copy'[u] : m.all \subseteq used
                        /\ updating[u] > 0 \/ copy'[u] = {}
      BY <1>3, <2>1, <2>4
    <3>1. CASE u = t
      BY <2>1, <2>3, <2>4, <3>1
    <3>2. CASE u # t
      BY <1>3, <2>4, <3>2
    <3>3. QED BY <3>1, <3>2
  <2>6. QED BY <1>2, <1>5, <1>6, <2>1, <2>5
<1>12. ASSUME NEW t \in Thread, Publish(t) PROVE ListTypes' /\ InvalidOK' /\ ListOK'
  <2>1. UNCHANGED <<known, used, state, checked>>
    BY <1>12 DEF Publish, activities
  <2>2. PICK l \in copy[t] : sorted' = l
    BY <1>12 DEF Publish
  <2>3. l \in Listing /\ l.all \subseteq used /\ updating[t] \in 1..2
    BY <1>3, <2>2
  <2>4. /\ copy' = [copy EXCEPT ![t] = {}]
        /\ updating' = [updating EXCEPT ![t] = updating[t] - 1]
    BY <1>12 DEF Publish
  <2>5. /\ copy' \in [Thread -> SUBSET Listing] /\ copy'[t] = {}
        /\ updating' \in [Thread -> 0..2]
        /\ \A u \in Thread : u # t => copy'[u] = copy[u] /\ updating'[u] = updating[u]
    BY <1>3, <2>3, <2>4
  <2>6. Lists'
    BY <1>3, <2>1, <2>2, <2>3, <2>5
  <2>7. QED BY <1>2, <1>5, <1>6, <2>1, <2>6
<1>13. ASSUME NEW t \in Thread, NEW r, NEW n \in 0..2, Begin(t, r, n)
       PROVE  ListTypes' /\ ListOK'
  <2>1. Lists'
    BY <1>7, <1>13 DEF Begin, Plan
  <2>2. QED BY <1>2, <1>5, <1>13, <2>1 DEF Begin
<1>14. ASSUME NEW t \in Thread, NEW k \in Outcome \cup {"remove"}, NEW a \in known,
              NEW w \in Id, NEW n \in 0..2, Check(t, k, a, w, n)
       PROVE  /\ ListTypes' /\ ListOK' /\ checked[t] = {}
              /\ checked' = [checked EXCEPT ![t] = {[change |-> k, act |-> a, was |-> w]}]
  <2>1. Lists'
    BY <1>7, <1>14 DEF Check, Plan
  <2>2. PICK c : c = [change |-> k, act |-> a, was |-> w]
    OBVIOUS
  <2>3. c \in Checked /\ c.act \in used'
    BY <1>1, <2>2 DEF Checked, TableTypes
  <2>4. checked' = [checked EXCEPT ![t] = {c}] /\ checked[t] = {}
    BY <1>14, <2>2 DEF Check
  <2>5. Checks'
    BY <1>1, <1>3, <2>3, <2>4
  <2>6. QED BY <1>2, <2>1, <2>2, <2>4, <2>5
<1>15. ASSUME NEW t \in Thread, NEW r, Plan(t, r), UNCHANGED updating,
              checked' = [checked EXCEPT ![t] = {}],
              \/ sorted' = sorted
              \/ \E a \in Activity : sorted' = [all |-> sorted.all \ {a},
                                              running |-> sorted.running \ {a}]
       PROVE  ListTypes' /\ ListOK'
  <2>1. Checks'
    BY <1>1, <1>3, <1>15
  <2>2. sorted' \in Listing /\ sorted'.all \subseteq used'
    BY <1>1, <1>3, <1>15 DEF Listing
  <2>3. Lists'
    BY <1>1, <1>3, <1>15, <2>2 DEF Plan
  <2>4. QED BY <1>2, <2>1, <2>3
<1> HIDE DEF Lists, Checks
<1>16. ASSUME NEW a \in Activity, NEW t \in Thread, Add(t, a)
       PROVE  ListTypes' /\ InvalidOK' /\ ListOK'
  <2>0. PICK r : Begin(t, r, 0) /\ 0 \in 0..2
    BY <1>16 DEF Add
  <2>1. ListTypes' /\ ListOK' /\ checked' = checked
    <3>1. checked' = checked
      BY <2>0 DEF Begin
    <3>2. QED BY <1>13, <2>0, <3>1
  <2>2. known' = known \cup {a} /\ state' = [state EXCEPT ![a] = "running"]
    BY <1>16 DEF Add
  <2>3. InvalidOK'
    BY <1>1, <2>1, <2>2 DEF InvalidOK, TableTypes
  <2>4. QED BY <2>1, <2>3
<1>17. ASSUME NEW a \in Activity, Remove(a) PROVE ListTypes' /\ InvalidOK' /\ ListOK'
  <2>1. Updates(Stops(a)) + 1 \in 0..2
    <3>1. Updates(Stops(a)) \in {0, 1}
      BY <1>8
    <3>2. QED BY <3>1
  <2>2. PICK n \in 0..2 : Check("dbus", "remove", a, NoActivity, n)
    BY <1>17, <2>1 DEF Remove
  <2>3. NoActivity \in Id /\ a \in known /\ known' = known
    BY <1>17, SignalIs DEF Remove
  <2>4. /\ ListTypes' /\ ListOK' /\ checked["dbus"] = {}
        /\ checked' = [checked EXCEPT !["dbus"] = {[change |-> "remove", act |-> a, was |-> NoActivity]}]
    BY <1>1, <1>14, <2>2, <2>3
  <2>5. \A b \in known : state[b] # "invalid"
    BY <1>1, <2>4 DEF InvalidOK
  <2>6. \E c \in checked'["dbus"] : c.change = "remove" /\ c.act = a
    BY <1>1, <2>4 DEF ListTypes
  <2>7. state' = [state EXCEPT ![a] = "invalid"]
    BY <1>17 DEF Remove
  <2>8. InvalidOK'
    BY <1>1, <2>3, <2>5, <2>6, <2>7 DEF InvalidOK, TableTypes
  <2>9. QED BY <2>4, <2>8
<1>18. ASSUME NEW a \in Activity, NEW k \in Outcome, SessionStateChanged(a, k)
       PROVE  ListTypes' /\ InvalidOK' /\ ListOK'
  <2>1. Check("main", k, a, current, 0) /\ UNCHANGED <<known, state>> /\ a \in known
    BY <1>18 DEF SessionStateChanged, activities
  <2>2. current \in Id /\ 0 \in 0..2 /\ k \in Outcome \cup {"remove"}
    BY <1>1 DEF TableTypes
  <2>3. PICK c : /\ ListTypes' /\ ListOK'
                 /\ checked' = [checked EXCEPT !["main"] = {c}]
    BY <1>1, <1>14, <2>1, <2>2
  <2>4. checked'["dbus"] = checked["dbus"]
    BY <1>1, <2>3 DEF ListTypes
  <2>5. InvalidOK'
    BY <1>1, <2>1, <2>4 DEF InvalidOK
  <2>6. QED BY <2>3, <2>5
<1>19. ASSUME NEW a \in Activity, Erase(a) PROVE ListTypes' /\ InvalidOK' /\ ListOK'
  <2>1. ListTypes' /\ ListOK'
    BY <1>1, <1>15, <1>19 DEF Erase
  <2>2. PICK c \in checked["dbus"] : c.act = a
    BY <1>19 DEF Erase
  <2>3. \A b \in known : state[b] = "invalid" => b = a
    BY <1>1, <2>2 DEF InvalidOK, ListOK
  <2>4. known' = known \ {a} /\ state' = [state EXCEPT ![a] = "invalid"]
    BY <1>19 DEF Erase
  <2>5. InvalidOK'
    BY <1>1, <2>3, <2>4 DEF InvalidOK, TableTypes
  <2>6. QED BY <2>1, <2>5
<1>20. ASSUME NEW a \in Activity, NEW k \in Outcome, SetActivityState(a, k)
       PROVE  ListTypes' /\ InvalidOK' /\ ListOK'
  <2>1. ListTypes' /\ ListOK'
    BY <1>1, <1>15, <1>20 DEF SetActivityState
  <2>2. /\ known' = known \cup {a} /\ state' = [state EXCEPT ![a] = k] /\ k # "invalid"
        /\ checked' = [checked EXCEPT !["main"] = {}]
    BY <1>20 DEF SetActivityState, Outcome
  <2>3. checked'["dbus"] = checked["dbus"]
    BY <1>1, <2>2 DEF ListTypes
  <2>4. InvalidOK'
    BY <1>1, <2>2, <2>3 DEF InvalidOK, TableTypes
  <2>5. QED BY <2>1, <2>4
<1>21. ASSUME NEW a, UNCHANGED <<known, checked>>, state' = Woken(a) PROVE InvalidOK'
  <2>1. \A b \in known : state'[b] = "invalid" => state[b] = "invalid"
    BY <1>1, <1>21 DEF TableTypes, Woken
  <2>2. QED BY <1>1, <1>21, <2>1 DEF InvalidOK
<1>22. ASSUME NEW a \in Activity, SetCurrent(a) PROVE ListTypes' /\ InvalidOK' /\ ListOK'
  <2>1. PICK n \in {0, 1} : Begin("dbus", Switch(a), n)
    BY <1>8, <1>22 DEF SetCurrent
  <2>2. ListTypes' /\ ListOK' /\ checked' = checked
    <3>1. checked' = checked /\ n \in 0..2
      BY <2>1 DEF Begin
    <3>2. QED BY <1>1, <1>13, <2>1, <3>1
  <2>3. InvalidOK'
    BY <1>21, <1>22, <2>2 DEF SetCurrent
  <2>4. QED BY <2>2, <2>3
<1>23. ASSUME NEW a \in Activity, StartOrStop(a) PROVE ListTypes' /\ InvalidOK' /\ ListOK'
  <2>1. Begin("dbus", <<>>, 1) /\ known' = known /\ state' = [state EXCEPT ![a] = "transition"]
    BY <1>23 DEF StartOrStop
  <2>2. ListTypes' /\ ListOK' /\ checked' = checked
    <3>1. checked' = checked /\ 1 \in 0..2
      BY <2>1 DEF Begin
    <3>2. QED BY <1>1, <1>13, <2>1, <3>1
  <2>3. InvalidOK'
    BY <1>1, <2>1, <2>2 DEF InvalidOK, TableTypes
  <2>4. QED BY <2>2, <2>3
<1>24. ASSUME NEW t \in Thread, Ensure(t) PROVE ListTypes' /\ InvalidOK' /\ ListOK'
  <2>1. UNCHANGED <<known, sorted, copy, checked>> /\ updating[t] = 0
    BY <1>24 DEF Ensure, At
  <2>2. CASE UNCHANGED <<state, updating>>
    BY <1>2, <1>4, <1>5, <1>6, <2>1, <2>2
  <2>3. CASE \E a \in sorted.running \cap known :
               state' = Woken(a) /\ updating' = [updating EXCEPT ![t] = Updates(IsStopped(a))]
    <3>0. PICK a \in sorted.running \cap known :
             state' = Woken(a) /\ updating' = [updating EXCEPT ![t] = Updates(IsStopped(a))]
      BY <2>3
    <3>1. PICK n \in 0..2 : n = Updates(IsStopped(a))
      BY <1>8
    <3>2. Lists'
      BY <1>7, <2>1, <3>0, <3>1
    <3>3. QED BY <1>2, <1>5, <1>21, <2>1, <3>0, <3>2
  <2>4. QED BY <1>24, <2>2, <2>3 DEF Ensure
<1>25. QED
  BY <1>9, <1>10, <1>11, <1>12, <1>16, <1>17, <1>18, <1>19, <1>20, <1>22, <1>23, <1>24
  DEF FollowNext

LEMMA TellTypes ==
    ASSUME FollowTypeOK, NEW s \in SignalSet, NEW to, Tell(s, to),
           s.kind \in {"added", "removed"} => s.act \in Activity
    PROVE  PluginTypes' /\ runs' \in [Id -> Nat]
<1>1. following' \in [{"runner", "desktops"} -> Id]
  BY TellFollowing
<1>2. activated' \subseteq Id /\ previous' \subseteq Id /\ runs' \in [Id -> Nat]
  BY TellRunner
<1>3. shortcuts \subseteq Activity /\ entries \subseteq Id /\ following["desktops"] \in Id
  BY DEF FollowTypeOK
<1>4. shortcuts' \subseteq Activity
  <2>1. CASE "shortcuts" \in to /\ s.kind = "added"
    BY <1>3, <2>1, TellShortcuts
  <2>2. CASE "shortcuts" \in to /\ s.kind = "removed"
    BY <1>3, <2>2, TellShortcuts
  <2>3. CASE "shortcuts" \notin to \/ s.kind \notin {"added", "removed"}
    BY <1>3, <2>3, TellShortcuts
  <2>4. QED BY <2>1, <2>2, <2>3
<1>5. entries' \subseteq Id
  BY <1>3, TellDesktops
<1>6. QED BY <1>1, <1>2, <1>4, <1>5 DEF PluginTypes

(* The signals that are told are of activities.                              *)
LEMMA ToldTypes ==
    ASSUME FollowTypeOK, NEW s \in Step, ToldOf(s)
    PROVE  s.kind \in {"added", "removed", "running", "stopped"} => s.act \in Activity
BY DEF FollowTypeOK, ToldOf

LEMMA FollowTypesHold ==
    ASSUME FollowTypeOK, WaysOK, UsedOK, ListOK, [FollowNext]_followVars PROVE FollowTypeOK'
<1>1. TableTypes /\ WayTypes /\ SetupTypes /\ PluginTypes /\ LedgerTypes
  BY FollowTypes
<1> SUFFICES TableTypes' /\ WayTypes' /\ SetupTypes' /\ PluginTypes' /\ LedgerTypes'
  <2>1. (TableTypes /\ InvalidOK /\ ListTypes /\ WayTypes /\ SetupTypes /\ PluginTypes
           /\ LedgerTypes => FollowTypeOK)'
    BY FollowTypes, PTL
  <2>2. QED BY <2>1, ListsHold
<1>2. /\ UNCHANGED activities => TableTypes'
      /\ UNCHANGED ways => WayTypes'
      /\ UNCHANGED <<setup, changes>> => SetupTypes'
      /\ UNCHANGED plugins => PluginTypes'
      /\ UNCHANGED ledger => LedgerTypes'
  BY <1>1 DEF activities, ways, plugins, ledger, TableTypes, WayTypes, SetupTypes,
              PluginTypes, LedgerTypes
<1>3. "main" \in Thread /\ "dbus" \in Thread /\ \A p \in Plugin : setup[p] \in {"new", "half", "ready"}
  BY <1>1 DEF Thread, SetupTypes
<1>4. \A t \in Thread : \A s \in StepsOf(t) : ToldOf(s)
  BY DEF WaysOK, PlansOK, QueueOK
<1>5. CASE InitShortcuts
  <2>1. SetupTypes' /\ UNCHANGED <<activities, ways>>
    BY <1>1, <1>5 DEF InitShortcuts, Initialise, SetupTypes, Plugin
  <2>2. sorted.all \subseteq Activity /\ Mistaken(sorted.all) \subseteq Activity
    BY <1>1, FollowTypes DEF Mistaken, TableTypes, ListTypes, Listing
  <2>3. PluginTypes'
    BY <1>1, <1>5, <2>2 DEF InitShortcuts, PluginTypes, plugins
  <2>4. LedgerTypes'
    BY <1>1, <1>5, <2>2 DEF InitShortcuts, LedgerTypes, ledger
  <2>5. QED BY <1>2, <2>1, <2>3, <2>4
<1>6. CASE InitRunner
  <2>1. SetupTypes'
    BY <1>1, <1>6 DEF InitRunner, Initialise, SetupTypes, Plugin
  <2>2. CASE UNCHANGED <<activities, ways, changes, plugins, ledger>>
    BY <1>2, <2>1, <2>2
  <2>3. CASE /\ Tell(Signal("current", current), {"runner"})
             /\ UNCHANGED <<activities, ways, changes, missed, astray, said>>
    <3>1. PICK s \in SignalSet : s = Signal("current", current) /\ s.kind = "current"
      BY <1>1, SignalIs DEF TableTypes
    <3>2. PluginTypes' /\ runs' \in [Id -> Nat]
      BY <2>3, <3>1, TellTypes
    <3>3. LedgerTypes'
      BY <1>1, <2>3, <3>2 DEF LedgerTypes
    <3>4. QED BY <1>2, <2>1, <2>3, <3>2, <3>3
  <2>4. QED BY <1>6, <2>2, <2>3 DEF InitRunner, Initialise
<1>7. CASE InitDesktops
  <2>1. SetupTypes'
    BY <1>1, <1>7 DEF InitDesktops, Initialise, SetupTypes, Plugin
  <2>2. PluginTypes'
    BY <1>1, <1>7 DEF InitDesktops, PluginTypes, TableTypes, plugins
  <2>3. QED BY <1>2, <1>7, <2>1, <2>2 DEF InitDesktops, Initialise
<1>8. CASE EmitOnMain
  <2>1. PICK s : s = Head(todo["main"])
    OBVIOUS
  <2>2. At("main", Kind) /\ Then("main", <<>>) /\ Tell(s, Plugin) /\ Said(s)
    BY <1>8, <2>1 DEF EmitOnMain
  <2>3. todo' \in [Thread -> Seq(Step)] /\ s \in Step /\ s.kind \in Kind /\ s \in StepsOf("main")
    BY <1>3, <2>1, <2>2, Goes
  <2>4. s \in SignalSet /\ s.act \in Id /\ (s.kind \in {"added", "removed"} => s.act \in Activity)
    BY <1>3, <1>4, <2>3, SignalIs, ToldTypes DEF Step
  <2>5. PluginTypes' /\ runs' \in [Id -> Nat]
    BY <2>2, <2>4, TellTypes
  <2>6. said' \in [Id -> Nat]
    BY <1>1, <2>2, <2>4 DEF Said, LedgerTypes
  <2>7. missed' = missed /\ astray' \subseteq {"runner", "desktops"}
    BY <1>1, <1>8 DEF EmitOnMain, LedgerTypes
  <2>8. UNCHANGED <<activities, again, queue, setup, changes>>
    BY <1>8 DEF EmitOnMain
  <2>9. WayTypes' /\ LedgerTypes'
    BY <1>1, <2>3, <2>5, <2>6, <2>7, <2>8 DEF WayTypes, LedgerTypes
  <2>10. QED BY <1>2, <2>5, <2>8, <2>9
<1>9. CASE EmitOnDBus
  <2>1. PICK s : s = Head(todo["dbus"])
    OBVIOUS
  <2>2. At("dbus", Kind) /\ Then("dbus", <<>>) /\ Post(s)
    BY <1>9, <2>1 DEF EmitOnDBus
  <2>3. todo' \in [Thread -> Seq(Step)] /\ s \in Step /\ s.kind \in Kind /\ s \in StepsOf("dbus")
    BY <1>3, <2>1, <2>2, Goes
  <2>4. s \in SignalSet /\ (s.kind \in {"added", "removed"} => s.act \in Activity)
    BY <1>3, <1>4, <2>3, SignalIs, ToldTypes
  <2>5. /\ queue' \in Seq(Item) /\ said' \in [Id -> Nat]
        /\ missed' \in SUBSET Activity /\ astray' \in SUBSET {"runner", "desktops"}
    BY <2>2, <2>4, PostTypes
  <2>6. again' \subseteq Activity
    BY <1>1, <1>9, <2>1, <2>4 DEF EmitOnDBus, WayTypes
  <2>7. UNCHANGED <<activities, setup, changes, plugins, runs>>
    BY <1>9 DEF EmitOnDBus
  <2>8. WayTypes' /\ LedgerTypes'
    BY <1>1, <2>3, <2>5, <2>6, <2>7 DEF WayTypes, LedgerTypes
  <2>9. QED BY <1>2, <2>7, <2>8
<1>10. ASSUME NEW a \in Activity, EmitAgain(a)
       PROVE  TableTypes' /\ WayTypes' /\ SetupTypes' /\ PluginTypes' /\ LedgerTypes'
  <2>1. PICK s : s = Signal("removed", a)
    OBVIOUS
  <2>2. s \in SignalSet /\ s.act = a
    BY <2>1, SignalIs DEF Kind
  <2>3. Post(s)
    BY <1>10, <2>1 DEF EmitAgain
  <2>4. /\ queue' \in Seq(Item) /\ said' \in [Id -> Nat]
        /\ missed' \in SUBSET Activity /\ astray' \in SUBSET {"runner", "desktops"}
    BY <2>2, <2>3, PostTypes
  <2>5. /\ UNCHANGED <<activities, todo, setup, changes, plugins, runs>>
        /\ again' = again \ {a}
    BY <1>10 DEF EmitAgain
  <2>6. WayTypes' /\ LedgerTypes'
    BY <1>1, <2>4, <2>5 DEF WayTypes, LedgerTypes
  <2>7. QED BY <1>2, <2>5, <2>6
<1>11. CASE HearNext
  <2>1. PICK q : q = Head(queue)
    OBVIOUS
  <2>2. /\ queue # <<>> /\ queue' = Tail(queue) /\ Tell(q.signal, q.to)
        /\ UNCHANGED <<activities, todo, again, setup, changes, missed, astray, said>>
    BY <1>11, <2>1 DEF HearNext
  <2>3. queue' \in Seq(Item) /\ q \in Item /\ q = queue[1] /\ 1 \in Places
    BY <1>1, <2>1, <2>2, QueueShrinks DEF WayTypes
  <2>4. q.signal \in SignalSet /\ ToldOf(q.signal)
    BY <2>3 DEF Item, WaysOK, PlansOK, QueueOK
  <2>5. q.signal.kind \in {"added", "removed"} => q.signal.act \in Activity
    BY <2>4, SignalIs, ToldTypes
  <2>6. PluginTypes' /\ runs' \in [Id -> Nat]
    BY <2>2, <2>4, <2>5, TellTypes
  <2>7. WayTypes' /\ LedgerTypes'
    BY <1>1, <2>2, <2>3, <2>6 DEF WayTypes, LedgerTypes
  <2>8. QED BY <1>2, <2>2, <2>6, <2>7
<1>12. ASSUME NEW t \in Thread, NEW r \in Seq(Step), InTurn(r), Changeless(r), Method(t, r)
       PROVE  WayTypes' /\ PluginTypes' /\ LedgerTypes' /\ UNCHANGED setup
  <2>1. todo' \in [Thread -> Seq(Step)]
    BY <1>12, Begins
  <2>2. UNCHANGED <<again, queue, setup, plugins, ledger>>
    BY <1>12 DEF Method, Plan
  <2>3. QED BY <1>1, <1>2, <2>1, <2>2 DEF WayTypes
<1>13. ASSUME setup' = setup, UNCHANGED changes \/ Change PROVE SetupTypes'
  BY <1>1, <1>13, ChangesAssumption DEF SetupTypes, Change
<1>14. ASSUME NEW a \in Activity, Quietly(a)
       PROVE  TableTypes' /\ WayTypes' /\ SetupTypes' /\ PluginTypes' /\ LedgerTypes'
  <2>1. UNCHANGED <<known, used, revived, current>>
    BY <1>14, QuietlyBegins
  <2>2. TableTypes'
    BY <1>1, <1>14, <2>1
    DEF Quietly, Remove, StartOrStop, SessionStateChanged, activities, TableTypes
  <2>3. Change
    BY <1>14 DEF Quietly, Remove, StartOrStop, SessionStateChanged, Begin, Check
  <2>4. WayTypes' /\ PluginTypes' /\ LedgerTypes' /\ UNCHANGED setup
    BY <1>12, <1>14, QuietlyBegins
  <2>5. QED BY <1>13, <2>2, <2>3, <2>4
<1>15. ASSUME NEW a \in Activity, NEW t \in Thread, Add(t, a)
       PROVE  TableTypes' /\ WayTypes' /\ SetupTypes' /\ PluginTypes' /\ LedgerTypes'
  <2>1. TableTypes' /\ Change
    BY <1>1, <1>15 DEF Add, Begin, TableTypes
  <2>2. QED BY <1>12, <1>13, <1>15, <2>1, AddBegins
<1>16. ASSUME NEW a \in Activity, Erase(a)
       PROVE  TableTypes' /\ WayTypes' /\ SetupTypes' /\ PluginTypes' /\ LedgerTypes'
  <2>1. TableTypes' /\ UNCHANGED changes
    BY <1>1, <1>16 DEF Erase, TableTypes
  <2>2. QED BY <1>3, <1>12, <1>13, <1>16, <2>1, EraseBegins
<1>17. ASSUME NEW a \in Activity, NEW k \in Outcome, SetActivityState(a, k)
       PROVE  TableTypes' /\ WayTypes' /\ SetupTypes' /\ PluginTypes' /\ LedgerTypes'
  <2>1. TableTypes' /\ UNCHANGED changes
    BY <1>1, <1>17 DEF SetActivityState, Outcome, TableTypes
  <2>2. QED BY <1>3, <1>12, <1>13, <1>17, <2>1, SetBegins
<1>24. ASSUME NEW a \in Activity, SetCurrent(a)
       PROVE  TableTypes' /\ WayTypes' /\ SetupTypes' /\ PluginTypes' /\ LedgerTypes'
  <2>1. TableTypes' /\ Change
    BY <1>1, <1>24 DEF SetCurrent, Begin, Woken, TableTypes
  <2>2. QED BY <1>3, <1>12, <1>13, <1>24, <2>1, SetCurrentBegins
<1>18. ASSUME NEW t \in Thread, Ensure(t)
       PROVE  TableTypes' /\ WayTypes' /\ SetupTypes' /\ PluginTypes' /\ LedgerTypes'
  <2>1. todo' \in [Thread -> Seq(Step)]
    BY <1>18, Ensures
  <2>2. UNCHANGED <<known, used, revived, current, again, queue, setup, changes, plugins, ledger>>
    BY <1>18 DEF Ensure
  <2>3. state' = state \/ \E a : state' = Woken(a)
    BY <1>18 DEF Ensure
  <2>4. TableTypes'
    BY <1>1, <2>2, <2>3 DEF TableTypes, Woken
  <2>5. QED BY <1>1, <1>2, <2>1, <2>2, <2>4 DEF WayTypes
<1>19. ASSUME NEW t \in Thread, Assign(t)
       PROVE  TableTypes' /\ WayTypes' /\ SetupTypes' /\ PluginTypes' /\ LedgerTypes'
  <2>1. At(t, {"assign"}) /\ Then(t, <<>>) /\ current' = Head(todo[t]).act
    BY <1>19 DEF Assign
  <2>2. todo' \in [Thread -> Seq(Step)] /\ current' \in Id
    BY <2>1, Goes DEF Step
  <2>3. /\ UNCHANGED <<known, used, revived, state, again, queue, setup, changes, plugins, missed, runs, said>>
        /\ astray' = IF t = "dbus" THEN {} ELSE astray
    BY <1>19 DEF Assign
  <2>4. TableTypes' /\ WayTypes' /\ LedgerTypes'
    BY <1>1, <2>2, <2>3 DEF TableTypes, WayTypes, LedgerTypes
  <2>5. QED BY <1>2, <2>3, <2>4
<1>20. CASE UNCHANGED followVars \/ \E t \in Thread : Copy(t) \/ Publish(t)
  BY <1>2, <1>20 DEF followVars, Copy, Publish
<1>21. QED
  BY <1>5, <1>6, <1>7, <1>8, <1>9, <1>10, <1>11, <1>14, <1>15, <1>16, <1>17, <1>18,
     <1>19, <1>20, <1>24 DEF FollowNext, Quietly

-----------------------------------------------------------------------------
(* Ids are of activities that were, and signals are of the right ones.       *)

LEMMA TellUsed ==
    ASSUME FollowTypeOK, UsedOK, NEW s \in SignalSet, ToldOf(s), NEW to, Tell(s, to)
    PROVE  /\ \A p \in {"runner", "desktops"} : following'[p] \in Used
           /\ entries' \subseteq Used /\ shortcuts' \subseteq used
<1>1. \A p \in {"runner", "desktops"} : following'[p] \in Used
  BY TellFollowing DEF UsedOK, ToldOf
<1>2. entries' \subseteq Used
  BY TellDesktops DEF UsedOK
<1>3. shortcuts' \subseteq used
  <2>1. CASE "shortcuts" \in to /\ s.kind = "added"
    BY <2>1, TellShortcuts DEF UsedOK, ToldOf
  <2>2. CASE "shortcuts" \in to /\ s.kind = "removed"
    BY <2>2, TellShortcuts DEF UsedOK
  <2>3. CASE "shortcuts" \notin to \/ s.kind \notin {"added", "removed"}
    BY <2>3, TellShortcuts DEF UsedOK
  <2>4. QED BY <2>1, <2>2, <2>3
<1>4. QED BY <1>1, <1>2, <1>3

LEMMA UsedHolds ==
    ASSUME FollowTypeOK, WaysOK, UsedOK, ListOK, [FollowNext]_followVars PROVE UsedOK'
<1>1. TableGrows
  BY GrowsInAStep
<1>2. /\ known \subseteq used /\ current \in Used /\ NoActivity \in Used
      /\ \A p \in {"runner", "desktops"} : following[p] \in Used
      /\ entries \subseteq Used /\ shortcuts \subseteq used
      /\ following \in [{"runner", "desktops"} -> Id]
  BY DEF FollowTypeOK, UsedOK, Used
<1>3. Used \subseteq Used'
  BY <1>1 DEF TableGrows, Used
<1>4. UNCHANGED plugins => /\ \A p \in {"runner", "desktops"} : following'[p] \in Used'
                           /\ entries' \subseteq Used' /\ shortcuts' \subseteq used'
  BY <1>1, <1>2, <1>3 DEF plugins, TableGrows
<1>5. UNCHANGED current => current' \in Used'
  BY <1>2, <1>3
<1>6. UNCHANGED <<known, used>> => known' \subseteq used' /\ Used' = Used
  BY <1>2 DEF Used
<1>7. CASE InitShortcuts \/ InitDesktops
  <2>1. UNCHANGED activities /\ following' \in [{"runner", "desktops"} -> Id]
    <3>1. following \in [{"runner", "desktops"} -> Id] /\ current \in Id
      BY DEF FollowTypeOK
    <3>2. UNCHANGED activities
      BY <1>7 DEF InitShortcuts, InitDesktops, Initialise
    <3>3. following' = following \/ following' = [following EXCEPT !["desktops"] = current]
      BY <1>7 DEF InitShortcuts, InitDesktops, plugins
    <3>4. QED BY <3>1, <3>2, <3>3
  <2>2. entries' = entries /\ shortcuts' \subseteq used
    BY <1>2, <1>7 DEF InitShortcuts, InitDesktops, plugins, ListOK
  <2>3. \A p \in {"runner", "desktops"} : following'[p] \in {following[p], current}
    BY <1>2, <1>7 DEF InitShortcuts, InitDesktops, plugins
  <2>4. QED BY <1>2, <1>5, <1>6, <2>1, <2>2, <2>3 DEF activities, UsedOK
<1>8. CASE InitRunner
  <2>1. UNCHANGED <<known, used, current>>
    BY <1>8 DEF InitRunner, Initialise, activities
  <2>2. CASE UNCHANGED plugins
    BY <1>4, <1>5, <1>6, <2>1, <2>2 DEF UsedOK
  <2>3. CASE Tell(Signal("current", current), {"runner"})
    <3>1. PICK s \in SignalSet : s = Signal("current", current) /\ s.kind = "current" /\ s.act = current
      BY SignalIs DEF FollowTypeOK
    <3>2. ToldOf(s)
      BY <1>2, <3>1 DEF ToldOf
    <3>3. /\ \A p \in {"runner", "desktops"} : following'[p] \in Used
          /\ entries' \subseteq Used /\ shortcuts' \subseteq used
      BY <2>3, <3>1, <3>2, TellUsed
    <3>4. QED BY <1>5, <1>6, <2>1, <3>3 DEF UsedOK
  <2>4. QED BY <1>8, <2>2, <2>3 DEF InitRunner
<1>9. CASE EmitOnMain
  <2>1. PICK s : s = Head(todo["main"])
    OBVIOUS
  <2>2. At("main", Kind) /\ Then("main", <<>>) /\ Tell(s, Plugin) /\ UNCHANGED activities
    BY <1>9, <2>1 DEF EmitOnMain
  <2>3. s \in Step /\ s.kind \in Kind /\ s \in StepsOf("main")
    BY <2>1, <2>2, Goes DEF Thread
  <2>4. s \in SignalSet /\ ToldOf(s)
    BY <2>3, SignalIs DEF WaysOK, PlansOK, Thread
  <2>5. /\ \A p \in {"runner", "desktops"} : following'[p] \in Used
        /\ entries' \subseteq Used /\ shortcuts' \subseteq used
    BY <2>2, <2>4, TellUsed
  <2>6. QED BY <1>5, <1>6, <2>2, <2>5 DEF UsedOK, activities
<1>10. CASE HearNext
  <2>1. PICK q : q = Head(queue)
    OBVIOUS
  <2>2. queue # <<>> /\ queue' = Tail(queue) /\ Tell(q.signal, q.to) /\ UNCHANGED activities
    BY <1>10, <2>1 DEF HearNext
  <2>3. q \in Item /\ q = queue[1] /\ 1 \in Places
    BY <2>1, <2>2, QueueShrinks, FollowTypes DEF WayTypes
  <2>4. q.signal \in SignalSet /\ ToldOf(q.signal)
    BY <2>3 DEF Item, WaysOK, QueueOK
  <2>5. /\ \A p \in {"runner", "desktops"} : following'[p] \in Used
        /\ entries' \subseteq Used /\ shortcuts' \subseteq used
    BY <2>2, <2>4, TellUsed
  <2>6. QED BY <1>5, <1>6, <2>2, <2>5 DEF UsedOK, activities
<1>11. CASE EmitOnDBus \/ \E a \in Activity : EmitAgain(a)
  <2>1. UNCHANGED <<activities, plugins>>
    BY <1>11 DEF EmitOnDBus, EmitAgain
  <2>2. QED BY <1>4, <1>5, <1>6, <2>1 DEF UsedOK, activities
<1>12. CASE \E a \in Activity : Quietly(a)
  <2>1. UNCHANGED <<plugins, known, used, current>>
    BY <1>12, QuietlyBegins DEF Method, Plan
  <2>2. QED BY <1>4, <1>5, <1>6, <2>1 DEF UsedOK
<1>13. CASE \E a \in Activity : \/ Erase(a) \/ SetCurrent(a) \/ \E t \in Thread : Add(t, a)
                                \/ \E k \in Outcome : SetActivityState(a, k)
  <2>1. UNCHANGED <<plugins, current>>
    BY <1>13 DEF Erase, SetCurrent, Add, SetActivityState, Begin, Plan
  <2>2. \A c \in checked["main"] : c.act \in used
    BY DEF ListOK, Thread
  <2>3. known' \subseteq used'
    <3>1. CASE \E a \in Activity : Erase(a) \/ SetCurrent(a)
      BY <1>2, <3>1 DEF Erase, SetCurrent
    <3>2. CASE \E a \in Activity : \E t \in Thread : Add(t, a)
      BY <1>2, <3>2 DEF Add
    <3>3. CASE \E a \in Activity : \E k \in Outcome : SetActivityState(a, k)
      <4>1. PICK a \in Activity : /\ \E c \in checked["main"] : c.act = a
                                 /\ known' = known \cup {a} /\ used' = used
        BY <3>3 DEF SetActivityState
      <4>2. QED BY <1>2, <2>2, <4>1
    <3>4. QED BY <1>13, <3>1, <3>2, <3>3
  <2>4. QED BY <1>4, <1>5, <2>1, <2>3 DEF UsedOK
<1>14. ASSUME NEW t \in Thread, Assign(t) PROVE UsedOK'
  <2>1. At(t, {"assign"}) /\ Then(t, <<>>) /\ current' = Head(todo[t]).act
    BY <1>14 DEF Assign
  <2>2. UNCHANGED <<known, used, plugins>>
    BY <1>14 DEF Assign
  <2>3. PICK s : s = Head(todo[t])
    OBVIOUS
  <2>4. s \in StepsOf(t) /\ s.kind = "assign"
    BY <2>1, <2>3, Goes
  <2>5. s.act \in Used
    BY <2>4 DEF WaysOK, PlansOK, ToldOf
  <2>6. QED BY <1>4, <1>6, <2>1, <2>2, <2>3, <2>5 DEF UsedOK
<1>15. CASE \E t \in Thread : Copy(t) \/ Publish(t) \/ Ensure(t)
  <2>1. UNCHANGED <<known, used, current, plugins>>
    BY <1>15 DEF Copy, Publish, Ensure, activities
  <2>2. QED BY <1>4, <1>5, <1>6, <2>1 DEF UsedOK
<1>16. CASE UNCHANGED followVars
  BY <1>4, <1>5, <1>6, <1>16 DEF UsedOK, followVars, activities
<1>17. QED
  BY <1>7, <1>8, <1>9, <1>10, <1>11, <1>12, <1>13, <1>14, <1>15, <1>16 DEF FollowNext, Quietly

LEMMA ToldStays ==
    ASSUME TableGrows PROVE \A s : ToldOf(s) => ToldOf(s)'
BY DEF TableGrows, ToldOf, Used, Gone

LEMMA PlansStay ==
    ASSUME PlansOK, TableGrows, \A u \in Thread : InTurn(todo'[u]),
           \A u \in Thread : \A s \in StepsOf(u)' :
              \/ s \in StepsOf(u)
              \/ /\ ToldOf(s)' /\ (u = "main" => s.kind # "removed")
                 /\ (u = "dbus" /\ s.kind = "added" => s.act \in known'),
           \A s \in StepsOf("dbus")' : s \in StepsOf("dbus") /\ s.kind = "added" /\ s.act \in known =>
                                         s.act \in known',
           Ready' \/ todo'["main"] = <<>>
    PROVE  PlansOK'
<1>1. \A s : ToldOf(s) => ToldOf(s)'
  BY ToldStays
<1>2. "main" \in Thread /\ "dbus" \in Thread
  BY DEF Thread
<1>3. \A t \in Thread : \A s \in StepsOf(t)' : ToldOf(s)'
  BY <1>1 DEF PlansOK
<1>4. \A s \in StepsOf("main")' : s.kind # "removed"
  BY <1>2 DEF PlansOK
<1>5. \A s \in StepsOf("dbus")' : s.kind = "added" => s.act \in known'
  BY <1>2 DEF PlansOK
<1>6. QED BY <1>3, <1>4, <1>5 DEF PlansOK

LEMMA QueueStays ==
    ASSUME QueueOK, TableGrows, SetupGrows, UNCHANGED queue, queue \in Seq(Item) PROVE QueueOK'
<1> SUFFICES ASSUME NEW i \in Places'
             PROVE  /\ ToldOf(queue[i].signal)'
                    /\ \A p \in queue'[i].to : Listens(p)' /\ queue'[i].signal.kind \in Wants(p)
  BY DEF QueueOK
<1>1. Places' = Places
  BY DEF Places
<1>2. PICK q : q = queue[i] /\ q = queue'[i] /\ q.to \subseteq Plugin
  <2>1. queue[i] \in Item
    BY <1>1 DEF Places
  <2>2. queue[i].to \subseteq Plugin /\ queue'[i] = queue[i]
    BY <2>1 DEF Item
  <2>3. QED BY <2>2
<1>3. /\ ToldOf(q.signal)
      /\ \A p \in q.to : Listens(p) /\ q.signal.kind \in Wants(p)
  BY <1>1, <1>2 DEF QueueOK
<1>4. ToldOf(q.signal)' /\ \A p \in q.to : Listens(p)'
  BY <1>2, <1>3, ToldStays DEF SetupGrows
<1>5. QED BY <1>2, <1>3, <1>4 DEF ToldOf, Used, Gone

LEMMA QueueGets ==
    ASSUME FollowTypeOK, QueueOK, NEW s \in SignalSet, ToldOf(s), Post(s),
           UNCHANGED <<activities, setup>>
    PROVE  QueueOK'
<1>1. PICK q \in Item :
        /\ q.signal = s
        /\ \A p \in Plugin : p \in q.to <=> Listens(p) /\ s.kind \in Wants(p)
        /\ Places \subseteq Places' /\ \A i \in Places : queue'[i] = queue[i]
        /\ \A i \in Places' : i \in Places \/ queue'[i] = q
  BY Posts
<1>2. q.to \subseteq Plugin
  BY DEF Item
<1>3. \A p : Listens(p)' <=> Listens(p)
  BY DEF Listens
<1>4. \A e : ToldOf(e) => ToldOf(e)'
  BY DEF ToldOf, Used, Gone, activities
<1> SUFFICES ASSUME NEW i \in Places'
             PROVE  /\ ToldOf(queue[i].signal)'
                    /\ \A p \in queue'[i].to : Listens(p)' /\ queue'[i].signal.kind \in Wants(p)
  BY DEF QueueOK
<1>5. PICK e : e = queue'[i]
  OBVIOUS
<1>6. ToldOf(e.signal) /\ \A p \in e.to : Listens(p) /\ e.signal.kind \in Wants(p)
  <2>1. CASE i \in Places
    BY <1>1, <1>5, <2>1 DEF QueueOK
  <2>2. CASE i \notin Places
    <3>1. e = q
      BY <1>1, <1>5, <2>2
    <3>2. QED BY <1>1, <1>2, <3>1
  <2>3. QED BY <2>1, <2>2
<1>7. ToldOf(e.signal)' /\ \A p \in e.to : Listens(p)'
  BY <1>3, <1>4, <1>6
<1>8. QED BY <1>5, <1>6, <1>7 DEF ToldOf, Used, Gone

LEMMA QueueLoses ==
    ASSUME queue \in Seq(Item), QueueOK, queue # <<>>, queue' = Tail(queue),
           UNCHANGED <<activities, setup>>
    PROVE  QueueOK'
<1>1. \A i \in Places' : i + 1 \in Places /\ queue'[i] = queue[i + 1]
  BY QueueShrinks
<1>2. \A p : Listens(p)' <=> Listens(p)
  BY DEF Listens
<1>3. \A e : ToldOf(e) => ToldOf(e)'
  BY DEF ToldOf, Used, Gone, activities
<1> SUFFICES ASSUME NEW i \in Places'
             PROVE  /\ ToldOf(queue[i].signal)'
                    /\ \A p \in queue'[i].to : Listens(p)' /\ queue'[i].signal.kind \in Wants(p)
  BY DEF QueueOK
<1>4. PICK e : e = queue'[i]
  OBVIOUS
<1>5. ToldOf(e.signal) /\ \A p \in e.to : Listens(p) /\ e.signal.kind \in Wants(p)
  BY <1>1, <1>4 DEF QueueOK
<1>6. ToldOf(e.signal)' /\ \A p \in e.to : Listens(p)'
  BY <1>2, <1>3, <1>5
<1>7. QED BY <1>4, <1>5, <1>6 DEF ToldOf, Used, Gone

LEMMA WaysHold ==
    ASSUME FollowTypeOK, WaysOK, UsedOK, ListOK, [FollowNext]_followVars PROVE WaysOK'
<1>1. TableGrows /\ SetupGrows /\ (Ready => Ready' /\ setup' = setup)
  BY GrowsInAStep
<1>2. /\ PlansOK /\ QueueOK /\ again \subseteq Gone /\ queue \in Seq(Item)
      /\ known \subseteq used /\ (Ready \/ todo["main"] = <<>>)
  BY FollowTypes DEF WaysOK, PlansOK, WayTypes, UsedOK
<1>3. "main" \in Thread /\ "dbus" \in Thread /\ \A t \in Thread : t = "main" \/ t = "dbus"
  BY DEF Thread
<1>4. UNCHANGED queue => QueueOK'
  BY <1>1, <1>2, QueueStays
<1>5. UNCHANGED again => again' \subseteq Gone'
  BY <1>1, <1>2 DEF TableGrows, Gone
<1>6. ASSUME UNCHANGED todo, known' = known PROVE PlansOK'
  <2>1. \A u \in Thread : InTurn(todo'[u]) /\ StepsOf(u)' = StepsOf(u)
    BY <1>2, <1>6 DEF PlansOK, StepsOf
  <2>2. Ready' \/ todo'["main"] = <<>>
    BY <1>1, <1>2, <1>6
  <2>3. QED BY <1>1, <1>2, <1>3, <1>6, <2>1, <2>2, PlansStay
<1>7. CASE \/ InitShortcuts \/ InitRunner \/ InitDesktops \/ UNCHANGED followVars
           \/ \E t \in Thread : Copy(t) \/ Publish(t)
  <2>1. UNCHANGED <<todo, again, queue, known>>
    BY <1>7 DEF InitShortcuts, InitRunner, InitDesktops, Initialise, Copy, Publish, followVars,
                ways, activities
  <2>2. QED BY <1>4, <1>5, <1>6, <2>1 DEF WaysOK
<1>8. ASSUME NEW t \in Thread, At(t, Kind), Then(t, <<>>), UNCHANGED activities
      PROVE  /\ PlansOK'
             /\ \E s \in SignalSet : s = Head(todo[t]) /\ s \in StepsOf(t) /\ ToldOf(s)
  <2>1. /\ \A u \in Thread : u # t => todo'[u] = todo[u]
        /\ \A u \in Thread : InTurn(todo'[u])
        /\ Head(todo[t]) \in Step /\ Head(todo[t]).kind \in Kind
        /\ StepsOf(t) = {Head(todo[t])} \cup StepsOf(t)'
    BY <1>8, Goes
  <2>2. \A u \in Thread : StepsOf(u)' \subseteq StepsOf(u)
    BY <2>1 DEF StepsOf
  <2>3. t = "main" => Ready
    BY <1>8 DEF At
  <2>4. Ready' \/ todo'["main"] = <<>>
    BY <1>1, <1>2, <1>3, <2>1, <2>3
  <2>5. known' = known
    BY <1>8 DEF activities
  <2>6. PlansOK'
    BY <1>1, <1>2, <2>1, <2>2, <2>4, <2>5, PlansStay
  <2>7. PICK s : s = Head(todo[t])
    OBVIOUS
  <2>8. s \in StepsOf(t) /\ s \in SignalSet
    BY <2>1, <2>7, SignalIs
  <2>9. ToldOf(s)
    BY <1>2, <2>8 DEF PlansOK
  <2>10. QED BY <2>6, <2>7, <2>8, <2>9
<1>9. CASE EmitOnMain
  <2>1. At("main", Kind) /\ Then("main", <<>>) /\ UNCHANGED <<activities, again, queue>>
    BY <1>9 DEF EmitOnMain
  <2>2. QED BY <1>3, <1>4, <1>5, <1>8, <2>1 DEF WaysOK
<1>10. CASE EmitOnDBus
  <2>1. /\ At("dbus", Kind) /\ Then("dbus", <<>>) /\ UNCHANGED <<activities, setup>>
        /\ Post(Head(todo["dbus"]))
    BY <1>10 DEF EmitOnDBus
  <2>2. PlansOK'
    BY <1>3, <1>8, <2>1
  <2>3. PICK s \in SignalSet : s = Head(todo["dbus"]) /\ s \in StepsOf("dbus") /\ ToldOf(s)
    BY <1>3, <1>8, <2>1
  <2>4. QueueOK'
    BY <1>2, <2>1, <2>3, QueueGets
  <2>5. again' = again \cup {e.act : e \in {q \in {s} : q.kind = "removed"}}
    BY <1>10, <2>3 DEF EmitOnDBus
  <2>6. s.kind = "removed" => s.act \in Gone
    BY <2>3 DEF ToldOf
  <2>7. again' \subseteq Gone
    BY <1>2, <2>5, <2>6
  <2>8. QED BY <2>1, <2>2, <2>4, <2>7 DEF WaysOK, Gone, activities
<1>11. ASSUME NEW a \in Activity, EmitAgain(a) PROVE WaysOK'
  <2>1. /\ a \in again /\ again' = again \ {a} /\ UNCHANGED <<activities, todo, setup>>
        /\ Post(Signal("removed", a))
    BY <1>11 DEF EmitAgain
  <2>2. PICK s \in SignalSet : s = Signal("removed", a) /\ s.kind = "removed" /\ s.act = a
    BY SignalIs DEF Kind
  <2>3. ToldOf(s)
    BY <1>2, <2>1, <2>2 DEF ToldOf, Gone
  <2>4. QueueOK'
    BY <1>2, <2>1, <2>2, <2>3, QueueGets
  <2>5. PlansOK'
    BY <1>6, <2>1 DEF activities
  <2>6. again' \subseteq Gone'
    BY <1>2, <2>1 DEF activities, Gone
  <2>7. QED BY <2>4, <2>5, <2>6 DEF WaysOK
<1>12. CASE HearNext
  <2>1. queue # <<>> /\ queue' = Tail(queue) /\ UNCHANGED <<activities, todo, again, setup>>
    BY <1>12 DEF HearNext
  <2>2. QueueOK'
    BY <1>2, <2>1, QueueLoses
  <2>3. QED BY <1>5, <1>6, <2>1, <2>2 DEF WaysOK, activities
<1>13. ASSUME NEW t \in Thread, NEW r \in Seq(Step), InTurn(r), Changeless(r), Method(t, r),
              \A s \in StepsIn(r) : /\ ToldOf(s)' /\ (t = "main" => s.kind # "removed")
                                    /\ (t = "dbus" /\ s.kind = "added" => s.act \in known'),
              t = "dbus" \/ known \subseteq known'
       PROVE  WaysOK'
  <2>1. /\ \A u \in Thread : u # t => todo'[u] = todo[u]
        /\ \A u \in Thread : InTurn(todo'[u])
        /\ StepsOf(t) = {} /\ StepsOf(t)' = StepsIn(r)
        /\ t = "main" => Ready
    BY <1>13, Begins
  <2>2. \A u \in Thread : u # t => StepsOf(u)' = StepsOf(u)
    BY <2>1 DEF StepsOf
  <2>3. \A u \in Thread : \A s \in StepsOf(u)' :
           \/ s \in StepsOf(u)
           \/ /\ ToldOf(s)' /\ (u = "main" => s.kind # "removed")
              /\ (u = "dbus" /\ s.kind = "added" => s.act \in known')
    <3> SUFFICES ASSUME NEW u \in Thread, NEW s \in StepsOf(u)', u = t
                 PROVE  /\ ToldOf(s)' /\ (u = "main" => s.kind # "removed")
                        /\ (u = "dbus" /\ s.kind = "added" => s.act \in known')
      BY <2>2
    <3>1. s \in StepsIn(r)
      BY <2>1
    <3>2. QED BY <1>13, <3>1
  <2>4. \A s \in StepsOf("dbus")' : s \in StepsOf("dbus") /\ s.kind = "added" /\ s.act \in known =>
                                      s.act \in known'
    BY <1>13, <2>1
  <2>5. Ready' \/ todo'["main"] = <<>>
    BY <1>1, <1>2, <1>3, <2>1
  <2>6. PlansOK'
    BY <1>1, <1>2, <2>1, <2>3, <2>4, <2>5, PlansStay
  <2>7. UNCHANGED <<again, queue>>
    BY <1>13 DEF Method, Plan
  <2>8. QED BY <1>4, <1>5, <2>6, <2>7 DEF WaysOK
<1>14. ASSUME NEW a \in Activity, Erase(a) PROVE WaysOK'
  <2>1. \A c \in checked["dbus"] : c.act \in used
    BY <1>3 DEF ListOK
  <2>2. a \in used' /\ a \notin known'
    BY <1>14, <2>1 DEF Erase
  <2>3. PICK r \in Seq(Step) :
          /\ InTurn(r) /\ Changeless(r) /\ Method("dbus", r)
          /\ \A s \in StepsIn(r) : s.act = a /\ s.kind \in {"ensure", "removed"}
    BY <1>14, EraseBegins
  <2>4. \A s \in StepsIn(r) : ToldOf(s)' /\ s.kind # "added"
    BY <2>2, <2>3 DEF ToldOf, Gone
  <2>5. QED BY <1>3, <1>13, <2>3, <2>4
<1>15. ASSUME NEW a \in Activity, Quietly(a) PROVE WaysOK'
  <2>1. PICK t \in Thread, r \in Seq(Step) :
          InTurn(r) /\ Changeless(r) /\ Method(t, r) /\ StepsIn(r) = {}
    BY <1>15, QuietlyBegins
  <2>2. known' = known
    BY <1>15, QuietlyBegins
  <2>3. QED BY <1>13, <2>1, <2>2
<1>16. ASSUME NEW a \in Activity, NEW t \in Thread, Add(t, a) PROVE WaysOK'
  <2>1. a \in used' /\ a \in known' /\ known \subseteq known'
    BY <1>16 DEF Add
  <2>2. PICK r \in Seq(Step) :
          /\ InTurn(r) /\ Changeless(r) /\ Method(t, r)
          /\ \A s \in StepsIn(r) : s.act = a /\ s.kind \in {"running", "added", "assign", "current"}
    BY <1>16, AddBegins
  <2>3. \A s \in StepsIn(r) : ToldOf(s)' /\ s.kind # "removed" /\ s.act \in known'
    BY <2>1, <2>2 DEF ToldOf, Used
  <2>4. QED BY <1>13, <2>1, <2>2, <2>3
<1>17. ASSUME NEW a \in Activity, NEW k \in Outcome, SetActivityState(a, k)
       PROVE  WaysOK'
  <2>1. \A c \in checked["main"] : c.act \in used
    BY <1>3 DEF ListOK
  <2>2. a \in used' /\ known \subseteq known'
    BY <1>17, <2>1 DEF SetActivityState
  <2>3. PICK r \in Seq(Step) :
          /\ InTurn(r) /\ Changeless(r) /\ Method("main", r)
          /\ \A s \in StepsIn(r) : s.act = a /\ s.kind \in {"running", "stopped", "ensure"}
    BY <1>17, SetBegins
  <2>4. \A s \in StepsIn(r) : ToldOf(s)' /\ s.kind # "removed" /\ s.kind # "added"
    BY <2>2, <2>3 DEF ToldOf
  <2>5. QED BY <1>3, <1>13, <2>2, <2>3, <2>4
<1>18. ASSUME NEW a \in Activity, SetCurrent(a) PROVE WaysOK'
  <2>1. a \in Used'
    BY <1>2, <1>18 DEF SetCurrent, Used
  <2>2. PICK r \in Seq(Step) :
          /\ InTurn(r) /\ Changeless(r) /\ Method("dbus", r)
          /\ \A s \in StepsIn(r) : s.act = a /\ s.kind \in {"assign", "current"}
    BY <1>18, SetCurrentBegins
  <2>3. \A s \in StepsIn(r) : ToldOf(s)' /\ s.kind # "removed" /\ s.kind # "added"
    BY <2>1, <2>2 DEF ToldOf
  <2>4. QED BY <1>3, <1>13, <2>2, <2>3
<1>19. ASSUME NEW t \in Thread, Ensure(t) PROVE WaysOK'
  <2>1. /\ \A u \in Thread : u # t => todo'[u] = todo[u]
        /\ \A u \in Thread : InTurn(todo'[u])
        /\ \A s \in StepsOf(t)' : \/ s \in StepsOf(t)
                                  \/ s.kind \in {"assign", "current"} /\ s.act \in known
    BY <1>19, Ensures
  <2>2. UNCHANGED <<known, used, again, queue>>
    BY <1>19 DEF Ensure
  <2>3. \A s : s.kind \in {"assign", "current"} /\ s.act \in known => ToldOf(s)'
    BY <1>2, <2>2 DEF ToldOf, Used
  <2>4. \A u \in Thread : u # t => StepsOf(u)' = StepsOf(u)
    BY <2>1 DEF StepsOf
  <2>5. \A u \in Thread : \A s \in StepsOf(u)' :
           \/ s \in StepsOf(u)
           \/ /\ ToldOf(s)' /\ (u = "main" => s.kind # "removed")
              /\ (u = "dbus" /\ s.kind = "added" => s.act \in known')
    BY <2>1, <2>3, <2>4
  <2>6. t = "main" => Ready
    BY <1>19 DEF Ensure, At
  <2>7. Ready' \/ todo'["main"] = <<>>
    BY <1>1, <1>2, <1>3, <2>1, <2>6
  <2>8. PlansOK'
    BY <1>1, <1>2, <2>1, <2>2, <2>5, <2>7, PlansStay
  <2>9. QED BY <1>4, <1>5, <2>2, <2>8 DEF WaysOK
<1>20. ASSUME NEW t \in Thread, Assign(t) PROVE WaysOK'
  <2>1. At(t, {"assign"}) /\ Then(t, <<>>) /\ UNCHANGED <<known, used, again, queue>>
    BY <1>20 DEF Assign
  <2>2. /\ \A u \in Thread : u # t => todo'[u] = todo[u]
        /\ \A u \in Thread : InTurn(todo'[u])
        /\ StepsOf(t) = {Head(todo[t])} \cup StepsOf(t)'
    BY <2>1, Goes
  <2>3. \A u \in Thread : StepsOf(u)' \subseteq StepsOf(u)
    BY <2>2 DEF StepsOf
  <2>4. t = "main" => Ready
    BY <2>1 DEF At
  <2>5. Ready' \/ todo'["main"] = <<>>
    BY <1>1, <1>2, <1>3, <2>2, <2>4
  <2>6. PlansOK'
    BY <1>1, <1>2, <2>1, <2>2, <2>3, <2>5, PlansStay
  <2>7. QED BY <1>4, <1>5, <2>1, <2>6 DEF WaysOK
<1>21. QED
  BY <1>7, <1>9, <1>10, <1>11, <1>12, <1>14, <1>15, <1>16, <1>17, <1>18, <1>19, <1>20
  DEF FollowNext, Quietly

-----------------------------------------------------------------------------
(* The runner.                                                               *)

LEMMA NothingTold ==
    ASSUME FollowTypeOK, RunnerOK, StartsOK,
           UNCHANGED <<queue, activated, previous, runs, said>>,
           following'["runner"] = following["runner"]
    PROVE  RunnerOK' /\ StartsOK'
<1>1. RunnerOK'
  BY DEF RunnerOK
<1>2. \A a : Waits(a)' = Waits(a)
  BY DEF Waits, Places
<1>3. StartsOK'
  BY <1>2 DEF StartsOK
<1>4. QED BY <1>1, <1>3

LEMMA PostedStarts ==
    ASSUME FollowTypeOK, RunnerOK, StartsOK, NEW s \in SignalSet, Post(s),
           UNCHANGED <<plugins, runs>>
    PROVE  RunnerOK' /\ StartsOK'
<1>1. PICK q \in Item :
        /\ \A a : Cardinality(Waits(a)') = Cardinality(Waits(a))
             + (IF s = Signal("running", a) /\ "runner" \in q.to THEN 1 ELSE 0)
        /\ said' = IF "runner" \in q.to /\ s.kind = "running"
                   THEN [said EXCEPT ![s.act] = @ + 1] ELSE said
  BY Posts
<1>2. RunnerOK'
  BY DEF RunnerOK, plugins
<1>3. said \in [Id -> Nat] /\ runs \in [Id -> Nat] /\ queue \in Seq(Item)
  BY FollowTypes DEF LedgerTypes, WayTypes
<1>4. ASSUME NEW a \in Id
      PROVE  runs'[a] + Cardinality(Waits(a)') = said'[a] + (IF a \in previous' THEN 1 ELSE 0)
  <2>1. Cardinality(Waits(a)) \in Nat
    BY <1>3, WaitsAreFinite, FS_CardinalityType
  <2>2. s = Signal("running", a) <=> s.kind = "running" /\ s.act = a
    BY SignalIs DEF SignalSet, Signal
  <2>3. said'[a] = said[a] + (IF s = Signal("running", a) /\ "runner" \in q.to THEN 1 ELSE 0)
    BY <1>1, <1>3, <2>2
  <2>4. runs[a] + Cardinality(Waits(a)) = said[a] + (IF a \in previous THEN 1 ELSE 0)
    BY DEF StartsOK
  <2>5. Cardinality(Waits(a)') = Cardinality(Waits(a))
             + (IF s = Signal("running", a) /\ "runner" \in q.to THEN 1 ELSE 0)
    BY <1>1
  <2>6. runs' = runs /\ previous' = previous /\ runs[a] \in Nat /\ said[a] \in Nat
    BY <1>3 DEF plugins
  <2>7. QED BY <2>1, <2>3, <2>4, <2>5, <2>6
<1>5. QED BY <1>2, <1>4 DEF StartsOK

LEMMA StartsHold ==
    ASSUME FollowTypeOK, WaysOK, RunnerOK, StartsOK, [FollowNext]_followVars
    PROVE  RunnerOK' /\ StartsOK'
<1>1. /\ following \in [{"runner", "desktops"} -> Id] /\ queue \in Seq(Item)
      /\ runs \in [Id -> Nat] /\ said \in [Id -> Nat]
      /\ \A a : Cardinality(Waits(a)) \in Nat
  BY FollowTypes, WaitsAreFinite, FS_CardinalityType DEF PluginTypes, WayTypes, LedgerTypes
<1>2. UNCHANGED <<queue, plugins, runs, said>> => RunnerOK' /\ StartsOK'
  BY NothingTold DEF plugins
<1>3. CASE InitShortcuts \/ InitDesktops
  BY <1>1, <1>3, NothingTold DEF InitShortcuts, InitDesktops, Initialise, ways, plugins, ledger
<1>4. CASE InitRunner
  <2>1. CASE Tell(Signal("current", current), {"runner"}) /\ UNCHANGED <<ways, said>>
    <3>1. PICK s \in SignalSet : s = Signal("current", current) /\ s.kind = "current"
      BY SignalIs DEF FollowTypeOK
    <3>2. /\ RunnerOK'
          /\ \A a \in Id :
               runs'[a] + (IF a \in previous THEN 1 ELSE 0)
                 = runs[a] + (IF a \in previous' THEN 1 ELSE 0)
                     + (IF s = Signal("running", a) /\ "runner" \in {"runner"} THEN 1 ELSE 0)
          /\ runs' \in [Id -> Nat]
      BY <2>1, <3>1, TellRunner
    <3>3. \A a : s # Signal("running", a)
      BY <3>1, SignalIs
    <3>4. \A a : Waits(a)' = Waits(a)
      BY <2>1 DEF Waits, Places, ways
    <3>5. ASSUME NEW a \in Id
          PROVE  runs'[a] + Cardinality(Waits(a)') = said'[a] + (IF a \in previous' THEN 1 ELSE 0)
      <4>1. runs[a] + Cardinality(Waits(a)) = said[a] + (IF a \in previous THEN 1 ELSE 0)
        BY DEF StartsOK
      <4>2. Cardinality(Waits(a)') = Cardinality(Waits(a)) /\ said' = said
        BY <2>1, <3>4
      <4>3. runs'[a] + (IF a \in previous THEN 1 ELSE 0)
              = runs[a] + (IF a \in previous' THEN 1 ELSE 0)
        BY <1>1, <3>2, <3>3
      <4>4. runs'[a] \in Nat /\ runs[a] \in Nat /\ said[a] \in Nat
        BY <1>1, <3>2
      <4>5. PICK w, p, q : /\ w = Cardinality(Waits(a)) /\ w \in Nat
                           /\ p = (IF a \in previous THEN 1 ELSE 0) /\ p \in Nat
                           /\ q = (IF a \in previous' THEN 1 ELSE 0) /\ q \in Nat
        BY <1>1
      <4>6. runs[a] + w = said[a] + p /\ runs'[a] + p = runs[a] + q
        BY <4>1, <4>3, <4>5
      <4>7. runs'[a] + w = said[a] + q
        BY <4>4, <4>5, <4>6
      <4>8. QED BY <4>2, <4>5, <4>7
    <3>6. QED BY <3>2, <3>5 DEF StartsOK
  <2>2. CASE UNCHANGED <<ways, plugins, ledger>>
    BY <1>2, <2>2 DEF ways, ledger
  <2>3. QED BY <1>4, <2>1, <2>2 DEF InitRunner, Initialise
<1>5. CASE EmitOnMain
  <2>1. PICK s : s = Head(todo["main"])
    OBVIOUS
  <2>2. At("main", Kind) /\ Then("main", <<>>) /\ Tell(s, Plugin) /\ Said(s) /\ UNCHANGED queue
    BY <1>5, <2>1 DEF EmitOnMain
  <2>3. s \in SignalSet /\ s.act \in Id
    BY <2>1, <2>2, Goes, SignalIs DEF Thread, Step
  <2>4. /\ RunnerOK'
        /\ \A a \in Id :
             runs'[a] + (IF a \in previous THEN 1 ELSE 0)
               = runs[a] + (IF a \in previous' THEN 1 ELSE 0)
                   + (IF s = Signal("running", a) /\ "runner" \in Plugin THEN 1 ELSE 0)
        /\ runs' \in [Id -> Nat]
    BY <2>2, <2>3, TellRunner
  <2>5. \A a : Waits(a)' = Waits(a)
    BY <2>2 DEF Waits, Places
  <2>6. ASSUME NEW a \in Id
        PROVE  runs'[a] + Cardinality(Waits(a)') = said'[a] + (IF a \in previous' THEN 1 ELSE 0)
    <3>1. runs[a] + Cardinality(Waits(a)) = said[a] + (IF a \in previous THEN 1 ELSE 0)
      BY DEF StartsOK
    <3>2. Cardinality(Waits(a)') = Cardinality(Waits(a))
      BY <2>5
    <3>3. s = Signal("running", a) <=> s.kind = "running" /\ s.act = a
      BY <2>3 DEF SignalSet, Signal
    <3>4. said'[a] = said[a] + (IF s = Signal("running", a) THEN 1 ELSE 0)
      BY <1>1, <2>2, <2>3, <3>3 DEF Said
    <3>5. runs'[a] + (IF a \in previous THEN 1 ELSE 0)
            = runs[a] + (IF a \in previous' THEN 1 ELSE 0)
                + (IF s = Signal("running", a) THEN 1 ELSE 0)
      BY <2>4 DEF Plugin
    <3>6. runs'[a] \in Nat /\ runs[a] \in Nat /\ said[a] \in Nat
      BY <1>1, <2>4
    <3>7. PICK w, p, q, k : /\ w = Cardinality(Waits(a)) /\ w \in Nat
                            /\ p = (IF a \in previous THEN 1 ELSE 0) /\ p \in Nat
                            /\ q = (IF a \in previous' THEN 1 ELSE 0) /\ q \in Nat
                            /\ k = (IF s = Signal("running", a) THEN 1 ELSE 0) /\ k \in Nat
      BY <1>1
    <3>8. /\ runs[a] + w = said[a] + p /\ runs'[a] + p = runs[a] + q + k
          /\ said'[a] = said[a] + k
      BY <3>1, <3>4, <3>5, <3>7
    <3>9. runs'[a] + w = said'[a] + q
      BY <3>6, <3>7, <3>8
    <3>10. QED BY <3>2, <3>7, <3>9
  <2>7. QED BY <2>4, <2>6 DEF StartsOK
<1>6. CASE EmitOnDBus
  <2>1. At("dbus", Kind) /\ Then("dbus", <<>>) /\ Post(Head(todo["dbus"])) /\ UNCHANGED <<plugins, runs>>
    BY <1>6 DEF EmitOnDBus
  <2>2. Head(todo["dbus"]) \in SignalSet
    BY <2>1, Goes, SignalIs DEF Thread
  <2>3. QED BY <2>1, <2>2, PostedStarts
<1>7. ASSUME NEW a \in Activity, EmitAgain(a) PROVE RunnerOK' /\ StartsOK'
  <2>1. Post(Signal("removed", a)) /\ UNCHANGED <<plugins, runs>>
    BY <1>7 DEF EmitAgain
  <2>2. Signal("removed", a) \in SignalSet
    BY SignalIs DEF Kind
  <2>3. QED BY <2>1, <2>2, PostedStarts
<1>8. CASE HearNext
  <2>1. PICK q : q = Head(queue)
    OBVIOUS
  <2>2. queue # <<>> /\ queue' = Tail(queue) /\ Tell(q.signal, q.to) /\ UNCHANGED said
    BY <1>8, <2>1 DEF HearNext
  <2>3. q \in Item /\ queue' \in Seq(Item)
    BY <1>1, <2>1, <2>2, QueueShrinks
  <2>4. PICK s \in SignalSet : s = q.signal
    BY <2>3 DEF Item
  <2>5. /\ RunnerOK'
        /\ \A a \in Id :
             runs'[a] + (IF a \in previous THEN 1 ELSE 0)
               = runs[a] + (IF a \in previous' THEN 1 ELSE 0)
                   + (IF s = Signal("running", a) /\ "runner" \in q.to THEN 1 ELSE 0)
        /\ runs' \in [Id -> Nat]
    BY <2>2, <2>4, TellRunner
  <2>6. \A a : Cardinality(Waits(a)) = Cardinality(Waits(a)')
             + (IF s = Signal("running", a) /\ "runner" \in q.to THEN 1 ELSE 0)
    BY <1>1, <2>1, <2>2, <2>4, WaitsShrink
  <2>7. ASSUME NEW a \in Id
        PROVE  runs'[a] + Cardinality(Waits(a)') = said'[a] + (IF a \in previous' THEN 1 ELSE 0)
    <3>1. runs[a] + Cardinality(Waits(a)) = said[a] + (IF a \in previous THEN 1 ELSE 0)
      BY DEF StartsOK
    <3>2. Cardinality(Waits(a)') \in Nat
      <4>1. Counted'
        BY WaitsCounted, PTL
      <4>2. QED BY <2>3, <4>1 DEF Counted
    <3>3. runs'[a] \in Nat /\ runs[a] \in Nat /\ said[a] \in Nat /\ said'[a] = said[a]
      BY <1>1, <2>2, <2>5
    <3>4. QED BY <2>5, <2>6, <3>1, <3>2, <3>3
  <2>8. QED BY <2>5, <2>7 DEF StartsOK
<1>9. ASSUME NEW t \in Thread, NEW r, Method(t, r) PROVE RunnerOK' /\ StartsOK'
  BY <1>2, <1>9 DEF Method, Plan, ledger
<1>10. CASE \E a \in Activity : \/ Quietly(a) \/ Erase(a) \/ SetCurrent(a)
                                \/ \E t \in Thread : Add(t, a)
                                \/ \E k \in Outcome : SetActivityState(a, k)
  <2>1. "main" \in Thread /\ "dbus" \in Thread
    BY DEF Thread
  <2>2. \E t \in Thread : \E r : Method(t, r)
    BY <1>10, <2>1, QuietlyBegins, EraseBegins, SetCurrentBegins, AddBegins, SetBegins
  <2>3. QED BY <1>9, <2>2
<1>11. CASE \E t \in Thread : Copy(t) \/ Publish(t) \/ Ensure(t) \/ Assign(t)
  BY <1>2, <1>11 DEF Copy, Publish, Ensure, Assign, ways, ledger
<1>12. CASE UNCHANGED followVars
  BY <1>2, <1>12 DEF followVars, ways, ledger
<1>13. QED
  BY <1>3, <1>4, <1>5, <1>6, <1>7, <1>8, <1>10, <1>11, <1>12 DEF FollowNext, Quietly

-----------------------------------------------------------------------------
(* The current activity.                                                     *)

CurrentPending == \E s \in Pending : s.kind = "current"
CurrentSent == \/ \E i \in Places : queue[i].signal.kind = "current"
               \/ \E s \in StepsOf("dbus") : s.kind = "current"
PendingIsSent == FollowTypeOK => (CurrentPending <=> CurrentSent)

LEMMA PendingSent == PendingIsSent
<1> SUFFICES ASSUME FollowTypeOK PROVE CurrentPending <=> CurrentSent
  BY DEF PendingIsSent
<1>1. queue \in Seq(Item) /\ todo["dbus"] \in Seq(Step)
  BY FollowTypes DEF WayTypes, Thread
<1>2. DOMAIN queue = Places /\ DOMAIN todo["dbus"] = 1..Len(todo["dbus"])
  BY <1>1 DEF Places
<1>3. Pending = {q.signal : q \in {queue[i] : i \in Places}} \cup StepsOf("dbus")
  BY <1>2 DEF Pending, StepsOf, StepsIn
<1>4. QED BY <1>3 DEF CurrentPending, CurrentSent

LEMMA CurrentKept ==
    ASSUME CurrentOK, MidOK', Mid' <=> Mid, Coming' <=> Coming,
           Coming' => Head(todo'["dbus"]) = Head(todo["dbus"]), UNCHANGED <<current, astray>>,
           \A p \in {"runner", "desktops"} : Told(p) => Told(p)'
    PROVE  CurrentOK'
<1> SUFFICES ASSUME NEW p \in {"runner", "desktops"}, p \notin astray, ~Mid
             PROVE  IF Coming' THEN Head(todo'["dbus"]).act = current ELSE Told(p)'
  BY DEF CurrentOK, FollowingOK
<1>1. IF Coming THEN Head(todo["dbus"]).act = current ELSE Told(p)
  BY DEF CurrentOK, FollowingOK
<1>2. QED BY <1>1

LEMMA ToldStill ==
    ASSUME UNCHANGED <<queue, current>>, NEW p, following'[p] = following[p], Asked(p)' => Asked(p)
    PROVE  Told(p) => Told(p)'
BY DEF Told, LastCurrent, CurrentAt, Places

(* A method begins, or makes sure that a running activity is current.        *)
LEMMA CurrentStays ==
    ASSUME FollowTypeOK, FollowTypeOK', CurrentOK, NEW t \in Thread,
           \A u \in Thread : u # t => todo'[u] = todo[u],
           Changeless(todo[t]), Changeless(todo'[t]),
           \A s \in StepsOf("dbus") : s.kind = "current" => s \in StepsOf("dbus")',
           UNCHANGED <<queue, setup, current, following, astray>>
    PROVE  CurrentOK'
<1>1. "main" \in Thread /\ "dbus" \in Thread
  BY DEF Thread
<1>2. Mid' <=> Mid
  BY <1>1 DEF Mid, Changeless
<1>3. Coming' <=> Coming
  BY <1>1 DEF Coming, Changeless
<1>4. Mid' => Head(todo'["main"]) = Head(todo["main"])
  BY <1>1 DEF Mid, Changeless
<1>5. Coming' => Head(todo'["dbus"]) = Head(todo["dbus"])
  BY <1>1 DEF Coming, Changeless
<1>6. CurrentSent => CurrentSent'
  BY DEF CurrentSent, Places
<1>7. PendingIsSent /\ PendingIsSent'
  BY PendingSent, PTL
<1>8. CurrentPending => CurrentPending'
  BY <1>6, <1>7 DEF PendingIsSent
<1>9. MidOK'
  BY <1>2, <1>4, <1>8 DEF CurrentOK, MidOK, CurrentPending
<1>10. \A p \in {"runner", "desktops"} : Told(p) => Told(p)'
  BY ToldStill DEF Asked
<1>11. QED BY <1>2, <1>3, <1>5, <1>9, <1>10, CurrentKept

(* While a plugin is initialised nothing is done on the main thread.         *)
LEMMA CurrentInInit ==
    ASSUME FollowTypeOK, WaysOK, CurrentOK, InitShortcuts \/ InitRunner \/ InitDesktops
    PROVE  CurrentOK'
<1>1. /\ following \in [{"runner", "desktops"} -> Id] /\ queue \in Seq(Item)
      /\ setup \in [Plugin -> {"new", "half", "ready"}]
  BY FollowTypes DEF PluginTypes, WayTypes, SetupTypes
<1>2. ~Ready
  BY DEF InitShortcuts, InitRunner, InitDesktops, Initialise, Ready, Plugin
<1>3. todo["main"] = <<>>
  BY <1>2 DEF WaysOK, PlansOK
<1>4. UNCHANGED <<todo, queue, current, astray>>
  BY DEF InitShortcuts, InitRunner, InitDesktops, Initialise, ways, activities, ledger
<1>5. /\ ~Mid /\ ~Mid' /\ (Coming' <=> Coming)
      /\ Coming' => Head(todo'["dbus"]) = Head(todo["dbus"])
  BY <1>3, <1>4 DEF Mid, Coming
<1>6. MidOK'
  BY <1>5 DEF MidOK
<1> SUFFICES \A p \in {"runner", "desktops"} : Told(p) => Told(p)'
  BY <1>4, <1>5, <1>6, CurrentKept
<1>7. ASSUME \A p \in {"runner", "desktops"} : following'[p] = current \/
                (following'[p] = following[p] /\ (Asked(p)' => Asked(p)))
      PROVE  \A p \in {"runner", "desktops"} : Told(p) => Told(p)'
  <2> SUFFICES ASSUME NEW p \in {"runner", "desktops"}, Told(p) PROVE Told(p)'
    OBVIOUS
  <2>1. CASE following'[p] = current
    BY <1>4, <2>1 DEF Told, LastCurrent, CurrentAt, Places
  <2>2. CASE following'[p] = following[p] /\ (Asked(p)' => Asked(p))
    BY <1>4, <2>2, ToldStill
  <2>3. QED BY <1>7, <2>1, <2>2
<1>8. CASE InitShortcuts
  <2>1. following' = following /\ setup'["runner"] = setup["runner"]
                               /\ setup'["desktops"] = setup["desktops"]
    BY <1>1, <1>8 DEF InitShortcuts, Initialise, plugins, Plugin
  <2>2. QED BY <1>7, <2>1 DEF Asked
<1>9. CASE InitRunner
  <2>1. setup'["desktops"] = setup["desktops"]
    BY <1>1, <1>9 DEF InitRunner, Initialise, Plugin
  <2>2. CASE UNCHANGED following /\ setup' = [setup EXCEPT !["runner"] = "half"]
    <3>1. setup'["runner"] # "ready"
      BY <1>1, <2>2 DEF Plugin
    <3>2. QED BY <1>7, <2>1, <2>2, <3>1 DEF Asked
  <2>3. CASE Tell(Signal("current", current), {"runner"})
    <3>1. PICK s \in SignalSet : s = Signal("current", current) /\ s.kind = "current" /\ s.act = current
      BY SignalIs DEF FollowTypeOK
    <3>2. following'["runner"] = current /\ following'["desktops"] = following["desktops"]
      BY <2>3, <3>1, TellFollowing
    <3>3. QED BY <1>7, <2>1, <3>2 DEF Asked
  <2>4. QED BY <1>9, <2>2, <2>3 DEF InitRunner, Initialise, plugins
<1>10. CASE InitDesktops
  <2>1. setup'["runner"] = setup["runner"] /\ following'["runner"] = following["runner"]
    BY <1>1, <1>10 DEF InitDesktops, Initialise, plugins, Plugin
  <2>2. \/ following'["desktops"] = current
        \/ following'["desktops"] = following["desktops"] /\ setup["desktops"] = "half"
    BY <1>1, <1>10 DEF InitDesktops, Initialise, plugins
  <2>3. QED BY <1>7, <2>1, <2>2 DEF Asked
<1>11. QED BY <1>8, <1>9, <1>10

(* What is told of something else comes after.                               *)
LEMMA ToldAfter ==
    ASSUME FollowTypeOK, NEW s \in SignalSet, Post(s), s.kind # "current",
           UNCHANGED <<setup, current, following>>
    PROVE  /\ \A p \in {"runner", "desktops"} : Told(p) => Told(p)'
           /\ astray' = astray
           /\ \A i \in Places : i \in Places' /\ queue'[i] = queue[i]
<1>1. PICK q \in Item :
        /\ q.signal = s
        /\ Places \subseteq Places' /\ \A i \in Places : queue'[i] = queue[i]
        /\ \A i \in Places' : i \in Places \/ queue'[i] = q
  BY Posts
<1>2. \A p : \A i \in Places' : CurrentAt(p, i)' <=> i \in Places /\ CurrentAt(p, i)
  BY <1>1 DEF CurrentAt
<1>3. ASSUME NEW p \in {"runner", "desktops"}, Told(p) PROVE Told(p)'
  <2>1. ASSUME NEW i \in Places', LastCurrent(p, i)' PROVE queue'[i].signal.act = current
    <3>1. CurrentAt(p, i)' /\ \A j \in Places' : j > i => ~CurrentAt(p, j)'
      BY <2>1 DEF LastCurrent
    <3>2. i \in Places /\ CurrentAt(p, i) /\ \A j \in Places : j > i => ~CurrentAt(p, j)
      BY <1>1, <1>2, <3>1
    <3>3. QED BY <1>1, <1>3, <3>2 DEF Told, LastCurrent
  <2>2. Asked(p)' /\ (\A i \in Places' : ~CurrentAt(p, i)') => following'[p] = current
    BY <1>1, <1>2, <1>3 DEF Told, Asked
  <2>3. QED BY <2>1, <2>2 DEF Told
<1>4. astray' = astray
  BY DEF Post, FollowTypeOK
<1>5. QED BY <1>1, <1>3, <1>4

(* What is told of the current activity is the last that is told of it.      *)
LEMMA ToldOfCurrent ==
    ASSUME FollowTypeOK, QueueOK, NEW s \in SignalSet, Post(s), s.kind = "current",
           s.act = current, UNCHANGED <<setup, current, following>>
    PROVE  \A p \in {"runner", "desktops"} : p \notin astray' => Told(p)'
<1>1. PICK q \in Item :
        /\ q.signal = s
        /\ \A p \in Plugin : p \in q.to <=> Listens(p) /\ s.kind \in Wants(p)
        /\ Places \subseteq Places' /\ \A i \in Places : queue'[i] = queue[i]
        /\ \A i \in Places' : i \in Places \/ queue'[i] = q
        /\ q.to # {} => \E n \in Places' : queue'[n] = q /\ \A i \in Places : i < n
  BY Posts
<1>2. queue \in Seq(Item) /\ queue' \in Seq(Item) /\ setup \in [Plugin -> {"new", "half", "ready"}]
  BY FollowTypes, Posts DEF WayTypes, SetupTypes
<1>3. Places \subseteq Nat /\ Places' \subseteq Nat
  BY <1>2 DEF Places
<1> SUFFICES ASSUME NEW p \in {"runner", "desktops"}, p \notin astray' PROVE Told(p)'
  OBVIOUS
<1>4. p \in Plugin /\ s.kind \in Wants(p)
  BY WantsIs DEF Plugin
<1>5. CASE Listens(p)
  <2>1. p \in q.to
    BY <1>1, <1>4, <1>5
  <2>2. PICK n \in Places' : queue'[n] = q /\ \A i \in Places : i < n
    BY <1>1, <2>1
  <2>3. CurrentAt(p, n)'
    BY <1>1, <2>1, <2>2 DEF CurrentAt
  <2>4. ASSUME NEW i \in Places', LastCurrent(p, i)' PROVE queue'[i].signal.act = current
    <3>1. ~(n > i)
      BY <2>2, <2>3, <2>4 DEF LastCurrent
    <3>2. i \notin Places
      BY <1>3, <2>2, <3>1
    <3>3. queue'[i] = q
      BY <1>1, <3>2
    <3>4. QED BY <1>1, <3>3
  <2>5. QED BY <2>2, <2>3, <2>4 DEF Told
<1>6. CASE ~Listens(p)
  <2>1. \A i \in Places : p \notin queue[i].to
    BY <1>6 DEF QueueOK
  <2>2. p \notin q.to
    BY <1>1, <1>4, <1>6
  <2>3. \A i \in Places' : ~CurrentAt(p, i)'
    BY <1>1, <2>1, <2>2 DEF CurrentAt
  <2>4. setup["desktops"] = "half" => "desktops" \in astray'
    BY DEF Post
  <2>5. ~Asked(p)'
    BY <1>6, <2>4 DEF Asked, Listens
  <2>6. QED BY <2>3, <2>5 DEF Told, LastCurrent
<1>7. QED BY <1>5, <1>6

LEMMA CurrentOnDBus ==
    ASSUME FollowTypeOK, FollowTypeOK', WaysOK, CurrentOK, EmitOnDBus PROVE CurrentOK'
<1>1. PICK s : s = Head(todo["dbus"])
  OBVIOUS
<1>2. /\ At("dbus", Kind) /\ Then("dbus", <<>>) /\ Post(s)
      /\ UNCHANGED <<setup, current, following>>
  BY <1>1 DEF EmitOnDBus, activities, plugins
<1>3. /\ todo'["main"] = todo["main"]
      /\ s \in Step /\ s.kind \in Kind
      /\ StepsOf("dbus") = {s} \cup StepsOf("dbus")'
      /\ s.kind # "assign" => Changeless(todo'["dbus"])
      /\ todo["dbus"] # <<>>
  BY <1>1, <1>2, Goes DEF Thread, At
<1>4. s \in SignalSet /\ ~Coming' /\ (Coming <=> s.kind = "current")
  BY <1>1, <1>3, SignalIs DEF Coming, Changeless
<1>5. PICK q \in Item :
        /\ q.signal = s
        /\ \A p \in Plugin : p \in q.to <=> Listens(p) /\ s.kind \in Wants(p)
        /\ Places \subseteq Places' /\ \A i \in Places : queue'[i] = queue[i]
        /\ q.to # {} => \E n \in Places' : queue'[n] = q /\ \A i \in Places : i < n
  BY <1>2, <1>4, Posts
<1>6. (Mid' <=> Mid) /\ Head(todo'["main"]) = Head(todo["main"])
  BY <1>3 DEF Mid
<1>7. MidOK'
  <2> SUFFICES ASSUME Mid, Head(todo["main"]).act # current PROVE CurrentPending'
    BY <1>2, <1>6 DEF MidOK, CurrentPending
  <2>1. PendingIsSent /\ PendingIsSent'
    BY PendingSent, PTL
  <2>2. CurrentSent
    BY <2>1 DEF CurrentOK, MidOK, CurrentPending, PendingIsSent
  <2>3. Ready
    BY DEF WaysOK, PlansOK, Mid
  <2>4. CASE s.kind = "current"
    <3>1. "runner" \in q.to
      BY <1>5, <2>3, <2>4, WantsIs DEF Ready, Listens, Plugin
    <3>2. \E n \in Places' : queue'[n].signal.kind = "current"
      BY <1>5, <2>4, <3>1
    <3>3. QED BY <2>1, <3>2 DEF PendingIsSent, CurrentSent
  <2>5. CASE s.kind # "current"
    <3>1. CurrentSent'
      BY <1>3, <1>5, <2>2, <2>5 DEF CurrentSent
    <3>2. QED BY <2>1, <3>1 DEF PendingIsSent
  <2>6. QED BY <2>4, <2>5
<1>8. CASE s.kind = "current"
  <2> SUFFICES ASSUME NEW p \in {"runner", "desktops"}, p \notin astray', ~Mid'
               PROVE  Told(p)'
    BY <1>4, <1>7 DEF CurrentOK, FollowingOK
  <2>1. astray \subseteq astray'
    BY <1>2 DEF Post
  <2>2. s.act = current
    BY <1>1, <1>4, <1>6, <1>8, <2>1 DEF CurrentOK, FollowingOK
  <2>3. QED BY <1>2, <1>4, <1>8, <2>2, ToldOfCurrent DEF WaysOK
<1>9. CASE s.kind # "current"
  <2>1. /\ \A p \in {"runner", "desktops"} : Told(p) => Told(p)'
        /\ astray' = astray
    BY <1>2, <1>4, <1>9, ToldAfter
  <2>2. QED BY <1>2, <1>4, <1>6, <1>7, <1>9, <2>1, CurrentKept
<1>10. QED BY <1>8, <1>9

LEMMA CurrentAgain ==
    ASSUME FollowTypeOK, FollowTypeOK', CurrentOK, NEW a \in Activity, EmitAgain(a)
    PROVE  CurrentOK'
<1>1. PICK s \in SignalSet : s = Signal("removed", a) /\ s.kind = "removed"
  BY SignalIs DEF Kind
<1>2. Post(s) /\ UNCHANGED <<todo, setup, current, following>>
  BY <1>1 DEF EmitAgain, activities, plugins
<1>3. /\ \A p \in {"runner", "desktops"} : Told(p) => Told(p)'
      /\ astray' = astray
      /\ \A i \in Places : i \in Places' /\ queue'[i] = queue[i]
  BY <1>1, <1>2, ToldAfter
<1>4. PendingIsSent /\ PendingIsSent'
  BY PendingSent, PTL
<1>5. CurrentSent => CurrentSent'
  BY <1>2, <1>3 DEF CurrentSent, StepsOf
<1>6. CurrentPending => CurrentPending'
  BY <1>4, <1>5 DEF PendingIsSent
<1>7. (Mid' <=> Mid) /\ (Coming' <=> Coming)
  BY <1>2 DEF Mid, Coming
<1>8. MidOK'
  BY <1>2, <1>6, <1>7 DEF CurrentOK, MidOK, CurrentPending
<1>9. QED BY <1>2, <1>3, <1>7, <1>8, CurrentKept

LEMMA CurrentOnMain ==
    ASSUME FollowTypeOK, WaysOK, CurrentOK, EmitOnMain PROVE CurrentOK'
<1>1. PICK s : s = Head(todo["main"])
  OBVIOUS
<1>2. /\ At("main", Kind) /\ Then("main", <<>>) /\ Tell(s, Plugin)
      /\ UNCHANGED <<current, queue, setup>>
      /\ astray' = IF s.kind # "current" THEN astray
                   ELSE IF CurrentPending THEN {"runner", "desktops"} ELSE {}
  BY <1>1 DEF EmitOnMain, activities, CurrentPending
<1>3. /\ todo'["dbus"] = todo["dbus"]
      /\ s \in Step /\ s.kind \in Kind
      /\ s.kind # "assign" => Changeless(todo'["main"])
      /\ todo["main"] # <<>>
  BY <1>1, <1>2, Goes DEF Thread, At
<1>4. s \in SignalSet /\ ~Mid' /\ (Mid <=> s.kind = "current")
  BY <1>1, <1>3, SignalIs DEF Mid, Changeless
<1>5. \A p \in {"runner", "desktops"} :
        following'[p] = IF s.kind = "current" /\ p \in Plugin THEN s.act ELSE following[p]
  BY <1>2, <1>4, TellFollowing
<1>6. MidOK'
  BY <1>4 DEF MidOK
<1>7. (Coming' <=> Coming) /\ Head(todo'["dbus"]) = Head(todo["dbus"])
  BY <1>3 DEF Coming
<1>8. CASE s.kind # "current"
  <2>1. \A p \in {"runner", "desktops"} : Told(p) => Told(p)'
    BY <1>2, <1>5, <1>8, ToldStill DEF Asked
  <2>2. QED BY <1>2, <1>4, <1>6, <1>7, <1>8, <2>1, CurrentKept
<1>9. CASE s.kind = "current" /\ CurrentPending
  BY <1>2, <1>6, <1>9 DEF CurrentOK, FollowingOK
<1>10. CASE s.kind = "current" /\ ~CurrentPending
  <2>1. s.act = current
    BY <1>1, <1>4, <1>10 DEF CurrentOK, MidOK, CurrentPending
  <2>2. ~CurrentSent
    BY <1>10, PendingSent DEF PendingIsSent
  <2>3. ~Coming'
    <3>1. ASSUME Coming PROVE Head(todo["dbus"]) \in StepsOf("dbus")
      <4>1. todo["dbus"] \in Seq(Step) /\ todo["dbus"] # <<>>
        BY <3>1, FollowTypes DEF WayTypes, Thread, Coming
      <4>2. StepsIn(todo["dbus"]) = {Head(todo["dbus"])} \cup StepsIn(Tail(todo["dbus"]))
        BY <4>1, TailInTurn
      <4>3. QED BY <4>2 DEF StepsOf
    <3>2. QED BY <1>7, <2>2, <3>1 DEF Coming, CurrentSent
  <2>4. \A p : \A i \in Places' : ~CurrentAt(p, i)'
    BY <1>2, <2>2 DEF CurrentSent, CurrentAt, Places
  <2>5. \A p \in {"runner", "desktops"} : following'[p] = current
    BY <1>5, <1>10, <2>1 DEF Plugin
  <2>6. \A p \in {"runner", "desktops"} : Told(p)'
    BY <1>2, <2>4, <2>5 DEF Told, LastCurrent
  <2>7. QED BY <1>6, <2>3, <2>6 DEF CurrentOK, FollowingOK
<1>11. QED BY <1>8, <1>9, <1>10

LEMMA CurrentHeard ==
    ASSUME FollowTypeOK, QueueOK, CurrentOK, HearNext PROVE CurrentOK'
<1>1. PICK q : q = Head(queue)
  OBVIOUS
<1>2. /\ todo["main"] = <<>> /\ queue # <<>> /\ queue' = Tail(queue) /\ Tell(q.signal, q.to)
      /\ UNCHANGED <<todo, current, setup, astray>>
  BY <1>1 DEF HearNext, activities, Idle
<1>3. /\ Places \subseteq Nat /\ Places' \subseteq Nat
      /\ 1 \in Places /\ q = queue[1] /\ q \in Item
      /\ \A i \in Places' : i + 1 \in Places /\ queue'[i] = queue[i + 1]
      /\ \A i \in Places : i > 1 => i - 1 \in Places' /\ queue'[i - 1] = queue[i]
  BY <1>1, <1>2, QueueShrinks, FollowTypes DEF WayTypes
<1>4. q.signal \in SignalSet
  BY <1>3 DEF Item
<1>5. \A p \in {"runner", "desktops"} :
        following'[p] = IF q.signal.kind = "current" /\ p \in q.to
                        THEN q.signal.act ELSE following[p]
  BY <1>2, <1>4, TellFollowing
<1>6. ~Mid /\ ~Mid' /\ (Coming' <=> Coming) /\ Head(todo'["dbus"]) = Head(todo["dbus"])
  BY <1>2 DEF Mid, Coming
<1>7. MidOK'
  BY <1>6 DEF MidOK
<1>8. \A p : \A i \in Places' : CurrentAt(p, i)' <=> CurrentAt(p, i + 1)
  BY <1>3 DEF CurrentAt
<1>9. ASSUME NEW p \in {"runner", "desktops"}, Told(p) PROVE Told(p)'
  <2>1. CurrentAt(p, 1) <=> q.signal.kind = "current" /\ p \in q.to
    BY <1>3 DEF CurrentAt
  <2>2. ASSUME NEW i \in Places', LastCurrent(p, i)' PROVE queue'[i].signal.act = current
    <3>1. PICK k \in Places : k = i + 1 /\ k \in Nat
      BY <1>3
    <3>2. CurrentAt(p, k) /\ \A j \in Places' : j > i => ~CurrentAt(p, j)'
      BY <1>8, <2>2, <3>1 DEF LastCurrent
    <3>3. ASSUME NEW j \in Places, j > k PROVE ~CurrentAt(p, j)
      <4>1. PICK h : h = j - 1
        OBVIOUS
      <4>2. j > 1 /\ h > i /\ h + 1 = j
        BY <1>3, <3>1, <3>3, <4>1
      <4>3. h \in Places'
        BY <1>3, <4>1, <4>2
      <4>4. QED BY <1>8, <3>2, <4>2, <4>3
    <3>4. LastCurrent(p, k)
      BY <3>2, <3>3 DEF LastCurrent
    <3>5. queue[k].signal.act = current
      BY <1>9, <3>4 DEF Told
    <3>6. QED BY <1>3, <3>1, <3>5
  <2>3. ASSUME Asked(p)', \A i \in Places' : ~CurrentAt(p, i)' PROVE following'[p] = current
    <3>1. \A j \in Places : j > 1 => ~CurrentAt(p, j)
      <4> SUFFICES ASSUME NEW j \in Places, j > 1 PROVE ~CurrentAt(p, j)
        OBVIOUS
      <4>1. PICK h : h = j - 1
        OBVIOUS
      <4>2. h \in Places' /\ h + 1 = j
        BY <1>3, <4>1
      <4>3. QED BY <1>8, <2>3, <4>2
    <3>2. Asked(p)
      BY <1>2, <2>3 DEF Asked
    <3>3. CASE CurrentAt(p, 1)
      <4>1. LastCurrent(p, 1)
        BY <3>1, <3>3 DEF LastCurrent
      <4>2. q.signal.act = current
        BY <1>3, <1>9, <4>1 DEF Told
      <4>3. QED BY <1>5, <2>1, <3>3, <4>2
    <3>4. CASE ~CurrentAt(p, 1)
      <4>1. \A j \in Places : j = 1 \/ j > 1
        BY DEF Places
      <4>2. \A j \in Places : ~CurrentAt(p, j)
        BY <3>1, <3>4, <4>1
      <4>3. following[p] = current
        BY <1>9, <3>2, <4>2 DEF Told
      <4>4. QED BY <1>5, <2>1, <3>4, <4>3
    <3>5. QED BY <3>3, <3>4
  <2>4. QED BY <1>2, <2>2, <2>3 DEF Told
<1>10. QED BY <1>2, <1>6, <1>7, <1>9, CurrentKept

LEMMA CurrentAssigned ==
    ASSUME FollowTypeOK, FollowTypeOK', WaysOK, CurrentOK, NEW t \in Thread, Assign(t)
    PROVE  CurrentOK'
<1>1. /\ At(t, {"assign"}) /\ Then(t, <<>>) /\ current' = Head(todo[t]).act
      /\ astray' = IF t = "dbus" THEN {} ELSE astray
  BY DEF Assign
<1>2. /\ \A u \in Thread : u # t => todo'[u] = todo[u]
      /\ todo' \in [Thread -> Seq(Step)]
      /\ Head(todo[t]).kind = "assign"
      /\ todo'[t] # <<>> /\ Head(todo'[t]) = Signal("current", Head(todo[t]).act)
  BY <1>1, Goes
<1>3. Head(todo'[t]).kind = "current" /\ Head(todo'[t]).act = current'
  BY <1>1, <1>2, SignalIs
<1>4. CASE t = "main"
  <2>1. Mid' /\ Head(todo'["main"]).act = current'
    BY <1>2, <1>3, <1>4 DEF Mid
  <2>2. QED BY <2>1 DEF CurrentOK, MidOK, FollowingOK
<1>5. CASE t = "dbus"
  <2>1. Coming' /\ Head(todo'["dbus"]).act = current'
    BY <1>2, <1>3, <1>5 DEF Coming
  <2>2. todo'["dbus"] \in Seq(Step) /\ todo'["dbus"] # <<>>
    BY <1>2, <1>5 DEF Thread
  <2>3. PICK r \in Seq(Step) : r = todo'["dbus"]
    BY <2>2
  <2>4. StepsIn(r) = {Head(r)} \cup StepsIn(Tail(r))
    BY <2>2, <2>3, TailInTurn
  <2>5. Head(todo'["dbus"]) \in StepsOf("dbus")'
    BY <2>3, <2>4 DEF StepsOf
  <2>6. CurrentSent'
    BY <1>3, <1>5, <2>5 DEF CurrentSent
  <2>7. PendingIsSent'
    BY PendingSent, PTL
  <2>8. MidOK'
    BY <2>6, <2>7 DEF PendingIsSent, MidOK, CurrentPending
  <2>9. QED BY <2>1, <2>8 DEF CurrentOK, FollowingOK
<1>6. QED BY <1>4, <1>5 DEF Thread

LEMMA CurrentHolds ==
    ASSUME FollowTypeOK, WaysOK, UsedOK, ListOK, CurrentOK, [FollowNext]_followVars PROVE CurrentOK'
<1>1. FollowTypeOK'
  BY FollowTypesHold
<1>2. ASSUME NEW t \in Thread, NEW r \in Seq(Step), InTurn(r), Changeless(r), Method(t, r),
             UNCHANGED current
      PROVE  CurrentOK'
  <2>1. /\ \A u \in Thread : u # t => todo'[u] = todo[u]
        /\ todo[t] = <<>> /\ StepsOf(t) = {} /\ Changeless(todo'[t])
    BY <1>2, Begins
  <2>2. Changeless(todo[t])
    BY <2>1 DEF Changeless
  <2>3. \A s \in StepsOf("dbus") : s \in StepsOf("dbus")'
    <3>1. CASE t = "dbus"
      BY <2>1, <3>1
    <3>2. CASE t # "dbus"
      BY <2>1, <3>2 DEF StepsOf, Thread
    <3>3. QED BY <3>1, <3>2
  <2>4. UNCHANGED <<queue, setup, current, following, astray>>
    BY <1>2 DEF Method, Plan, plugins, ledger
  <2>5. QED BY <1>1, <2>1, <2>2, <2>3, <2>4, CurrentStays
<1>3. "main" \in Thread /\ "dbus" \in Thread
  BY DEF Thread
<1>4. ASSUME NEW a \in Activity, Quietly(a) PROVE CurrentOK'
  BY <1>2, <1>4, QuietlyBegins
<1>5. ASSUME NEW a \in Activity, Erase(a) PROVE CurrentOK'
  BY <1>2, <1>3, <1>5, EraseBegins DEF Erase
<1>6. ASSUME NEW a \in Activity, NEW t \in Thread, Add(t, a) PROVE CurrentOK'
  BY <1>2, <1>6, AddBegins DEF Add
<1>7. ASSUME NEW a \in Activity, NEW k \in Outcome, SetActivityState(a, k)
      PROVE  CurrentOK'
  BY <1>2, <1>3, <1>7, SetBegins DEF SetActivityState
<1>8. ASSUME NEW a \in Activity, SetCurrent(a) PROVE CurrentOK'
  BY <1>2, <1>3, <1>8, SetCurrentBegins DEF SetCurrent
<1>9. ASSUME NEW t \in Thread, Ensure(t) PROVE CurrentOK'
  <2>1. /\ \A u \in Thread : u # t => todo'[u] = todo[u]
        /\ Head(todo[t]).kind = "ensure"
        /\ StepsOf(t) \subseteq {Head(todo[t])} \cup StepsOf(t)'
        /\ Changeless(todo'[t])
    BY <1>9, Ensures
  <2>2. Changeless(todo[t])
    BY <2>1 DEF Changeless
  <2>3. \A s \in StepsOf("dbus") : s.kind = "current" => s \in StepsOf("dbus")'
    <3>1. CASE t = "dbus"
      BY <2>1, <3>1
    <3>2. CASE t # "dbus"
      BY <2>1, <3>2 DEF StepsOf, Thread
    <3>3. QED BY <3>1, <3>2
  <2>4. UNCHANGED <<queue, setup, current, following, astray>>
    BY <1>9 DEF Ensure, plugins, ledger
  <2>5. QED BY <1>1, <2>1, <2>2, <2>3, <2>4, CurrentStays
<1>10. CASE UNCHANGED followVars \/ \E t \in Thread : Copy(t) \/ Publish(t)
  <2>1. UNCHANGED <<todo, queue, setup, current, following, astray>>
    BY <1>10 DEF followVars, Copy, Publish, ways, activities, plugins, ledger
  <2>2. (Mid' <=> Mid) /\ (Coming' <=> Coming) /\ StepsOf("dbus")' = StepsOf("dbus")
    BY <2>1 DEF Mid, Coming, StepsOf
  <2>3. (CurrentPending' <=> CurrentPending) /\ MidOK'
    <3>1. Pending' = Pending
      BY <2>1 DEF Pending
    <3>2. QED BY <2>1, <2>2, <3>1 DEF CurrentPending, MidOK, CurrentOK
  <2>4. \A p \in {"runner", "desktops"} : Told(p) => Told(p)'
    BY <2>1, ToldStill DEF Asked
  <2>5. QED BY <2>1, <2>2, <2>3, <2>4, CurrentKept
<1>11. QED
  BY <1>1, <1>4, <1>5, <1>6, <1>7, <1>8, <1>9, <1>10, CurrentInInit, CurrentOnMain,
     CurrentOnDBus, CurrentAgain, CurrentHeard, CurrentAssigned DEF FollowNext, Quietly, WaysOK

-----------------------------------------------------------------------------
(* The shortcuts.                                                            *)

LEMMA ShortcutKept ==
    ASSUME NEW a \in Activity, ShortcutOK(a), a \in known' <=> a \in known,
           a \in shortcuts' <=> a \in shortcuts, a \in again' <=> a \in again,
           \A t \in Thread, k \in {"added", "removed"} :
              Signal(k, a) \in StepsOf(t)' <=> Signal(k, a) \in StepsOf(t),
           Places \subseteq Places', \A i \in Places : queue'[i] = queue[i],
           \A i \in Places' : \/ i \in Places
                              \/ queue'[i].signal \notin {Signal("added", a), Signal("removed", a)}
    PROVE  ShortcutOK(a)'
<1>1. "main" \in Thread /\ "dbus" \in Thread
  BY DEF Thread
<1>2. /\ \A i \in Places : (AddedAt(i, a) => AddedAt(i, a)') /\ (RemovedAt(i, a) => RemovedAt(i, a)')
      /\ \A i \in Places' : AddedAt(i, a)' => i \in Places /\ AddedAt(i, a)
  BY DEF AddedAt, RemovedAt
<1>3. \A i : RemovedAfter(i, a) => RemovedAfter(i, a)'
  BY <1>1, <1>2 DEF RemovedAfter
<1>4. a \in known => \/ a \in shortcuts
                     \/ \E t \in Thread : Signal("added", a) \in StepsOf(t)
                     \/ \E i \in Places : AddedAt(i, a)
  BY DEF ShortcutOK
<1>5. a \in known' => \/ a \in shortcuts'
                      \/ \E t \in Thread : Signal("added", a) \in StepsOf(t)'
                      \/ \E i \in Places' : AddedAt(i, a)'
  BY <1>2, <1>4
<1>6. ASSUME a \notin known'
      PROVE  /\ a \in shortcuts' \/ Signal("added", a) \in StepsOf("main")' => RemovedAfter(0, a)'
             /\ \A i \in Places' : AddedAt(i, a)' => RemovedAfter(i, a)'
  <2>1. /\ a \in shortcuts \/ Signal("added", a) \in StepsOf("main") => RemovedAfter(0, a)
        /\ \A i \in Places : AddedAt(i, a) => RemovedAfter(i, a)
    BY <1>6 DEF ShortcutOK
  <2>2. QED BY <1>1, <1>2, <1>3, <2>1
<1>7. QED BY <1>5, <1>6 DEF ShortcutOK

(* What is removed, and is going to be told once more or was just told.      *)
LEMMA ShortcutGoes ==
    ASSUME NEW a \in Activity, a \notin known',
           \A i \in Places' \cup {0} : i = 0 \/ AddedAt(i, a)' => RemovedAfter(i, a)'
    PROVE  ShortcutOK(a)'
BY DEF ShortcutOK

LEMMA ShortcutsInInit ==
    ASSUME FollowTypeOK, WaysOK, ShortcutsOK, InitShortcuts PROVE ShortcutsOK'
<1>0. UNCHANGED <<activities, ways>>
  BY DEF InitShortcuts, Initialise
<1>1. CASE /\ setup["shortcuts"] = "new" /\ shortcuts' = sorted.all
           /\ missed' = missed \cup Mistaken(sorted.all)
  <2>1. ~Listens("shortcuts") /\ ~Ready
    BY <1>1 DEF Listens, Ready, Plugin
  <2>2. \A i \in Places : "shortcuts" \notin queue[i].to
    BY <2>1 DEF WaysOK, QueueOK
  <2>3. todo["main"] = <<>>
    BY <2>1 DEF WaysOK, PlansOK
  <2>4. StepsOf("main")' = {} /\ StepsOf("dbus")' = StepsOf("dbus")
    BY <1>0, <2>3 DEF StepsOf, StepsIn, ways
  <2>5. \A a : \A i \in Places' : ~AddedAt(i, a)'
    BY <1>0, <2>2 DEF AddedAt, Places, ways
  <2>6. todo["dbus"] \in Seq(Step) /\ "dbus" \in Thread
    BY FollowTypes DEF WayTypes, Thread
  <2>7. \A k, a : ToBeTold(k, a) => Signal(k, a) \in StepsOf("dbus")
    BY <2>6 DEF ToBeTold, StepsOf, StepsIn
  <2>8. UNCHANGED <<known, again, revived>>
    BY <1>0 DEF activities, ways
  <2>9. ASSUME NEW a \in Activity \ Exempt' PROVE ShortcutOK(a)'
    <3>1. a \notin Mistaken(sorted.all)
      BY <1>1, <2>9 DEF Exempt
    <3>2. a \in known' => a \in shortcuts' \/ Signal("added", a) \in StepsOf("dbus")'
      BY <1>1, <2>4, <2>7, <2>8, <3>1 DEF Mistaken
    <3>3. a \notin known' /\ a \in shortcuts' => RemovedAfter(0, a)'
      BY <1>1, <2>4, <2>7, <2>8, <3>1 DEF Mistaken, RemovedAfter
    <3>4. QED BY <2>4, <2>5, <2>6, <3>2, <3>3 DEF ShortcutOK
  <2>10. QED BY <2>9 DEF ShortcutsOK
<1>2. CASE setup["shortcuts"] = "half" /\ UNCHANGED <<plugins, ledger>>
  <2>1. \A t : StepsOf(t)' = StepsOf(t)
    BY <1>0 DEF StepsOf, ways
  <2>2. UNCHANGED <<known, revived, shortcuts, again, queue, missed, Places>>
    BY <1>0, <1>2 DEF activities, plugins, ways, ledger, Places
  <2>3. \A a \in Activity \ Exempt : ShortcutOK(a)
    BY <1>2 DEF ShortcutsOK
  <2>4. \A a \in Activity \ Exempt : ShortcutOK(a)'
    BY <2>1, <2>2, <2>3, ShortcutKept
  <2>5. QED BY <2>2, <2>4 DEF ShortcutsOK, Exempt
<1>3. QED BY <1>1, <1>2 DEF InitShortcuts, Initialise

LEMMA ShortcutsOnMain ==
    ASSUME FollowTypeOK, WaysOK, ShortcutsOK, EmitOnMain PROVE ShortcutsOK'
<1>1. PICK s : s = Head(todo["main"])
  OBVIOUS
<1>2. /\ At("main", Kind) /\ Then("main", <<>>) /\ Tell(s, Plugin)
      /\ UNCHANGED <<known, revived, again, queue, setup, missed>>
  BY <1>1 DEF EmitOnMain, activities
<1>3. /\ todo'["dbus"] = todo["dbus"]
      /\ s \in Step /\ s.kind \in Kind
      /\ StepsOf("main") = {s} \cup StepsOf("main")'
  BY <1>1, <1>2, Goes DEF Thread
<1>4. s \in SignalSet /\ s.kind # "removed" /\ StepsOf("dbus")' = StepsOf("dbus")
  BY <1>3, SignalIs DEF WaysOK, PlansOK, StepsOf
<1>5. Places' = Places
  BY <1>2 DEF Places
<1> SUFFICES ASSUME NEW a \in Activity, ShortcutOK(a) PROVE ShortcutOK(a)'
  BY <1>2 DEF ShortcutsOK, Exempt
<1>6. s = Signal("added", a) <=> s.kind = "added" /\ s.act = a
  BY <1>4 DEF SignalSet, Signal
<1>7. shortcuts' = IF s.kind = "added" THEN shortcuts \cup {s.act} ELSE shortcuts
  BY <1>2, <1>4, TellShortcuts DEF Plugin
<1>8. CASE s = Signal("added", a)
  <2>1. a \in shortcuts' /\ Signal("added", a) \in StepsOf("main")
    BY <1>3, <1>6, <1>7, <1>8
  <2>2. \A i : RemovedAfter(i, a)' <=> RemovedAfter(i, a)
    BY <1>2, <1>4, <1>5 DEF RemovedAfter, RemovedAt
  <2>3. \A i \in Places : AddedAt(i, a)' <=> AddedAt(i, a)
    BY <1>2 DEF AddedAt
  <2>4. QED BY <1>2, <1>5, <2>1, <2>2, <2>3 DEF ShortcutOK
<1>9. CASE s # Signal("added", a)
  <2>1. a \in shortcuts' <=> a \in shortcuts
    BY <1>6, <1>7, <1>9
  <2>2. s # Signal("removed", a)
    BY <1>4, SignalIs
  <2>3. \A t \in Thread, k \in {"added", "removed"} :
              Signal(k, a) \in StepsOf(t)' <=> Signal(k, a) \in StepsOf(t)
    BY <1>3, <1>4, <1>9, <2>2 DEF Thread
  <2>4. QED BY <1>2, <1>5, <2>1, <2>3, ShortcutKept
<1>10. QED BY <1>8, <1>9

LEMMA ShortcutsOnDBus ==
    ASSUME FollowTypeOK, WaysOK, ShortcutsOK, EmitOnDBus PROVE ShortcutsOK'
<1>1. PICK s : s = Head(todo["dbus"])
  OBVIOUS
<1>2. /\ At("dbus", Kind) /\ Then("dbus", <<>>) /\ Post(s)
      /\ UNCHANGED <<known, revived, shortcuts, setup>>
      /\ again' = again \cup {e.act : e \in {q \in {s} : q.kind = "removed"}}
  BY <1>1 DEF EmitOnDBus, activities, plugins
<1>3. /\ todo'["main"] = todo["main"]
      /\ s \in Step /\ s.kind \in Kind
      /\ StepsOf("dbus") = {s} \cup StepsOf("dbus")'
  BY <1>1, <1>2, Goes DEF Thread
<1>4. s \in SignalSet /\ StepsOf("main")' = StepsOf("main") /\ s \in StepsOf("dbus")
  BY <1>3, SignalIs DEF StepsOf
<1>5. PICK q \in Item :
        /\ q.signal = s
        /\ \A p \in Plugin : p \in q.to <=> Listens(p) /\ s.kind \in Wants(p)
        /\ Places \subseteq Places' /\ \A i \in Places : queue'[i] = queue[i]
        /\ \A i \in Places' : i \in Places \/ queue'[i] = q
        /\ q.to # {} => \E n \in Places' : queue'[n] = q /\ \A i \in Places : i < n
  BY <1>2, <1>4, Posts
<1>6. ToldOf(s) /\ (s.kind = "added" => s.act \in known)
  BY <1>4 DEF WaysOK, PlansOK, Thread
<1>7. missed' = missed \cup IF setup["shortcuts"] = "half" /\ s.kind \in Wants("shortcuts")
                            THEN {s.act} ELSE {}
  BY <1>2 DEF Post
<1> SUFFICES ASSUME NEW a \in Activity \ Exempt', ShortcutOK(a), setup["shortcuts"] # "new"
             PROVE  ShortcutOK(a)'
  BY <1>2, <1>7 DEF ShortcutsOK, Exempt
<1>8. \A k : s = Signal(k, a) <=> s.kind = k /\ s.act = a
  BY <1>4 DEF SignalSet, Signal
<1>9. CASE s.kind \in {"added", "removed"} /\ s.act = a
  <2>1. setup["shortcuts"] = "ready"
    BY <1>7, <1>9, WantsIs DEF FollowTypeOK, Plugin, Exempt
  <2>2. "shortcuts" \in q.to
    BY <1>5, <1>9, <2>1, WantsIs DEF Listens, Plugin
  <2>3. PICK n \in Places' : queue'[n] = q /\ \A i \in Places : i < n
    BY <1>5, <2>2
  <2>4. CASE s.kind = "added"
    <3>1. a \in known' /\ AddedAt(n, a)'
      BY <1>2, <1>5, <1>6, <1>8, <1>9, <2>2, <2>3, <2>4 DEF AddedAt
    <3>2. QED BY <3>1 DEF ShortcutOK
  <2>5. CASE s.kind = "removed"
    <3>1. a \notin known' /\ a \in again'
      BY <1>2, <1>6, <1>9, <2>5 DEF ToldOf, Gone, Exempt
    <3>2. \A i : RemovedAfter(i, a)'
      BY <3>1 DEF RemovedAfter
    <3>3. QED BY <3>1, <3>2, ShortcutGoes
  <2>6. QED BY <1>9, <2>4, <2>5
<1>10. CASE ~(s.kind \in {"added", "removed"} /\ s.act = a)
  <2>1. s # Signal("added", a) /\ s # Signal("removed", a)
    BY <1>8, <1>10
  <2>2. a \in again' <=> a \in again
    BY <1>2, <1>10
  <2>3. \A t \in Thread, k \in {"added", "removed"} :
              Signal(k, a) \in StepsOf(t)' <=> Signal(k, a) \in StepsOf(t)
    BY <1>3, <1>4, <2>1 DEF Thread
  <2>4. QED BY <1>2, <1>5, <2>1, <2>2, <2>3, ShortcutKept
<1>11. QED BY <1>9, <1>10

LEMMA ShortcutsAgain ==
    ASSUME FollowTypeOK, WaysOK, ShortcutsOK, NEW b \in Activity, EmitAgain(b)
    PROVE  ShortcutsOK'
<1>1. PICK s \in SignalSet : s = Signal("removed", b) /\ s.kind = "removed" /\ s.act = b
  BY SignalIs DEF Kind
<1>2. /\ Post(s) /\ UNCHANGED <<known, revived, shortcuts, setup, todo>>
      /\ b \in again /\ again' = again \ {b}
  BY <1>1 DEF EmitAgain, activities, plugins
<1>3. PICK q \in Item :
        /\ q.signal = s
        /\ \A p \in Plugin : p \in q.to <=> Listens(p) /\ s.kind \in Wants(p)
        /\ Places \subseteq Places' /\ \A i \in Places : queue'[i] = queue[i]
        /\ \A i \in Places' : i \in Places \/ queue'[i] = q
        /\ q.to # {} => \E n \in Places' : queue'[n] = q /\ \A i \in Places : i < n
  BY <1>1, <1>2, Posts
<1>4. missed' = missed \cup IF setup["shortcuts"] = "half" /\ s.kind \in Wants("shortcuts")
                            THEN {s.act} ELSE {}
  BY <1>2 DEF Post
<1> SUFFICES ASSUME NEW a \in Activity \ Exempt', ShortcutOK(a), setup["shortcuts"] # "new"
             PROVE  ShortcutOK(a)'
  BY <1>2, <1>4 DEF ShortcutsOK, Exempt
<1>5. CASE a = b
  <2>1. setup["shortcuts"] = "ready"
    BY <1>1, <1>4, <1>5, WantsIs DEF FollowTypeOK, Plugin, Exempt
  <2>2. "shortcuts" \in q.to
    BY <1>1, <1>3, <2>1, WantsIs DEF Listens, Plugin
  <2>3. PICK n \in Places' : queue'[n] = q /\ \A i \in Places : i < n
    BY <1>3, <2>2
  <2>4. RemovedAt(n, a)' /\ n > 0
    BY <1>1, <1>3, <1>5, <2>2, <2>3 DEF RemovedAt, Places
  <2>5. \A i \in Places' : AddedAt(i, a)' => i \in Places
    BY <1>1, <1>3, SignalIs DEF AddedAt
  <2>6. \A i \in Places' \cup {0} : i = 0 \/ AddedAt(i, a)' => n > i
    BY <2>3, <2>4, <2>5 DEF Places
  <2>7. \A i \in Places' \cup {0} : i = 0 \/ AddedAt(i, a)' => RemovedAfter(i, a)'
    BY <2>4, <2>6 DEF RemovedAfter
  <2>8. a \notin known'
    BY <1>2, <1>5 DEF WaysOK, Gone, Exempt
  <2>9. QED BY <2>7, <2>8, ShortcutGoes
<1>6. CASE a # b
  <2>1. s # Signal("added", a) /\ s # Signal("removed", a)
    BY <1>1, <1>6, SignalIs
  <2>2. \A t : StepsOf(t)' = StepsOf(t)
    BY <1>2 DEF StepsOf
  <2>3. QED BY <1>2, <1>3, <1>6, <2>1, <2>2, ShortcutKept
<1>7. QED BY <1>5, <1>6

LEMMA ShortcutsHeard ==
    ASSUME FollowTypeOK, WaysOK, ShortcutsOK, HearNext PROVE ShortcutsOK'
<1>1. PICK q : q = Head(queue)
  OBVIOUS
<1>2. /\ todo["main"] = <<>> /\ queue # <<>> /\ queue' = Tail(queue) /\ Tell(q.signal, q.to)
      /\ UNCHANGED <<known, revived, todo, again, setup, missed>>
  BY <1>1 DEF HearNext, activities, Idle
<1>3. /\ Places \subseteq Nat /\ Places' \subseteq Nat
      /\ 1 \in Places /\ q = queue[1] /\ q \in Item
      /\ \A i \in Places' : i + 1 \in Places /\ queue'[i] = queue[i + 1]
      /\ \A i \in Places : i > 1 => i - 1 \in Places' /\ queue'[i - 1] = queue[i]
  BY <1>1, <1>2, QueueShrinks, FollowTypes DEF WayTypes
<1>4. q.signal \in SignalSet /\ ToldOf(q.signal)
  BY <1>3 DEF Item, WaysOK, QueueOK
<1> SUFFICES ASSUME NEW a \in Activity \ Exempt, ShortcutOK(a) PROVE ShortcutOK(a)'
  BY <1>2 DEF ShortcutsOK, Exempt
<1>5. \A t : StepsOf(t)' = StepsOf(t)
  BY <1>2 DEF StepsOf
<1>6. Signal("added", a) \notin StepsOf("main")'
  BY <1>2, <1>5 DEF StepsOf, StepsIn
<1>7. \A k : q.signal = Signal(k, a) <=> q.signal.kind = k /\ q.signal.act = a
  BY <1>4 DEF SignalSet, Signal
<1>8. /\ AddedAt(1, a) <=> /\ "shortcuts" \in q.to
                           /\ q.signal.kind = "added" /\ q.signal.act = a
      /\ RemovedAt(1, a) <=> /\ "shortcuts" \in q.to
                             /\ q.signal.kind = "removed" /\ q.signal.act = a
  BY <1>3, <1>7 DEF AddedAt, RemovedAt
<1>9. /\ AddedAt(1, a) => a \in shortcuts'
      /\ RemovedAt(1, a) => a \notin shortcuts' /\ a \notin known
      /\ ~AddedAt(1, a) => (a \in shortcuts' => a \in shortcuts)
      /\ ~RemovedAt(1, a) => (a \in shortcuts => a \in shortcuts')
  <2>1. CASE "shortcuts" \in q.to /\ q.signal.kind = "added"
    <3>1. shortcuts' = shortcuts \cup {q.signal.act}
      BY <1>2, <1>4, <2>1, TellShortcuts
    <3>2. QED BY <1>8, <2>1, <3>1
  <2>2. CASE "shortcuts" \in q.to /\ q.signal.kind = "removed"
    <3>1. shortcuts' = shortcuts \ {q.signal.act}
      BY <1>2, <1>4, <2>2, TellShortcuts
    <3>2. q.signal.act = a => a \notin known
      BY <1>4, <2>2 DEF ToldOf, Gone, Exempt
    <3>3. QED BY <1>8, <2>2, <3>1, <3>2
  <2>3. CASE "shortcuts" \notin q.to \/ q.signal.kind \notin {"added", "removed"}
    <3>1. shortcuts' = shortcuts
      BY <1>2, <1>4, <2>3, TellShortcuts
    <3>2. QED BY <1>8, <2>3, <3>1
  <2>4. QED BY <2>1, <2>2, <2>3
<1>10. /\ \A i \in Places' : AddedAt(i, a)' <=> AddedAt(i + 1, a)
       /\ \A i \in Places' : RemovedAt(i, a)' <=> RemovedAt(i + 1, a)
  BY <1>3 DEF AddedAt, RemovedAt
<1>11. ASSUME NEW i \in Nat, RemovedAfter(i + 1, a) PROVE RemovedAfter(i, a)'
  <2>1. CASE Signal("removed", a) \in StepsOf("dbus") \/ a \in again
    BY <1>2, <1>5, <2>1 DEF RemovedAfter
  <2>2. CASE \E j \in Places : j > i + 1 /\ RemovedAt(j, a)
    <3>1. PICK j \in Places : j > i + 1 /\ RemovedAt(j, a)
      BY <2>2
    <3>2. PICK h : h = j - 1
      OBVIOUS
    <3>3. j > 1 /\ h > i /\ h + 1 = j
      BY <1>3, <3>1, <3>2
    <3>4. h \in Places'
      BY <1>3, <3>2, <3>3
    <3>5. RemovedAt(h, a)'
      BY <1>10, <3>1, <3>3, <3>4
    <3>6. QED BY <3>3, <3>4, <3>5 DEF RemovedAfter
  <2>3. QED BY <1>11, <2>1, <2>2 DEF RemovedAfter
<1>12. CASE a \in known
  <2>1. CASE a \in shortcuts
    BY <1>2, <1>9, <1>12, <2>1 DEF ShortcutOK
  <2>2. CASE \E t \in Thread : Signal("added", a) \in StepsOf(t)
    BY <1>2, <1>5, <1>12, <2>2 DEF ShortcutOK
  <2>3. CASE \E i \in Places : AddedAt(i, a)
    <3>1. PICK i \in Places : AddedAt(i, a)
      BY <2>3
    <3>2. CASE i = 1
      BY <1>2, <1>9, <1>12, <3>1, <3>2 DEF ShortcutOK
    <3>3. CASE i # 1
      <4>1. PICK h : h = i - 1
        OBVIOUS
      <4>2. i > 1 /\ h + 1 = i
        BY <3>3, <4>1 DEF Places
      <4>3. h \in Places' /\ AddedAt(h, a)'
        BY <1>3, <1>10, <3>1, <4>1, <4>2
      <4>4. QED BY <1>2, <1>12, <4>3 DEF ShortcutOK
    <3>4. QED BY <3>2, <3>3
  <2>4. QED BY <1>12, <2>1, <2>2, <2>3 DEF ShortcutOK
<1>13. CASE a \notin known
  <2>1. /\ a \in shortcuts => RemovedAfter(0, a)
        /\ \A i \in Places : AddedAt(i, a) => RemovedAfter(i, a)
    BY <1>13 DEF ShortcutOK
  <2>2. ASSUME NEW i \in Places', AddedAt(i, a)' PROVE RemovedAfter(i, a)'
    <3>1. PICK k \in Places : k = i + 1
      BY <1>3
    <3>2. RemovedAfter(k, a)
      BY <1>10, <2>1, <2>2, <3>1
    <3>3. QED BY <1>3, <1>11, <3>1, <3>2
  <2>3. ASSUME a \in shortcuts' PROVE RemovedAfter(0, a)'
    <3>1. CASE AddedAt(1, a)
      <4>1. RemovedAfter(1, a)
        BY <1>3, <2>1, <3>1
      <4>2. RemovedAfter(0 + 1, a)
        BY <4>1
      <4>3. QED BY <1>11, <4>2
    <3>2. CASE ~AddedAt(1, a)
      <4>1. RemovedAfter(0, a) /\ ~RemovedAt(1, a)
        BY <1>9, <2>1, <2>3, <3>2
      <4>2. \A j \in Places : j > 0 /\ RemovedAt(j, a) => j > 1
        BY <4>1 DEF Places
      <4>3. RemovedAfter(0 + 1, a)
        BY <4>1, <4>2 DEF RemovedAfter
      <4>4. QED BY <1>11, <4>3
    <3>3. QED BY <3>1, <3>2
  <2>4. QED BY <1>2, <1>6, <1>13, <2>2, <2>3 DEF ShortcutOK
<1>14. QED BY <1>12, <1>13

LEMMA ShortcutsHold ==
    ASSUME FollowTypeOK, WaysOK, UsedOK, ShortcutsOK, TableGrows, [FollowNext]_followVars
    PROVE  ShortcutsOK'
<1>1. "main" \in Thread /\ "dbus" \in Thread
  BY DEF Thread
<1>0. missed \subseteq missed' => Exempt \subseteq Exempt'
  BY DEF TableGrows, Exempt
<1>2. ASSUME UNCHANGED <<known, shortcuts, again, queue, setup, missed>>,
             \A a \in Activity, t \in Thread, k \in {"added", "removed"} :
                Signal(k, a) \in StepsOf(t)' <=> Signal(k, a) \in StepsOf(t)
      PROVE  ShortcutsOK'
  <2>1. Places' = Places
    BY <1>2 DEF Places
  <2>2. \A a \in Activity : ShortcutOK(a) => ShortcutOK(a)'
    BY <1>2, <2>1, ShortcutKept
  <2>3. QED BY <1>0, <1>2, <2>2 DEF ShortcutsOK
<1>3. ASSUME NEW t \in Thread, NEW r \in Seq(Step), InTurn(r), Changeless(r), Method(t, r)
      PROVE  /\ UNCHANGED <<shortcuts, again, queue, setup, missed, Places>>
             /\ StepsOf(t)' = StepsIn(r) /\ StepsOf(t) = {}
             /\ \A u \in Thread : u # t => StepsOf(u)' = StepsOf(u)
  <2>1. /\ \A u \in Thread : u # t => todo'[u] = todo[u]
        /\ StepsOf(t)' = StepsIn(r) /\ StepsOf(t) = {}
    BY <1>3, Begins
  <2>2. UNCHANGED <<shortcuts, again, queue, setup, missed>>
    BY <1>3 DEF Method, Plan, plugins, ledger
  <2>3. QED BY <2>1, <2>2 DEF StepsOf, Places
<1>4. ASSUME NEW t \in Thread, NEW r \in Seq(Step), InTurn(r), Changeless(r), Method(t, r),
             known' = known, \A s \in StepsIn(r) : s.kind \notin {"added", "removed"}
      PROVE  ShortcutsOK'
  <2>1. /\ UNCHANGED <<shortcuts, again, queue, setup, missed, Places>>
        /\ StepsOf(t)' = StepsIn(r) /\ StepsOf(t) = {}
        /\ \A u \in Thread : u # t => StepsOf(u)' = StepsOf(u)
    BY <1>3, <1>4
  <2>2. \A a \in Activity, k \in {"added", "removed"} : Signal(k, a) \notin StepsIn(r)
    BY <1>4, SignalIs
  <2>3. QED BY <1>2, <1>4, <2>1, <2>2
<1>5. ASSUME NEW b \in Activity, Quietly(b) PROVE ShortcutsOK'
  <2>1. PICK t \in Thread, r \in Seq(Step) :
          InTurn(r) /\ Changeless(r) /\ Method(t, r) /\ StepsIn(r) = {}
    BY <1>5, QuietlyBegins
  <2>2. known' = known
    BY <1>5, QuietlyBegins
  <2>3. QED BY <1>4, <2>1, <2>2
<1>6. ASSUME NEW b \in Activity, NEW k \in Outcome, SetActivityState(b, k)
      PROVE  ShortcutsOK'
  <2>1. PICK r \in Seq(Step) :
          /\ InTurn(r) /\ Changeless(r) /\ Method("main", r)
          /\ \A s \in StepsIn(r) : s.act = b /\ s.kind \in {"running", "stopped", "ensure"}
    BY <1>6, SetBegins
  <2>2. \A s \in StepsIn(r) : s.kind \notin {"added", "removed"}
    BY <2>1
  <2>3. CASE b \in known
    <3>1. known' = known
      BY <1>6, <2>3 DEF SetActivityState
    <3>2. QED BY <1>1, <1>4, <2>1, <2>2, <3>1
  <2>4. CASE b \notin known
    <3>1. known' = known \cup {b} /\ b \in Exempt'
      BY <1>6, <2>4 DEF SetActivityState, Exempt
    <3>2. /\ UNCHANGED <<shortcuts, again, queue, setup, missed, Places>>
          /\ StepsOf("main")' = StepsIn(r) /\ StepsOf("main") = {}
          /\ \A u \in Thread : u # "main" => StepsOf(u)' = StepsOf(u)
      BY <1>1, <1>3, <2>1
    <3>3. \A a \in Activity, k1 \in {"added", "removed"} : Signal(k1, a) \notin StepsIn(r)
      BY <2>2, SignalIs
    <3>4. \A a \in Activity \ {b} : ShortcutOK(a) => ShortcutOK(a)'
      BY <3>1, <3>2, <3>3, ShortcutKept
    <3>5. QED BY <1>0, <3>1, <3>2, <3>4 DEF ShortcutsOK
  <2>5. QED BY <2>3, <2>4
<1>7. ASSUME NEW b \in Activity, SetCurrent(b) PROVE ShortcutsOK'
  <2>1. PICK r \in Seq(Step) :
          /\ InTurn(r) /\ Changeless(r) /\ Method("dbus", r)
          /\ \A s \in StepsIn(r) : s.act = b /\ s.kind \in {"assign", "current"}
    BY <1>7, SetCurrentBegins
  <2>2. \A s \in StepsIn(r) : s.kind \notin {"added", "removed"}
    BY <2>1
  <2>3. QED BY <1>1, <1>4, <1>7, <2>1, <2>2 DEF SetCurrent
<1>8. ASSUME NEW b \in Activity, NEW t \in Thread, Add(t, b) PROVE ShortcutsOK'
  <2>1. PICK r \in Seq(Step) :
          /\ InTurn(r) /\ Changeless(r) /\ Method(t, r)
          /\ Signal("added", b) \in StepsIn(r)
          /\ \A s \in StepsIn(r) : s.act = b /\ s.kind \in {"running", "added", "assign", "current"}
    BY <1>8, AddBegins
  <2>2. /\ UNCHANGED <<shortcuts, again, queue, setup, missed, Places>>
        /\ StepsOf(t)' = StepsIn(r) /\ StepsOf(t) = {}
        /\ \A u \in Thread : u # t => StepsOf(u)' = StepsOf(u)
    BY <1>3, <2>1
  <2>3. known' = known \cup {b}
    BY <1>8 DEF Add
  <2>4. ASSUME NEW a \in Activity, ShortcutOK(a) PROVE ShortcutOK(a)'
    <3>1. CASE a = b
      BY <2>1, <2>2, <2>3, <3>1 DEF ShortcutOK
    <3>2. CASE a # b
      <4>1. \A k \in {"added", "removed"} : Signal(k, a) \notin StepsIn(r)
        BY <2>1, <3>2, SignalIs
      <4>2. \A u \in Thread, k \in {"added", "removed"} :
              Signal(k, a) \in StepsOf(u)' <=> Signal(k, a) \in StepsOf(u)
        BY <2>2, <4>1
      <4>3. QED BY <2>2, <2>3, <2>4, <3>2, <4>2, ShortcutKept
    <3>3. QED BY <3>1, <3>2
  <2>5. QED BY <1>0, <2>2, <2>4 DEF ShortcutsOK
<1>9. ASSUME NEW b \in Activity, Erase(b) PROVE ShortcutsOK'
  <2>1. PICK r \in Seq(Step) :
          /\ InTurn(r) /\ Changeless(r) /\ Method("dbus", r)
          /\ Signal("removed", b) \in StepsIn(r)
          /\ \A s \in StepsIn(r) : s.act = b /\ s.kind \in {"ensure", "removed"}
    BY <1>9, EraseBegins
  <2>2. /\ UNCHANGED <<shortcuts, again, queue, setup, missed, Places>>
        /\ StepsOf("dbus")' = StepsIn(r) /\ StepsOf("dbus") = {}
        /\ \A u \in Thread : u # "dbus" => StepsOf(u)' = StepsOf(u)
    BY <1>1, <1>3, <2>1
  <2>3. known' = known \ {b}
    BY <1>9 DEF Erase
  <2>4. ASSUME NEW a \in Activity, ShortcutOK(a) PROVE ShortcutOK(a)'
    <3>1. CASE a = b
      <4>1. \A i : RemovedAfter(i, a)'
        BY <2>1, <2>2, <3>1 DEF RemovedAfter
      <4>2. QED BY <2>3, <3>1, <4>1, ShortcutGoes
    <3>2. CASE a # b
      <4>1. \A k \in {"added", "removed"} : Signal(k, a) \notin StepsIn(r)
        BY <2>1, <3>2, SignalIs
      <4>2. \A u \in Thread, k \in {"added", "removed"} :
              Signal(k, a) \in StepsOf(u)' <=> Signal(k, a) \in StepsOf(u)
        BY <2>2, <4>1
      <4>3. QED BY <2>2, <2>3, <2>4, <3>2, <4>2, ShortcutKept
    <3>3. QED BY <3>1, <3>2
  <2>5. QED BY <1>0, <2>2, <2>4 DEF ShortcutsOK
<1>10. ASSUME NEW t \in Thread, Ensure(t) PROVE ShortcutsOK'
  <2>1. /\ \A u \in Thread : u # t => todo'[u] = todo[u]
        /\ Head(todo[t]).kind = "ensure"
        /\ StepsOf(t) \subseteq {Head(todo[t])} \cup StepsOf(t)'
        /\ \A s \in StepsOf(t)' : \/ s \in StepsOf(t)
                                  \/ s.kind \in {"assign", "current"} /\ s.act \in known
    BY <1>10, Ensures
  <2>2. UNCHANGED <<known, shortcuts, again, queue, setup, missed>>
    BY <1>10 DEF Ensure, plugins, ledger
  <2>3. \A a \in Activity, k \in {"added", "removed"} :
          Signal(k, a) \in StepsOf(t)' <=> Signal(k, a) \in StepsOf(t)
    BY <2>1, SignalIs
  <2>4. \A u \in Thread : u # t => StepsOf(u)' = StepsOf(u)
    BY <2>1 DEF StepsOf
  <2>5. QED BY <1>2, <2>2, <2>3, <2>4
<1>11. ASSUME NEW t \in Thread, Assign(t) PROVE ShortcutsOK'
  <2>1. At(t, {"assign"}) /\ Then(t, <<>>) /\ UNCHANGED <<known, shortcuts, again, queue, setup, missed>>
    BY <1>11 DEF Assign, plugins
  <2>2. /\ \A u \in Thread : u # t => todo'[u] = todo[u]
        /\ Head(todo[t]).kind = "assign"
        /\ StepsOf(t) = {Head(todo[t])} \cup StepsOf(t)'
    BY <2>1, Goes
  <2>3. \A a \in Activity, k \in {"added", "removed"} :
          Signal(k, a) \in StepsOf(t)' <=> Signal(k, a) \in StepsOf(t)
    BY <2>2, SignalIs
  <2>4. \A u \in Thread : u # t => StepsOf(u)' = StepsOf(u)
    BY <2>2 DEF StepsOf
  <2>5. QED BY <1>2, <2>1, <2>3, <2>4
<1>12. CASE \/ InitRunner \/ InitDesktops \/ UNCHANGED followVars
            \/ \E t \in Thread : Copy(t) \/ Publish(t)
  <2>1. UNCHANGED <<known, again, queue, missed, todo>> /\ setup'["shortcuts"] = setup["shortcuts"]
    BY <1>12
    DEF InitRunner, InitDesktops, Initialise, Copy, Publish, followVars, activities, ways, ledger,
        FollowTypeOK, Plugin
  <2>2. shortcuts' = shortcuts
    <3>1. ASSUME Tell(Signal("current", current), {"runner"}) PROVE shortcuts' = shortcuts
      BY <3>1 DEF Tell
    <3>2. QED BY <1>12, <3>1 DEF InitRunner, InitDesktops, Copy, Publish, followVars, plugins
  <2>3. Places' = Places /\ \A t : StepsOf(t)' = StepsOf(t)
    BY <2>1 DEF Places, StepsOf
  <2>4. \A a \in Activity : ShortcutOK(a) => ShortcutOK(a)'
    BY <2>1, <2>2, <2>3, ShortcutKept
  <2>5. QED BY <1>0, <2>1, <2>4 DEF ShortcutsOK
<1>13. QED
  BY <1>5, <1>6, <1>7, <1>8, <1>9, <1>10, <1>11, <1>12, ShortcutsInInit, ShortcutsOnMain,
     ShortcutsOnDBus, ShortcutsAgain, ShortcutsHeard DEF FollowNext, Quietly

-----------------------------------------------------------------------------
(* All of it.                                                                *)

FollowOK == /\ FollowTypeOK /\ WaysOK /\ UsedOK /\ ListOK /\ ShortcutsOK /\ CurrentOK
            /\ RunnerOK /\ StartsOK

LEMMA FollowInitOK == FollowInit => FollowOK
<1> SUFFICES ASSUME FollowInit PROVE FollowOK
  OBVIOUS
<1>1. /\ known \subseteq Activity /\ used = known /\ current \in known \cup {NoActivity}
      /\ revived = {} /\ state = [a \in Activity |-> IF a \in known THEN "running" ELSE "invalid"]
      /\ sorted = [all |-> {}, running |-> {}] /\ copy = [t \in Thread |-> {}]
      /\ updating = [t \in Thread |-> IF t = "main" THEN 1 ELSE 0]
      /\ checked = [t \in Thread |-> {}]
  BY DEF FollowInit
<1>2. /\ todo = [t \in Thread |-> <<>>] /\ again = {} /\ queue = <<>>
      /\ setup = [p \in Plugin |-> "new"]
      /\ following = [p \in {"runner", "desktops"} |-> NoActivity]
      /\ shortcuts = {} /\ activated = {} /\ previous = {} /\ entries \subseteq known
      /\ missed = {} /\ astray = {} /\ runs = [a \in Id |-> 0] /\ said = runs /\ changes = 0
  BY DEF FollowInit
<1>3. TableTypes /\ InvalidOK /\ ListTypes /\ WayTypes /\ SetupTypes /\ PluginTypes /\ LedgerTypes
  <2>1. TableTypes
    BY <1>1 DEF TableTypes, Id
  <2>2. WayTypes
    BY <1>2 DEF WayTypes
  <2>3. SetupTypes
    BY <1>2, ChangesAssumption DEF SetupTypes
  <2>4. PluginTypes
    BY <1>1, <1>2 DEF PluginTypes, Id
  <2>5. LedgerTypes
    BY <1>2 DEF LedgerTypes
  <2>6. InvalidOK
    BY <1>1 DEF InvalidOK
  <2>7. ListTypes
    BY <1>1 DEF ListTypes, Listing
  <2>8. QED BY <2>1, <2>2, <2>3, <2>4, <2>5, <2>6, <2>7
<1>4. FollowTypeOK
  BY <1>3, FollowTypes
<1>5. /\ \A t \in Thread : todo[t] = <<>> /\ InTurn(todo[t]) /\ StepsOf(t) = {}
      /\ Places = {} /\ "main" \in Thread /\ "dbus" \in Thread
  BY <1>2 DEF StepsOf, StepsIn, InTurn, Places, Thread
<1>6. WaysOK
  BY <1>2, <1>5 DEF WaysOK, PlansOK, QueueOK
<1>7. UsedOK
  BY <1>1, <1>2 DEF UsedOK, Used
<1>13. ListOK
  BY <1>1 DEF ListOK
<1>8. ShortcutsOK
  BY <1>2 DEF ShortcutsOK, Plugin
<1>9. CurrentOK
  <2>1. ~Mid /\ ~Coming
    BY <1>5 DEF Mid, Coming
  <2>2. \A p \in {"runner", "desktops"} : ~Asked(p)
    BY <1>2 DEF Asked, Plugin
  <2>3. \A p \in {"runner", "desktops"} : Told(p)
    BY <1>5, <2>2 DEF Told
  <2>4. QED BY <2>1, <2>3 DEF CurrentOK, MidOK, FollowingOK
<1>10. RunnerOK
  BY <1>2 DEF RunnerOK
<1>11. StartsOK
  <2>1. \A a : Waits(a) = {}
    BY <1>5 DEF Waits
  <2>2. \A a \in Id : runs[a] + Cardinality(Waits(a)) = said[a] + (IF a \in previous THEN 1 ELSE 0)
    BY <1>2, <2>1, FS_EmptySet
  <2>3. QED BY <2>2 DEF StartsOK
<1>12. QED BY <1>4, <1>6, <1>7, <1>8, <1>9, <1>10, <1>11, <1>13 DEF FollowOK

LEMMA FollowStepOK == FollowOK /\ [FollowNext]_followVars => FollowOK'
BY FollowTypesHold, WaysHold, UsedHolds, ListsHold, GrowsInAStep, ShortcutsHold, CurrentHolds,
   StartsHold DEF FollowOK

LEMMA FollowAlways == FollowSpec => []FollowOK
BY FollowInitOK, FollowStepOK, PTL DEF FollowSpec

(* Whatever changes, on whichever thread and how far the plugins ever are:   *)
(* their state has the type it should have (GlobalShortcutsPlugin.cpp:45-74, *)
(* RunApplicationPlugin.cpp:47-90, VirtualDesktopSwitchPlugin.cpp:43-81).    *)
THEOREM FollowersTypeCorrect == FollowSpec => []FollowTypeOK
<1>1. FollowOK => FollowTypeOK
  BY DEF FollowOK
<1>2. QED BY <1>1, FollowAlways, PTL

(* With nothing under way, what FollowOK says of each plugin is what         *)
(* FollowersAgree says of it.                                                *)
LEMMA AgreeWhenQuiet == FollowOK => FollowersAgree
<1> SUFFICES ASSUME FollowOK, Quiet PROVE FollowersAgree
  BY DEF FollowersAgree, ShortcutsOfKnown, ActivatedIsCurrent, DesktopsFollow, StartedOnceMore
<1>1. /\ Ready /\ again = {} /\ Places = {} /\ \A t \in Thread : todo[t] = <<>>
  BY DEF Quiet, Idle, Places
<1>2. \A t \in Thread : StepsOf(t) = {}
  BY <1>1 DEF StepsOf, StepsIn
<1>3. "main" \in Thread /\ "dbus" \in Thread
  BY DEF Thread
<1>4. \A p \in Plugin : setup[p] = "ready"
  BY <1>1 DEF Ready
<1>5. ShortcutsOfKnown
  <2> SUFFICES ASSUME NEW a \in Activity \ Exempt PROVE a \in shortcuts <=> a \in known
    BY DEF ShortcutsOfKnown, Exempt
  <2>1. ShortcutOK(a)
    BY <1>4 DEF FollowOK, ShortcutsOK, Plugin
  <2>2. ~RemovedAfter(0, a)
    BY <1>1, <1>2, <1>3 DEF RemovedAfter
  <2>3. QED BY <1>1, <1>2, <2>1, <2>2 DEF ShortcutOK
<1>6. ~Mid /\ ~Coming
  BY <1>1, <1>3 DEF Mid, Coming
<1>7. \A p \in {"runner", "desktops"} : p \notin astray => following[p] = current
  <2> SUFFICES ASSUME NEW p \in {"runner", "desktops"}, p \notin astray
               PROVE  following[p] = current
    OBVIOUS
  <2>1. Told(p)
    BY <1>6 DEF FollowOK, CurrentOK, FollowingOK
  <2>2. Asked(p)
    BY <1>4 DEF Asked, Plugin
  <2>3. QED BY <1>1, <2>1, <2>2 DEF Told
<1>8. ActivatedIsCurrent /\ DesktopsFollow
  BY <1>7 DEF ActivatedIsCurrent, DesktopsFollow, FollowOK, RunnerOK
<1>9. StartedOnceMore
  <2> SUFFICES ASSUME NEW a \in Id PROVE runs[a] = said[a] + IF a \in previous THEN 1 ELSE 0
    BY DEF StartedOnceMore
  <2>1. runs[a] + Cardinality(Waits(a)) = said[a] + (IF a \in previous THEN 1 ELSE 0)
    BY DEF FollowOK, StartsOK
  <2>2. Waits(a) = {}
    BY <1>1 DEF Waits
  <2>3. Cardinality(Waits(a)) = 0
    BY <2>2, FS_EmptySet
  <2>4. runs[a] \in Nat
    BY DEF FollowOK, FollowTypeOK
  <2>5. QED BY <2>1, <2>3, <2>4
<1>10. QED BY <1>5, <1>8, <1>9 DEF FollowersAgree

(* Once all that was emitted has been heard the plugins agree with           *)
(* Activities, for any activities and any number of changes: a shortcut is   *)
(* there for what is in the table, but for ids the sorted list was behind    *)
(* with (Activities.cpp:162-172), ids told of before the connections and     *)
(* ids an outcome put back; the current activity is followed, but for who is *)
(* led astray by a change that overtook one on its way                       *)
(* (GlobalShortcutsPlugin.cpp:45-87, RunApplicationPlugin.cpp:47-112,        *)
(* VirtualDesktopSwitchPlugin.cpp:43-81).                                    *)
THEOREM PluginsAgree == FollowSpec => []FollowersAgree
BY AgreeWhenQuiet, FollowAlways, PTL

(* The removal of an activity that was removed stays on its way until the    *)
(* plugin hears of it.                                                       *)
OnItsWay(a) == \/ a \in again
               \/ Signal("removed", a) \in StepsOf("dbus")
               \/ \E i \in Places : /\ queue[i].signal = Signal("removed", a)
                                    /\ "desktops" \in queue[i].to
LeftBehindIs == FollowTypeOK =>
    \A a : LeftBehind(a) <=> a \in entries \cap (used \ known) /\ ~OnItsWay(a)

LEMMA LeftBehindMeans == LeftBehindIs
<1> SUFFICES ASSUME FollowTypeOK, NEW a
             PROVE  LeftBehind(a) <=> a \in entries \cap (used \ known) /\ ~OnItsWay(a)
  BY DEF LeftBehindIs
<1>1. queue \in Seq(Item) /\ todo["dbus"] \in Seq(Step)
  BY FollowTypes DEF WayTypes, Thread
<1>2. DOMAIN queue = Places /\ DOMAIN todo["dbus"] = 1..Len(todo["dbus"])
  BY <1>1 DEF Places
<1>3. QED BY <1>2 DEF LeftBehind, OnItsWay, StepsOf, StepsIn

LEMMA PostedStays ==
    ASSUME FollowTypeOK, NEW s \in SignalSet, Post(s), setup["desktops"] = "ready"
    PROVE  /\ \A i \in Places : i \in Places' /\ queue'[i] = queue[i]
           /\ s.kind = "removed" =>
                \E n \in Places' : queue'[n].signal = s /\ "desktops" \in queue'[n].to
<1>1. PICK q \in Item :
        /\ q.signal = s
        /\ \A p \in Plugin : p \in q.to <=> Listens(p) /\ s.kind \in Wants(p)
        /\ Places \subseteq Places' /\ \A i \in Places : queue'[i] = queue[i]
        /\ q.to # {} => \E n \in Places' : queue'[n] = q /\ \A i \in Places : i < n
  BY Posts
<1>2. s.kind = "removed" => "desktops" \in q.to
  BY <1>1, WantsIs DEF Listens, Plugin
<1>3. QED BY <1>1, <1>2

(* A step after which an entry is left behind.                               *)
LEMMA LeavesBehind ==
    ASSUME FollowOK, FollowTypeOK', [FollowNext]_followVars, NEW a \in Activity,
           LeftBehind(a)', ~LeftBehind(a), setup["desktops"] = "ready"
    PROVE  following["desktops"] = a
<1> SUFFICES ASSUME following["desktops"] # a PROVE FALSE
  OBVIOUS
<1>1. FollowTypeOK /\ WaysOK /\ UsedOK
  BY DEF FollowOK
<1>2. LeftBehindIs /\ LeftBehindIs'
  BY LeftBehindMeans, PTL
<1>3. a \in entries' /\ a \in used' /\ a \notin known' /\ ~OnItsWay(a)'
  BY <1>2 DEF LeftBehindIs
<1>4. ~(a \in entries /\ a \in used \ known) \/ OnItsWay(a)
  BY <1>1, <1>2 DEF LeftBehindIs
<1>5. "main" \in Thread /\ "dbus" \in Thread /\ a # NoActivity
  BY NoActivityAssumption DEF Thread
<1>6. entries \subseteq Used /\ queue \in Seq(Item)
  BY <1>1, FollowTypes DEF UsedOK, WayTypes
<1>7. ASSUME entries' \subseteq entries \cup {following["desktops"]}
      PROVE  a \in entries /\ a \in used
  BY <1>3, <1>5, <1>6, <1>7 DEF Used
<1>8. ASSUME entries' \subseteq entries \cup {following["desktops"]}, known' = known
      PROVE  OnItsWay(a)
  BY <1>3, <1>4, <1>7, <1>8
<1>9. ASSUME UNCHANGED <<known, entries, todo, again, queue>> PROVE FALSE
  <2>1. OnItsWay(a)
    BY <1>8, <1>9
  <2>2. OnItsWay(a)'
    BY <1>9, <2>1 DEF OnItsWay, StepsOf, Places
  <2>3. QED BY <1>3, <2>2
<1>10. CASE \/ InitShortcuts \/ InitDesktops \/ UNCHANGED followVars
            \/ \E t \in Thread : Copy(t) \/ Publish(t)
  BY <1>9, <1>10 DEF InitShortcuts, InitDesktops, Initialise, Copy, Publish, followVars,
                     activities, ways, plugins
<1>11. CASE InitRunner
  <2>1. UNCHANGED <<known, todo, again, queue>>
    BY <1>11 DEF InitRunner, Initialise, activities, ways
  <2>2. entries' = entries
    BY <1>11 DEF InitRunner, plugins, Tell
  <2>3. QED BY <1>9, <2>1, <2>2
<1>12. CASE EmitOnMain
  <2>1. PICK s : s = Head(todo["main"])
    OBVIOUS
  <2>2. At("main", Kind) /\ Then("main", <<>>) /\ Tell(s, Plugin) /\ UNCHANGED <<known, again, queue>>
    BY <1>12, <2>1 DEF EmitOnMain, activities
  <2>3. s \in SignalSet /\ todo'["dbus"] = todo["dbus"]
    BY <1>1, <1>5, <2>1, <2>2, Goes, SignalIs
  <2>4. entries' \subseteq entries \cup {following["desktops"]}
    BY <2>2, <2>3, TellDesktops
  <2>5. OnItsWay(a)
    BY <1>8, <2>2, <2>4
  <2>6. OnItsWay(a)'
    BY <2>2, <2>3, <2>5 DEF OnItsWay, StepsOf, Places
  <2>7. QED BY <1>3, <2>6
<1>13. CASE EmitOnDBus
  <2>1. PICK s : s = Head(todo["dbus"])
    OBVIOUS
  <2>2. /\ At("dbus", Kind) /\ Then("dbus", <<>>) /\ Post(s) /\ UNCHANGED <<known, entries>>
        /\ again' = again \cup {e.act : e \in {q \in {s} : q.kind = "removed"}}
    BY <1>13, <2>1 DEF EmitOnDBus, activities, plugins
  <2>3. s \in SignalSet /\ StepsOf("dbus") = {s} \cup StepsOf("dbus")'
    BY <1>1, <1>5, <2>1, <2>2, Goes, SignalIs
  <2>4. OnItsWay(a)
    BY <1>8, <2>2
  <2>5. \A i \in Places : i \in Places' /\ queue'[i] = queue[i]
    BY <1>1, <2>2, <2>3, PostedStays
  <2>6. s = Signal("removed", a) => a \in again'
    BY <2>2, SignalIs
  <2>7. OnItsWay(a)'
    BY <2>2, <2>3, <2>4, <2>5, <2>6 DEF OnItsWay
  <2>8. QED BY <1>3, <2>7
<1>14. ASSUME NEW b \in Activity, EmitAgain(b) PROVE FALSE
  <2>1. PICK s \in SignalSet : s = Signal("removed", b) /\ s.kind = "removed"
    BY SignalIs DEF Kind
  <2>2. Post(s) /\ again' = again \ {b} /\ UNCHANGED <<known, entries, todo>>
    BY <1>14, <2>1 DEF EmitAgain, activities, plugins
  <2>3. OnItsWay(a)
    BY <1>8, <2>2
  <2>4. /\ \A i \in Places : i \in Places' /\ queue'[i] = queue[i]
        /\ \E n \in Places' : queue'[n].signal = s /\ "desktops" \in queue'[n].to
    BY <1>1, <2>1, <2>2, PostedStays
  <2>5. OnItsWay(a)'
    <3>1. CASE a = b
      BY <2>1, <2>4, <3>1 DEF OnItsWay
    <3>2. CASE a # b
      BY <2>2, <2>3, <2>4, <3>2 DEF OnItsWay, StepsOf
    <3>3. QED BY <3>1, <3>2
  <2>6. QED BY <1>3, <2>5
<1>15. CASE HearNext
  <2>1. PICK q : q = Head(queue)
    OBVIOUS
  <2>2. /\ queue # <<>> /\ queue' = Tail(queue) /\ Tell(q.signal, q.to)
        /\ UNCHANGED <<known, todo, again>>
    BY <1>15, <2>1 DEF HearNext, activities
  <2>3. /\ q = queue[1] /\ q \in Item
        /\ \A i \in Places : i > 1 => i - 1 \in Places' /\ queue'[i - 1] = queue[i]
    BY <1>6, <2>1, <2>2, QueueShrinks
  <2>4. q.signal \in SignalSet
    BY <2>3 DEF Item
  <2>5. /\ "desktops" \in q.to /\ q.signal.kind = "removed" => entries' = entries \ {q.signal.act}
        /\ entries' \subseteq entries \cup {following["desktops"]}
    BY <2>2, <2>4, TellDesktops
  <2>6. OnItsWay(a)
    BY <1>8, <2>2, <2>5
  <2>7. ~(q.signal = Signal("removed", a) /\ "desktops" \in q.to)
    BY <1>3, <2>5, SignalIs
  <2>8. CASE \E i \in Places : queue[i].signal = Signal("removed", a) /\ "desktops" \in queue[i].to
    <3>1. PICK i \in Places : queue[i].signal = Signal("removed", a) /\ "desktops" \in queue[i].to
      BY <2>8
    <3>2. i > 1
      BY <2>3, <2>7, <3>1 DEF Places
    <3>3. QED BY <1>3, <2>3, <3>1, <3>2 DEF OnItsWay
  <2>9. CASE a \in again \/ Signal("removed", a) \in StepsOf("dbus")
    BY <1>3, <2>2, <2>9 DEF OnItsWay, StepsOf
  <2>10. QED BY <2>6, <2>8, <2>9 DEF OnItsWay
<1>16. ASSUME NEW t \in Thread, NEW r \in Seq(Step), InTurn(r), Changeless(r), Method(t, r),
              known' = known \/ (\E b \in Activity : known' = known \cup {b})
       PROVE  FALSE
  <2>1. /\ StepsOf(t) = {}
        /\ \A u \in Thread : u # t => todo'[u] = todo[u]
    BY <1>1, <1>16, Begins
  <2>2. UNCHANGED <<entries, again, queue>>
    BY <1>16 DEF Method, Plan, plugins
  <2>3. OnItsWay(a)
    BY <1>3, <1>4, <1>7, <1>16, <2>2
  <2>4. Signal("removed", a) \in StepsOf("dbus") => Signal("removed", a) \in StepsOf("dbus")'
    BY <1>5, <2>1 DEF StepsOf
  <2>5. OnItsWay(a)'
    BY <2>2, <2>3, <2>4 DEF OnItsWay, Places
  <2>6. QED BY <1>3, <2>5
<1>17. ASSUME NEW b \in Activity, Erase(b) PROVE FALSE
  <2>1. PICK r \in Seq(Step) :
          /\ InTurn(r) /\ Changeless(r) /\ Method("dbus", r)
          /\ Signal("removed", b) \in StepsIn(r)
    BY <1>17, EraseBegins
  <2>2. StepsOf("dbus") = {} /\ StepsOf("dbus")' = StepsIn(r)
    BY <1>1, <1>5, <2>1, Begins
  <2>3. UNCHANGED <<entries, again, queue>> /\ known' = known \ {b}
    BY <1>17, <2>1 DEF Erase, Method, Plan, plugins
  <2>4. CASE a = b
    BY <1>3, <2>1, <2>2, <2>4 DEF OnItsWay
  <2>5. CASE a # b
    <3>1. a \in entries /\ a \in used \ known
      BY <1>3, <1>7, <2>3, <2>5
    <3>2. OnItsWay(a)
      BY <1>4, <3>1
    <3>3. OnItsWay(a)'
      BY <2>2, <2>3, <3>2 DEF OnItsWay, Places
    <3>4. QED BY <1>3, <3>3
  <2>6. QED BY <2>4, <2>5
<1>18. ASSUME NEW b \in Activity, Quietly(b) PROVE FALSE
  <2>1. PICK t \in Thread, r \in Seq(Step) : InTurn(r) /\ Changeless(r) /\ Method(t, r)
    BY <1>18, QuietlyBegins
  <2>2. known' = known
    BY <1>18, QuietlyBegins
  <2>3. QED BY <1>16, <2>1, <2>2
<1>19. ASSUME NEW b \in Activity, NEW t \in Thread, Add(t, b) PROVE FALSE
  <2>1. known' = known \cup {b}
    BY <1>19 DEF Add
  <2>2. PICK r \in Seq(Step) : InTurn(r) /\ Changeless(r) /\ Method(t, r)
    BY <1>1, <1>19, AddBegins
  <2>3. QED BY <1>16, <2>1, <2>2
<1>20. ASSUME NEW b \in Activity, NEW k \in Outcome, SetActivityState(b, k)
       PROVE  FALSE
  <2>1. known' = known \cup {b}
    BY <1>20 DEF SetActivityState
  <2>2. PICK r \in Seq(Step) : InTurn(r) /\ Changeless(r) /\ Method("main", r)
    BY <1>20, SetBegins
  <2>3. QED BY <1>5, <1>16, <2>1, <2>2
<1>21. ASSUME NEW b \in Activity, SetCurrent(b) PROVE FALSE
  <2>1. known' = known
    BY <1>21 DEF SetCurrent
  <2>2. PICK r \in Seq(Step) : InTurn(r) /\ Changeless(r) /\ Method("dbus", r)
    BY <1>21, SetCurrentBegins
  <2>3. QED BY <1>5, <1>16, <2>1, <2>2
<1>22. ASSUME NEW t \in Thread, Ensure(t) \/ Assign(t) PROVE FALSE
  <2>1. UNCHANGED <<known, entries, again, queue>>
    BY <1>22 DEF Ensure, Assign, plugins
  <2>2. /\ \A u \in Thread : u # t => todo'[u] = todo[u]
        /\ Head(todo[t]).kind \in {"ensure", "assign"}
        /\ StepsOf(t) \subseteq {Head(todo[t])} \cup StepsOf(t)'
    <3>1. CASE Ensure(t)
      BY <1>1, <3>1, Ensures
    <3>2. CASE Assign(t)
      <4>1. At(t, {"assign"}) /\ Then(t, <<>>)
        BY <3>2 DEF Assign
      <4>2. /\ \A u \in Thread : u # t => todo'[u] = todo[u]
            /\ Head(todo[t]).kind \in {"assign"}
            /\ StepsOf(t) = {Head(todo[t])} \cup StepsOf(t)'
        BY <1>1, <4>1, Goes
      <4>3. QED BY <4>2
    <3>3. QED BY <1>22, <3>1, <3>2
  <2>3. OnItsWay(a)
    BY <1>8, <2>1
  <2>4. \A u \in Thread : u # t => StepsOf(u)' = StepsOf(u)
    BY <2>2 DEF StepsOf
  <2>5. Signal("removed", a) \in StepsOf("dbus") => Signal("removed", a) \in StepsOf("dbus")'
    BY <1>5, <2>2, <2>4, SignalIs
  <2>6. OnItsWay(a)'
    BY <2>1, <2>3, <2>5 DEF OnItsWay, Places
  <2>7. QED BY <1>3, <2>6
<1>23. QED
  BY <1>10, <1>11, <1>12, <1>13, <1>14, <1>15, <1>17, <1>18, <1>19, <1>20, <1>21, <1>22
  DEF FollowNext, Quietly

(* An entry stays behind for a removed activity only if the plugin still     *)
(* took it for the current one, or was not initialised                       *)
(* (VirtualDesktopSwitchPlugin.cpp:50-53, 64-66, 77-81).                     *)
THEOREM DesktopsForget == FollowSpec => LeftBehindOnlyIf
<1>1. FollowOK /\ FollowOK' /\ [FollowNext]_followVars =>
        [\A a \in Activity : LeftBehind(a)' /\ ~LeftBehind(a) =>
            setup["desktops"] # "ready" \/ following["desktops"] = a]_followVars
  <2> SUFFICES ASSUME FollowOK, FollowOK', [FollowNext]_followVars, NEW a \in Activity,
                      LeftBehind(a)', ~LeftBehind(a), setup["desktops"] = "ready"
               PROVE  following["desktops"] = a
    OBVIOUS
  <2>1. FollowTypeOK'
    BY DEF FollowOK
  <2>2. QED BY <2>1, LeavesBehind
<1>2. QED BY <1>1, FollowAlways, PTL DEF FollowSpec, LeftBehindOnlyIf
=============================================================================
