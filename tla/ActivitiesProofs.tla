-------------------------- MODULE ActivitiesProofs --------------------------
(* Proofs about Activities for any ids, configurations and bounds, and about *)
(* ConfigSync for any threads.                                               *)
EXTENDS Activities, ConfigSync, SequenceTheorems, FiniteSetTheorems, TLAPS

(* The disjuncts of Next that the proofs split on.                           *)
LEMMA NextCases ==
    ASSUME NEW P,
           TypeOK, [Next]_vars,
           \A t \in Thread : DoAdd(t) => P,
           \A t \in Thread : DoSetState(t) => P,
           \A t \in Thread : DoWriteLists(t) => P,
           \A t \in Thread : DoSnapshot(t) \/ DoPublish(t) => P,
           \A t \in Thread : DoStart(t) \/ DoStop(t) => P,
           \A t \in Thread : DoSession(t) => P,
           \A t \in Thread : DoSetCurrent(t) => P,
           \A t \in Thread : DoAssign(t) \/ DoSave(t) => P,
           \A t \in Thread : DoEnsure(t) => P,
           \A t \in Thread : DoSetName(t) \/ DoWriteName(t) => P,
           \A t \in Thread : DoErase(t) => P,
           \A t \in Thread : DoDropEntries(t) => P,
           DoStartThread => P,
           \A a \in Activity, name \in {"start", "stop", "setName", "setCurrent"} :
              Call(<<StepOn(name, a)>>) => P,
           \A a \in Activity : RemoveActivity(a) => P,
           \A t \in Thread : AddActivity(t) => P,
           \A a \in Activity, e \in Event : SessionStateChanged(a, e) => P,
           \A a \in Activity : Forget(a) => P,
           ConfigSync => P,
           \A c \in {cfg, disk} : Restart(c) => P,
           UNCHANGED vars => P
    PROVE  P
<1>1. ASSUME NEW t \in Thread, StepOf(t) PROVE P
  BY <1>1 DEF StepOf
<1>2. ASSUME Client PROVE P
  <2>1. ASSUME CycleActivity PROVE P
    BY <2>1 DEF CycleActivity, TypeOK
  <2>2. QED
    BY <1>2, <2>1
       DEF Client, StartActivity, StopActivity, SetActivityName, SetCurrentActivity
<1>3. ASSUME Crash \/ Quit PROVE P
  BY <1>3 DEF Crash, Quit
<1>4. QED BY <1>1, <1>2, <1>3 DEF Next

-----------------------------------------------------------------------------
(* Lists of steps.                                                           *)

LEMMA RangeOfOne ==
    ASSUME NEW x
    PROVE  Range(<<x>>) = {x}
BY DEF Range

LEMMA RangeOfTwo ==
    ASSUME NEW x, NEW y
    PROVE  Range(<<x, y>>) = {x, y}
BY DEF Range

LEMMA RangeOfThree ==
    ASSUME NEW x, NEW y, NEW z
    PROVE  Range(<<x, y, z>>) = {x, y, z}
BY DEF Range

LEMMA RangeOfHeadAndTail ==
    ASSUME NEW S, NEW s \in Seq(S), s # <<>>
    PROVE  Range(s) = {Head(s)} \cup Range(Tail(s))
<1>1. /\ Tail(s) \in Seq(S)
      /\ Len(Tail(s)) = Len(s) - 1
      /\ \A i \in 1..Len(Tail(s)) : Tail(s)[i] = s[i + 1]
  BY HeadTailProperties
<1>2. /\ Range(s) = {s[i] : i \in 1..Len(s)}
      /\ Range(Tail(s)) = {Tail(s)[i] : i \in 1..Len(Tail(s))}
  BY <1>1, RangeEquality
<1>3. Len(s) \in Nat /\ Len(s) >= 1 /\ Head(s) = s[1]
  BY <1>1, LenProperties
<1>4. \A i \in 2..Len(s) : i - 1 \in 1..Len(Tail(s)) /\ s[i] = Tail(s)[i - 1]
  BY <1>1, <1>3
<1>5. \A i \in 1..Len(Tail(s)) : i + 1 \in 1..Len(s)
  BY <1>1, <1>3
<1>6. Range(s) \subseteq {Head(s)} \cup Range(Tail(s))
  <2>1. ASSUME NEW i \in 1..Len(s) PROVE s[i] \in {Head(s)} \cup Range(Tail(s))
    <3>1. CASE i = 1
      BY <1>3, <3>1
    <3>2. CASE i # 1
      <4>1. i \in 2..Len(s)
        BY <1>3, <3>2
      <4>2. QED BY <1>2, <1>4, <4>1
    <3>3. QED BY <3>1, <3>2
  <2>2. QED BY <1>2, <2>1
<1>7. Range(Tail(s)) \subseteq Range(s)
  BY <1>1, <1>2, <1>5
<1>8. Head(s) \in Range(s)
  BY <1>2, <1>3
<1>9. QED BY <1>6, <1>7, <1>8

LEMMA StepTypes ==
    /\ \A name \in OwnSteps : Step(name) \in Todo
    /\ \A name \in IdSteps, a \in Activity : StepOn(name, a) \in Todo
    /\ \A a \in Activity \cup {NoActivity} : StepOn("setCurrent", a) \in Todo
    /\ \A a \in Activity, s \in State : SetState(a, s) \in Todo
BY DEF Step, StepOn, SetState, Todo

LEMMA OptionalType ==
    ASSUME NEW c \in BOOLEAN, NEW s \in Seq(Todo)
    PROVE  /\ Optional(c, s) \in Seq(Todo)
           /\ Range(Optional(c, s)) = IF c THEN Range(s) ELSE {}
<1>1. CASE c
  BY <1>1 DEF Optional
<1>2. CASE ~c
  <2>1. Optional(c, s) = <<>>
    BY <1>2 DEF Optional
  <2>2. Range(<<>>) = {}
    BY DEF Range
  <2>3. QED BY <1>2, <2>1, <2>2
<1>3. QED BY <1>1, <1>2

LEMMA UpdateType ==
    /\ Update \in Seq(Todo)
    /\ Range(Update) = {Step("snapshot"), Step("publish")}
<1>1. Step("snapshot") \in Todo /\ Step("publish") \in Todo
  BY StepTypes DEF OwnSteps
<1>2. Update \in Seq(Todo)
  BY <1>1 DEF Update
<1>3. Range(Update) = {Step("snapshot"), Step("publish")}
  BY RangeOfTwo, Zenon DEF Update
<1>4. QED BY <1>2, <1>3

(* A thread that makes a step has one, and goes on with new ones in front.   *)
LEMMA ThenSteps ==
    ASSUME TypeOK, NEW t \in Thread, NEW name, At(t, name),
           NEW steps \in Seq(Todo), Then(t, steps)
    PROVE  /\ todo' \in [Thread -> Seq(Todo)]
           /\ Head(todo[t]) \in Steps(t)
           /\ Steps(t)' = Range(steps) \cup Range(Tail(todo[t]))
           /\ Steps(t)' \subseteq Range(steps) \cup Steps(t)
           /\ Range(steps) \subseteq Steps(t)'
           /\ Steps(t) \subseteq {Head(todo[t])} \cup Steps(t)'
           /\ \A u \in Thread \ {t} : Steps(u)' = Steps(u)
<1>1. todo[t] \in Seq(Todo) /\ todo[t] # <<>>
  BY DEF TypeOK, At
<1>2. Tail(todo[t]) \in Seq(Todo)
  BY <1>1, HeadTailProperties
<1>3. Steps(t) = {Head(todo[t])} \cup Range(Tail(todo[t]))
  BY <1>1, RangeOfHeadAndTail DEF Steps
<1>4. /\ steps \o Tail(todo[t]) \in Seq(Todo)
      /\ Range(steps \o Tail(todo[t])) = Range(steps) \cup Range(Tail(todo[t]))
  BY <1>2, ConcatProperties, RangeConcatenation, ZenonT(60)
<1>5. todo'[t] = steps \o Tail(todo[t])
  BY DEF Then, TypeOK
<1>6. \A u \in Thread \ {t} : todo'[u] = todo[u]
  BY DEF Then, TypeOK
<1>7. todo' \in [Thread -> Seq(Todo)]
  BY <1>4 DEF Then, TypeOK
<1>8. QED BY <1>3, <1>4, <1>5, <1>6, <1>7 DEF Steps

LEMMA BeginSteps ==
    ASSUME TypeOK, NEW t \in Thread, NEW steps \in Seq(Todo), Begin(t, steps)
    PROVE  /\ todo' \in [Thread -> Seq(Todo)]
           /\ Steps(t) = {}
           /\ Steps(t)' = Range(steps)
           /\ \A u \in Thread \ {t} : Steps(u)' = Steps(u)
<1>1. todo[t] = <<>> /\ todo'[t] = steps
  BY DEF Begin, Idle, TypeOK
<1>2. \A u \in Thread \ {t} : todo'[u] = todo[u]
  BY DEF Begin, TypeOK
<1>3. todo' \in [Thread -> Seq(Todo)]
  BY DEF Begin, TypeOK
<1>4. QED BY <1>1, <1>2, <1>3 DEF Steps, Range

LEMMA StepAtHand ==
    ASSUME TypeOK, NEW t \in Thread, NEW name, At(t, name)
    PROVE  /\ Head(todo[t]) \in Todo
           /\ Head(todo[t]).step = name
           /\ name \in IdSteps \cup {"setState"} => Act(t) \in Activity
           /\ name = "setCurrent" => Act(t) \in Activity \cup {NoActivity}
           /\ name = "setState" => Head(todo[t]).state \in State
<1>1. todo[t] \in Seq(Todo) /\ todo[t] # <<>> /\ Head(todo[t]).step = name
  BY DEF TypeOK, At
<1>2. Head(todo[t]) \in Todo
  BY <1>1, HeadTailProperties
<1>3. QED BY <1>1, <1>2 DEF Todo, OwnSteps, IdSteps, Act

-----------------------------------------------------------------------------
(* Types.                                                                    *)

LEMMA LoadedType ==
    ASSUME NEW c \in Config
    PROVE  Loaded(c) \in Table
BY DEF Loaded, LoadedState, ListedState, DefaultState, Table, State

LEMMA LastUsedType ==
    ASSUME NEW c \in Config
    PROVE  LastUsed(c) \subseteq Activity \cup {NoActivity}
BY DEF LastUsed, Config

LEMMA StartUpType ==
    ASSUME NEW c \in Config, NEW last \in Activity \cup {NoActivity}
    PROVE  /\ StartUp(c, last) \in [Thread -> Seq(Todo)]
           /\ Range(StartUp(c, last)[Main]) =
                {StepOn("setCurrent", last), Step("startThread"),
                 Step("snapshot"), Step("publish")}
           /\ Range(StartUp(c, last)[DBus]) \subseteq {Step("add")}
<1> DEFINE first == <<StepOn("setCurrent", last), Step("startThread")>>
           adds == [i \in 1..DefaultNames |-> Step("add")]
<1>1. /\ StepOn("setCurrent", last) \in Todo
      /\ Step("startThread") \in Todo
      /\ Step("add") \in Todo
  BY StepTypes DEF OwnSteps
<1>2. first \in Seq(Todo)
  BY <1>1
<1>3. Range(first) = {StepOn("setCurrent", last), Step("startThread")}
  BY RangeOfTwo, Zenon
<1>4. adds \in Seq(Todo)
  BY <1>1, BoundsAssumption
<1>5. Range(adds) \subseteq {Step("add")}
  BY DEF Range
<1>6. Range(<<>>) = {} /\ <<>> \in Seq(Todo)
  BY DEF Range
<1>7. /\ first \o Update \in Seq(Todo)
      /\ Range(first \o Update) = Range(first) \cup Range(Update)
  <2> HIDE DEF first
  <2>1. QED BY <1>2, UpdateType, ConcatProperties, RangeConcatenation
<1>8. /\ StartUp(c, last)[Main] = first \o Update
      /\ StartUp(c, last)[DBus] = IF c.names # {} THEN <<>> ELSE adds
  BY ThreadAssumption DEF StartUp, Thread
<1>9. StartUp(c, last) \in [Thread -> Seq(Todo)]
  BY <1>4, <1>6, <1>7 DEF StartUp
<1> HIDE DEF first, adds
<1>10. QED BY <1>3, <1>5, <1>6, <1>7, <1>8, <1>9, UpdateType

(* The lists of steps that the methods of the model begin or go on with.     *)
LEMMA SetStateSteps ==
    ASSUME TypeOK, NEW c \in BOOLEAN
    PROVE  /\ Optional(c, <<Step("writeLists")>>) \o Update \in Seq(Todo)
           /\ Range(Optional(c, <<Step("writeLists")>>) \o Update)
                \subseteq {Step("writeLists"), Step("snapshot"), Step("publish")}
           /\ c => Step("writeLists")
                     \in Range(Optional(c, <<Step("writeLists")>>) \o Update)
<1> DEFINE w == <<Step("writeLists")>>
<1>1. Step("writeLists") \in Todo
  BY StepTypes DEF OwnSteps
<1>2. w \in Seq(Todo)
  BY <1>1
<1>3. Range(w) = {Step("writeLists")}
  BY RangeOfOne, Zenon
<1> HIDE DEF w
<1>4. /\ Optional(c, w) \in Seq(Todo)
      /\ Range(Optional(c, w)) = IF c THEN {Step("writeLists")} ELSE {}
  BY <1>2, <1>3, OptionalType
<1>5. /\ Optional(c, w) \o Update \in Seq(Todo)
      /\ Range(Optional(c, w) \o Update) = Range(Optional(c, w)) \cup Range(Update)
  BY <1>4, UpdateType, ConcatProperties, RangeConcatenation
<1>6. QED BY <1>4, <1>5, UpdateType DEF w

LEMMA SessionSteps ==
    ASSUME NEW a \in Activity, NEW s \in State, NEW c \in BOOLEAN
    PROVE  LET steps == <<SetState(a, s), StepOn("session", a)>>
           IN  /\ Optional(c, steps) \in Seq(Todo)
               /\ Range(Optional(c, steps)) =
                     IF c THEN {SetState(a, s), StepOn("session", a)} ELSE {}
<1> DEFINE steps == <<SetState(a, s), StepOn("session", a)>>
<1>1. SetState(a, s) \in Todo /\ StepOn("session", a) \in Todo
  BY StepTypes DEF IdSteps
<1>2. steps \in Seq(Todo)
  BY <1>1
<1>3. Range(steps) = {SetState(a, s), StepOn("session", a)}
  BY RangeOfTwo, Zenon
<1> HIDE DEF steps
<1>4. /\ Optional(c, steps) \in Seq(Todo)
      /\ Range(Optional(c, steps)) = IF c THEN Range(steps) ELSE {}
  BY <1>2, OptionalType
<1>5. QED BY <1>3, <1>4 DEF steps

LEMMA OneStep ==
    ASSUME NEW name \in IdSteps \cup {"setCurrent"}, NEW a \in Activity,
           NEW c \in BOOLEAN
    PROVE  /\ <<StepOn(name, a)>> \in Seq(Todo)
           /\ Range(<<StepOn(name, a)>>) = {StepOn(name, a)}
           /\ Optional(c, <<StepOn(name, a)>>) \in Seq(Todo)
           /\ Range(Optional(c, <<StepOn(name, a)>>)) \subseteq {StepOn(name, a)}
<1>1. StepOn(name, a) \in Todo
  BY StepTypes
<1>2. <<StepOn(name, a)>> \in Seq(Todo)
  BY <1>1
<1>3. Range(<<StepOn(name, a)>>) = {StepOn(name, a)}
  BY RangeOfOne, Zenon
<1>4. QED BY <1>2, <1>3, OptionalType

LEMMA NoSteps ==
    /\ <<>> \in Seq(Todo)
    /\ Range(<<>>) = {}
BY DEF Range

LEMMA OutcomeSteps ==
    ASSUME NEW a \in Activity, NEW e \in Event
    PROVE  /\ Outcome(a, e) \in Seq(Todo)
           /\ \A x \in Range(Outcome(a, e)) :
                 \/ x = Step("ensure")
                 \/ /\ activities[a] # "Absent"
                    /\ \E s \in {"Running", "Stopped"} : x = SetState(a, s)
           /\ activities[a] # "Absent" =>
                 \E s \in {"Running", "Stopped"} :
                    SetState(a, s) \in Range(Outcome(a, e))
<1> DEFINE down == <<SetState(a, "Stopped")>>
           back == <<SetState(a, "Running")>>
           ensure == <<Step("ensure")>>
           c == currentActivity = a
<1>1. /\ SetState(a, "Stopped") \in Todo
      /\ SetState(a, "Running") \in Todo
      /\ Step("ensure") \in Todo
  BY StepTypes DEF State, OwnSteps
<1>2. /\ down \in Seq(Todo) /\ back \in Seq(Todo) /\ ensure \in Seq(Todo)
  BY <1>1
<1>3. /\ Range(down) = {SetState(a, "Stopped")}
      /\ Range(back) = {SetState(a, "Running")}
      /\ Range(ensure) = {Step("ensure")}
  BY RangeOfOne, Zenon
<1>4. Outcome(a, e) = IF activities[a] = "Absent" THEN <<>>
                      ELSE IF e = "Stopped" THEN down \o Optional(c, ensure)
                      ELSE back
  BY DEF Outcome
<1>5. c \in BOOLEAN
  OBVIOUS
<1> HIDE DEF down, back, ensure, c
<1>6. /\ Optional(c, ensure) \in Seq(Todo)
      /\ Range(Optional(c, ensure)) \subseteq {Step("ensure")}
  BY <1>2, <1>3, <1>5, OptionalType
<1>7. /\ down \o Optional(c, ensure) \in Seq(Todo)
      /\ Range(down \o Optional(c, ensure))
           = Range(down) \cup Range(Optional(c, ensure))
  BY <1>2, <1>6, ConcatProperties, RangeConcatenation
<1>8. CASE activities[a] = "Absent"
  BY <1>4, <1>8, NoSteps
<1>9. CASE activities[a] # "Absent" /\ e = "Stopped"
  BY <1>3, <1>4, <1>6, <1>7, <1>9
<1>10. CASE activities[a] # "Absent" /\ e # "Stopped"
  BY <1>2, <1>3, <1>4, <1>10
<1>11. QED BY <1>8, <1>9, <1>10

LEMMA SetCurrentSteps ==
    ASSUME NEW a \in Activity \cup {NoActivity}, NEW c \in BOOLEAN,
           c => a \in Activity
    PROVE  LET steps == <<StepOn("start", a), StepOn("assign", a), StepOn("save", a)>>
           IN  /\ Optional(c, steps) \in Seq(Todo)
               /\ Range(Optional(c, steps)) \subseteq
                     {StepOn("start", a), StepOn("assign", a), StepOn("save", a)}
               /\ c => StepOn("assign", a) \in Range(Optional(c, steps))
<1> DEFINE steps == <<StepOn("start", a), StepOn("assign", a), StepOn("save", a)>>
<1>1. CASE c
  <2>1. /\ StepOn("start", a) \in Todo
        /\ StepOn("assign", a) \in Todo
        /\ StepOn("save", a) \in Todo
    BY <1>1, StepTypes DEF IdSteps
  <2>2. steps \in Seq(Todo)
    BY <2>1
  <2>3. Range(steps) = {StepOn("start", a), StepOn("assign", a), StepOn("save", a)}
    BY RangeOfThree, Zenon
  <2> HIDE DEF steps
  <2>4. Optional(c, steps) = steps
    BY <1>1 DEF Optional
  <2>5. StepOn("assign", a) \in Range(Optional(c, steps))
    BY <2>3, <2>4
  <2>6. QED BY <2>2, <2>3, <2>4, <2>5 DEF steps
<1>2. CASE ~c
  <2>1. Optional(c, steps) = <<>>
    BY <1>2 DEF Optional
  <2>2. QED BY <1>2, <2>1, NoSteps
<1>3. QED BY <1>1, <1>2

LEMMA RemovingSteps ==
    ASSUME NEW a \in Activity
    PROVE  /\ RemoveSteps(a) \in Seq(Todo)
           /\ MayRemove(a) =>
                RemoveSteps(a) = <<StepOn("stop", a), SetState(a, "Invalid"),
                                   StepOn("erase", a)>>
           /\ ~MayRemove(a) => RemoveSteps(a) = <<>>
           /\ \A x \in Range(RemoveSteps(a)) :
                 /\ a \in Ids(activities)
                 /\ x \in {StepOn("stop", a), SetState(a, "Invalid"),
                           StepOn("erase", a)}
<1> DEFINE steps == <<StepOn("stop", a), SetState(a, "Invalid"), StepOn("erase", a)>>
<1>1. CASE MayRemove(a)
  <2>1. /\ StepOn("stop", a) \in Todo
        /\ SetState(a, "Invalid") \in Todo
        /\ StepOn("erase", a) \in Todo
    BY StepTypes DEF IdSteps, State
  <2>2. steps \in Seq(Todo)
    BY <2>1
  <2>3. Range(steps) = {StepOn("stop", a), SetState(a, "Invalid"), StepOn("erase", a)}
    BY RangeOfThree, Zenon
  <2>4. RemoveSteps(a) = steps
    BY <1>1 DEF RemoveSteps, Optional
  <2>5. a \in Ids(activities)
    BY <1>1 DEF MayRemove
  <2> HIDE DEF steps
  <2>6. QED BY <1>1, <2>2, <2>3, <2>4, <2>5 DEF steps
<1>2. CASE ~MayRemove(a)
  <2>1. RemoveSteps(a) = <<>>
    BY <1>2 DEF RemoveSteps, Optional
  <2>2. QED BY <1>2, <2>1, NoSteps
<1>3. QED BY <1>1, <1>2

LEMMA AddingSteps ==
    ASSUME NEW a \in Activity
    PROVE  /\ AddSteps(a) \in Seq(Todo)
           /\ Range(AddSteps(a)) \subseteq
                {SetState(a, "Running"), StepOn("setName", a), Step("snapshot"),
                 Step("publish"), StepOn("setCurrent", a)}
           /\ Ids(activities) = {} => StepOn("setCurrent", a) \in Range(AddSteps(a))
<1> DEFINE first == <<SetState(a, "Running"), StepOn("setName", a)>>
           c == Ids(activities) = {}
           last == Optional(c, <<StepOn("setCurrent", a)>>)
<1>1. SetState(a, "Running") \in Todo /\ StepOn("setName", a) \in Todo
  BY StepTypes DEF IdSteps, State
<1>2. first \in Seq(Todo)
  BY <1>1
<1>3. Range(first) = {SetState(a, "Running"), StepOn("setName", a)}
  BY RangeOfTwo, Zenon
<1>4. c \in BOOLEAN
  OBVIOUS
<1> HIDE DEF c
<1>5. /\ last \in Seq(Todo)
      /\ Range(last) \subseteq {StepOn("setCurrent", a)}
      /\ c => Range(last) = {StepOn("setCurrent", a)}
  BY <1>4, OneStep, OptionalType
<1> HIDE DEF first, last
<1>6. /\ first \o Update \in Seq(Todo)
      /\ Range(first \o Update) = Range(first) \cup Range(Update)
  BY <1>2, UpdateType, ConcatProperties, RangeConcatenation
<1>7. /\ (first \o Update) \o last \in Seq(Todo)
      /\ Range((first \o Update) \o last) = Range(first \o Update) \cup Range(last)
  <2> DEFINE most == first \o Update
  <2>1. most \in Seq(Todo)
    BY <1>6
  <2> HIDE DEF most
  <2>2. most \o last \in Seq(Todo) /\ Range(most \o last) = Range(most) \cup Range(last)
    BY <1>5, <2>1, ConcatProperties, RangeConcatenation
  <2>3. QED BY <2>2 DEF most
<1>8. AddSteps(a) = (first \o Update) \o last
  BY DEF AddSteps, first, last, c
<1>9. Ids(activities) = {} => c
  BY DEF c
<1>10. QED BY <1>3, <1>5, <1>6, <1>7, <1>8, <1>9, UpdateType

LEMMA EraseSteps ==
    ASSUME NEW a \in Activity, NEW c \in BOOLEAN
    PROVE  LET steps == <<StepOn("dropEntries", a)>> \o Optional(c, <<Step("ensure")>>)
           IN  /\ steps \in Seq(Todo)
               /\ Range(steps) \subseteq {StepOn("dropEntries", a), Step("ensure")}
<1> DEFINE first == <<StepOn("dropEntries", a)>>
           ensure == <<Step("ensure")>>
<1>1. first \in Seq(Todo) /\ Range(first) = {StepOn("dropEntries", a)}
  BY OneStep DEF IdSteps
<1>2. Step("ensure") \in Todo
  BY StepTypes DEF OwnSteps
<1>3. ensure \in Seq(Todo)
  BY <1>2
<1>4. Range(ensure) = {Step("ensure")}
  BY RangeOfOne, Zenon
<1> HIDE DEF first, ensure
<1>5. Optional(c, ensure) \in Seq(Todo) /\ Range(Optional(c, ensure)) \subseteq {Step("ensure")}
  BY <1>3, <1>4, OptionalType
<1>6. /\ first \o Optional(c, ensure) \in Seq(Todo)
      /\ Range(first \o Optional(c, ensure))
           = Range(first) \cup Range(Optional(c, ensure))
  BY <1>1, <1>5, ConcatProperties, RangeConcatenation
<1>7. QED BY <1>1, <1>5, <1>6 DEF first, ensure

-----------------------------------------------------------------------------

LEMMA InitTypes == Init => TypeOK
<1> SUFFICES ASSUME Init PROVE TypeOK
  OBVIOUS
<1>1. disk \in Config /\ cfg \in Config
  BY ConfigAssumption DEF Init
<1>2. activities \in Table
  BY <1>1, LoadedType DEF Init
<1>3. PICK last \in LastUsed(disk) : todo = StartUp(disk, last)
  BY DEF Init
<1>4. todo \in [Thread -> Seq(Todo)]
  BY <1>1, <1>3, LastUsedType, StartUpType
<1>5. pretended \in BOOLEAN
  BY DEF Init, AllListedStopped
<1>6. gone \in SUBSET Activity
  BY <1>1 DEF Init, Config
<1>7. /\ owed \in [Activity -> 0..MaxOwed] /\ dropped \in SUBSET Activity
      /\ calls \in 0..MaxCalls /\ restarts \in 0..MaxRestarts
  BY BoundsAssumption DEF Init
<1>8. QED BY <1>1, <1>2, <1>4, <1>5, <1>6, <1>7 DEF Init, TypeOK

LEMMA RestartTypes ==
    ASSUME TypeOK, NEW c \in {cfg, disk}, Restart(c)
    PROVE  TypeOK'
<1>1. c \in Config
  BY DEF TypeOK
<1>2. activities' \in Table
  BY <1>1, LoadedType DEF Restart
<1>3. PICK last \in LastUsed(c) : todo' = StartUp(c, last)
  BY DEF Restart
<1>4. todo' \in [Thread -> Seq(Todo)]
  BY <1>1, <1>3, LastUsedType, StartUpType
<1>5. pretended' \in BOOLEAN
  BY DEF Restart, AllListedStopped
<1>6. gone' \in SUBSET Activity
  BY DEF Restart, TypeOK, Ids
<1>7. /\ owed' \in [Activity -> 0..MaxOwed] /\ dropped' \in SUBSET Activity
      /\ calls' \in 0..MaxCalls
  BY BoundsAssumption DEF Restart, TypeOK
<1>8. restarts' \in 0..MaxRestarts
  BY BoundsAssumption DEF Restart, TypeOK
<1>9. QED BY <1>1, <1>2, <1>4, <1>5, <1>6, <1>7, <1>8 DEF Restart, TypeOK

(* What a call takes from the caller: one of the calls that are left.        *)
LEMMA CalledTypes ==
    ASSUME TypeOK, NEW t \in Thread, NEW steps \in Seq(Todo), Called(t, steps)
    PROVE  /\ calls' \in 0..MaxCalls
           /\ todo' \in [Thread -> Seq(Todo)]
<1>1. calls' \in 0..MaxCalls
  BY BoundsAssumption DEF Called, TypeOK
<1>2. QED BY <1>1, BeginSteps DEF Called

LEMMA NextTypes == TypeOK /\ [Next]_vars => TypeOK'
<1> SUFFICES ASSUME TypeOK, [Next]_vars PROVE TypeOK'
  OBVIOUS
<1> USE DEF table, stored, sessions, history
<1>1. ASSUME NEW t \in Thread, DoAdd(t) PROVE TypeOK'
  <2>1. PICK a \in Activity : NewId(a) /\ Then(t, AddSteps(a))
    BY <1>1 DEF DoAdd
  <2>2. todo' \in [Thread -> Seq(Todo)]
    BY <1>1, <2>1, AddingSteps, ThenSteps DEF DoAdd
  <2>3. activities' \in Table
    BY <2>1 DEF NewId, TypeOK, Table, State
  <2>4. QED BY <1>1, <2>2, <2>3 DEF DoAdd, TypeOK
<1>2. ASSUME NEW t \in Thread, DoSetState(t) PROVE TypeOK'
  <2> DEFINE a == Act(t)
             s == Head(todo[t]).state
             c == Down(Value(a)) # Down(s)
  <2>1. a \in Activity /\ s \in State
    BY <1>2, StepAtHand DEF DoSetState
  <2>2. c \in BOOLEAN
    OBVIOUS
  <2>3. /\ <<>> \in Seq(Todo)
        /\ Optional(c, <<Step("writeLists")>>) \o Update \in Seq(Todo)
    BY <2>2, NoSteps, SetStateSteps
  <2>4. todo' \in [Thread -> Seq(Todo)]
    BY <1>2, <2>3, ThenSteps DEF DoSetState
  <2>5. activities' \in Table /\ dropped' \in SUBSET Activity
    BY <1>2, <2>1 DEF DoSetState, TypeOK, Table
  <2>6. QED BY <1>2, <2>4, <2>5 DEF DoSetState, TypeOK
<1>3. ASSUME NEW t \in Thread, DoWriteLists(t) PROVE TypeOK'
  <2>1. todo' \in [Thread -> Seq(Todo)]
    BY <1>3, NoSteps, ThenSteps DEF DoWriteLists
  <2>2. cfg' \in Config
    BY <1>3 DEF DoWriteLists, TypeOK, Config, InState
  <2>3. QED BY <1>3, <2>1, <2>2 DEF DoWriteLists, TypeOK
<1>4. ASSUME NEW t \in Thread, DoSnapshot(t) \/ DoPublish(t) PROVE TypeOK'
  <2>1. todo' \in [Thread -> Seq(Todo)]
    BY <1>4, NoSteps, ThenSteps DEF DoSnapshot, DoPublish
  <2>2. copy' \in [Thread -> SUBSET Activity] /\ sorted' \in SUBSET Activity
    BY <1>4 DEF DoSnapshot, DoPublish, TypeOK, InState
  <2>3. QED BY <1>4, <2>1, <2>2 DEF DoSnapshot, DoPublish, TypeOK
<1>5. ASSUME NEW t \in Thread, DoStart(t) \/ DoStop(t) PROVE TypeOK'
  <2>1. Act(t) \in Activity
    BY <1>5, StepAtHand DEF DoStart, DoStop, IdSteps
  <2>2. todo' \in [Thread -> Seq(Todo)]
    <3>1. CASE DoStart(t)
      <4>1. Optional(activities[Act(t)] = "Stopped",
                     <<SetState(Act(t), "Starting"), StepOn("session", Act(t))>>)
              \in Seq(Todo)
        BY <2>1, SessionSteps DEF State, Transitional
      <4>2. QED BY <3>1, <4>1, ThenSteps DEF DoStart
    <3>2. CASE DoStop(t)
      <4>1. MayStop(Act(t)) \in BOOLEAN
        BY DEF MayStop
      <4>2. Optional(MayStop(Act(t)),
                     <<SetState(Act(t), "Stopping"), StepOn("session", Act(t))>>)
              \in Seq(Todo)
        BY <2>1, <4>1, SessionSteps DEF State, Transitional
      <4>3. QED BY <3>2, <4>2, ThenSteps DEF DoStop
    <3>3. QED BY <1>5, <3>1, <3>2
  <2>3. QED BY <1>5, <2>2 DEF DoStart, DoStop, TypeOK
<1>6. ASSUME NEW t \in Thread, DoSession(t) PROVE TypeOK'
  <2>1. todo' \in [Thread -> Seq(Todo)]
    BY <1>6, NoSteps, OutcomeSteps, ThenSteps DEF DoSession
  <2>2. Act(t) \in Activity
    BY <1>6, StepAtHand DEF DoSession, IdSteps
  <2>3. owed' \in [Activity -> 0..MaxOwed] /\ dropped' \in SUBSET Activity
    BY <1>6, <2>2, BoundsAssumption DEF DoSession, Accept, Drop, TypeOK
  <2>4. QED BY <1>6, <2>1, <2>3 DEF DoSession, TypeOK
<1>7. ASSUME NEW t \in Thread, DoSetCurrent(t) PROVE TypeOK'
  <2> DEFINE a == Act(t)
             c == a # currentActivity /\ a \in Ids(activities)
  <2>1. a \in Activity \cup {NoActivity}
    BY <1>7, StepAtHand DEF DoSetCurrent
  <2>2. c \in BOOLEAN /\ (c => a \in Activity)
    BY DEF Ids
  <2>3. Optional(c, <<StepOn("start", a), StepOn("assign", a), StepOn("save", a)>>)
          \in Seq(Todo)
    BY <2>1, <2>2, SetCurrentSteps
  <2>4. todo' \in [Thread -> Seq(Todo)]
    BY <1>7, <2>3, ThenSteps DEF DoSetCurrent
  <2>5. currentActivity' \in Activity \cup {NoActivity}
    BY <1>7, <2>1 DEF DoSetCurrent, TypeOK
  <2>6. QED BY <1>7, <2>4, <2>5 DEF DoSetCurrent, TypeOK
<1>8. ASSUME NEW t \in Thread, DoAssign(t) \/ DoSave(t) PROVE TypeOK'
  <2>1. todo' \in [Thread -> Seq(Todo)]
    BY <1>8, NoSteps, ThenSteps DEF DoAssign, DoSave
  <2>2. Act(t) \in Activity
    BY <1>8, StepAtHand DEF DoAssign, DoSave, IdSteps
  <2>3. cfg' \in Config /\ currentActivity' \in Activity \cup {NoActivity}
    BY <1>8, <2>2 DEF DoAssign, DoSave, TypeOK, Config
  <2>4. QED BY <1>8, <2>1, <2>3 DEF DoAssign, DoSave, TypeOK
<1>9. ASSUME NEW t \in Thread, DoEnsure(t) PROVE TypeOK'
  <2>1. \A a \in sorted : <<StepOn("setCurrent", a)>> \in Seq(Todo)
    BY OneStep DEF TypeOK
  <2>2. todo' \in [Thread -> Seq(Todo)]
    BY <1>9, <2>1, NoSteps, ThenSteps DEF DoEnsure
  <2>3. QED BY <1>9, <2>2 DEF DoEnsure, TypeOK
<1>10. ASSUME NEW t \in Thread, DoSetName(t) \/ DoWriteName(t) PROVE TypeOK'
  <2>1. Act(t) \in Activity
    BY <1>10, StepAtHand DEF DoSetName, DoWriteName, IdSteps
  <2>2. Optional(Act(t) \in Ids(activities), <<StepOn("writeName", Act(t))>>)
          \in Seq(Todo)
    <3>1. (Act(t) \in Ids(activities)) \in BOOLEAN
      OBVIOUS
    <3>2. QED BY <2>1, <3>1, OneStep DEF IdSteps
  <2>3. todo' \in [Thread -> Seq(Todo)]
    BY <1>10, <2>2, NoSteps, ThenSteps DEF DoSetName, DoWriteName
  <2>4. cfg' \in Config
    <3>1. CASE DoSetName(t)
      BY <3>1 DEF DoSetName, TypeOK
    <3>2. CASE DoWriteName(t)
      <4>1. cfg' = [cfg EXCEPT !.names = @ \cup {Act(t)}]
        BY <3>2 DEF DoWriteName
      <4>2. QED BY <2>1, <4>1 DEF TypeOK, Config
    <3>3. QED BY <1>10, <3>1, <3>2
  <2>5. QED BY <1>10, <2>3, <2>4 DEF DoSetName, DoWriteName, TypeOK
<1>11. ASSUME NEW t \in Thread, DoErase(t) PROVE TypeOK'
  <2> DEFINE a == Act(t)
             c == currentActivity = a
  <2>1. a \in Activity /\ c \in BOOLEAN
    BY <1>11, StepAtHand DEF DoErase, IdSteps
  <2>2. <<StepOn("dropEntries", a)>> \o Optional(c, <<Step("ensure")>>) \in Seq(Todo)
    BY <2>1, EraseSteps
  <2>3. todo' \in [Thread -> Seq(Todo)]
    BY <1>11, <2>2, ThenSteps DEF DoErase
  <2>4. activities' \in Table
    BY <1>11, <2>1 DEF DoErase, TypeOK, Table
  <2>5. QED BY <1>11, <2>1, <2>3, <2>4 DEF DoErase, TypeOK
<1>12. ASSUME NEW t \in Thread, DoDropEntries(t) PROVE TypeOK'
  <2>1. todo' \in [Thread -> Seq(Todo)]
    BY <1>12, NoSteps, ThenSteps DEF DoDropEntries
  <2>2. cfg' \in Config
    BY <1>12 DEF DoDropEntries, TypeOK, Config
  <2>3. QED BY <1>12, <2>1, <2>2 DEF DoDropEntries, TypeOK
<1>13. ASSUME DoStartThread PROVE TypeOK'
  <2>1. todo' \in [Thread -> Seq(Todo)]
    BY <1>13, NoSteps, ThenSteps DEF DoStartThread, Thread
  <2>2. QED BY <1>13, <2>1 DEF DoStartThread, TypeOK
<1>14. ASSUME NEW a \in Activity,
              NEW name \in {"start", "stop", "setName", "setCurrent"},
              Call(<<StepOn(name, a)>>)
       PROVE  TypeOK'
  <2>1. <<StepOn(name, a)>> \in Seq(Todo)
    BY OneStep DEF IdSteps
  <2>2. QED BY <1>14, <2>1, CalledTypes DEF Call, Thread, TypeOK
<1>15. ASSUME NEW a \in Activity, RemoveActivity(a) PROVE TypeOK'
  <2>1. RemoveSteps(a) \in Seq(Todo)
    BY RemovingSteps
  <2>2. QED BY <1>15, <2>1, CalledTypes DEF RemoveActivity, Call, Thread, TypeOK
<1>16. ASSUME NEW t \in Thread, AddActivity(t) PROVE TypeOK'
  <2>1. PICK a \in Activity : NewId(a) /\ Called(t, AddSteps(a))
    BY <1>16 DEF AddActivity
  <2>2. activities' \in Table
    BY <2>1 DEF NewId, TypeOK, Table, State
  <2>3. calls' \in 0..MaxCalls /\ todo' \in [Thread -> Seq(Todo)]
    BY <2>1, AddingSteps, CalledTypes
  <2>4. QED BY <1>16, <2>2, <2>3 DEF AddActivity, TypeOK
<1>17. ASSUME NEW a \in Activity, NEW e \in Event, SessionStateChanged(a, e)
       PROVE  TypeOK'
  <2>1. todo' \in [Thread -> Seq(Todo)]
    BY <1>17, OutcomeSteps, BeginSteps DEF SessionStateChanged, Thread
  <2>2. owed' \in [Activity -> 0..MaxOwed]
    BY <1>17, BoundsAssumption DEF SessionStateChanged, TypeOK
  <2>3. QED BY <1>17, <2>1, <2>2 DEF SessionStateChanged, TypeOK
<1>18. ASSUME NEW a \in Activity, Forget(a) PROVE TypeOK'
  BY <1>18, BoundsAssumption DEF Forget, Drop, TypeOK
<1>19. ASSUME ConfigSync PROVE TypeOK'
  BY <1>19 DEF ConfigSync, TypeOK
<1>20. ASSUME NEW c \in {cfg, disk}, Restart(c) PROVE TypeOK'
  BY <1>20, RestartTypes
<1>21. ASSUME UNCHANGED vars PROVE TypeOK'
  BY <1>21 DEF vars, TypeOK
<1>22. QED
  BY <1>1, <1>2, <1>3, <1>4, <1>5, <1>6, <1>7, <1>8, <1>9, <1>10, <1>11, <1>12,
     <1>13, <1>14, <1>15, <1>16, <1>17, <1>18, <1>19, <1>20, <1>21,
     NextCases

(* The table, the lists, the configuration and what the threads are inside   *)
(* of keep to their types: every step a thread is to make is about an id,    *)
(* and setActivityState() is only called with a state (Activities_p.h).      *)
THEOREM TypeCorrect == Spec => []TypeOK
BY InitTypes, NextTypes, PTL DEF Spec

-----------------------------------------------------------------------------
(* The state lists.  What they and the steps of the threads are about was in *)
(* the table once, so a new id is in neither list and is loaded as running.  *)

AddedOnce == Ids(activities) \cup gone

BothLists(c) == c.lists \in {{}, {"running", "stopped"}}

ListedWereAdded ==
    \A c \in {cfg, disk} :
        BothLists(c) /\ c.running \subseteq AddedOnce /\ c.stopped \subseteq AddedOnce

SetStatesWereAdded ==
    \A t \in Thread : \A e \in Steps(t) : e.step = "setState" => e.act \in AddedOnce

Kept == ListedWereAdded /\ SetStatesWereAdded /\ ListsMatchStates

StepName == OwnSteps \cup IdSteps \cup {"setCurrent", "setState"}

SameLists(c, d) ==
    c.running = d.running /\ c.stopped = d.stopped /\ c.lists = d.lists

LEMMA SameListsSameState ==
    ASSUME NEW c, NEW d, SameLists(c, d), NEW a
    PROVE  ListedState(c, a) = ListedState(d, a)
BY DEF SameLists, ListedState, DefaultState

LEMMA NewIsRunning ==
    ASSUME NEW c, BothLists(c), NEW a, a \notin c.running, a \notin c.stopped
    PROVE  ~Down(ListedState(c, a))
BY DEF BothLists, ListedState, DefaultState, Down

(* Thread t makes a step other than writing the lists, or enters a method.   *)
GoesOn(t, steps) ==
    \/ Begin(t, steps)
    \/ \E name \in StepName \ {"writeLists"} : At(t, name) /\ Then(t, steps)

(* A step that leaves the lists alone keeps all this when it puts no other   *)
(* id up or down than one it has a thread write the lists for.               *)
LEMMA ListsLeftAlone ==
    ASSUME TypeOK, Kept, NEW t \in Thread, NEW steps \in Seq(Todo),
           GoesOn(t, steps),
           SameLists(cfg', cfg), disk' = disk, pretended' = pretended,
           AddedOnce \subseteq AddedOnce',
           \A e \in Range(steps) : e.step = "setState" => e.act \in AddedOnce',
           Step("writeLists") \in Range(steps)
             \/ \A a \in Ids(activities)' \ gone' :
                   \/ /\ a \in Ids(activities) \ gone
                      /\ Down(activities'[a]) <=> Down(activities[a])
                   \/ a \notin AddedOnce /\ ~Down(activities'[a])
    PROVE  Kept'
<1>1. /\ \A u \in Thread : Steps(u)' \subseteq Range(steps) \cup Steps(u)
      /\ Range(steps) \subseteq Steps(t)'
      /\ \A u \in Thread : Step("writeLists") \in Steps(u)
                             => Step("writeLists") \in Steps(u)'
  <2>1. CASE Begin(t, steps)
    BY <2>1, BeginSteps
  <2>2. ASSUME NEW name \in StepName \ {"writeLists"}, At(t, name), Then(t, steps)
        PROVE  /\ \A u \in Thread : Steps(u)' \subseteq Range(steps) \cup Steps(u)
               /\ Range(steps) \subseteq Steps(t)'
               /\ \A u \in Thread : Step("writeLists") \in Steps(u)
                                      => Step("writeLists") \in Steps(u)'
    <3>1. Head(todo[t]) # Step("writeLists")
      BY <2>2, StepAtHand DEF Step
    <3>2. /\ Steps(t)' \subseteq Range(steps) \cup Steps(t)
          /\ Range(steps) \subseteq Steps(t)'
          /\ Steps(t) \subseteq {Head(todo[t])} \cup Steps(t)'
          /\ \A u \in Thread \ {t} : Steps(u)' = Steps(u)
      BY <2>2, ThenSteps
    <3>3. QED BY <3>1, <3>2
  <2>3. QED BY <2>1, <2>2 DEF GoesOn
<1>2. SetStatesWereAdded'
  BY <1>1 DEF Kept, SetStatesWereAdded
<1>3. ListedWereAdded'
  BY DEF Kept, ListedWereAdded, SameLists, BothLists
<1>4. ASSUME ~pretended', NoWritePending', NEW a \in Ids(activities)' \ gone'
      PROVE  Down(ListedState(cfg', a)) <=> Down(activities'[a])
  <2>1. NoWritePending /\ Step("writeLists") \notin Range(steps)
    BY <1>1, <1>4 DEF NoWritePending
  <2>2. ListedState(cfg', a) = ListedState(cfg, a)
    BY SameListsSameState
  <2>3. CASE a \in Ids(activities) \ gone /\ (Down(activities'[a]) <=> Down(activities[a]))
    BY <1>4, <2>1, <2>2, <2>3 DEF Kept, ListsMatchStates
  <2>4. CASE a \notin AddedOnce /\ ~Down(activities'[a])
    BY <2>2, <2>4, NewIsRunning DEF Kept, ListedWereAdded
  <2>5. QED BY <2>1, <2>3, <2>4
<1>5. ListsMatchStates'
  BY <1>4 DEF ListsMatchStates
<1>6. QED BY <1>2, <1>3, <1>5 DEF Kept

(* Just loaded, the table is what the lists say unless all were down.        *)
LEMMA LoadedMatch ==
    ASSUME NEW c \in Config
    PROVE  /\ Ids(Loaded(c)) = c.names
           /\ ~AllListedStopped(c) =>
                \A a \in Ids(Loaded(c)) : Loaded(c)[a] = ListedState(c, a)
<1>1. c.names \subseteq Activity
  BY DEF Config
<1>2. \A a \in Activity : LoadedState(c, a) # "Absent"
  BY DEF LoadedState, ListedState, DefaultState
<1>3. Ids(Loaded(c)) = c.names
  BY <1>1, <1>2 DEF Ids, Loaded
<1>4. QED BY <1>1, <1>3 DEF Loaded, LoadedState

(* Starting up, no thread is to set a state.                                 *)
LEMMA StartUpSetsNone ==
    ASSUME NEW c \in Config, NEW last \in LastUsed(c), NEW t \in Thread
    PROVE  \A e \in Range(StartUp(c, last)[t]) : e.step # "setState"
<1>1. last \in Activity \cup {NoActivity}
  BY LastUsedType
<1>2. Range(StartUp(c, last)[t]) \subseteq
        {StepOn("setCurrent", last), Step("startThread"), Step("snapshot"),
         Step("publish"), Step("add")}
  BY <1>1, StartUpType, ZenonT(60) DEF Thread
<1>3. QED BY <1>2 DEF StepOn, Step

LEMMA InitKept == Init => Kept
<1> SUFFICES ASSUME Init PROVE Kept
  OBVIOUS
<1>1. disk \in Config /\ BothLists(disk) /\ NoActivity \notin Activity
  BY ConfigAssumption, NoActivityAssumption DEF Init, BothLists
<1>2. cfg = disk /\ activities = Loaded(disk)
      /\ gone = (disk.running \cup disk.stopped \cup {disk.current})
                   \ (disk.names \cup {NoActivity})
  BY DEF Init
<1>3. ListedWereAdded
  BY <1>1, <1>2, LoadedMatch DEF ListedWereAdded, AddedOnce, Config
<1>4. PICK last \in LastUsed(disk) : todo = StartUp(disk, last)
  BY DEF Init
<1>5. SetStatesWereAdded
  BY <1>1, <1>4, StartUpSetsNone DEF SetStatesWereAdded, Steps
<1>6. ListsMatchStates
  BY <1>1, <1>2, LoadedMatch DEF Init, ListsMatchStates
<1>7. QED BY <1>3, <1>5, <1>6 DEF Kept

LEMMA RestartKept ==
    ASSUME TypeOK, Kept, NEW c \in {cfg, disk}, Restart(c)
    PROVE  Kept'
<1>1. c \in Config
  BY DEF TypeOK
<1>2. /\ cfg' = c
      /\ disk' = c
      /\ activities' = Loaded(c)
      /\ gone' = gone \cup (Ids(activities) \ c.names)
      /\ pretended' = AllListedStopped(c)
  BY DEF Restart
<1>3. AddedOnce \subseteq AddedOnce'
  BY <1>1, <1>2, LoadedMatch DEF AddedOnce
<1>4. ListedWereAdded'
  BY <1>2, <1>3 DEF Kept, ListedWereAdded
<1>5. PICK last \in LastUsed(c) : todo' = StartUp(c, last)
  BY DEF Restart
<1>6. SetStatesWereAdded'
  BY <1>1, <1>5, StartUpSetsNone DEF SetStatesWereAdded, Steps
<1>7. ListsMatchStates'
  BY <1>1, <1>2, LoadedMatch DEF ListsMatchStates
<1>8. QED BY <1>4, <1>6, <1>7 DEF Kept

LEMMA WriteListsKept ==
    ASSUME TypeOK, Kept, NEW t \in Thread, DoWriteLists(t)
    PROVE  Kept'
<1>1. /\ cfg'.running = InState(activities, "Running") \cup InState(activities, "Starting")
      /\ cfg'.stopped = InState(activities, "Stopped") \cup InState(activities, "Stopping")
      /\ cfg'.lists = {"running", "stopped"}
      /\ UNCHANGED <<activities, gone, disk>>
  BY DEF DoWriteLists, TypeOK, Config, table, history
<1>2. cfg'.running \subseteq AddedOnce /\ cfg'.stopped \subseteq AddedOnce
  BY <1>1 DEF InState, AddedOnce, Ids
<1>3. ListedWereAdded'
  BY <1>1, <1>2 DEF Kept, ListedWereAdded, BothLists, AddedOnce
<1>4. \A u \in Thread : Steps(u)' \subseteq Steps(u)
  BY NoSteps, ThenSteps DEF DoWriteLists
<1>5. SetStatesWereAdded'
  BY <1>1, <1>4 DEF Kept, SetStatesWereAdded, AddedOnce
<1>6. ASSUME NEW a \in Ids(activities)
      PROVE  Down(ListedState(cfg', a)) <=> Down(activities[a])
  <2>1. a \in Activity /\ activities[a] \in State
    BY DEF Ids, TypeOK, Table
  <2>2. a \in cfg'.running <=> activities[a] \in {"Running", "Starting"}
    BY <1>1, <2>1 DEF InState
  <2>3. a \in cfg'.stopped <=> activities[a] \in {"Stopped", "Stopping"}
    BY <1>1, <2>1 DEF InState
  <2>4. CASE activities[a] \in {"Running", "Starting"}
    BY <2>2, <2>4 DEF ListedState, Down
  <2>5. CASE activities[a] \in {"Stopped", "Stopping"}
    BY <2>2, <2>3, <2>5 DEF ListedState, Down
  <2>6. CASE activities[a] = "Invalid"
    BY <1>1, <2>2, <2>3, <2>6 DEF ListedState, DefaultState, Down
  <2>7. QED BY <2>1, <2>4, <2>5, <2>6 DEF State, Transitional
<1>7. ListsMatchStates'
  BY <1>1, <1>6 DEF ListsMatchStates
<1>8. QED BY <1>3, <1>5, <1>7 DEF Kept

LEMMA SetStateKept ==
    ASSUME TypeOK, Kept, NEW t \in Thread, DoSetState(t)
    PROVE  Kept'
<1> DEFINE a == Act(t)
           s == Head(todo[t]).state
           c == Down(Value(a)) # Down(s)
           steps == IF Value(a) = s THEN <<>>
                    ELSE Optional(c, <<Step("writeLists")>>) \o Update
<1>1. /\ a \in Activity
      /\ s \in State
      /\ At(t, "setState")
      /\ UNCHANGED <<gone, cfg, disk, pretended>>
  BY StepAtHand DEF DoSetState, stored, history
<1>2. c \in BOOLEAN
  OBVIOUS
<1>3. steps \in Seq(Todo)
  BY <1>2, NoSteps, SetStateSteps
<1>4. Then(t, steps) /\ GoesOn(t, steps)
  BY DEF DoSetState, GoesOn, StepName, OwnSteps, IdSteps
<1>5. \A e \in Range(steps) : e.step # "setState"
  <2>1. Range(steps) \subseteq {Step("writeLists"), Step("snapshot"), Step("publish")}
    BY <1>2, NoSteps, SetStateSteps
  <2>2. QED BY <2>1 DEF Step
<1>6. a \in AddedOnce
  <2>1. Head(todo[t]) \in Steps(t) /\ Head(todo[t]).step = "setState"
    BY <1>1, <1>3, <1>4, ThenSteps, StepAtHand
  <2>2. QED BY <2>1 DEF Kept, SetStatesWereAdded, Act
<1>7. /\ activities'[a] = s \/ (activities' = activities /\ Value(a) = s)
      /\ \A b \in Activity \ {a} : activities'[b] = activities[b]
      /\ activities' \in Table
  BY <1>1 DEF DoSetState, TypeOK, Table
<1>8. Ids(activities) \subseteq Ids(activities)'
  BY <1>1, <1>7 DEF Ids, State, Transitional
<1>9. AddedOnce \subseteq AddedOnce'
  BY <1>1, <1>8 DEF AddedOnce
<1>10. CASE c /\ Value(a) # s
  <2>1. Step("writeLists") \in Range(steps)
    BY <1>2, <1>10, SetStateSteps
  <2> HIDE DEF steps
  <2>2. QED BY <1>1, <1>3, <1>4, <1>5, <1>9, <2>1, ListsLeftAlone DEF SameLists
<1>11. CASE ~c \/ Value(a) = s
  <2>1. ASSUME NEW b \in Ids(activities)' \ gone'
        PROVE  b \in Ids(activities) \ gone /\ (Down(activities'[b]) <=> Down(activities[b]))
    <3>1. b \in Activity /\ activities'[b] # "Absent" /\ b \notin gone
      BY <1>1, <2>1 DEF Ids
    <3>2. CASE b # a
      BY <1>7, <3>1, <3>2 DEF Ids
    <3>3. CASE b = a
      <4>1. a \in Ids(activities)
        BY <1>6, <3>1, <3>3 DEF AddedOnce
      <4>2. Value(a) = activities[a]
        BY <4>1 DEF Value, Ids
      <4>3. QED BY <1>7, <1>11, <3>1, <3>3, <4>1, <4>2
    <3>4. QED BY <3>2, <3>3
  <2> HIDE DEF steps
  <2>2. QED BY <1>1, <1>3, <1>4, <1>5, <1>9, <2>1, ListsLeftAlone DEF SameLists
<1>12. QED BY <1>10, <1>11

LEMMA TableLeftAlone ==
    ASSUME TypeOK, Kept, NEW t \in Thread, NEW steps \in Seq(Todo),
           GoesOn(t, steps),
           UNCHANGED <<activities, gone, disk, pretended>>, SameLists(cfg', cfg),
           \A e \in Range(steps) : e.step = "setState" => e.act \in AddedOnce
    PROVE  Kept'
<1>1. AddedOnce' = AddedOnce /\ Ids(activities)' = Ids(activities)
  BY DEF AddedOnce, Ids
<1>2. QED BY <1>1, ListsLeftAlone

(* A new id is in no list.                                                   *)
LEMMA AddKept ==
    ASSUME TypeOK, Kept, NEW t \in Thread, NEW a \in Activity,
           NewId(a), GoesOn(t, AddSteps(a)), UNCHANGED <<stored, gone>>
    PROVE  Kept'
<1>1. /\ a \notin AddedOnce
      /\ activities'[a] = "Invalid"
      /\ \A b \in Activity \ {a} : activities'[b] = activities[b]
  BY DEF NewId, AddedOnce, TypeOK, Table
<1>2. Ids(activities)' = Ids(activities) \cup {a}
  BY <1>1 DEF Ids
<1>3. AddedOnce \subseteq AddedOnce' /\ a \in AddedOnce'
  BY <1>2 DEF AddedOnce
<1>4. AddSteps(a) \in Seq(Todo)
  BY AddingSteps
<1>5. \A e \in Range(AddSteps(a)) : e.step = "setState" => e.act \in AddedOnce'
  <2>1. Range(AddSteps(a)) \subseteq
          {SetState(a, "Running"), StepOn("setName", a), Step("snapshot"),
           Step("publish"), StepOn("setCurrent", a)}
    BY AddingSteps
  <2>2. QED BY <1>3, <2>1 DEF SetState, StepOn, Step
<1>6. ASSUME NEW b \in Ids(activities)' \ gone'
      PROVE  \/ /\ b \in Ids(activities) \ gone
                /\ Down(activities'[b]) <=> Down(activities[b])
             \/ b \notin AddedOnce /\ ~Down(activities'[b])
  <2>1. CASE b = a
    BY <1>1, <2>1 DEF Down
  <2>2. CASE b # a
    BY <1>1, <1>2, <2>2 DEF Ids
  <2>3. QED BY <2>1, <2>2
<1>7. disk' = disk /\ pretended' = pretended /\ SameLists(cfg', cfg)
  BY DEF stored, SameLists
<1>8. QED BY <1>3, <1>4, <1>5, <1>6, <1>7, ListsLeftAlone

LEMMA EraseKept ==
    ASSUME TypeOK, Kept, NEW t \in Thread, DoErase(t)
    PROVE  Kept'
<1> DEFINE a == Act(t)
           c == currentActivity = a
           steps == <<StepOn("dropEntries", a)>> \o Optional(c, <<Step("ensure")>>)
<1>1. a \in Activity /\ c \in BOOLEAN
  BY StepAtHand DEF DoErase, IdSteps
<1>2. /\ steps \in Seq(Todo)
      /\ Range(steps) \subseteq {StepOn("dropEntries", a), Step("ensure")}
  BY <1>1, EraseSteps
<1>3. GoesOn(t, steps)
  BY DEF DoErase, GoesOn, StepName, IdSteps
<1> HIDE DEF steps
<1>4. \A e \in Range(steps) : e.step # "setState"
  BY <1>2 DEF StepOn, Step
<1>5. /\ activities' = [activities EXCEPT ![a] = "Absent"]
      /\ gone' = gone \cup {a}
      /\ UNCHANGED stored
  BY DEF DoErase
<1>6. /\ activities'[a] = "Absent"
      /\ \A b \in Activity \ {a} : activities'[b] = activities[b]
  BY <1>1, <1>5 DEF TypeOK, Table
<1>7. Ids(activities)' = Ids(activities) \ {a}
  BY <1>6 DEF Ids
<1>8. AddedOnce \subseteq AddedOnce'
  BY <1>5, <1>7 DEF AddedOnce
<1>9. \A b \in Ids(activities)' \ gone' :
        b \in Ids(activities) \ gone /\ (Down(activities'[b]) <=> Down(activities[b]))
  BY <1>5, <1>6, <1>7 DEF Ids
<1>10. disk' = disk /\ pretended' = pretended /\ SameLists(cfg', cfg)
  BY <1>5 DEF stored, SameLists
<1>11. QED BY <1>2, <1>3, <1>4, <1>8, <1>9, <1>10, ListsLeftAlone

LEMMA OutcomeIsOfAdded ==
    ASSUME NEW a \in Activity, NEW e \in Event
    PROVE  \A x \in Range(Outcome(a, e)) : x.step = "setState" => x.act \in AddedOnce
<1> SUFFICES ASSUME NEW x \in Range(Outcome(a, e)), x.step = "setState"
             PROVE  x.act \in AddedOnce
  OBVIOUS
<1>1. \/ x = Step("ensure")
      \/ /\ activities[a] # "Absent"
         /\ \E s \in {"Running", "Stopped"} : x = SetState(a, s)
  BY OutcomeSteps
<1>2. QED BY <1>1 DEF Step, SetState, AddedOnce, Ids

LEMMA NextKept == TypeOK /\ TypeOK' /\ Kept /\ [Next]_vars => Kept'
<1> SUFFICES ASSUME TypeOK, TypeOK', Kept, [Next]_vars PROVE Kept'
  OBVIOUS
<1> USE DEF table, stored, sessions, history, SameLists
<1>1. ASSUME NEW t \in Thread, DoAdd(t) PROVE Kept'
  <2>1. PICK a \in Activity : NewId(a) /\ Then(t, AddSteps(a))
    BY <1>1 DEF DoAdd
  <2>2. GoesOn(t, AddSteps(a))
    BY <1>1, <2>1 DEF DoAdd, GoesOn, StepName, OwnSteps
  <2>3. UNCHANGED <<stored, gone>>
    BY <1>1 DEF DoAdd
  <2>4. QED BY <2>1, <2>2, <2>3, AddKept
<1>2. ASSUME NEW t \in Thread, DoSetState(t) PROVE Kept'
  BY <1>2, SetStateKept
<1>3. ASSUME NEW t \in Thread, DoWriteLists(t) PROVE Kept'
  BY <1>3, WriteListsKept
<1>4. ASSUME NEW t \in Thread, DoSnapshot(t) \/ DoPublish(t) PROVE Kept'
  <2>1. GoesOn(t, <<>>)
    BY <1>4 DEF DoSnapshot, DoPublish, GoesOn, StepName, OwnSteps
  <2>2. UNCHANGED <<activities, gone, stored>>
    BY <1>4 DEF DoSnapshot, DoPublish
  <2>3. QED BY <2>1, <2>2, NoSteps, TableLeftAlone
<1>5. ASSUME NEW t \in Thread, DoStart(t) \/ DoStop(t) PROVE Kept'
  <2> DEFINE a == Act(t)
  <2>1. PICK c \in BOOLEAN, s \in State :
          /\ Then(t, Optional(c, <<SetState(a, s), StepOn("session", a)>>))
          /\ c => a \in Ids(activities)
    <3>1. a \in Activity
      BY <1>5, StepAtHand DEF DoStart, DoStop, IdSteps
    <3>2. CASE DoStart(t)
      <4>1. "Starting" \in State /\ (activities[a] = "Stopped") \in BOOLEAN
        BY DEF State, Transitional
      <4>2. activities[a] = "Stopped" => a \in Ids(activities)
        BY <3>1 DEF Ids
      <4>3. QED BY <3>2, <4>1, <4>2 DEF DoStart
    <3>3. CASE DoStop(t)
      <4>1. "Stopping" \in State /\ MayStop(a) \in BOOLEAN
        BY DEF State, Transitional, MayStop
      <4>2. MayStop(a) => a \in Ids(activities)
        BY <3>1 DEF Ids, MayStop
      <4>3. QED BY <3>3, <4>1, <4>2 DEF DoStop
    <3>4. QED BY <1>5, <3>2, <3>3
  <2> DEFINE steps == Optional(c, <<SetState(a, s), StepOn("session", a)>>)
  <2>2. a \in Activity
    BY <1>5, StepAtHand DEF DoStart, DoStop, IdSteps
  <2>3. /\ steps \in Seq(Todo)
        /\ Range(steps) = IF c THEN {SetState(a, s), StepOn("session", a)} ELSE {}
    BY <2>2, SessionSteps
  <2>4. GoesOn(t, steps)
    BY <1>5, <2>1 DEF DoStart, DoStop, GoesOn, StepName, IdSteps
  <2> HIDE DEF steps
  <2>5. \A e \in Range(steps) : e.act \in AddedOnce
    BY <2>1, <2>3 DEF SetState, StepOn, AddedOnce
  <2>6. UNCHANGED <<activities, gone, stored>>
    BY <1>5 DEF DoStart, DoStop
  <2>7. QED BY <2>3, <2>4, <2>5, <2>6, TableLeftAlone
<1>6. ASSUME NEW t \in Thread, DoSession(t) PROVE Kept'
  <2>1. "session" \in StepName
    BY DEF StepName, IdSteps
  <2>2. UNCHANGED <<activities, gone, stored>>
    BY <1>6 DEF DoSession
  <2>3. CASE Then(t, <<>>)
    <3>1. GoesOn(t, <<>>)
      BY <1>6, <2>1, <2>3 DEF DoSession, GoesOn
    <3>2. QED BY <3>1, <2>2, NoSteps, TableLeftAlone
  <2>4. ASSUME NEW a \in Activity, NEW e \in Event, Then(t, Outcome(a, e))
        PROVE  Kept'
    <3>1. GoesOn(t, Outcome(a, e))
      BY <1>6, <2>1, <2>4 DEF DoSession, GoesOn
    <3>2. QED BY <3>1, <2>2, OutcomeSteps, OutcomeIsOfAdded, TableLeftAlone
  <2>5. QED BY <1>6, <2>3, <2>4 DEF DoSession
<1>7. ASSUME NEW t \in Thread, DoSetCurrent(t) PROVE Kept'
  <2> DEFINE a == Act(t)
             c == a # currentActivity /\ a \in Ids(activities)
             steps == Optional(c, <<StepOn("start", a), StepOn("assign", a),
                                    StepOn("save", a)>>)
  <2>1. a \in Activity \cup {NoActivity} /\ c \in BOOLEAN /\ (c => a \in Activity)
    BY <1>7, StepAtHand DEF DoSetCurrent, Ids
  <2>2. /\ steps \in Seq(Todo)
        /\ Range(steps) \subseteq
              {StepOn("start", a), StepOn("assign", a), StepOn("save", a)}
    BY <2>1, SetCurrentSteps
  <2>3. GoesOn(t, steps)
    BY <1>7 DEF DoSetCurrent, GoesOn, StepName
  <2> HIDE DEF steps
  <2>4. \A e \in Range(steps) : e.step # "setState"
    BY <2>2 DEF StepOn
  <2>5. UNCHANGED <<activities, gone, stored>>
    BY <1>7 DEF DoSetCurrent
  <2>6. QED BY <2>2, <2>3, <2>4, <2>5, TableLeftAlone
<1>8. ASSUME NEW t \in Thread, DoAssign(t) \/ DoSave(t) PROVE Kept'
  <2>1. GoesOn(t, <<>>)
    BY <1>8 DEF DoAssign, DoSave, GoesOn, StepName, IdSteps
  <2>2. UNCHANGED <<activities, gone, disk, pretended>> /\ SameLists(cfg', cfg)
    BY <1>8 DEF DoAssign, DoSave, TypeOK, Config
  <2>3. QED BY <2>1, <2>2, NoSteps, TableLeftAlone
<1>9. ASSUME NEW t \in Thread, DoEnsure(t) PROVE Kept'
  <2>1. UNCHANGED <<activities, gone, stored>>
    BY <1>9 DEF DoEnsure
  <2>2. CASE Then(t, <<>>)
    <3>1. GoesOn(t, <<>>)
      BY <1>9, <2>2 DEF DoEnsure, GoesOn, StepName, OwnSteps
    <3>2. QED BY <2>1, <3>1, NoSteps, TableLeftAlone
  <2>3. ASSUME NEW a \in sorted, Then(t, <<StepOn("setCurrent", a)>>) PROVE Kept'
    <3>1. a \in Activity
      BY DEF TypeOK
    <3>2. GoesOn(t, <<StepOn("setCurrent", a)>>)
      BY <1>9, <2>3 DEF DoEnsure, GoesOn, StepName, OwnSteps
    <3>3. /\ <<StepOn("setCurrent", a)>> \in Seq(Todo)
          /\ Range(<<StepOn("setCurrent", a)>>) = {StepOn("setCurrent", a)}
      BY <3>1, OneStep
    <3>4. StepOn("setCurrent", a).step # "setState"
      BY DEF StepOn
    <3>5. QED BY <2>1, <3>2, <3>3, <3>4, TableLeftAlone
  <2>4. QED BY <1>9, <2>2, <2>3 DEF DoEnsure
<1>10. ASSUME NEW t \in Thread, DoSetName(t) \/ DoWriteName(t) PROVE Kept'
  <2> DEFINE a == Act(t)
             c == a \in Ids(activities)
             steps == Optional(c, <<StepOn("writeName", a)>>)
  <2>1. a \in Activity /\ c \in BOOLEAN
    BY <1>10, StepAtHand DEF DoSetName, DoWriteName, IdSteps
  <2>2. CASE DoSetName(t)
    <3>1. /\ steps \in Seq(Todo)
          /\ Range(steps) \subseteq {StepOn("writeName", a)}
      <4> HIDE DEF c
      <4>1. QED BY <2>1, OneStep DEF IdSteps
    <3>2. GoesOn(t, steps)
      BY <2>2 DEF DoSetName, GoesOn, StepName, IdSteps
    <3> HIDE DEF steps
    <3>3. \A e \in Range(steps) : e.step # "setState"
      BY <3>1 DEF StepOn
    <3>4. UNCHANGED <<activities, gone, stored>>
      BY <2>2 DEF DoSetName
    <3>5. QED BY <3>1, <3>2, <3>3, <3>4, TableLeftAlone
  <2>3. CASE DoWriteName(t)
    <3>1. GoesOn(t, <<>>)
      BY <2>3 DEF DoWriteName, GoesOn, StepName, IdSteps
    <3>2. UNCHANGED <<activities, gone, disk, pretended>> /\ SameLists(cfg', cfg)
      BY <2>3 DEF DoWriteName, TypeOK, Config
    <3>3. QED BY <3>1, <3>2, NoSteps, TableLeftAlone
  <2>4. QED BY <1>10, <2>2, <2>3
<1>11. ASSUME NEW t \in Thread, DoErase(t) PROVE Kept'
  BY <1>11, EraseKept
<1>12. ASSUME NEW t \in Thread, DoDropEntries(t) PROVE Kept'
  <2>1. GoesOn(t, <<>>)
    BY <1>12 DEF DoDropEntries, GoesOn, StepName, IdSteps
  <2>2. UNCHANGED <<activities, gone, disk, pretended>> /\ SameLists(cfg', cfg)
    BY <1>12 DEF DoDropEntries, TypeOK, Config
  <2>3. QED BY <2>1, <2>2, NoSteps, TableLeftAlone
<1>13. ASSUME DoStartThread PROVE Kept'
  <2>1. Main \in Thread /\ GoesOn(Main, <<>>)
    BY <1>13 DEF DoStartThread, GoesOn, StepName, OwnSteps, Thread
  <2>2. UNCHANGED <<activities, gone, stored>>
    BY <1>13 DEF DoStartThread
  <2>3. QED BY <2>1, <2>2, NoSteps, TableLeftAlone
<1>14. ASSUME NEW a \in Activity,
              NEW name \in {"start", "stop", "setName", "setCurrent"},
              Call(<<StepOn(name, a)>>)
       PROVE  Kept'
  <2>1. /\ <<StepOn(name, a)>> \in Seq(Todo)
        /\ Range(<<StepOn(name, a)>>) = {StepOn(name, a)}
    BY OneStep DEF IdSteps
  <2>2. DBus \in Thread /\ GoesOn(DBus, <<StepOn(name, a)>>)
    BY <1>14 DEF Call, Called, GoesOn, Thread
  <2>3. StepOn(name, a).step # "setState"
    BY DEF StepOn
  <2>4. UNCHANGED <<activities, gone, stored>>
    BY <1>14 DEF Call
  <2>5. QED BY <2>1, <2>2, <2>3, <2>4, TableLeftAlone
<1>15. ASSUME NEW a \in Activity, RemoveActivity(a) PROVE Kept'
  <2>1. DBus \in Thread /\ GoesOn(DBus, RemoveSteps(a))
    BY <1>15 DEF RemoveActivity, Call, Called, GoesOn, Thread
  <2>2. \A e \in Range(RemoveSteps(a)) : e.act \in AddedOnce
    BY RemovingSteps DEF StepOn, SetState, AddedOnce
  <2>3. UNCHANGED <<activities, gone, stored>>
    BY <1>15 DEF RemoveActivity, Call
  <2>4. QED BY <2>1, <2>2, <2>3, RemovingSteps, TableLeftAlone
<1>16. ASSUME NEW t \in Thread, AddActivity(t) PROVE Kept'
  <2>1. PICK a \in Activity : NewId(a) /\ Called(t, AddSteps(a))
    BY <1>16 DEF AddActivity
  <2>2. GoesOn(t, AddSteps(a))
    BY <2>1 DEF Called, GoesOn
  <2>3. UNCHANGED <<stored, gone>>
    BY <1>16 DEF AddActivity
  <2>4. QED BY <2>1, <2>2, <2>3, AddKept
<1>17. ASSUME NEW a \in Activity, NEW e \in Event, SessionStateChanged(a, e)
       PROVE  Kept'
  <2>1. Main \in Thread /\ GoesOn(Main, Outcome(a, e))
    BY <1>17 DEF SessionStateChanged, GoesOn, Thread
  <2>2. UNCHANGED <<activities, gone, stored>>
    BY <1>17 DEF SessionStateChanged
  <2>3. QED BY <2>1, <2>2, OutcomeSteps, OutcomeIsOfAdded, TableLeftAlone
<1>18. ASSUME NEW a \in Activity, Forget(a) PROVE Kept'
  <2>1. UNCHANGED <<activities, gone, cfg, disk, pretended, todo>>
    BY <1>18 DEF Forget
  <2>2. QED
    BY <2>1 DEF Kept, ListedWereAdded, SetStatesWereAdded, ListsMatchStates,
                NoWritePending, Steps, AddedOnce
<1>19. ASSUME ConfigSync PROVE Kept'
  <2>1. disk' \in {cfg, disk} /\ UNCHANGED <<activities, gone, cfg, pretended, todo>>
    BY <1>19 DEF ConfigSync
  <2>2. QED
    BY <2>1 DEF Kept, ListedWereAdded, SetStatesWereAdded, ListsMatchStates,
                NoWritePending, Steps, AddedOnce
<1>20. ASSUME NEW c \in {cfg, disk}, Restart(c) PROVE Kept'
  BY <1>20, RestartKept
<1>21. ASSUME UNCHANGED vars PROVE Kept'
  BY <1>21 DEF vars, Kept, ListedWereAdded, SetStatesWereAdded, ListsMatchStates,
               NoWritePending, Steps, AddedOnce
<1>22. QED
  BY <1>1, <1>2, <1>3, <1>4, <1>5, <1>6, <1>7, <1>8, <1>9, <1>10, <1>11, <1>12,
     <1>13, <1>14, <1>15, <1>16, <1>17, <1>18, <1>19, <1>20, <1>21,
     NextCases

LEMMA AlwaysKept == Spec => []Kept
BY TypeCorrect, InitKept, NextKept, PTL DEF Spec

(* No interleaving of state changes, additions, removals, outcomes, crashes  *)
(* and restarts leaves a state list that would bring an activity back up     *)
(* when it is down or the reverse, once nobody is to write the lists         *)
(* (Activities.cpp:103-127, 387-436).                                        *)
THEOREM ListsAreRight == Spec => []ListsMatchStates
<1>1. Kept => ListsMatchStates
  BY DEF Kept
<1>2. QED BY <1>1, AlwaysKept, PTL


-----------------------------------------------------------------------------
(* What is under way: the steps that the threads still have to make keep the *)
(* promises that the table, the current activity and the file rest on.       *)

Nobody == StepOn("setCurrent", NoActivity)

(* No activity is made the current one only by the very first step.          *)
NobodyIsFirst ==
    \A t \in Thread : Nobody \in Steps(t) =>
        /\ t = Main /\ ~up
        /\ currentActivity = NoActivity
        /\ todo[Main] # <<>>
        /\ Nobody \notin Range(Tail(todo[Main]))

(* One activity at a time is being removed, and there is another one.        *)
LastIsSpared ==
    \A t \in Thread : \A e \in Steps(t) : e.step = "erase" =>
        /\ t = DBus
        /\ Ids(activities) \ {e.act} # {}
        /\ \A x \in Steps(t) : x.step = "erase" => x.act = e.act

(* To put an activity in transition is followed by telling the session       *)
(* manager.                                                                  *)
Followed(s) ==
    \A i \in 1..Len(s) : s[i].step = "setState" /\ s[i].state \in Transitional =>
        \E j \in (i + 1)..Len(s) : s[j] = StepOn("session", s[i].act)

SessionFollows == \A t \in Thread : Followed(todo[t])

CurrentWasAdded ==
    /\ {cfg.current, disk.current} \subseteq AddedOnce \cup {NoActivity}
    /\ \A t \in Thread : \A e \in Steps(t) : e.step = "save" => e.act \in AddedOnce

(* Unless something was lost a thread is about to choose an activity.        *)
CurrentIsComing ==
    gone = {} /\ Ids(activities) # {} /\ currentActivity = NoActivity =>
        \E t \in Thread : \E e \in Steps(t) :
            e.step \in {"setCurrent", "assign"} /\ e.act \in Ids(activities)

UnderWay == /\ NobodyIsFirst
            /\ LastIsSpared
            /\ SessionFollows
            /\ CurrentWasAdded
            /\ CurrentIsComing
            /\ TransitionIsOwed

(* What a step that is not a restart leaves: a current activity, an activity.*)
Spared ==
    restarts' = restarts =>
        /\ currentActivity # NoActivity => currentActivity' # NoActivity
        /\ Ids(activities) # {} => Ids(activities)' # {}

(* Thread t makes a step, or enters a method.                                *)
Moves(t, steps) ==
    Begin(t, steps) \/ \E name \in StepName : At(t, name) /\ Then(t, steps)

AtHand(t, e) == todo[t] # <<>> /\ e = Head(todo[t])

LEMMA MovedSteps ==
    ASSUME TypeOK, NEW t \in Thread, NEW steps \in Seq(Todo), Moves(t, steps)
    PROVE  /\ \A u \in Thread : Steps(u)' \subseteq Range(steps) \cup Steps(u)
           /\ Range(steps) \subseteq Steps(t)'
           /\ \A u \in Thread : \A e \in Steps(u) :
                 e \in Steps(u)' \/ (u = t /\ AtHand(t, e))
<1>1. CASE Begin(t, steps)
  BY <1>1, BeginSteps
<1>2. ASSUME NEW name \in StepName, At(t, name), Then(t, steps)
      PROVE  /\ \A u \in Thread : Steps(u)' \subseteq Range(steps) \cup Steps(u)
             /\ Range(steps) \subseteq Steps(t)'
             /\ \A u \in Thread : \A e \in Steps(u) :
                   e \in Steps(u)' \/ (u = t /\ AtHand(t, e))
  <2>1. /\ Steps(t)' \subseteq Range(steps) \cup Steps(t)
        /\ Range(steps) \subseteq Steps(t)'
        /\ Steps(t) \subseteq {Head(todo[t])} \cup Steps(t)'
        /\ \A u \in Thread \ {t} : Steps(u)' = Steps(u)
    BY <1>2, ThenSteps
  <2>2. todo[t] # <<>>
    BY <1>2 DEF At
  <2>3. QED BY <2>1, <2>2 DEF AtHand
<1>3. QED BY <1>1, <1>2 DEF Moves

(* A list in which nothing is put in transition.                             *)
LEMMA SettledIsFollowed ==
    ASSUME NEW s \in Seq(Todo),
           \A e \in Range(s) : e.step = "setState" => e.state \notin Transitional
    PROVE  Followed(s)
<1>1. \A i \in 1..Len(s) : s[i] \in Range(s)
  BY DEF Range
<1>2. QED BY <1>1 DEF Followed

LEMMA JoinedIsFollowed ==
    ASSUME NEW s \in Seq(Todo), NEW r \in Seq(Todo), Followed(s), Followed(r)
    PROVE  Followed(s \o r)
<1> DEFINE q == s \o r
<1>1. /\ Len(q) = Len(s) + Len(r)
      /\ \A i \in 1..Len(s) : q[i] = s[i]
      /\ \A i \in 1..Len(r) : q[Len(s) + i] = r[i]
      /\ Len(s) \in Nat /\ Len(r) \in Nat
  BY ConcatProperties, LenProperties
<1> HIDE DEF q
<1>2. ASSUME NEW i \in 1..Len(q), q[i].step = "setState", q[i].state \in Transitional
      PROVE  \E j \in (i + 1)..Len(q) : q[j] = StepOn("session", q[i].act)
  <2>1. CASE i \in 1..Len(s)
    <3>1. PICK j \in (i + 1)..Len(s) : s[j] = StepOn("session", s[i].act)
      BY <1>1, <1>2, <2>1 DEF Followed
    <3>2. j \in (i + 1)..Len(q) /\ q[j] = StepOn("session", q[i].act)
      BY <1>1, <2>1, <3>1
    <3>3. QED BY <3>2
  <2>2. CASE i \notin 1..Len(s)
    <3> DEFINE k == i - Len(s)
    <3>1. k \in 1..Len(r) /\ i = Len(s) + k
      BY <1>1, <2>2
    <3>2. q[i] = r[k]
      BY <1>1, <3>1
    <3>3. PICK j \in (k + 1)..Len(r) : r[j] = StepOn("session", r[k].act)
      BY <1>2, <3>1, <3>2 DEF Followed
    <3>4. /\ Len(s) + j \in (i + 1)..Len(q)
          /\ q[Len(s) + j] = StepOn("session", q[i].act)
      BY <1>1, <3>1, <3>2, <3>3
    <3>5. QED BY <3>4
  <2>3. QED BY <2>1, <2>2
<1>3. Followed(q)
  BY <1>2 DEF Followed
<1>4. QED BY <1>3 DEF q

LEMMA TailIsFollowed ==
    ASSUME NEW s \in Seq(Todo), s # <<>>, Followed(s)
    PROVE  /\ Followed(Tail(s))
           /\ Head(s).step = "setState" /\ Head(s).state \in Transitional =>
                StepOn("session", Head(s).act) \in Range(Tail(s))
<1>1. /\ Tail(s) \in Seq(Todo)
      /\ Len(Tail(s)) = Len(s) - 1
      /\ \A i \in 1..Len(Tail(s)) : Tail(s)[i] = s[i + 1]
  BY HeadTailProperties
<1>2. Len(s) \in Nat /\ Len(s) >= 1 /\ Head(s) = s[1]
  BY <1>1, LenProperties
<1> DEFINE r == Tail(s)
<1>3. ASSUME NEW i \in 1..Len(r), r[i].step = "setState", r[i].state \in Transitional
      PROVE  \E j \in (i + 1)..Len(r) : r[j] = StepOn("session", r[i].act)
  <2>1. i + 1 \in 1..Len(s) /\ r[i] = s[i + 1]
    BY <1>1, <1>2, <1>3
  <2>2. PICK j \in (i + 2)..Len(s) : s[j] = StepOn("session", r[i].act)
    BY <1>3, <2>1 DEF Followed
  <2>3. j - 1 \in (i + 1)..Len(r) /\ r[j - 1] = s[j]
    BY <1>1, <1>2, <2>2
  <2>4. QED BY <2>2, <2>3
<1>4. ASSUME Head(s).step = "setState", Head(s).state \in Transitional
      PROVE  StepOn("session", Head(s).act) \in Range(r)
  <2>1. PICK j \in 2..Len(s) : s[j] = StepOn("session", s[1].act)
    BY <1>2, <1>4 DEF Followed
  <2>2. j - 1 \in 1..Len(r) /\ r[j - 1] = s[j]
    BY <1>1, <1>2, <2>1
  <2>3. Range(r) = {r[i] : i \in 1..Len(r)}
    BY <1>1, RangeEquality
  <2>4. StepOn("session", Head(s).act) = r[j - 1]
    BY <1>2, <2>1, <2>2
  <2> HIDE DEF r
  <2>5. QED BY <2>2, <2>3, <2>4
<1> HIDE DEF r
<1>5. Followed(r)
  BY <1>3 DEF Followed
<1>6. QED BY <1>4, <1>5 DEF r

LEMMA FollowedMoved ==
    ASSUME TypeOK, SessionFollows, NEW t \in Thread, NEW steps \in Seq(Todo),
           Moves(t, steps), Followed(steps)
    PROVE  SessionFollows'
<1>1. \A u \in Thread : todo[u] \in Seq(Todo) /\ Followed(todo[u])
  BY DEF TypeOK, SessionFollows
<1>2. CASE Begin(t, steps)
  <2>1. todo' = [todo EXCEPT ![t] = steps]
    BY <1>2 DEF Begin
  <2>2. QED BY <1>1, <2>1 DEF TypeOK, SessionFollows
<1>3. ASSUME NEW name \in StepName, At(t, name), Then(t, steps)
      PROVE  SessionFollows'
  <2>1. todo[t] # <<>> /\ todo' = [todo EXCEPT ![t] = steps \o Tail(todo[t])]
    BY <1>3 DEF At, Then
  <2>2. Tail(todo[t]) \in Seq(Todo) /\ Followed(Tail(todo[t]))
    BY <1>1, <2>1, HeadTailProperties, TailIsFollowed
  <2>3. Followed(steps \o Tail(todo[t]))
    BY <2>2, JoinedIsFollowed
  <2>4. QED BY <1>1, <2>1, <2>3 DEF TypeOK, SessionFollows
<1>4. QED BY <1>2, <1>3 DEF Moves

LEMMA NobodyMoved ==
    ASSUME TypeOK, NobodyIsFirst, NEW t \in Thread, NEW steps \in Seq(Todo),
           Moves(t, steps), Nobody \notin Range(steps)
    PROVE  NobodyIsFirst'
<1> SUFFICES ASSUME NEW u \in Thread, Nobody \in Steps(u)' PROVE FALSE
  BY DEF NobodyIsFirst, Nobody
<1>1. Nobody \in Steps(u)
  BY MovedSteps
<1>2. u = Main /\ ~up /\ todo[Main] # <<>> /\ Nobody \notin Range(Tail(todo[Main]))
  BY <1>1 DEF NobodyIsFirst
<1>3. PICK name \in StepName : At(t, name) /\ Then(t, steps)
  BY <1>2 DEF Moves, Begin, Idle, Runs
<1>4. t = Main
  BY <1>2, <1>3 DEF At, Runs
<1>5. Steps(Main)' = Range(steps) \cup Range(Tail(todo[Main]))
  BY <1>3, <1>4, ThenSteps
<1>6. QED BY <1>2, <1>5

(* Starting up.                                                              *)
LEMMA StartUpSteps ==
    ASSUME NEW c \in Config, NEW last \in Activity \cup {NoActivity}
    PROVE  LET start == StartUp(c, last)
           IN  /\ \A t \in Thread : \A e \in Range(start[t]) :
                     e.step \notin {"setState", "erase", "save"}
               /\ Nobody \notin Range(start[DBus])
               /\ StepOn("setCurrent", last) \in Range(start[Main])
               /\ start[Main] # <<>>
               /\ Nobody \notin Range(Tail(start[Main]))
               /\ \A t \in Thread : Followed(start[t])
<1> DEFINE start == StartUp(c, last)
           m == start[Main]
<1>1. /\ start \in [Thread -> Seq(Todo)]
      /\ Range(m) = {StepOn("setCurrent", last), Step("startThread"),
                     Step("snapshot"), Step("publish")}
      /\ Range(start[DBus]) \subseteq {Step("add")}
  BY StartUpType
<1>2. \A t \in Thread : \A e \in Range(start[t]) :
        e.step \notin {"setState", "erase", "save"}
  BY <1>1 DEF Thread, Step, StepOn
<1>3. Nobody \notin Range(start[DBus])
  BY <1>1 DEF Nobody, Step, StepOn
<1>4. m \in Seq(Todo)
  BY <1>1 DEF Thread
<1>5. /\ m # <<>>
      /\ \A i \in 1..Len(m) - 1 : m[i + 1] # Nobody
      /\ Len(m) = 4
  <2> DEFINE first == <<StepOn("setCurrent", last), Step("startThread")>>
             update == <<Step("snapshot"), Step("publish")>>
  <2>1. m = first \o update
    BY ThreadAssumption DEF StartUp, Thread, Update
  <2>2. /\ StepOn("setCurrent", last) \in Todo
        /\ \A name \in {"startThread", "snapshot", "publish"} :
              Step(name) \in Todo /\ Step(name) # Nobody
    BY StepTypes DEF OwnSteps, Nobody, Step, StepOn
  <2>3. first \in Seq(Todo) /\ update \in Seq(Todo)
    BY <2>2
  <2>4. /\ Len(first) = 2 /\ first[2] = Step("startThread")
        /\ Len(update) = 2
        /\ update[1] = Step("snapshot")
        /\ update[2] = Step("publish")
    OBVIOUS
  <2> HIDE DEF first, update, m
  <2>5. /\ Len(m) = 4
        /\ m[2] = Step("startThread")
        /\ m[3] = Step("snapshot")
        /\ m[4] = Step("publish")
    <3>1. /\ Len(m) = Len(first) + Len(update)
          /\ \A i \in 1..Len(first) + Len(update) :
                m[i] = IF i <= Len(first) THEN first[i] ELSE update[i - Len(first)]
      BY <2>1, <2>3, ConcatProperties
    <3>2. Len(m) = 4 /\ \A i \in 1..4 : m[i] = IF i <= 2 THEN first[i] ELSE update[i - 2]
      BY <2>4, <3>1
    <3>3. m[2] = first[2] /\ m[3] = update[1] /\ m[4] = update[2]
      BY <3>2
    <3>4. QED BY <2>4, <3>2, <3>3
  <2>6. m # <<>>
    BY <2>5
  <2>7. \A i \in 1..Len(m) - 1 : i = 1 \/ i = 2 \/ i = 3
    BY <2>5
  <2>8. QED BY <2>2, <2>5, <2>6, <2>7
<1> HIDE DEF start, m
<1>6. /\ Tail(m) \in Seq(Todo)
      /\ Len(Tail(m)) = Len(m) - 1
      /\ \A i \in 1..Len(Tail(m)) : Tail(m)[i] = m[i + 1]
  BY <1>4, <1>5, HeadTailProperties
<1>7. Range(Tail(m)) = {Tail(m)[i] : i \in 1..Len(Tail(m))}
  BY <1>6, RangeEquality
<1>8. Nobody \notin Range(Tail(m))
  BY <1>5, <1>6, <1>7
<1>9. \A t \in Thread : Followed(start[t])
  BY <1>1, <1>2, SettledIsFollowed
<1>10. QED BY <1>1, <1>2, <1>3, <1>5, <1>8, <1>9 DEF start, m

(* What is under way when the configuration has been loaded.                 *)
JustLoaded(c) ==
    /\ {cfg, disk} = {c}
    /\ activities = Loaded(c)
    /\ currentActivity = NoActivity
    /\ ~up
    /\ c.current \in AddedOnce \cup {NoActivity}
    /\ gone = {} => c.current \in c.names \cup {NoActivity}
    /\ \E last \in LastUsed(c) : todo = StartUp(c, last)

Starting == \E c \in Config : JustLoaded(c)

LEMMA StartIsUnderWay == Starting => UnderWay
<1> SUFFICES ASSUME NEW c \in Config, JustLoaded(c) PROVE UnderWay
  BY DEF Starting
<1> USE DEF JustLoaded
<1>1. PICK last \in LastUsed(c) : todo = StartUp(c, last)
  OBVIOUS
<1>2. last \in Activity \cup {NoActivity}
  BY LastUsedType
<1>3. /\ \A t \in Thread : \A e \in Steps(t) :
            e.step \notin {"setState", "erase", "save"}
      /\ Nobody \notin Steps(DBus)
      /\ StepOn("setCurrent", last) \in Steps(Main)
      /\ todo[Main] # <<>>
      /\ Nobody \notin Range(Tail(todo[Main]))
      /\ \A t \in Thread : Followed(todo[t])
  BY <1>1, <1>2, StartUpSteps DEF Steps
<1>4. NobodyIsFirst
  BY <1>3 DEF NobodyIsFirst, Thread
<1>5. LastIsSpared /\ SessionFollows /\ CurrentWasAdded
  BY <1>3 DEF LastIsSpared, SessionFollows, CurrentWasAdded
<1>6. CurrentIsComing
  <2> SUFFICES ASSUME gone = {}, Ids(activities) # {}
               PROVE  last \in Ids(activities)
    BY <1>3 DEF CurrentIsComing, StepOn, Thread
  <2>1. Ids(activities) = c.names
    BY LoadedMatch
  <2>2. QED BY <2>1 DEF LastUsed
<1>7. TransitionIsOwed
  BY DEF TransitionIsOwed, Loaded, LoadedState, ListedState, DefaultState, Transitional
<1>8. QED BY <1>4, <1>5, <1>6, <1>7 DEF UnderWay

(* Steps that nothing is promised about: they put nothing in transition      *)
(* without telling the session manager, neither remove an activity nor save  *)
(* the current one, and do not make no activity the current one.             *)
Harmless(steps) ==
    /\ Nobody \notin Range(steps)
    /\ \A e \in Range(steps) : e.step \notin {"erase", "save"}
    /\ Followed(steps)

LEMMA HarmlessIf ==
    ASSUME NEW steps \in Seq(Todo),
           \A e \in Range(steps) :
              /\ e.step \notin {"erase", "save"}
              /\ e.step = "setState" => e.state \notin Transitional
              /\ e.step = "setCurrent" => e.act # NoActivity
    PROVE  Harmless(steps)
<1>1. Nobody \notin Range(steps)
  BY DEF Nobody, StepOn
<1>2. QED BY <1>1, SettledIsFollowed DEF Harmless

LEMMA NothingIsHarmless == <<>> \in Seq(Todo) /\ Harmless(<<>>)
BY NoSteps, HarmlessIf

LEMMA LeftAlone ==
    ASSUME TypeOK, UnderWay, NEW t \in Thread, NEW steps \in Seq(Todo),
           Begin(t, steps)
             \/ \E name \in StepName \ {"setState", "session", "setCurrent", "assign"} :
                   At(t, name) /\ Then(t, steps),
           Harmless(steps),
           UNCHANGED <<gone, owed, dropped, currentActivity, disk>>,
           Ids(activities) \subseteq Ids(activities)',
           \A a \in Activity : activities'[a] \in Transitional =>
                                  activities'[a] = activities[a],
           cfg'.current \in {cfg.current} \cup AddedOnce,
           \/ Ids(activities)' = Ids(activities)
           \/ Ids(activities) # {}
           \/ \E e \in Range(steps) : e.step = "setCurrent" /\ e.act \in Ids(activities)'
    PROVE  UnderWay' /\ Spared
<1>1. Moves(t, steps)
  BY DEF Moves
<1>2. /\ \A u \in Thread : Steps(u)' \subseteq Range(steps) \cup Steps(u)
      /\ Range(steps) \subseteq Steps(t)'
  BY <1>1, MovedSteps
<1>3. ASSUME NEW u \in Thread, NEW e \in Steps(u),
             e.step \in {"setState", "session", "setCurrent", "assign"}
      PROVE  e \in Steps(u)'
  <2>1. AtHand(t, e) => e.step \notin {"setState", "session", "setCurrent", "assign"}
    BY DEF AtHand, At, Begin, Idle
  <2>2. QED BY <1>1, <1>3, <2>1, MovedSteps
<1>4. AddedOnce \subseteq AddedOnce'
  BY DEF AddedOnce
<1>5. NobodyIsFirst'
  BY <1>1, NobodyMoved DEF UnderWay, Harmless
<1>6. LastIsSpared'
  BY <1>2 DEF UnderWay, Harmless, LastIsSpared
<1>7. SessionFollows'
  BY <1>1, FollowedMoved DEF UnderWay, Harmless
<1>8. CurrentWasAdded'
  <2>1. \A u \in Thread : \A e \in Steps(u)' : e.step = "save" => e.act \in AddedOnce'
    BY <1>2, <1>4 DEF UnderWay, Harmless, CurrentWasAdded
  <2>2. QED BY <1>4, <2>1 DEF UnderWay, CurrentWasAdded
<1>9. CurrentIsComing'
  <2> SUFFICES ASSUME gone = {}, Ids(activities)' # {}, currentActivity = NoActivity
               PROVE  \E u \in Thread : \E e \in Steps(u)' :
                        /\ e.step \in {"setCurrent", "assign"}
                        /\ e.act \in Ids(activities)'
    BY DEF CurrentIsComing
  <2>1. CASE Ids(activities) # {}
    BY <1>3, <2>1 DEF UnderWay, CurrentIsComing
  <2>2. CASE Ids(activities) = {}
    BY <1>2, <2>2
  <2>3. QED BY <2>1, <2>2
<1>10. TransitionIsOwed'
  BY <1>3 DEF UnderWay, TransitionIsOwed
<1>11. Spared
  BY DEF Spared
<1>12. QED BY <1>5, <1>6, <1>7, <1>8, <1>9, <1>10, <1>11 DEF UnderWay

LEMMA SetStateUnderWay ==
    ASSUME TypeOK, Kept, UnderWay, NEW t \in Thread, DoSetState(t)
    PROVE  UnderWay' /\ Spared
<1> DEFINE a == Act(t)
           s == Head(todo[t]).state
           c == Down(Value(a)) # Down(s)
           steps == IF Value(a) = s THEN <<>>
                    ELSE Optional(c, <<Step("writeLists")>>) \o Update
<1>1. /\ a \in Activity
      /\ s \in State
      /\ At(t, "setState")
      /\ Head(todo[t]).step = "setState"
      /\ UNCHANGED <<gone, cfg, disk, owed, currentActivity>>
  BY StepAtHand DEF DoSetState, stored, history
<1>2. c \in BOOLEAN
  OBVIOUS
<1>3. steps \in Seq(Todo)
  BY <1>2, NoSteps, SetStateSteps
<1>4. Then(t, steps) /\ Moves(t, steps)
  BY DEF DoSetState, Moves, StepName
<1>5. Range(steps) \subseteq {Step("writeLists"), Step("snapshot"), Step("publish")}
  BY <1>2, NoSteps, SetStateSteps
<1> HIDE DEF steps
<1>6. Harmless(steps)
  <2>1. \A e \in Range(steps) : e.step \in {"writeLists", "snapshot", "publish"}
    BY <1>5 DEF Step
  <2>2. QED BY <1>3, <2>1, HarmlessIf
<1>7. /\ activities'[a] = s \/ (activities' = activities /\ Value(a) = s)
      /\ \A b \in Activity \ {a} : activities'[b] = activities[b]
  BY <1>1 DEF DoSetState, TypeOK, Table
<1>8. Ids(activities) \subseteq Ids(activities)'
  BY <1>1, <1>7 DEF Ids, State, Transitional
<1>9. AddedOnce \subseteq AddedOnce'
  BY <1>1, <1>8 DEF AddedOnce
<1>10. a \in AddedOnce
  <2>1. Head(todo[t]) \in Steps(t)
    BY <1>1, <1>3, <1>4, ThenSteps
  <2>2. QED BY <1>1, <2>1 DEF Kept, SetStatesWereAdded, Act
<1>11. /\ \A u \in Thread : Steps(u)' \subseteq Range(steps) \cup Steps(u)
       /\ \A u \in Thread : \A e \in Steps(u) :
             e \in Steps(u)' \/ (e.act = a /\ e.step = "setState")
  BY <1>1, <1>3, <1>4, MovedSteps DEF AtHand, Act
<1>12. NobodyIsFirst' /\ SessionFollows'
  BY <1>3, <1>4, <1>6, NobodyMoved, FollowedMoved DEF UnderWay, Harmless
<1>13. LastIsSpared'
  BY <1>6, <1>8, <1>11 DEF UnderWay, Harmless, LastIsSpared
<1>14. CurrentWasAdded'
  <2>1. \A u \in Thread : \A e \in Steps(u)' : e.step = "save" => e.act \in AddedOnce'
    BY <1>6, <1>9, <1>11 DEF UnderWay, Harmless, CurrentWasAdded
  <2>2. QED BY <1>1, <1>9, <2>1 DEF UnderWay, CurrentWasAdded
<1>15. CurrentIsComing'
  <2> SUFFICES ASSUME gone = {}, currentActivity = NoActivity
               PROVE  \E u \in Thread : \E e \in Steps(u)' :
                        /\ e.step \in {"setCurrent", "assign"}
                        /\ e.act \in Ids(activities)'
    BY <1>1 DEF CurrentIsComing
  <2>1. PICK u \in Thread : \E e \in Steps(u) :
          e.step \in {"setCurrent", "assign"} /\ e.act \in Ids(activities)
    BY <1>10 DEF UnderWay, CurrentIsComing, AddedOnce
  <2>2. QED BY <1>8, <1>11, <2>1
<1>16. TransitionIsOwed'
  <2> SUFFICES ASSUME NEW b \in Activity, activities'[b] \in Transitional
               PROVE  \/ owed[b] > 0
                      \/ \E u \in Thread : \E e \in Steps(u)' :
                            e.act = b /\ e.step \in {"session", "setState"}
                      \/ b \in dropped'
    BY <1>1 DEF TransitionIsOwed
  <2>1. CASE b # a
    <3>1. b \in dropped => b \in dropped'
      BY <2>1 DEF DoSetState
    <3>2. QED BY <1>7, <1>11, <2>1, <3>1 DEF UnderWay, TransitionIsOwed
  <2>2. CASE b = a
    <3>1. s \in Transitional
      BY <1>7, <2>2 DEF Value, Transitional
    <3>2. StepOn("session", a) \in Range(Tail(todo[t]))
      BY <1>1, <3>1, TailIsFollowed DEF UnderWay, SessionFollows, TypeOK, At, Act
    <3>3. StepOn("session", a) \in Steps(t)'
      BY <1>1, <1>3, <1>4, <3>2, ThenSteps
    <3>4. QED BY <2>2, <3>3 DEF StepOn
  <2>3. QED BY <2>1, <2>2
<1>17. Spared
  BY <1>1, <1>8 DEF Spared
<1>18. QED BY <1>12, <1>13, <1>14, <1>15, <1>16, <1>17 DEF UnderWay

LEMMA OutcomeIsHarmless ==
    ASSUME NEW a \in Activity, NEW e \in Event
    PROVE  /\ Outcome(a, e) \in Seq(Todo)
           /\ Harmless(Outcome(a, e))
           /\ \A x \in Range(Outcome(a, e)) : x.step \in {"ensure", "setState"}
           /\ activities[a] # "Absent" =>
                \E x \in Range(Outcome(a, e)) : x.act = a /\ x.step = "setState"
<1>1. Outcome(a, e) \in Seq(Todo)
  BY OutcomeSteps
<1>2. ASSUME NEW x \in Range(Outcome(a, e))
      PROVE  /\ x.step \in {"ensure", "setState"}
             /\ x.step = "setState" => x.state \notin Transitional
  <2>1. \/ x = Step("ensure")
        \/ \E s \in {"Running", "Stopped"} : x = SetState(a, s)
    BY OutcomeSteps
  <2>2. QED BY <2>1 DEF Step, SetState, Transitional
<1>3. Harmless(Outcome(a, e))
  BY <1>1, <1>2, HarmlessIf
<1>4. activities[a] # "Absent" =>
        \E s \in {"Running", "Stopped"} : SetState(a, s) \in Range(Outcome(a, e))
  BY OutcomeSteps
<1>5. QED BY <1>1, <1>2, <1>3, <1>4 DEF SetState

(* What the session manager is asked for is owed from then on, or dropped.   *)
LEMMA SessionUnderWay ==
    ASSUME TypeOK, UnderWay, NEW t \in Thread, DoSession(t)
    PROVE  UnderWay' /\ Spared
<1> DEFINE a == Act(t)
<1>1. /\ a \in Activity
      /\ Head(todo[t]).step = "session"
      /\ At(t, "session")
      /\ "session" \in StepName
      /\ UNCHANGED <<activities, gone, cfg, disk, currentActivity>>
  BY StepAtHand DEF DoSession, StepName, IdSteps, table, stored, history
<1>2. PICK steps \in Seq(Todo) :
        /\ Then(t, steps)
        /\ Harmless(steps)
        /\ \A x \in Range(steps) : x.step \in {"ensure", "setState"}
        /\ \A b \in Activity \ {a} : \/ owed'[b] = owed[b]
                                      \/ activities[b] = "Absent"
                                      \/ \E x \in Range(steps) :
                                            x.act = b /\ x.step = "setState"
  <2>1. CASE Then(t, <<>>) /\ (Accept(a) \/ UNCHANGED owed)
    <3>1. \A b \in Activity \ {a} : owed'[b] = owed[b]
      BY <2>1 DEF Accept, TypeOK
    <3>2. \A x \in Range(<<>>) : x.step \in {"ensure", "setState"}
      BY NoSteps
    <3>3. QED BY <2>1, <3>1, <3>2, NothingIsHarmless
  <2>2. ASSUME NEW b \in Activity, NEW e \in Event,
               owed' = [owed EXCEPT ![b] = @ - 1], Then(t, Outcome(b, e))
        PROVE  \E steps \in Seq(Todo) :
                 /\ Then(t, steps)
                 /\ Harmless(steps)
                 /\ \A x \in Range(steps) : x.step \in {"ensure", "setState"}
                 /\ \A d \in Activity \ {a} :
                       \/ owed'[d] = owed[d]
                       \/ activities[d] = "Absent"
                       \/ \E x \in Range(steps) : x.act = d /\ x.step = "setState"
    <3>1. \A d \in Activity \ {b} : owed'[d] = owed[d]
      BY <2>2 DEF TypeOK
    <3>2. QED BY <2>2, <3>1, OutcomeIsHarmless
  <2>3. QED BY <2>1, <2>2 DEF DoSession
<1>3. Moves(t, steps)
  BY <1>1, <1>2 DEF Moves
<1>4. /\ \A u \in Thread : Steps(u)' \subseteq Range(steps) \cup Steps(u)
      /\ Range(steps) \subseteq Steps(t)'
      /\ \A u \in Thread : \A e \in Steps(u) :
            e \in Steps(u)' \/ (e.act = a /\ e.step = "session")
  BY <1>1, <1>2, <1>3, MovedSteps DEF AtHand, Act
<1>5. NobodyIsFirst' /\ SessionFollows'
  BY <1>2, <1>3, NobodyMoved, FollowedMoved DEF UnderWay, Harmless
<1>6. LastIsSpared' /\ CurrentWasAdded' /\ CurrentIsComing'
  BY <1>1, <1>2, <1>4 DEF UnderWay, LastIsSpared, CurrentWasAdded, CurrentIsComing,
                          AddedOnce
<1>7. /\ owed'[a] > 0 \/ a \in dropped'
      /\ \A b \in Activity \ {a} : b \in dropped => b \in dropped'
  <2>1. CASE Accept(a)
    BY <1>1, <2>1, BoundsAssumption DEF Accept, TypeOK
  <2>2. CASE Drop(a) /\ owed' \in [Activity -> Nat]
    BY <1>1, <2>2 DEF Drop
  <2>3. Accept(a) \/ (Drop(a) /\ owed' \in [Activity -> Nat])
    BY DEF DoSession, TypeOK
  <2>4. QED BY <2>1, <2>2, <2>3
<1>8. TransitionIsOwed'
  <2> SUFFICES ASSUME NEW b \in Activity, activities[b] \in Transitional
               PROVE  \/ owed'[b] > 0
                      \/ \E u \in Thread : \E x \in Steps(u)' :
                            x.act = b /\ x.step \in {"session", "setState"}
                      \/ b \in dropped'
    BY <1>1 DEF TransitionIsOwed
  <2>1. CASE b = a
    BY <1>7, <2>1
  <2>2. CASE b # a /\ owed'[b] = owed[b]
    BY <1>4, <1>7, <2>2 DEF UnderWay, TransitionIsOwed
  <2>3. CASE b # a /\ owed'[b] # owed[b]
    <3>1. \E x \in Range(steps) : x.act = b /\ x.step = "setState"
      BY <1>2, <2>3 DEF Transitional
    <3>2. QED BY <1>4, <3>1
  <2>4. QED BY <2>1, <2>2, <2>3
<1>9. Spared
  BY <1>1 DEF Spared
<1>10. QED BY <1>5, <1>6, <1>8, <1>9 DEF UnderWay

LEMMA SetCurrentUnderWay ==
    ASSUME TypeOK, UnderWay, NEW t \in Thread, DoSetCurrent(t)
    PROVE  UnderWay' /\ Spared
<1> DEFINE a == Act(t)
           c == a # currentActivity /\ a \in Ids(activities)
           steps == Optional(c, <<StepOn("start", a), StepOn("assign", a),
                                  StepOn("save", a)>>)
<1>1. /\ a \in Activity \cup {NoActivity}
      /\ Head(todo[t]) \in Todo
      /\ Head(todo[t]).step = "setCurrent"
      /\ At(t, "setCurrent")
      /\ Then(t, steps)
      /\ UNCHANGED <<activities, gone, cfg, disk, owed, dropped>>
  BY StepAtHand DEF DoSetCurrent, table, stored, sessions, history
<1>2. c \in BOOLEAN /\ (c => a \in Activity)
  BY DEF Ids
<1>3. /\ steps \in Seq(Todo)
      /\ Range(steps) \subseteq
            {StepOn("start", a), StepOn("assign", a), StepOn("save", a)}
      /\ c => StepOn("assign", a) \in Range(steps)
  <2> HIDE DEF c
  <2>1. QED BY <1>1, <1>2, SetCurrentSteps
<1>4. ~c => Range(steps) = {}
  BY NoSteps DEF Optional
<1> HIDE DEF steps
<1>5. Moves(t, steps)
  BY <1>1 DEF Moves, StepName
<1>6. /\ \A u \in Thread : Steps(u)' \subseteq Range(steps) \cup Steps(u)
      /\ Range(steps) \subseteq Steps(t)'
      /\ \A u \in Thread : \A e \in Steps(u) :
            e \in Steps(u)' \/ (e.act = a /\ e.step = "setCurrent")
  BY <1>1, <1>3, <1>5, MovedSteps DEF AtHand, Act
<1>7. \A e \in Range(steps) : e.step \in {"start", "assign", "save"} /\ e.act = a
  BY <1>3 DEF StepOn
<1>8. currentActivity' = currentActivity
  <2>1. CASE a # NoActivity
    BY <2>1 DEF DoSetCurrent
  <2>2. CASE a = NoActivity
    <3>1. Head(todo[t]) = Nobody
      BY <1>1, <2>2 DEF Todo, OwnSteps, IdSteps, Act, Nobody, StepOn
    <3>2. Nobody \in Steps(t)
      BY <1>1, <1>3, <3>1, ThenSteps
    <3>3. currentActivity = NoActivity
      BY <3>2 DEF UnderWay, NobodyIsFirst
    <3>4. QED BY <2>2, <3>3 DEF DoSetCurrent
  <2>3. QED BY <2>1, <2>2
<1>9. NobodyIsFirst' /\ SessionFollows'
  <2>1. Nobody \notin Range(steps)
    BY <1>7 DEF Nobody, StepOn
  <2>2. Followed(steps)
    BY <1>3, <1>7, SettledIsFollowed
  <2>3. QED BY <1>3, <1>5, <2>1, <2>2, NobodyMoved, FollowedMoved DEF UnderWay
<1>10. LastIsSpared'
  BY <1>1, <1>6, <1>7 DEF UnderWay, LastIsSpared
<1>11. CurrentWasAdded'
  <2>1. AddedOnce' = AddedOnce
    BY <1>1 DEF AddedOnce
  <2>2. \A e \in Range(steps) : e.act \in AddedOnce
    BY <1>4, <1>7 DEF AddedOnce
  <2>3. \A u \in Thread : \A e \in Steps(u)' : e.step = "save" => e.act \in AddedOnce'
    BY <1>6, <2>1, <2>2 DEF UnderWay, CurrentWasAdded
  <2>4. QED BY <1>1, <2>1, <2>3 DEF UnderWay, CurrentWasAdded
<1>12. CurrentIsComing'
  <2> SUFFICES ASSUME gone = {}, Ids(activities) # {}, currentActivity = NoActivity
               PROVE  \E u \in Thread : \E e \in Steps(u)' :
                        /\ e.step \in {"setCurrent", "assign"}
                        /\ e.act \in Ids(activities)
    BY <1>1, <1>8 DEF CurrentIsComing
  <2>1. PICK u \in Thread : \E e \in Steps(u) :
          e.step \in {"setCurrent", "assign"} /\ e.act \in Ids(activities)
    BY DEF UnderWay, CurrentIsComing
  <2>2. PICK e \in Steps(u) :
          e.step \in {"setCurrent", "assign"} /\ e.act \in Ids(activities)
    BY <2>1
  <2>3. CASE e \in Steps(u)'
    BY <2>2, <2>3
  <2>4. CASE e.act = a
    <3>1. c
      BY <2>2, <2>4, NoActivityAssumption DEF Ids
    <3>2. StepOn("assign", a) \in Steps(t)'
      BY <1>3, <1>6, <3>1
    <3>3. QED BY <2>2, <2>4, <3>2 DEF StepOn
  <2>5. QED BY <1>6, <2>3, <2>4
<1>13. TransitionIsOwed'
  BY <1>1, <1>6 DEF UnderWay, TransitionIsOwed
<1>14. Spared
  BY <1>1, <1>8 DEF Spared
<1>15. QED BY <1>9, <1>10, <1>11, <1>12, <1>13, <1>14 DEF UnderWay

LEMMA AssignUnderWay ==
    ASSUME TypeOK, UnderWay, NEW t \in Thread, DoAssign(t)
    PROVE  UnderWay' /\ Spared
<1>1. /\ Act(t) \in Activity
      /\ Head(todo[t]).step = "assign"
      /\ Then(t, <<>>)
      /\ UNCHANGED <<activities, gone, cfg, disk, owed, dropped>>
  BY StepAtHand DEF DoAssign, IdSteps, table, stored, sessions, history
<1>2. currentActivity' # NoActivity
  BY <1>1, NoActivityAssumption DEF DoAssign
<1>3. Moves(t, <<>>)
  BY DEF DoAssign, Moves, StepName, IdSteps
<1>4. <<>> \in Seq(Todo) /\ Harmless(<<>>)
  BY NothingIsHarmless
<1>5. /\ \A u \in Thread : Steps(u)' \subseteq Steps(u)
      /\ \A u \in Thread : \A e \in Steps(u) : e \in Steps(u)' \/ e.step = "assign"
  BY <1>1, <1>3, NoSteps, MovedSteps DEF AtHand
<1>6. NobodyIsFirst' /\ SessionFollows'
  BY <1>3, <1>4, NobodyMoved, FollowedMoved DEF UnderWay, Harmless
<1>7. LastIsSpared' /\ CurrentWasAdded' /\ CurrentIsComing' /\ TransitionIsOwed'
  BY <1>1, <1>2, <1>5 DEF UnderWay, LastIsSpared, CurrentWasAdded, CurrentIsComing,
                          TransitionIsOwed, AddedOnce
<1>8. Spared
  BY <1>1, <1>2 DEF Spared
<1>9. QED BY <1>6, <1>7, <1>8 DEF UnderWay

LEMMA EraseUnderWay ==
    ASSUME TypeOK, UnderWay, NEW t \in Thread, DoErase(t)
    PROVE  UnderWay' /\ Spared
<1> DEFINE a == Act(t)
           c == currentActivity = a
           steps == <<StepOn("dropEntries", a)>> \o Optional(c, <<Step("ensure")>>)
<1>1. /\ a \in Activity /\ c \in BOOLEAN
      /\ At(t, "erase")
      /\ Head(todo[t]).step = "erase"
      /\ UNCHANGED <<cfg, disk, owed, dropped, currentActivity>>
  BY StepAtHand DEF DoErase, IdSteps, stored, sessions
<1>2. /\ steps \in Seq(Todo)
      /\ Range(steps) \subseteq {StepOn("dropEntries", a), Step("ensure")}
  BY <1>1, EraseSteps
<1>3. Then(t, steps) /\ Moves(t, steps)
  BY DEF DoErase, Moves, StepName, IdSteps
<1> HIDE DEF steps
<1>4. \A e \in Range(steps) : e.step \in {"dropEntries", "ensure"}
  BY <1>2 DEF StepOn, Step
<1>5. Harmless(steps)
  BY <1>2, <1>4, HarmlessIf
<1>6. /\ gone' = gone \cup {a}
      /\ activities'[a] = "Absent"
      /\ \A b \in Activity \ {a} : activities'[b] = activities[b]
  BY <1>1 DEF DoErase, TypeOK, Table
<1>7. Ids(activities)' = Ids(activities) \ {a} /\ AddedOnce \subseteq AddedOnce'
  BY <1>6 DEF Ids, AddedOnce
<1>8. /\ \A u \in Thread : Steps(u)' \subseteq Range(steps) \cup Steps(u)
      /\ \A u \in Thread : \A e \in Steps(u) :
            e \in Steps(u)' \/ (e.act = a /\ e.step = "erase")
  BY <1>1, <1>2, <1>3, MovedSteps DEF AtHand, Act
<1>9. t = DBus /\ Ids(activities) \ {a} # {}
      /\ \A x \in Steps(DBus) : x.step = "erase" => x.act = a
  <2>1. Head(todo[t]) \in Steps(t)
    BY <1>1, <1>2, <1>3, ThenSteps
  <2>2. QED BY <1>1, <2>1 DEF UnderWay, LastIsSpared, Act
<1>10. NobodyIsFirst' /\ SessionFollows'
  BY <1>2, <1>3, <1>5, NobodyMoved, FollowedMoved DEF UnderWay, Harmless
<1>11. LastIsSpared'
  <2> SUFFICES ASSUME NEW u \in Thread, NEW e \in Steps(u)', e.step = "erase"
               PROVE  /\ u = DBus
                      /\ Ids(activities)' \ {e.act} # {}
                      /\ \A x \in Steps(u)' : x.step = "erase" => x.act = e.act
    BY DEF LastIsSpared
  <2>1. e \in Steps(u)
    BY <1>4, <1>8
  <2>2. u = DBus /\ e.act = a
    BY <1>9, <2>1 DEF UnderWay, LastIsSpared
  <2>3. \A x \in Steps(u)' : x.step = "erase" => x.act = a
    BY <1>4, <1>8, <1>9, <2>2
  <2>4. QED BY <1>7, <1>9, <2>2, <2>3
<1>12. CurrentWasAdded'
  <2>1. \A u \in Thread : \A e \in Steps(u)' : e.step = "save" => e.act \in AddedOnce'
    BY <1>4, <1>7, <1>8 DEF UnderWay, CurrentWasAdded
  <2>2. QED BY <1>1, <1>7, <2>1 DEF UnderWay, CurrentWasAdded
<1>13. CurrentIsComing'
  BY <1>6 DEF CurrentIsComing
<1>14. TransitionIsOwed'
  BY <1>1, <1>6, <1>8 DEF UnderWay, TransitionIsOwed, Transitional
<1>15. Spared
  BY <1>1, <1>7, <1>9 DEF Spared
<1>16. QED BY <1>10, <1>11, <1>12, <1>13, <1>14, <1>15 DEF UnderWay

(* The last one is not begun to be removed.                                  *)
LEMMA RemoveUnderWay ==
    ASSUME TypeOK, UnderWay, NEW a \in Activity, RemoveActivity(a)
    PROVE  UnderWay' /\ Spared
<1>1. /\ Begin(DBus, RemoveSteps(a))
      /\ UNCHANGED <<activities, gone, cfg, disk, owed, dropped, currentActivity>>
  BY DEF RemoveActivity, Call, Called, table, stored, sessions
<1>2. DBus \in Thread /\ Moves(DBus, RemoveSteps(a))
  BY <1>1 DEF Thread, Moves
<1>3. /\ RemoveSteps(a) \in Seq(Todo)
      /\ \A x \in Range(RemoveSteps(a)) :
            /\ MayRemove(a)
            /\ x \in {StepOn("stop", a), SetState(a, "Invalid"), StepOn("erase", a)}
  BY RemovingSteps, NoSteps
<1>4. \A x \in Range(RemoveSteps(a)) :
        /\ x.step \in {"stop", "setState", "erase"}
        /\ x.act = a
        /\ x.step = "setState" => x.state \notin Transitional
  BY <1>3 DEF StepOn, SetState, Transitional
<1>5. /\ Steps(DBus) = {}
      /\ Steps(DBus)' = Range(RemoveSteps(a))
      /\ \A u \in Thread \ {DBus} : Steps(u)' = Steps(u)
  BY <1>1, <1>2, <1>3, BeginSteps
<1>6. MayRemove(a) => Ids(activities) \ {a} # {}
  <2> SUFFICES ASSUME a \in Ids(activities), Ids(activities) \ {a} = {}
               PROVE  Cardinality(Ids(activities)) = 1
    BY DEF MayRemove
  <2>1. Ids(activities) = {a}
    OBVIOUS
  <2>2. QED BY <2>1, FS_Singleton
<1>7. NobodyIsFirst'
  <2>1. Nobody \notin Range(RemoveSteps(a))
    BY <1>4 DEF Nobody, StepOn
  <2>2. QED BY <1>2, <1>3, <2>1, NobodyMoved DEF UnderWay
<1>8. SessionFollows'
  BY <1>2, <1>3, <1>4, SettledIsFollowed, FollowedMoved DEF UnderWay
<1>9. LastIsSpared'
  <2>1. \A u \in Thread \ {DBus} : \A e \in Steps(u)' : e.step # "erase"
    BY <1>5 DEF UnderWay, LastIsSpared
  <2>2. \A e \in Steps(DBus)' : e.act = a /\ Ids(activities) \ {a} # {}
    BY <1>3, <1>4, <1>5, <1>6
  <2>3. QED BY <1>1, <2>1, <2>2 DEF LastIsSpared
<1>10. CurrentWasAdded' /\ CurrentIsComing' /\ TransitionIsOwed'
  BY <1>1, <1>4, <1>5 DEF UnderWay, CurrentWasAdded, CurrentIsComing, TransitionIsOwed,
                          AddedOnce
<1>11. Spared
  BY <1>1 DEF Spared
<1>12. QED BY <1>7, <1>8, <1>9, <1>10, <1>11 DEF UnderWay

(* An outcome is no longer owed, and ends the transition.                    *)
LEMMA OutcomeUnderWay ==
    ASSUME TypeOK, UnderWay, NEW a \in Activity, NEW e \in Event,
           SessionStateChanged(a, e)
    PROVE  UnderWay' /\ Spared
<1>1. /\ Begin(Main, Outcome(a, e))
      /\ UNCHANGED <<activities, gone, cfg, disk, currentActivity>>
  BY DEF SessionStateChanged, table, stored, sessions, history
<1>2. Main \in Thread /\ Moves(Main, Outcome(a, e))
  BY <1>1 DEF Thread, Moves
<1>3. /\ Outcome(a, e) \in Seq(Todo)
      /\ Harmless(Outcome(a, e))
  BY OutcomeIsHarmless
<1>4. \A x \in Range(Outcome(a, e)) : x.step \in {"ensure", "setState"}
  BY OutcomeIsHarmless
<1>5. UNCHANGED dropped
  BY DEF SessionStateChanged
<1>6. /\ Steps(Main) = {}
      /\ Steps(Main)' = Range(Outcome(a, e))
      /\ \A u \in Thread \ {Main} : Steps(u)' = Steps(u)
  BY <1>1, <1>2, <1>3, BeginSteps
<1>7. NobodyIsFirst' /\ SessionFollows'
  BY <1>2, <1>3, NobodyMoved, FollowedMoved DEF UnderWay, Harmless
<1>8. LastIsSpared' /\ CurrentWasAdded' /\ CurrentIsComing'
  BY <1>1, <1>4, <1>6 DEF UnderWay, LastIsSpared, CurrentWasAdded, CurrentIsComing,
                          AddedOnce
<1>9. TransitionIsOwed'
  <2> SUFFICES ASSUME NEW b \in Activity, activities[b] \in Transitional
               PROVE  \/ owed'[b] > 0
                      \/ \E u \in Thread : \E x \in Steps(u)' :
                            x.act = b /\ x.step \in {"session", "setState"}
                      \/ b \in dropped
    BY <1>1, <1>5 DEF TransitionIsOwed
  <2>1. CASE b = a
    <3>1. activities[a] # "Absent"
      BY <2>1 DEF Transitional
    <3>2. PICK x \in Range(Outcome(a, e)) : x.act = a /\ x.step = "setState"
      BY <3>1, OutcomeIsHarmless
    <3>3. QED BY <1>2, <1>6, <2>1, <3>2
  <2>2. CASE b # a
    <3>1. owed'[b] = owed[b]
      BY <2>2 DEF SessionStateChanged, TypeOK
    <3>2. QED BY <1>6, <3>1 DEF UnderWay, TransitionIsOwed
  <2>3. QED BY <2>1, <2>2
<1>10. Spared
  BY <1>1 DEF Spared
<1>11. QED BY <1>7, <1>8, <1>9, <1>10 DEF UnderWay

LEMMA InitUnderWay == Init => UnderWay
<1> SUFFICES ASSUME Init PROVE JustLoaded(disk) /\ disk \in Config
  BY StartIsUnderWay DEF Starting
<1>1. disk \in Config
  BY ConfigAssumption DEF Init
<1>2. Ids(activities) = disk.names
  BY <1>1, LoadedMatch DEF Init
<1>3. disk.current \in AddedOnce \cup {NoActivity}
  BY <1>2 DEF Init, AddedOnce
<1>4. QED BY <1>1, <1>3 DEF Init, JustLoaded

LEMMA RestartUnderWay ==
    ASSUME TypeOK, UnderWay, NEW c \in {cfg, disk}, Restart(c)
    PROVE  UnderWay' /\ Spared
<1>1. c \in Config
  BY DEF TypeOK
<1>2. Ids(activities)' = c.names
  BY <1>1, LoadedMatch DEF Restart
<1>3. gone' = gone \cup (Ids(activities) \ c.names)
  BY DEF Restart
<1>4. c.current \in AddedOnce \cup {NoActivity}
  BY DEF UnderWay, CurrentWasAdded
<1>5. c.current \in AddedOnce' \cup {NoActivity}
  BY <1>2, <1>3, <1>4 DEF AddedOnce
<1>6. gone' = {} => c.current \in c.names \cup {NoActivity}
  BY <1>3, <1>4 DEF AddedOnce
<1>7. Starting'
  BY <1>1, <1>5, <1>6 DEF Starting, JustLoaded, Restart
<1>8. UnderWay'
  BY <1>7, StartIsUnderWay, PTL
<1>9. restarts' # restarts
  BY DEF Restart, TypeOK
<1>10. QED BY <1>8, <1>9 DEF Spared

LEMMA NextUnderWay == TypeOK /\ Kept /\ UnderWay /\ [Next]_vars => UnderWay' /\ Spared
<1> SUFFICES ASSUME TypeOK, Kept, UnderWay, [Next]_vars PROVE UnderWay' /\ Spared
  OBVIOUS
<1> DEFINE Goal == UnderWay' /\ Spared
           Ordinary == StepName \ {"setState", "session", "setCurrent", "assign"}
<1> USE DEF table, stored, sessions, history
<1>0. /\ OwnSteps \cup {"start", "stop", "save", "setName", "writeName", "dropEntries"}
           \subseteq Ordinary
      /\ Main \in Thread /\ DBus \in Thread
  BY DEF StepName, OwnSteps, IdSteps, Thread
<1> HIDE DEF Goal, Ordinary
<1>a. ASSUME NEW t \in Thread, NEW steps \in Seq(Todo), Harmless(steps),
             Begin(t, steps) \/ \E name \in Ordinary : At(t, name) /\ Then(t, steps),
             UNCHANGED <<activities, gone, owed, dropped, currentActivity, disk>>,
             cfg'.current \in {cfg.current} \cup AddedOnce
      PROVE  Goal
  BY <1>a, LeftAlone DEF Goal, Ordinary
<1>b. ASSUME NEW t \in Thread, NEW a \in Activity, NewId(a),
             Begin(t, AddSteps(a))
               \/ \E name \in Ordinary : At(t, name) /\ Then(t, AddSteps(a)),
             UNCHANGED <<gone, owed, dropped, currentActivity, stored>>
      PROVE  Goal
  <2>1. /\ AddSteps(a) \in Seq(Todo)
        /\ Range(AddSteps(a)) \subseteq
              {SetState(a, "Running"), StepOn("setName", a), Step("snapshot"),
               Step("publish"), StepOn("setCurrent", a)}
    BY AddingSteps
  <2>2. ASSUME NEW e \in Range(AddSteps(a))
        PROVE  /\ e.step \notin {"erase", "save"}
               /\ e.step = "setState" => e.state \notin Transitional
               /\ e.step = "setCurrent" => e.act # NoActivity
    BY <2>1, NoActivityAssumption DEF SetState, StepOn, Step, Transitional
  <2>3. Harmless(AddSteps(a))
    BY <2>1, <2>2, HarmlessIf
  <2>4. /\ activities[a] = "Absent"
        /\ activities'[a] = "Invalid"
        /\ \A b \in Activity \ {a} : activities'[b] = activities[b]
    BY <1>b DEF NewId, Ids, TypeOK, Table
  <2>5. Ids(activities)' = Ids(activities) \cup {a}
    BY <2>4 DEF Ids
  <2>6. Ids(activities) = {} => StepOn("setCurrent", a) \in Range(AddSteps(a))
    BY AddingSteps
  <2>7. \/ Ids(activities) # {}
        \/ \E e \in Range(AddSteps(a)) :
              e.step = "setCurrent" /\ e.act \in Ids(activities)'
    BY <2>5, <2>6 DEF StepOn
  <2>8. \A b \in Activity : activities'[b] \in Transitional => activities'[b] = activities[b]
    BY <2>4 DEF Transitional
  <2>9. QED
    BY <1>b, <2>1, <2>3, <2>5, <2>7, <2>8, LeftAlone DEF Goal, Ordinary
<1>c. ASSUME NEW name \in {"start", "stop", "setName", "setCurrent", "writeName"},
             NEW a \in Activity
      PROVE  <<StepOn(name, a)>> \in Seq(Todo) /\ Harmless(<<StepOn(name, a)>>)
  <2>1. /\ <<StepOn(name, a)>> \in Seq(Todo)
        /\ Range(<<StepOn(name, a)>>) = {StepOn(name, a)}
    BY OneStep DEF IdSteps
  <2>2. /\ StepOn(name, a).step = name
        /\ StepOn(name, a).act = a
        /\ name \notin {"erase", "save", "setState"}
        /\ a # NoActivity
    BY NoActivityAssumption DEF StepOn
  <2> DEFINE one == <<StepOn(name, a)>>
  <2> HIDE DEF one
  <2>3. one \in Seq(Todo) /\ Harmless(one)
    BY <2>1, <2>2, HarmlessIf DEF one
  <2>4. QED BY <2>3 DEF one
<1>1. ASSUME NEW t \in Thread, DoAdd(t) PROVE Goal
  <2>1. PICK a \in Activity : NewId(a) /\ Then(t, AddSteps(a))
    BY <1>1 DEF DoAdd
  <2>2. At(t, "add") /\ "add" \in Ordinary
    BY <1>0, <1>1 DEF DoAdd, OwnSteps
  <2>3. UNCHANGED <<gone, owed, dropped, currentActivity, stored>>
    BY <1>1 DEF DoAdd
  <2>4. QED BY <1>b, <2>1, <2>2, <2>3
<1>2. ASSUME NEW t \in Thread, DoSetState(t) PROVE Goal
  BY <1>2, SetStateUnderWay DEF Goal
<1>3. ASSUME NEW t \in Thread, DoWriteLists(t) PROVE Goal
  <2>1. At(t, "writeLists") /\ Then(t, <<>>) /\ "writeLists" \in Ordinary
    BY <1>0, <1>3 DEF DoWriteLists, OwnSteps
  <2>2. UNCHANGED <<activities, gone, owed, dropped, currentActivity, disk>>
        /\ cfg'.current = cfg.current
    BY <1>3 DEF DoWriteLists, TypeOK, Config
  <2>3. QED BY <1>a, <2>1, <2>2, NothingIsHarmless
<1>4. ASSUME NEW t \in Thread, DoSnapshot(t) \/ DoPublish(t) PROVE Goal
  <2>1. PICK name \in Ordinary : At(t, name) /\ Then(t, <<>>)
    BY <1>0, <1>4 DEF DoSnapshot, DoPublish, OwnSteps
  <2>2. UNCHANGED <<activities, gone, owed, dropped, currentActivity, disk, cfg>>
    BY <1>4 DEF DoSnapshot, DoPublish
  <2>3. QED BY <1>a, <2>1, <2>2, NothingIsHarmless
<1>5. ASSUME NEW t \in Thread, DoStart(t) \/ DoStop(t) PROVE Goal
  <2> DEFINE a == Act(t)
  <2>1. a \in Activity
    BY <1>5, StepAtHand DEF DoStart, DoStop, IdSteps
  <2>2. PICK c \in BOOLEAN, s \in State :
          Then(t, Optional(c, <<SetState(a, s), StepOn("session", a)>>))
    <3>1. (activities[a] = "Stopped") \in BOOLEAN /\ MayStop(a) \in BOOLEAN
      BY DEF MayStop
    <3>2. QED BY <1>5, <3>1 DEF DoStart, DoStop, State, Transitional
  <2> DEFINE both == <<SetState(a, s), StepOn("session", a)>>
             steps == Optional(c, both)
  <2>3. /\ steps \in Seq(Todo)
        /\ Range(steps) \subseteq {SetState(a, s), StepOn("session", a)}
    BY <2>1, SessionSteps
  <2>4. Followed(both)
    <3>1. Len(both) = 2 /\ both[1] = SetState(a, s) /\ both[2] = StepOn("session", a)
      OBVIOUS
    <3> HIDE DEF both
    <3>2. QED BY <3>1 DEF Followed, SetState, StepOn
  <2>5. Followed(steps)
    <3>1. CASE c
      BY <2>4, <3>1 DEF Optional
    <3>2. CASE ~c
      <4>1. steps = <<>>
        BY <3>2 DEF Optional
      <4>2. QED BY <4>1, NothingIsHarmless DEF Harmless
    <3>3. QED BY <3>1, <3>2
  <2> HIDE DEF steps
  <2>6. Harmless(steps)
    BY <2>3, <2>5 DEF Harmless, Nobody, SetState, StepOn
  <2>7. PICK name \in Ordinary : At(t, name)
    BY <1>0, <1>5 DEF DoStart, DoStop
  <2>8. UNCHANGED <<activities, gone, owed, dropped, currentActivity, disk, cfg>>
    BY <1>5 DEF DoStart, DoStop
  <2>9. Then(t, steps)
    BY <2>2 DEF steps
  <2>10. QED BY <1>a, <2>3, <2>6, <2>7, <2>8, <2>9
<1>6. ASSUME NEW t \in Thread, DoSession(t) PROVE Goal
  BY <1>6, SessionUnderWay DEF Goal
<1>7. ASSUME NEW t \in Thread, DoSetCurrent(t) PROVE Goal
  BY <1>7, SetCurrentUnderWay DEF Goal
<1>8. ASSUME NEW t \in Thread, DoAssign(t) \/ DoSave(t) PROVE Goal
  <2>1. CASE DoAssign(t)
    BY <2>1, AssignUnderWay DEF Goal
  <2>2. CASE DoSave(t)
    <3>1. At(t, "save") /\ Then(t, <<>>) /\ "save" \in Ordinary
      BY <1>0, <2>2 DEF DoSave
    <3>2. Head(todo[t]) \in Steps(t) /\ Head(todo[t]).step = "save"
      BY <3>1, NoSteps, ThenSteps, StepAtHand
    <3>3. Act(t) \in AddedOnce
      BY <3>2 DEF UnderWay, CurrentWasAdded, Act
    <3>4. UNCHANGED <<activities, gone, owed, dropped, currentActivity, disk>>
          /\ cfg'.current = Act(t)
      BY <2>2 DEF DoSave, TypeOK, Config
    <3>5. QED BY <1>a, <3>1, <3>3, <3>4, NothingIsHarmless
  <2>3. QED BY <1>8, <2>1, <2>2
<1>9. ASSUME NEW t \in Thread, DoEnsure(t) PROVE Goal
  <2>1. At(t, "ensure") /\ "ensure" \in Ordinary
    BY <1>0, <1>9 DEF DoEnsure, OwnSteps
  <2>2. UNCHANGED <<activities, gone, owed, dropped, currentActivity, disk, cfg>>
    BY <1>9 DEF DoEnsure
  <2>3. PICK steps \in Seq(Todo) : Then(t, steps) /\ Harmless(steps)
    <3>1. \A a \in sorted : a \in Activity
      BY DEF TypeOK
    <3>2. QED BY <1>9, <1>c, <3>1, NothingIsHarmless DEF DoEnsure
  <2>4. QED BY <1>a, <2>1, <2>2, <2>3
<1>10. ASSUME NEW t \in Thread, DoSetName(t) \/ DoWriteName(t) PROVE Goal
  <2> DEFINE a == Act(t)
             named == <<StepOn("writeName", a)>>
  <2>1. a \in Activity
    BY <1>10, StepAtHand DEF DoSetName, DoWriteName, IdSteps
  <2>2. PICK name \in Ordinary : At(t, name)
    BY <1>0, <1>10 DEF DoSetName, DoWriteName
  <2>3. PICK steps \in Seq(Todo) : Then(t, steps) /\ Harmless(steps)
    <3>1. named \in Seq(Todo) /\ Harmless(named)
      BY <1>c, <2>1
    <3> HIDE DEF named
    <3>2. Then(t, <<>>) \/ Then(t, named)
      BY <1>10 DEF DoSetName, DoWriteName, Optional, named
    <3>3. QED BY <3>1, <3>2, NothingIsHarmless
  <2>4. UNCHANGED <<activities, gone, owed, dropped, currentActivity, disk>>
        /\ cfg'.current = cfg.current
    BY <1>10 DEF DoSetName, DoWriteName, TypeOK, Config
  <2>5. QED BY <1>a, <2>2, <2>3, <2>4
<1>11. ASSUME NEW t \in Thread, DoErase(t) PROVE Goal
  BY <1>11, EraseUnderWay DEF Goal
<1>12. ASSUME NEW t \in Thread, DoDropEntries(t) PROVE Goal
  <2>1. At(t, "dropEntries") /\ Then(t, <<>>) /\ "dropEntries" \in Ordinary
    BY <1>0, <1>12 DEF DoDropEntries
  <2>2. UNCHANGED <<activities, gone, owed, dropped, currentActivity, disk>>
        /\ cfg'.current = cfg.current
    BY <1>12 DEF DoDropEntries, TypeOK, Config
  <2>3. QED BY <1>a, <2>1, <2>2, NothingIsHarmless
<1>13. ASSUME DoStartThread PROVE Goal
  <2>1. At(Main, "startThread") /\ Then(Main, <<>>) /\ "startThread" \in Ordinary
    BY <1>0, <1>13 DEF DoStartThread, OwnSteps
  <2>2. UNCHANGED <<activities, gone, owed, dropped, currentActivity, disk, cfg>>
    BY <1>13 DEF DoStartThread
  <2>3. QED BY <1>0, <1>a, <2>1, <2>2, NothingIsHarmless
<1>14. ASSUME NEW a \in Activity,
              NEW name \in {"start", "stop", "setName", "setCurrent"},
              Call(<<StepOn(name, a)>>)
       PROVE  Goal
  <2>1. Begin(DBus, <<StepOn(name, a)>>)
        /\ UNCHANGED <<activities, gone, owed, dropped, currentActivity, disk, cfg>>
    BY <1>14 DEF Call, Called
  <2>2. QED BY <1>0, <1>a, <1>c, <2>1
<1>15. ASSUME NEW a \in Activity, RemoveActivity(a) PROVE Goal
  BY <1>15, RemoveUnderWay DEF Goal
<1>16. ASSUME NEW t \in Thread, AddActivity(t) PROVE Goal
  <2>1. PICK a \in Activity : NewId(a) /\ Called(t, AddSteps(a))
    BY <1>16 DEF AddActivity
  <2>2. UNCHANGED <<gone, owed, dropped, currentActivity, stored>>
    BY <1>16 DEF AddActivity
  <2>3. QED BY <1>b, <2>1, <2>2 DEF Called
<1>17. ASSUME NEW a \in Activity, NEW e \in Event, SessionStateChanged(a, e)
       PROVE  Goal
  BY <1>17, OutcomeUnderWay DEF Goal
<1>18. ASSUME NEW a \in Activity, Forget(a) PROVE Goal
  <2>1. /\ UNCHANGED <<activities, gone, currentActivity, cfg, disk, todo, up>>
        /\ restarts' = restarts
        /\ a \in dropped' /\ dropped \subseteq dropped'
        /\ \A b \in Activity \ {a} : owed'[b] = owed[b]
    BY <1>18 DEF Forget, Drop, TypeOK
  <2>2. TransitionIsOwed'
    BY <2>1 DEF UnderWay, TransitionIsOwed, Steps
  <2>3. UnderWay'
    BY <2>1, <2>2 DEF UnderWay, NobodyIsFirst, LastIsSpared, SessionFollows,
                      CurrentWasAdded, CurrentIsComing, AddedOnce, Steps
  <2>4. QED BY <2>1, <2>3 DEF Goal, Spared
<1>19. ASSUME ConfigSync PROVE Goal
  <2>1. disk' \in {cfg, disk}
        /\ UNCHANGED <<activities, gone, owed, dropped, currentActivity, cfg, todo, up>>
    BY <1>19 DEF ConfigSync
  <2>2. UnderWay'
    BY <2>1 DEF UnderWay, NobodyIsFirst, LastIsSpared, SessionFollows, CurrentWasAdded,
                CurrentIsComing, TransitionIsOwed, AddedOnce, Steps
  <2>3. QED BY <2>1, <2>2 DEF Goal, Spared
<1>20. ASSUME NEW c \in {cfg, disk}, Restart(c) PROVE Goal
  BY <1>20, RestartUnderWay DEF Goal
<1>21. ASSUME UNCHANGED vars PROVE Goal
  <2>1. UnderWay'
    BY <1>21 DEF vars, UnderWay, NobodyIsFirst, LastIsSpared, SessionFollows,
                 CurrentWasAdded, CurrentIsComing, TransitionIsOwed, AddedOnce, Steps
  <2>2. QED BY <1>21, <2>1 DEF Goal, Spared, vars
<1>22. Goal
  BY <1>1, <1>2, <1>3, <1>4, <1>5, <1>6, <1>7, <1>8, <1>9, <1>10, <1>11, <1>12,
     <1>13, <1>14, <1>15, <1>16, <1>17, <1>18, <1>19, <1>20, <1>21,
     NextCases
<1>23. QED BY <1>22 DEF Goal

LEMMA AlwaysUnderWay == Spec => []UnderWay
BY TypeCorrect, AlwaysKept, InitUnderWay, NextUnderWay, PTL DEF Spec

(* Whatever the two threads do, an activity is only left starting or         *)
(* stopping by the session manager, which drops or forgets the request of    *)
(* that transition: else an outcome may still come, or a thread is about to  *)
(* ask for one or to set another state (Activities.cpp:658-659, 675-676,     *)
(* 463-476; KSMServer.cpp:68-88).                                            *)
THEOREM TransitionsAreOwed == Spec => []TransitionIsOwed
<1>1. UnderWay => TransitionIsOwed
  BY DEF UnderWay
<1>2. QED BY <1>1, AlwaysUnderWay, PTL

(* Activities without a current one, and nobody about to choose one, there   *)
(* are only after an activity was removed or lost (Activities.cpp:174-186,   *)
(* 282, 295-297).                                                            *)
THEOREM LimboOnlyAfterLoss == Spec => []LimboNeedsLoss
<1>1. UnderWay => LimboNeedsLoss
  <2>1. Quiet => \A t \in Thread : Steps(t) = {}
    BY NoSteps DEF Quiet, Idle, Steps
  <2>2. QED BY <2>1 DEF UnderWay, CurrentIsComing, LimboNeedsLoss
<1>2. QED BY <1>1, AlwaysUnderWay, PTL

(* No step of either thread leaves a running program without a current       *)
(* activity once there is one: the only step that sets none is the first,    *)
(* when none is recorded (Activities.cpp:174-186, 529).                      *)
THEOREM NeverInLimbo == Spec => NoLimbo
<1>1. Spared => (restarts' = restarts /\ currentActivity # NoActivity
                   => currentActivity' # NoActivity)
  BY DEF Spared
<1>2. QED
  BY <1>1, TypeCorrect, AlwaysKept, AlwaysUnderWay, NextUnderWay, PTL DEF Spec, NoLimbo

(* The last activity is not removed: between the check and the removal, on   *)
(* the same thread, the other thread can only add (Activities.cpp:314-331).  *)
THEOREM LastStays == Spec => NeverEmptied
<1>1. Spared => (restarts' = restarts /\ Ids(activities) # {} => Ids(activities') # {})
  BY DEF Spared, Ids
<1>2. QED
  BY <1>1, TypeCorrect, AlwaysKept, AlwaysUnderWay, NextUnderWay, PTL
     DEF Spec, NeverEmptied

-----------------------------------------------------------------------------
(* ConfigSync, for any threads.                                              *)

(* Appending and taking, element by element.                                 *)
LEMMA Appended ==
    ASSUME NEW s \in Seq(Posted), NEW e \in Posted
    PROVE  /\ Append(s, e) \in Seq(Posted)
           /\ Len(Append(s, e)) = Len(s) + 1
           /\ \A i \in 1..Len(s) : Append(s, e)[i] = s[i]
           /\ Append(s, e)[Len(s) + 1] = e
BY AppendProperties

LEMMA Taken ==
    ASSUME NEW s \in Seq(Posted), s # <<>>
    PROVE  /\ Head(s) \in Posted
           /\ Head(s) = s[1]
           /\ Tail(s) \in Seq(Posted)
           /\ Len(s) \in Nat \ {0}
           /\ Len(Tail(s)) = Len(s) - 1
           /\ \A i \in 1..Len(Tail(s)) : Tail(s)[i] = s[i + 1]
BY HeadTailProperties, EmptySeq, LenProperties

(* The timer, the posted events and the threads keep to their types.         *)
THEOREM SyncTypeCorrect == SyncSpec => []SyncTypeOK
<1>1. SyncInit => SyncTypeOK
  <2>1. <<>> \in Seq(Posted)
    BY EmptySeq
  <2>2. QED BY <2>1 DEF SyncInit, SyncTypeOK
<1>2. SyncTypeOK /\ [SyncNext]_syncVars => SyncTypeOK'
  <2> SUFFICES ASSUME SyncTypeOK, [SyncNext]_syncVars PROVE SyncTypeOK'
    OBVIOUS
  <2> USE DEF SyncTypeOK, Goto, Post
  <2>1. ASSUME NEW t \in Writer, WriteEntry(t) PROVE SyncTypeOK'
    BY <2>1 DEF WriteEntry
  <2>2. ASSUME NEW t \in Writer, DeleteEntries(t) PROVE SyncTypeOK'
    BY <2>2 DEF DeleteEntries
  <2>3. ASSUME NEW t \in Writer, ScheduleConfigSync(t) PROVE SyncTypeOK'
    <3>1. (missed \/ (active /\ StopIsPosted)) \in BOOLEAN
      OBVIOUS
    <3>2. missed' \in BOOLEAN
      BY <2>3, <3>1 DEF ScheduleConfigSync
    <3>3. QED BY <2>3, <3>2 DEF ScheduleConfigSync
  <2>4. ASSUME NEW t \in Writer, PostStart(t) PROVE SyncTypeOK'
    BY <2>4, Appended DEF PostStart, Posted
  <2>5. ASSUME NEW t \in Writer, PostSync(t) PROVE SyncTypeOK'
    BY <2>5, Appended DEF PostSync, Posted
  <2>6. CASE TimerStarts
    BY <2>6, Taken DEF TimerStarts, Take
  <2>7. CASE TimerStops
    BY <2>7, Taken DEF TimerStops, Take
  <2>8. CASE PostStop
    <3>1. posted' \in Seq(Posted)
      BY <2>8, Taken, Appended DEF PostStop, Take, Posted
    <3>2. QED BY <2>8, <3>1, OwnerAssumption DEF PostStop, Take
  <2>9. CASE Timeout
    BY <2>9, Appended DEF Timeout, Posted
  <2>10. CASE WriteFile
    BY <2>10 DEF WriteFile
  <2>11. CASE ProgramEnds
    BY <2>11, Appended DEF ProgramEnds, Posted
  <2>12. CASE UNCHANGED syncVars
    BY <2>12 DEF syncVars
  <2>13. QED
    BY <2>1, <2>2, <2>3, <2>4, <2>5, <2>6, <2>7, <2>8, <2>9, <2>10, <2>11,
       <2>12 DEF SyncNext, Change, Inside, Deliver
<1>3. QED BY <1>1, <1>2, PTL DEF SyncSpec

-----------------------------------------------------------------------------
(* What a change that was not missed still has ahead of it.                  *)

SomeoneInside == \E t \in Writer : pc[t] # "idle"

SyncAhead == \E i \in 1..Len(posted) : posted[i] = "sync"

StopAhead(n) == \E i \in n..Len(posted) : posted[i] = "stop"

(* The last start of the timer has no stop behind it.                        *)
StartAhead == \E n \in 1..Len(posted) : posted[n] = "start" /\ ~StopAhead(n)

Hope == \/ SomeoneInside
        \/ SyncAhead
        \/ StartAhead
        \/ active /\ ~StopAhead(1)

Remembered == dirty /\ ~missed => Hope

LEMMA StopAheadIsStopIsPosted ==
    ASSUME SyncTypeOK PROVE StopAhead(1) <=> StopIsPosted
BY DEF SyncTypeOK, StopAhead, StopIsPosted, Range

LEMMA RememberedStep == SyncTypeOK /\ Remembered /\ [SyncNext]_syncVars => Remembered'
<1> SUFFICES ASSUME SyncTypeOK, Remembered, [SyncNext]_syncVars, dirty', ~missed'
             PROVE  Hope'
  BY DEF Remembered
<1>0. Len(posted) \in Nat /\ posted \in Seq(Posted)
  BY DEF SyncTypeOK
<1>1. ASSUME NEW t \in Writer, \E p \in {"schedule", "sync", "write"} :
               pc' = [pc EXCEPT ![t] = p]
      PROVE  Hope'
  <2>1. pc'[t] # "idle"
    BY <1>1 DEF SyncTypeOK
  <2>2. QED BY <2>1 DEF Hope, SomeoneInside
<1>2. ASSUME NEW t \in Writer, WriteEntry(t) PROVE Hope'
  BY <1>1, <1>2 DEF WriteEntry, Goto
<1>3. ASSUME NEW t \in Writer, DeleteEntries(t) PROVE Hope'
  BY <1>1, <1>3 DEF DeleteEntries, Goto
<1>4. ASSUME NEW t \in Writer, ScheduleConfigSync(t) PROVE Hope'
  <2>1. CASE active
    <3>1. ~StopIsPosted
      BY <1>4, <2>1 DEF ScheduleConfigSync
    <3>2. active' /\ posted' = posted
      BY <1>4, <2>1 DEF ScheduleConfigSync
    <3>3. ~StopAhead(1)
      BY <3>1, StopAheadIsStopIsPosted
    <3>4. QED BY <3>2, <3>3 DEF Hope, StopAhead
  <2>2. CASE ~active
    <3>1. pc'[t] # "idle"
      BY <1>4, <2>2 DEF ScheduleConfigSync, Goto, SyncTypeOK
    <3>2. QED BY <3>1 DEF Hope, SomeoneInside
  <2>3. QED BY <2>1, <2>2
<1>5. ASSUME NEW t \in Writer, PostStart(t) PROVE Hope'
  <2>1. posted' = Append(posted, "start") /\ "start" \in Posted
    BY <1>5 DEF PostStart, Post, Posted
  <2>2. Len(posted') = Len(posted) + 1 /\ posted'[Len(posted) + 1] = "start"
    BY <1>0, <2>1, Appended
  <2>3. StartAhead'
    BY <1>0, <2>2 DEF StartAhead, StopAhead
  <2>4. QED BY <2>3 DEF Hope
<1>6. ASSUME posted' = Append(posted, "sync") PROVE Hope'
  <2>1. "sync" \in Posted
    BY DEF Posted
  <2>2. Len(posted') = Len(posted) + 1 /\ posted'[Len(posted) + 1] = "sync"
    BY <1>0, <1>6, <2>1, Appended
  <2>3. SyncAhead'
    BY <1>0, <2>2 DEF SyncAhead
  <2>4. QED BY <2>3 DEF Hope
<1>7. ASSUME NEW e \in {"start", "stop"}, Take(e), posted' = Tail(posted),
             UNCHANGED <<dirty, pc, missed>>, active' = (e = "start")
      PROVE  Hope'
  <2>1. Hope
    BY <1>7 DEF Remembered
  <2>2. /\ posted[1] = e
        /\ Len(posted) \in Nat \ {0}
        /\ Len(posted') = Len(posted) - 1
        /\ \A i \in 1..Len(posted') : posted'[i] = posted[i + 1]
    BY <1>0, <1>7, Taken DEF Take
  <2>3. CASE SomeoneInside
    BY <1>7, <2>3 DEF Hope, SomeoneInside
  <2>4. CASE SyncAhead
    <3>1. PICK i \in 1..Len(posted) : posted[i] = "sync"
      BY <2>4 DEF SyncAhead
    <3>2. i - 1 \in 1..Len(posted') /\ posted'[i - 1] = "sync"
      BY <1>7, <2>2, <3>1
    <3>3. QED BY <3>2 DEF Hope, SyncAhead
  <2>5. CASE StartAhead
    <3>1. PICK n \in 1..Len(posted) : posted[n] = "start" /\ ~StopAhead(n)
      BY <2>5 DEF StartAhead
    <3>2. \A i \in n..Len(posted) : posted[i] # "stop"
      BY <3>1 DEF StopAhead
    <3>3. CASE n = 1
      <4>1. active'
        BY <1>7, <2>2, <3>1, <3>3
      <4>2. \A i \in 1..Len(posted') : posted'[i] # "stop"
        BY <2>2, <3>2, <3>3
      <4>3. QED BY <4>1, <4>2 DEF Hope, StopAhead
    <3>4. CASE n # 1
      <4>1. n - 1 \in 1..Len(posted') /\ posted'[n - 1] = "start"
        BY <2>2, <3>1, <3>4
      <4>2. \A i \in (n - 1)..Len(posted') : posted'[i] # "stop"
        BY <2>2, <3>2, <3>4
      <4>3. QED BY <4>1, <4>2 DEF Hope, StartAhead, StopAhead
    <3>5. QED BY <3>3, <3>4
  <2>6. CASE active /\ ~StopAhead(1)
    <3>1. \A i \in 1..Len(posted) : posted[i] # "stop"
      BY <2>6 DEF StopAhead
    <3>2. e = "start"
      BY <1>7, <2>2, <3>1
    <3>3. \A i \in 1..Len(posted') : posted'[i] # "stop"
      BY <2>2, <3>1
    <3>4. QED BY <1>7, <3>2, <3>3 DEF Hope, StopAhead
  <2>7. QED BY <2>1, <2>3, <2>4, <2>5, <2>6 DEF Hope
<1>8. CASE TimerStarts
  BY <1>7, <1>8 DEF TimerStarts
<1>9. CASE TimerStops
  BY <1>7, <1>9 DEF TimerStops
<1>10. CASE PostStop
  BY <1>1, <1>10, OwnerAssumption DEF PostStop
<1>11. CASE UNCHANGED syncVars
  BY <1>11 DEF syncVars, Remembered, Hope, SomeoneInside, SyncAhead, StartAhead,
               StopAhead
<1>12. QED
  BY <1>2, <1>3, <1>4, <1>5, <1>6, <1>8, <1>9, <1>10, <1>11
     DEF SyncNext, Change, Inside, Deliver, PostSync, Timeout, WriteFile,
         ProgramEnds, Post

(* A change that is not in the file, with everything quiet and the timer off,*)
(* was made between a sync and the stop of the timer that the sync posted:   *)
(* no other order of changes, timer and syncs forgets one, on any number of  *)
(* threads (Activities.cpp:360-385).                                         *)
THEOREM OnlyMissedIsForgotten == SyncSpec => []ForgottenOnlyIfMissed
<1>1. SyncInit => Remembered
  BY DEF SyncInit, Remembered
<1>2. SyncTypeOK /\ Remembered => ForgottenOnlyIfMissed
  <2> SUFFICES ASSUME SyncTypeOK, Remembered, Settled, dirty PROVE missed
    BY DEF ForgottenOnlyIfMissed
  <2>1. Len(posted) = 0 /\ ~SomeoneInside /\ ~active
    BY EmptySeq DEF Settled, SomeoneInside
  <2>2. ~Hope
    BY <2>1 DEF Hope, SyncAhead, StartAhead
  <2>3. QED BY <2>2 DEF Remembered
<1>3. QED
  BY <1>1, <1>2, RememberedStep, SyncTypeCorrect, PTL DEF SyncSpec
=============================================================================
