------------------------------ MODULE SlcProofs -----------------------------
(* Proofs about Resources, and about Slc on top of it, for any programs,     *)
(* resources, windows and events.                                            *)
EXTENDS Slc, SequenceTheorems, FiniteSetTheorems, WellFoundedInduction, TLAPS

-----------------------------------------------------------------------------
(* The steps in todo.                                                        *)

LEMMA StepsAreTyped ==
    /\ \A e \in Event : Add(e) \in Todo /\ Insert(e) \in Todo
    /\ Start \in Todo
    /\ \A w \in Wid : RemoveWindow(w) \in Todo
BY DEF Todo, Add, Insert, Start, RemoveWindow

LEMMA DerivedIsEvent ==
    ASSUME NEW e \in Event, NEW type \in Type
    PROVE  DeriveWithType(e, type) \in Event
BY DEF Event, DeriveWithType

LEMMA FewSteps ==
    ASSUME NEW a \in Todo, NEW b \in Todo, NEW c \in Todo
    PROVE  <<a>> \in Seq(Todo) /\ <<a, b>> \in Seq(Todo) /\ <<a, b, c>> \in Seq(Todo)
OBVIOUS

LEMMA Joined ==
    ASSUME NEW a \in Todo, NEW b \in Todo, NEW c \in Todo
    PROVE  /\ <<>> \o <<a>> = <<a>>
           /\ <<a>> \o <<>> = <<a>>
           /\ <<a>> \o <<b>> = <<a, b>>
           /\ <<a, b>> \o <<c>> = <<a, b, c>>
<1>1. <<>> \in Seq(Todo) /\ <<a>> \in Seq(Todo) /\ <<b>> \in Seq(Todo)
        /\ <<a, b>> \in Seq(Todo) /\ <<c>> \in Seq(Todo)
        /\ <<a, b, c>> \in Seq(Todo)
  OBVIOUS
<1>2. <<>> \o <<a>> = <<a>> /\ <<a>> \o <<>> = <<a>>
  BY <1>1, ConcatEmptySeq
<1>3. <<a>> \o <<b>> = <<a, b>>
  <2>1. /\ <<a>> \o <<b>> \in Seq(Todo)
        /\ Len(<<a>> \o <<b>>) = 2
        /\ \A i \in 1..2 : (<<a>> \o <<b>>)[i] = <<a, b>>[i]
    BY <1>1, ConcatProperties
  <2>2. QED BY <1>1, <2>1, SeqEqual
<1>4. <<a, b>> \o <<c>> = <<a, b, c>>
  <2>1. /\ <<a, b>> \o <<c>> \in Seq(Todo)
        /\ Len(<<a, b>> \o <<c>>) = 3
        /\ \A i \in 1..3 : (<<a, b>> \o <<c>>)[i] = <<a, b, c>>[i]
    BY <1>1, ConcatProperties
  <2>2. QED BY <1>1, <2>1, SeqEqual
<1>5. QED BY <1>2, <1>3, <1>4

(* A step is done and nothing takes its place.                               *)
LEMMA Popped ==
    ASSUME todo \in Seq(Todo), todo # <<>>, Then(<<>>)
    PROVE  /\ todo' \in Seq(Todo)
           /\ Len(todo) \in Nat \ {0}
           /\ Len(todo') = Len(todo) - 1
           /\ \A i \in 1..Len(todo') : todo'[i] = todo[i + 1]
           /\ Head(todo) = todo[1]
           /\ Head(todo) \in Todo
           /\ todo' # todo
<1>1. Tail(todo) \in Seq(Todo) /\ Head(todo) \in Todo
  BY HeadTailProperties
<1>2. todo' = Tail(todo)
  BY <1>1, ConcatEmptySeq DEF Then
<1>3. Len(todo) \in Nat \ {0}
  BY EmptySeq
<1>4. Len(todo') = Len(todo) - 1 /\ \A i \in 1..Len(todo') : todo'[i] = todo[i + 1]
  BY <1>2, HeadTailProperties
<1>5. todo' # todo
  BY <1>3, <1>4
<1>6. Head(todo) = todo[1]
  BY HeadTailProperties
<1>7. QED BY <1>1, <1>2, <1>3, <1>4, <1>5, <1>6

-----------------------------------------------------------------------------
(* What Thinned leaves of the queue.                                         *)

(* A set of numbers with a member has a smallest one, and a largest one if   *)
(* it is bounded.                                                            *)
LEMMA Smallest ==
    ASSUME NEW S \in SUBSET Nat, S # {}
    PROVE  \E n \in S : \A m \in S : n <= m
<1>1. PICK n \in S : \A m \in S : ~ (<<m, n>> \in OpToRel(<, Nat))
  BY NatLessThanWellFounded, WFMin
<1>2. \A m \in S : ~ (m < n)
  BY <1>1 DEF OpToRel
<1>3. QED BY <1>2

Bounded(S) == \E k \in Nat : S \in SUBSET (1..k)

LEMMA BoundedSets ==
    ASSUME NEW S, Bounded(S)
    PROVE  /\ S \in SUBSET Nat
           /\ \A T \in SUBSET S : Bounded(T)
           /\ IsFiniteSet(S)
           /\ Cardinality(S) \in Nat
<1>1. PICK k \in Nat : S \in SUBSET (1..k)
  BY DEF Bounded
<1>2. k \in Int /\ 1 \in Int
  OBVIOUS
<1>3. IsFiniteSet(1..k)
  BY <1>2, FS_Interval
<1>4. IsFiniteSet(S)
  BY <1>1, <1>3, FS_Subset
<1>5. Cardinality(S) \in Nat
  BY <1>4, FS_CardinalityType
<1>6. S \in SUBSET Nat
  BY <1>1
<1>7. \A T \in SUBSET S : Bounded(T)
  BY <1>1 DEF Bounded
<1>8. QED BY <1>4, <1>5, <1>6, <1>7

LEMMA Largest ==
    ASSUME NEW S, Bounded(S), S # {}
    PROVE  \E m \in S : \A i \in S : i <= m
<1>0. PICK k \in Nat : S \in SUBSET (1..k)
  BY DEF Bounded
<1> DEFINE D == {n \in Nat : \E i \in S : n = k - i}
<1>1. D # {}
  <2>1. PICK i \in S : TRUE
    OBVIOUS
  <2>2. k - i \in D
    BY <1>0, <2>1
  <2>3. QED BY <2>2
<1>2. PICK n \in D : \A d \in D : n <= d
  BY <1>1, Smallest
<1>3. PICK m \in S : n = k - m
  BY <1>2
<1>4. ASSUME NEW i \in S PROVE i <= m
  <2>1. k - i \in D
    BY <1>0
  <2>2. n <= k - i
    BY <1>2, <2>1
  <2>3. QED BY <1>0, <1>3, <2>2
<1>5. QED BY <1>4

Below(S, i) == {j \in S : j <= i}

LEMMA BelowIsCounted ==
    ASSUME NEW S, Bounded(S), NEW i \in S
    PROVE  /\ IsFiniteSet(S)
           /\ Cardinality(S) \in Nat
           /\ IsFiniteSet(Below(S, i))
           /\ Cardinality(Below(S, i)) \in 1..Cardinality(S)
<1>1. IsFiniteSet(S)
  BY BoundedSets
<1>2. Below(S, i) \in SUBSET S /\ i \in Below(S, i)
  BY BoundedSets DEF Below
<1>3. IsFiniteSet(Below(S, i)) /\ Cardinality(Below(S, i)) <= Cardinality(S)
  BY <1>1, <1>2, FS_Subset
<1>4. Cardinality(S) \in Nat /\ Cardinality(Below(S, i)) \in Nat
  BY <1>1, <1>3, FS_CardinalityType
<1>5. Cardinality(Below(S, i)) # 0
  BY <1>2, <1>3, FS_EmptySet
<1>6. QED BY <1>1, <1>3, <1>4, <1>5

LEMMA BelowGrows ==
    ASSUME NEW S, Bounded(S), NEW i \in S, NEW j \in S, i < j
    PROVE  Cardinality(Below(S, i)) < Cardinality(Below(S, j))
<1>1. Below(S, i) \in SUBSET Below(S, j) /\ Below(S, i) # Below(S, j)
  BY BoundedSets DEF Below
<1>2. /\ IsFiniteSet(Below(S, j))
      /\ Cardinality(Below(S, i)) \in Nat
      /\ Cardinality(Below(S, j)) \in Nat
  BY BelowIsCounted
<1>3. /\ Cardinality(Below(S, i)) <= Cardinality(Below(S, j))
      /\ Cardinality(Below(S, i)) # Cardinality(Below(S, j))
  BY <1>1, <1>2, FS_Subset
<1>4. QED BY <1>2, <1>3

LEMMA HasNth ==
    ASSUME NEW S, Bounded(S), NEW n \in 1..Cardinality(S)
    PROVE  \E i \in S : Cardinality(Below(S, i)) = n
<1> DEFINE T == {i \in S : Cardinality(Below(S, i)) >= n}
<1>1. IsFiniteSet(S) /\ Cardinality(S) \in Nat
  BY BoundedSets
<1>2. S # {}
  BY <1>1, FS_EmptySet
<1>3. PICK m \in S : \A i \in S : i <= m
  BY <1>2, Largest
<1>4. Below(S, m) = S
  BY <1>3 DEF Below
<1>5. m \in T
  BY <1>1, <1>4
<1>6. T \in SUBSET Nat /\ T # {}
  BY <1>5, BoundedSets
<1>7. PICK i \in T : \A j \in T : i <= j
  <2> HIDE DEF T
  <2>1. QED BY <1>6, Smallest
<1> DEFINE P == Below(S, i) \ {i}
<1>8. IsFiniteSet(Below(S, i)) /\ i \in Below(S, i) /\ Cardinality(Below(S, i)) \in Nat
  BY BelowIsCounted, BoundedSets DEF Below
<1>9. IsFiniteSet(P) /\ Cardinality(P) = Cardinality(Below(S, i)) - 1
  BY <1>8, FS_RemoveElement
<1>10. ASSUME Cardinality(P) >= n PROVE FALSE
  <2>1. P # {}
    BY <1>8, <1>9, <1>10, FS_EmptySet
  <2>2. Bounded(P)
    BY BoundedSets DEF Below
  <2>3. PICK p \in P : \A j \in P : j <= p
    <3> HIDE DEF P
    <3>1. QED BY <2>1, <2>2, Largest
  <2>4. p \in S /\ p < i
    BY <2>3, BoundedSets DEF Below
  <2>5. Below(S, p) = P
    BY <2>3, <2>4, BoundedSets DEF Below
  <2>6. p \in T
    BY <1>10, <2>4, <2>5
  <2>7. i <= p /\ i \in Nat /\ p \in Nat
    BY <1>6, <1>7, <2>6
  <2>8. QED BY <2>4, <2>7
<1>11. Cardinality(Below(S, i)) = n
  BY <1>7, <1>8, <1>9, <1>10
<1>12. QED BY <1>11

(* Nth counts the places of S in their order, and leaves none out.           *)
LEMMA NthPlace ==
    ASSUME NEW S, Bounded(S)
    PROVE  /\ \A n \in 1..Cardinality(S) :
                Nth(S, n) \in S /\ Cardinality(Below(S, Nth(S, n))) = n
           /\ \A m, n \in 1..Cardinality(S) : m < n => Nth(S, m) < Nth(S, n)
           /\ \A i \in S : \E n \in 1..Cardinality(S) : Nth(S, n) = i
<1>1. ASSUME NEW n \in 1..Cardinality(S)
      PROVE  Nth(S, n) \in S /\ Cardinality(Below(S, Nth(S, n))) = n
  BY HasNth DEF Nth, Below
<1>2. ASSUME NEW i \in S, NEW j \in S, Cardinality(Below(S, i)) < Cardinality(Below(S, j))
      PROVE  i < j
  <2>1. CASE j < i
    <3>1. Cardinality(Below(S, j)) < Cardinality(Below(S, i))
      BY <2>1, BelowGrows
    <3>2. Cardinality(Below(S, i)) \in Nat /\ Cardinality(Below(S, j)) \in Nat
      BY BelowIsCounted
    <3>3. QED BY <1>2, <3>1, <3>2
  <2>2. CASE i = j
    <3>1. Cardinality(Below(S, i)) \in Nat
      BY BelowIsCounted
    <3>2. QED BY <1>2, <2>2, <3>1
  <2>3. i \in Nat /\ j \in Nat
    BY BoundedSets
  <2>4. QED BY <2>1, <2>2, <2>3
<1>3. ASSUME NEW m \in 1..Cardinality(S), NEW n \in 1..Cardinality(S), m < n
      PROVE  Nth(S, m) < Nth(S, n)
  BY <1>1, <1>2, <1>3
<1>4. ASSUME NEW i \in S
      PROVE  \E n \in 1..Cardinality(S) : Nth(S, n) = i
  <2>1. Cardinality(Below(S, i)) \in 1..Cardinality(S)
    BY BelowIsCounted
  <2>2. PICK n \in 1..Cardinality(S) : n = Cardinality(Below(S, i))
    BY <2>1
  <2>3. Nth(S, n) \in S /\ Cardinality(Below(S, Nth(S, n))) = n
    BY <1>1
  <2>4. ~(Nth(S, n) < i) /\ ~(i < Nth(S, n))
    BY <2>2, <2>3, BelowGrows
  <2>5. i \in Nat /\ Nth(S, n) \in Nat
    BY <2>3, BoundedSets
  <2>6. Nth(S, n) = i
    BY <2>4, <2>5
  <2>7. QED BY <2>6
<1>5. QED BY <1>1, <1>3, <1>4

LEMMA ThinnedIsTyped ==
    ASSUME NEW s \in Seq(Event), NEW S \in SUBSET (1..Len(s))
    PROVE  /\ Thinned(s, S) \in Seq(Event)
           /\ Len(Thinned(s, S)) = Cardinality(S)
           /\ Cardinality(S) \in Nat
<1>0. Len(s) \in Nat
  OBVIOUS
<1>1. Bounded(S) /\ Cardinality(S) \in Nat
  BY <1>0, BoundedSets DEF Bounded
<1>2. ASSUME NEW n \in 1..Cardinality(S) PROVE s[Nth(S, n)] \in Event
  <2>1. Nth(S, n) \in S
    BY <1>1, NthPlace
  <2>2. Nth(S, n) \in 1..Len(s)
    BY <2>1
  <2>3. QED BY <2>2, ElementOfSeq
<1>3. Thinned(s, S) \in [1..Cardinality(S) -> Event]
  BY <1>2 DEF Thinned
<1>4. QED BY <1>1, <1>3

-----------------------------------------------------------------------------
(* Types.                                                                    *)

(* The event that the thread is about to add or to insert.                   *)
LEMMA HeadIsEvent ==
    ASSUME TypeOK, At("add") \/ At("insert")
    PROVE  /\ todo # <<>>
           /\ todo \in Seq(Todo)
           /\ Head(todo) = todo[1]
           /\ Len(todo) \in Nat \ {0}
           /\ Head(todo).event \in Event
<1>1. todo # <<>> /\ todo \in Seq(Todo)
  BY DEF TypeOK, At
<1>2. Head(todo) \in Todo /\ Head(todo) = todo[1] /\ Len(todo) \in Nat \ {0}
  BY <1>1, HeadTailProperties, EmptySeq
<1>3. Head(todo).event \in Event
  BY <1>2 DEF At, Todo
<1>4. QED BY <1>1, <1>2, <1>3

LEMMA ToldIsTyped ==
    ASSUME TypeOK, NEW e \in Event, Tell(e)
    PROVE  told' \in [Wid \cup {NoWid} -> Uri \cup {NoUri}] /\ left' \subseteq Wid
BY DEF TypeOK, Tell, Event, followers

LEMMA FocusIsTyped ==
    ASSUME TypeOK, NEW w
    PROVE  /\ FocussedIn(w) \in Uri \cup {NoUri}
           /\ FocussedIn(w) # NoUri => w \in DOMAIN windows /\ w \in Wid
           /\ w \notin DOMAIN windows => FocussedIn(w) = NoUri
BY DEF TypeOK, FocussedIn, WindowData

LEMMA FocussedIsTyped ==
    ASSUME NEW e \in Event, NEW u \in Uri \cup {NoUri}
    PROVE  Focussed(e, u) \in Uri \cup {NoUri}
BY DEF Focussed, Event

(* What the thread has to do once an event is added, with f in focus in the  *)
(* window of the event.                                                      *)
LEMMA CompletedForms ==
    ASSUME NEW e \in Event, NEW f
    PROVE  LET steps == Completed(e, f) \o <<Start>>
               as(type) == Insert(DeriveWithType(e, type))
           IN  /\ e.type = "Opened" /\ f = NoUri =>
                     steps = <<Insert(e), as("FocussedIn"), Start>>
               /\ e.type = "FocussedIn" =>
                     steps = <<as("Opened"), Insert(e), Start>>
               /\ e.type = "Closed" /\ f = e.uri =>
                     steps = <<as("FocussedOut"), Insert(e), Start>>
               /\ (\/ e.type = "Opened" /\ f # NoUri
                   \/ e.type = "Closed" /\ f # e.uri
                   \/ e.type \in {"Accessed", "Modified", "FocussedOut"}) =>
                     steps = <<Insert(e), Start>>
               /\ steps \in Seq(Todo)
<1> DEFINE as(type) == Insert(DeriveWithType(e, type))
           steps == Completed(e, f) \o <<Start>>
<1>1. as("FocussedIn") \in Todo /\ as("FocussedOut") \in Todo /\ as("Opened") \in Todo
  BY StepsAreTyped, DerivedIsEvent DEF Type, FocusType
<1>2. Insert(e) \in Todo /\ Start \in Todo
  BY StepsAreTyped
<1>3. e.type \in Type
  BY DEF Event
<1> HIDE DEF as
<1>4. ASSUME e.type = "Opened", f = NoUri
      PROVE  steps = <<Insert(e), as("FocussedIn"), Start>>
  <2>1. Completed(e, f) = <<Insert(e)>> \o <<as("FocussedIn")>>
    BY <1>4 DEF Completed, Optional, as
  <2>2. <<Insert(e)>> \o <<as("FocussedIn")>> = <<Insert(e), as("FocussedIn")>>
    BY <1>1, <1>2, Joined
  <2>3. <<Insert(e), as("FocussedIn")>> \o <<Start>> = <<Insert(e), as("FocussedIn"), Start>>
    BY <1>1, <1>2, Joined
  <2>4. QED BY <2>1, <2>2, <2>3
<1>5. ASSUME e.type = "FocussedIn"
      PROVE  steps = <<as("Opened"), Insert(e), Start>>
  <2>1. Completed(e, f) = <<as("Opened"), Insert(e)>>
    BY <1>5 DEF Completed, as
  <2>2. <<as("Opened")>> \o <<Insert(e)>> = <<as("Opened"), Insert(e)>>
    BY <1>1, <1>2, Joined
  <2>3. <<as("Opened"), Insert(e)>> \o <<Start>> = <<as("Opened"), Insert(e), Start>>
    BY <1>1, <1>2, Joined
  <2>4. QED BY <2>1, <2>2, <2>3
<1>6. ASSUME e.type = "Closed", f = e.uri
      PROVE  steps = <<as("FocussedOut"), Insert(e), Start>>
  <2>1. Completed(e, f) = <<as("FocussedOut")>> \o <<Insert(e)>>
    BY <1>6 DEF Completed, Optional, as
  <2>2. <<as("FocussedOut")>> \o <<Insert(e)>> = <<as("FocussedOut"), Insert(e)>>
    BY <1>1, <1>2, Joined
  <2>3. <<as("FocussedOut"), Insert(e)>> \o <<Start>> = <<as("FocussedOut"), Insert(e), Start>>
    BY <1>1, <1>2, Joined
  <2>4. QED BY <2>1, <2>2, <2>3
<1>7. ASSUME \/ e.type = "Opened" /\ f # NoUri
             \/ e.type = "Closed" /\ f # e.uri
             \/ e.type \in {"Accessed", "Modified", "FocussedOut"}
      PROVE  steps = <<Insert(e), Start>>
  <2>1. Completed(e, f) \in {<<Insert(e)>> \o <<>>, <<>> \o <<Insert(e)>>, <<Insert(e)>>}
    BY <1>7 DEF Completed, Optional
  <2>2. QED BY <1>2, <2>1, Joined, ZenonT(60)
<1>8. steps \in Seq(Todo)
  BY <1>1, <1>2, <1>3, <1>4, <1>5, <1>6, <1>7, FewSteps DEF Type, FocusType
<1>9. QED BY <1>4, <1>5, <1>6, <1>7, <1>8 DEF as

LEMMA WindowlessForms ==
    ASSUME NEW e \in Event
    PROVE  LET steps == Optional(e.type \notin FocusType, <<Insert(e)>>) \o <<Start>>
           IN  /\ e.type \notin FocusType => steps = <<Insert(e), Start>>
               /\ e.type \in FocusType => steps = <<Start>>
               /\ steps \in Seq(Todo)
<1>1. Insert(e) \in Todo /\ Start \in Todo
  BY StepsAreTyped
<1>2. QED BY <1>1, Joined, FewSteps DEF Optional

(* The events about the windows that lose and get the focus.                 *)
LEMMA FocusEventForms ==
    ASSUME TypeOK, NEW w, NEW type \in FocusType
    PROVE  LET e == [app |-> windows[w].app, wid |-> w,
                     uri |-> FocussedIn(w), type |-> type]
           IN  /\ FocussedIn(w) = NoUri => FocusEvent(w, type) = <<>>
               /\ FocussedIn(w) # NoUri =>
                     e \in Event /\ FocusEvent(w, type) = <<Insert(e)>>
<1>1. FocussedIn(w) \in Uri \cup {NoUri}
  BY FocusIsTyped
<1>2. ASSUME FocussedIn(w) # NoUri
      PROVE  windows[w].app \in App /\ w \in Wid
  BY <1>2, FocusIsTyped DEF TypeOK, WindowData
<1>3. QED BY <1>1, <1>2 DEF FocusEvent, Event, Type

LEMMA SupersededIsTyped ==
    ASSUME TypeOK, NEW e PROVE Superseded(e) \in Seq(Event)
<1> DEFINE Stays == {i \in 1..Len(events) :
                       ~(events[i].app = e.app /\ events[i].uri = e.uri)}
<1>1. events \in Seq(Event) /\ Stays \in SUBSET (1..Len(events))
  BY DEF TypeOK
<1>2. Superseded(e) = IF e.type = "Accessed" THEN events ELSE Thinned(events, Stays)
  BY DEF Superseded
<1> HIDE DEF Stays
<1>3. QED BY <1>1, <1>2, ThinnedIsTyped

LEMMA InitTyped == Init => TypeOK
<1> SUFFICES ASSUME Init PROVE TypeOK
  OBVIOUS
<1>1. <<>> \in Seq(Event) /\ <<>> \in Seq(Todo)
  BY EmptySeq
<1>2. windows \in [DOMAIN windows -> WindowData] /\ DOMAIN windows = {}
  BY DEF Init
<1>3. QED BY <1>1, <1>2 DEF Init, TypeOK

LEMMA DoInsertTyped == TypeOK /\ DoInsert /\ Silent => TypeOK'
<1> SUFFICES ASSUME TypeOK, DoInsert, Silent PROVE TypeOK'
  OBVIOUS
<1> DEFINE e == Head(todo).event
<1>1. e \in Event /\ todo # <<>> /\ todo \in Seq(Todo)
  BY HeadIsEvent DEF DoInsert
<1>2. todo' \in Seq(Todo)
  BY <1>1, Popped DEF DoInsert
<1>3. Append(events, e) \in Seq(Event)
  BY <1>1, AppendProperties DEF TypeOK
<1>4. told' \in [Wid \cup {NoWid} -> Uri \cup {NoUri}] /\ left' \subseteq Wid
  <2>1. Tell(e) \/ UNCHANGED followers
    BY DEF DoInsert
  <2>2. QED BY <1>1, <2>1, ToldIsTyped DEF TypeOK, followers
<1>5. <<>> \in Seq(Event)
  BY EmptySeq
<1>6. /\ events' \in {events, Append(events, e)}
      /\ lastEvent' \in {lastEvent, e}
  BY DEF DoInsert, queue
<1>7. events' \in Seq(Event)
        /\ lastEvent' \in Event \cup {NoEvent} /\ processed' \in Seq(Event)
  BY <1>1, <1>3, <1>5, <1>6 DEF TypeOK, Silent
<1>8. QED BY <1>2, <1>4, <1>7 DEF TypeOK, DoInsert, desktop, worker

LEMMA DoAddTyped == TypeOK /\ DoAdd /\ Silent => TypeOK'
<1> SUFFICES ASSUME TypeOK, DoAdd, Silent PROVE TypeOK'
  OBVIOUS
<1> DEFINE e == Head(todo).event
           w == e.wid
           f == FocussedIn(w)
<1>1. e \in Event /\ todo # <<>> /\ todo \in Seq(Todo)
  BY HeadIsEvent DEF DoAdd
<1>2. Tail(todo) \in Seq(Todo)
  BY <1>1, HeadTailProperties
<1>3. f \in Uri \cup {NoUri}
  BY FocusIsTyped
<1>4. <<>> \in Seq(Event)
  BY EmptySeq
<1>5. events' \in Seq(Event)
  BY SupersededIsTyped DEF DoAdd
<1>6. w \in Wid \cup {NoWid}
  BY <1>1 DEF Event
<1>7. CASE w = NoWid
  <2>1. todo' = Optional(e.type \notin FocusType, <<Insert(e)>>) \o <<Start>> \o Tail(todo)
          /\ UNCHANGED windows
    BY <1>7 DEF DoAdd, Then
  <2>2. todo' \in Seq(Todo)
    BY <1>1, <1>2, <2>1, WindowlessForms, ConcatProperties
  <2>3. QED BY <1>4, <1>5, <2>1, <2>2 DEF DoAdd, TypeOK, Silent, worker, followers
<1>8. CASE w # NoWid
  <2>1. /\ todo' = Completed(e, f) \o <<Start>> \o Tail(todo)
        /\ windows' = [v \in DOMAIN windows \cup {w} |->
                         IF v = w THEN WindowAfter(e) ELSE windows[v]]
    BY <1>8 DEF DoAdd, Then
  <2>2. todo' \in Seq(Todo)
    BY <1>1, <1>2, <2>1, CompletedForms, ConcatProperties
  <2>3. WindowAfter(e) \in WindowData
    <3>1. Focussed(e, f) \in Uri \cup {NoUri} /\ e.app \in App
      BY <1>1, <1>3, FocussedIsTyped DEF Event
    <3>2. QED BY <3>1 DEF WindowAfter, WindowData
  <2>4. DOMAIN windows' \subseteq Wid /\ windows' \in [DOMAIN windows' -> WindowData]
    BY <1>6, <1>8, <2>1, <2>3 DEF TypeOK
  <2>5. QED BY <1>4, <1>5, <2>2, <2>4 DEF DoAdd, TypeOK, Silent, worker, followers
<1>9. QED BY <1>7, <1>8

LEMMA DoRemoveWindowTyped == TypeOK /\ DoRemoveWindow /\ Silent => TypeOK'
<1> SUFFICES ASSUME TypeOK, DoRemoveWindow, Silent PROVE TypeOK'
  OBVIOUS
<1>1. todo # <<>> /\ todo \in Seq(Todo)
  BY DEF DoRemoveWindow, At, TypeOK
<1>2. todo' \in Seq(Todo)
  BY <1>1, Popped DEF DoRemoveWindow
<1>3. <<>> \in Seq(Event)
  BY EmptySeq
<1>4. Head(todo).wid \in Wid
  <2>1. Head(todo) \in Todo
    BY <1>1, HeadTailProperties
  <2>2. QED BY <2>1 DEF Todo, DoRemoveWindow, At
<1>5. QED BY <1>2, <1>3, <1>4 DEF DoRemoveWindow, TypeOK, Silent, queue, worker

LEMMA DoStartTyped == TypeOK /\ DoStart /\ Silent => TypeOK'
<1> SUFFICES ASSUME TypeOK, DoStart, Silent PROVE TypeOK'
  OBVIOUS
<1>1. todo # <<>> /\ todo \in Seq(Todo)
  BY DEF DoStart, At, TypeOK
<1>2. todo' \in Seq(Todo)
  BY <1>1, Popped DEF DoStart
<1>3. <<>> \in Seq(Event)
  BY EmptySeq
<1>4. QED BY <1>2, <1>3 DEF DoStart, TypeOK, Silent, queue, desktop, followers

LEMMA WorkerTyped == TypeOK /\ Worker => TypeOK'
<1> SUFFICES ASSUME TypeOK, Worker PROVE TypeOK'
  OBVIOUS
<1>1. <<>> \in Seq(Event)
  BY EmptySeq
<1>2. CASE HandOver
  BY <1>1, <1>2 DEF HandOver, TypeOK, queue, desktop, followers
<1>3. CASE Silent /\ Take
  BY <1>1, <1>3 DEF Silent, Take, TypeOK, desktop, followers
<1>4. CASE Silent /\ End
  BY <1>1, <1>4 DEF Silent, End, TypeOK, queue, desktop, followers
<1>5. QED BY <1>2, <1>3, <1>4 DEF Worker

(* activeWindowChanged() tells first what loses and then what gets the focus.*)
LEMMA WindowChangeForms ==
    ASSUME TypeOK, NEW v, NEW w
    PROVE  LET steps == FocusEvent(v, "FocussedOut") \o FocusEvent(w, "FocussedIn")
               as(x, type) == Insert([app |-> windows[x].app, wid |-> x,
                                      uri |-> FocussedIn(x), type |-> type])
           IN  /\ FocussedIn(v) = NoUri /\ FocussedIn(w) = NoUri => steps = <<>>
               /\ FocussedIn(v) = NoUri /\ FocussedIn(w) # NoUri =>
                     steps = <<as(w, "FocussedIn")>>
               /\ FocussedIn(v) # NoUri /\ FocussedIn(w) = NoUri =>
                     steps = <<as(v, "FocussedOut")>>
               /\ FocussedIn(v) # NoUri /\ FocussedIn(w) # NoUri =>
                     steps = <<as(v, "FocussedOut"), as(w, "FocussedIn")>>
               /\ steps \in Seq(Todo)
<1> DEFINE as(x, type) == Insert([app |-> windows[x].app, wid |-> x,
                                  uri |-> FocussedIn(x), type |-> type])
           out == as(v, "FocussedOut")
           in == as(w, "FocussedIn")
<1>1. "FocussedIn" \in FocusType /\ "FocussedOut" \in FocusType
  BY DEF FocusType
<1>2. /\ FocussedIn(v) = NoUri => FocusEvent(v, "FocussedOut") = <<>>
      /\ FocussedIn(v) # NoUri =>
            out \in Todo /\ FocusEvent(v, "FocussedOut") = <<out>>
  BY <1>1, FocusEventForms, StepsAreTyped
<1>3. /\ FocussedIn(w) = NoUri => FocusEvent(w, "FocussedIn") = <<>>
      /\ FocussedIn(w) # NoUri =>
            in \in Todo /\ FocusEvent(w, "FocussedIn") = <<in>>
  BY <1>1, FocusEventForms, StepsAreTyped
<1> DEFINE steps == FocusEvent(v, "FocussedOut") \o FocusEvent(w, "FocussedIn")
<1> HIDE DEF as, out, in
<1>4. <<>> \o <<>> = <<>> /\ <<>> \in Seq(Todo)
  BY EmptySeq, ConcatEmptySeq
<1>5. /\ FocussedIn(v) = NoUri /\ FocussedIn(w) = NoUri => steps = <<>>
      /\ FocussedIn(v) = NoUri /\ FocussedIn(w) # NoUri => steps = <<in>>
      /\ FocussedIn(v) # NoUri /\ FocussedIn(w) = NoUri => steps = <<out>>
      /\ FocussedIn(v) # NoUri /\ FocussedIn(w) # NoUri => steps = <<out, in>>
  BY <1>2, <1>3, <1>4, Joined
<1>6. steps \in Seq(Todo)
  BY <1>2, <1>3, <1>4, <1>5, FewSteps
<1>7. QED BY <1>5, <1>6 DEF as, out, in

LEMMA CallTyped == TypeOK /\ Call => TypeOK'
<1> SUFFICES ASSUME TypeOK, Call PROVE TypeOK'
  OBVIOUS
<1>1. <<>> \in Seq(Event)
  BY EmptySeq
<1>2. processed' \in Seq(Event)
  BY <1>1 DEF Call, Silent
<1>3. ASSUME NEW e \in Inputs, RegisterResourceEvent(e) PROVE TypeOK'
  <2>1. <<Add(e)>> \in Seq(Todo)
    BY InputsAssumption, StepsAreTyped
  <2>2. todo' \in Seq(Todo)
    BY <1>3, <2>1 DEF RegisterResourceEvent, Begin
  <2>3. QED BY <1>2, <1>3, <2>2
               DEF RegisterResourceEvent, Begin, TypeOK, queue, desktop, worker, followers
<1>4. ASSUME NEW w \in Wid, WindowClosed(w) PROVE TypeOK'
  <2>1. <<RemoveWindow(w)>> \in Seq(Todo)
    BY StepsAreTyped
  <2>2. todo' \in Seq(Todo)
    BY <1>4, <2>1 DEF WindowClosed, Begin
  <2>3. QED BY <1>2, <1>4, <2>2 DEF WindowClosed, Begin, TypeOK, queue, worker, followers
<1>5. ASSUME NEW w \in Wid \cup {NoWid}, ActiveWindowChanged(w) PROVE TypeOK'
  <2>1. todo' \in Seq(Todo)
    BY <1>5, WindowChangeForms DEF ActiveWindowChanged, Begin
  <2>2. QED BY <1>2, <1>5, <2>1 DEF ActiveWindowChanged, Begin, TypeOK, queue, worker, followers
<1>6. CASE RequestInterruption
  BY <1>2, <1>6 DEF RequestInterruption, TypeOK, queue, desktop, followers
<1>7. QED BY <1>3, <1>4, <1>5, <1>6 DEF Call

LEMMA TypeStays == TypeOK /\ [Next]_vars => TypeOK'
<1>1. CASE Step
  BY <1>1, DoInsertTyped, DoStartTyped, DoAddTyped, DoRemoveWindowTyped DEF Step
<1>2. CASE UNCHANGED vars
  BY <1>2 DEF vars, queue, desktop, worker, followers, TypeOK
<1>3. QED BY <1>1, <1>2, WorkerTyped, CallTyped DEF Next

(* The queue, the windows, the steps of the two threads and the batches keep *)
(* to their types (Resources.cpp, Resources_p.h).                            *)
THEOREM ResourcesTypeCorrect == Spec => []TypeOK
  BY InitTyped, TypeStays, PTL DEF Spec

-----------------------------------------------------------------------------
(* The queue and the batch on its way are an EventChannel.                   *)

WorkerOK == run = "handing" <=> currentEvents # <<>>

LEMMA WorkerStaysOK == Spec => []WorkerOK
<1>1. Init => WorkerOK
  BY DEF Init, WorkerOK
<1>2. WorkerOK /\ [Next]_vars => WorkerOK'
  <2> SUFFICES ASSUME WorkerOK, [Next]_vars PROVE WorkerOK'
    OBVIOUS
  <2>1. CASE HandOver \/ Take \/ End
    BY <2>1 DEF HandOver, Take, End, WorkerOK
  <2>2. CASE DoStart
    BY <2>2 DEF DoStart, WorkerOK
  <2>3. CASE UNCHANGED worker
    BY <2>3 DEF worker, WorkerOK
  <2>4. CASE Step
    BY <2>2, <2>3, <2>4 DEF Step, DoInsert, DoAdd, DoRemoveWindow
  <2>5. CASE Call
    BY <2>3, <2>5 DEF Call, RegisterResourceEvent, WindowClosed, WorkerOK,
                      ActiveWindowChanged, RequestInterruption
  <2>6. CASE UNCHANGED vars
    BY <2>3, <2>6 DEF vars
  <2>7. QED BY <2>1, <2>4, <2>5, <2>6 DEF Next, Worker
<1>3. QED BY <1>1, <1>2, PTL DEF Spec

(* What is thinned out behind s is thinned out of the whole.                 *)
LEMMA ThinnedBehind ==
    ASSUME NEW s \in Seq(Event), NEW t \in Seq(Event), NEW S \in SUBSET (1..Len(t))
    PROVE  Channel!IsThinned(s \o Thinned(t, S), s \o t,
                             {i \in 1..Len(s \o t) : i <= Len(s) \/ i - Len(s) \in S})
<1> DEFINE k == Len(s)
           c == Cardinality(S)
           r == Thinned(t, S)
           All == {i \in 1..Len(s \o t) : i <= k \/ i - k \in S}
           place == [n \in 1..(k + c) |-> IF n <= k THEN n ELSE k + Nth(S, n - k)]
<1>0. k \in Nat /\ Len(t) \in Nat
  BY LenProperties
<1>1. k \in Nat /\ Len(t) \in Nat /\ c \in Nat /\ Bounded(S)
  BY <1>0, ThinnedIsTyped DEF Bounded
<1>2. r \in Seq(Event) /\ Len(r) = c
  BY ThinnedIsTyped
<1>3. /\ s \o r \in Seq(Event)
      /\ Len(s \o r) = k + c
      /\ \A n \in 1..(k + c) : (s \o r)[n] = IF n <= k THEN s[n] ELSE r[n - k]
  BY <1>2, ConcatProperties
<1>4. /\ Len(s \o t) = k + Len(t)
      /\ \A n \in 1..(k + Len(t)) : (s \o t)[n] = IF n <= k THEN s[n] ELSE t[n - k]
  BY ConcatProperties
<1>5. /\ \A n \in 1..c : Nth(S, n) \in S
      /\ \A m, n \in 1..c : m < n => Nth(S, m) < Nth(S, n)
      /\ \A i \in S : \E n \in 1..c : Nth(S, n) = i
  BY <1>1, NthPlace
<1>6. \A n \in 1..c : r[n] = t[Nth(S, n)]
  BY DEF Thinned
<1> HIDE DEF r, c, k
<1>7. ASSUME NEW n \in 1..(k + c), ~(n <= k)
      PROVE  n - k \in 1..c /\ Nth(S, n - k) \in S /\ Nth(S, n - k) \in 1..Len(t)
  <2>1. n - k \in 1..c
    BY <1>1, <1>7
  <2>2. Nth(S, n - k) \in S
    BY <1>5, <2>1
  <2>3. QED BY <2>1, <2>2
<1>8. \A n \in 1..(k + c) : place[n] \in All
  <2> SUFFICES ASSUME NEW n \in 1..(k + c) PROVE place[n] \in All
    OBVIOUS
  <2>1. CASE n <= k
    BY <1>1, <1>4, <2>1
  <2>2. CASE ~(n <= k)
    <3>1. Nth(S, n - k) \in S /\ Nth(S, n - k) \in 1..Len(t)
      BY <1>7, <2>2
    <3>2. place[n] = k + Nth(S, n - k)
      BY <2>2
    <3>3. place[n] \in 1..(k + Len(t)) /\ place[n] - k = Nth(S, n - k)
      BY <1>1, <3>1, <3>2
    <3>4. QED BY <1>4, <3>1, <3>3
  <2>3. QED BY <2>1, <2>2
<1>9. place \in [1..(k + c) -> All]
  BY <1>8
<1>10. ASSUME NEW m \in 1..(k + c), NEW n \in 1..(k + c), m < n
       PROVE  place[m] < place[n]
  <2>1. CASE n <= k
    BY <1>1, <1>10, <2>1
  <2>2. CASE m <= k /\ ~(n <= k)
    <3>1. Nth(S, n - k) \in 1..Len(t)
      BY <1>7, <2>2
    <3>2. QED BY <1>1, <2>2, <3>1
  <2>3. CASE ~(m <= k)
    <3>1. ~(n <= k)
      BY <1>1, <1>10, <2>3
    <3>2. /\ m - k \in 1..c /\ Nth(S, m - k) \in 1..Len(t)
          /\ n - k \in 1..c /\ Nth(S, n - k) \in 1..Len(t)
      BY <1>7, <2>3, <3>1
    <3>3. m - k < n - k
      BY <1>1, <1>10
    <3>4. Nth(S, m - k) < Nth(S, n - k)
      BY <1>5, <3>2, <3>3
    <3>5. QED BY <1>1, <2>3, <3>1, <3>2, <3>4
  <2>4. QED BY <2>1, <2>2, <2>3
<1>11. ASSUME NEW i \in All PROVE \E n \in 1..(k + c) : place[n] = i
  <2>1. CASE i <= k
    BY <1>1, <1>4, <2>1
  <2>2. CASE ~(i <= k)
    <3>1. i - k \in S /\ i \in Nat
      BY <1>1, <1>4, <2>2
    <3>2. PICK n \in 1..c : Nth(S, n) = i - k
      BY <1>5, <3>1
    <3>3. n + k \in 1..(k + c) /\ ~(n + k <= k) /\ (n + k) - k = n
      BY <1>1
    <3>4. place[n + k] = k + Nth(S, n)
      BY <3>3
    <3>5. place[n + k] = i
      BY <1>1, <3>1, <3>2, <3>4
    <3>6. QED BY <3>3, <3>5
  <2>3. QED BY <2>1, <2>2
<1>12. ASSUME NEW n \in 1..(k + c) PROVE (s \o r)[n] = (s \o t)[place[n]]
  <2>1. CASE n <= k
    BY <1>1, <1>3, <1>4, <2>1
  <2>2. CASE ~(n <= k)
    <3>1. n - k \in 1..c /\ Nth(S, n - k) \in 1..Len(t)
      BY <1>7, <2>2
    <3>2. (s \o r)[n] = t[Nth(S, n - k)]
      BY <1>3, <1>6, <2>2, <3>1
    <3>3. place[n] = k + Nth(S, n - k)
      BY <2>2
    <3>4. /\ place[n] \in 1..(k + Len(t)) /\ ~(place[n] <= k)
          /\ place[n] - k = Nth(S, n - k)
      BY <1>1, <3>1, <3>3
    <3>5. QED BY <1>4, <3>2, <3>4
  <2>3. QED BY <2>1, <2>2
<1> HIDE DEF place, All
<1>13. /\ place \in [1..Len(s \o r) -> All]
       /\ \A m, n \in 1..Len(s \o r) : m < n => place[m] < place[n]
       /\ \A i \in All : \E n \in 1..Len(s \o r) : place[n] = i
       /\ \A n \in 1..Len(s \o r) : (s \o r)[n] = (s \o t)[place[n]]
  BY <1>3, <1>9, <1>10, <1>11, <1>12
<1>14. Channel!IsThinned(s \o r, s \o t, All)
  BY <1>3, <1>13 DEF Channel!IsThinned
<1>15. QED BY <1>14 DEF r, All, k

(* An event that is inserted is put into the channel.                        *)
LEMMA InsertIsPut ==
    TypeOK /\ DoInsert /\ Silent => Channel!Next
<1> SUFFICES ASSUME TypeOK, DoInsert, Silent PROVE Channel!Next
  OBVIOUS
<1> DEFINE e == Head(todo).event
<1>1. e \in Event
  BY HeadIsEvent DEF DoInsert
<1>2. currentEvents \in Seq(Event) /\ events \in Seq(Event) /\ <<e>> \in Seq(Event)
  BY <1>1 DEF TypeOK
<1>3. currentEvents' = currentEvents /\ processed' = <<>>
        /\ events' \in {events, Append(events, e)}
  BY DEF DoInsert, worker, queue, Silent
<1> HIDE DEF e
<1>4. CASE events' = events
  BY <1>3, <1>4 DEF Channel!Next, Channel!Rest
<1>5. CASE events' = Append(events, e)
  <2>1. Append(events, e) = events \o <<e>>
    BY <1>1, <1>2, AppendIsConcat
  <2>2. currentEvents \o (events \o <<e>>) = (currentEvents \o events) \o <<e>>
    BY <1>2, ConcatAssociative
  <2>3. currentEvents \o events \in Seq(Event)
    BY <1>2, ConcatProperties
  <2>4. (currentEvents \o events) \o <<e>> = Append(currentEvents \o events, e)
    BY <1>1, <2>3, AppendIsConcat
  <2>5. (currentEvents \o events)' = Append(currentEvents \o events, e)
    BY <1>3, <1>5, <2>1, <2>2, <2>4
  <2>6. Channel!Put(e)
    BY <1>3, <2>5 DEF Channel!Put
  <2>7. QED BY <1>1, <2>6 DEF Channel!Next
<1>6. QED BY <1>3, <1>4, <1>5

(* An event that is added withdraws those in the queue, and none of the      *)
(* batch that run() has taken.                                               *)
LEMMA AddIsWithdraw ==
    TypeOK /\ DoAdd /\ Silent => Channel!Next
<1> SUFFICES ASSUME TypeOK, DoAdd, Silent PROVE Channel!Next
  OBVIOUS
<1> DEFINE e == Head(todo).event
           k == Len(currentEvents)
           pending == currentEvents \o events
           Stays == {i \in 1..Len(events) :
                       ~(events[i].app = e.app /\ events[i].uri = e.uri)}
<1>1. e \in Event
  BY HeadIsEvent DEF DoAdd
<1>2. currentEvents \in Seq(Event) /\ events \in Seq(Event)
  BY DEF TypeOK
<1>3. currentEvents' = currentEvents /\ processed' = <<>> /\ events' = Superseded(e)
  BY DEF DoAdd, worker, Silent
<1>4. CASE e.type = "Accessed"
  <2>1. events' = events
    BY <1>3, <1>4 DEF Superseded
  <2>2. QED BY <1>3, <2>1 DEF Channel!Next, Channel!Rest
<1>5. CASE e.type # "Accessed"
  <2>1. events' = Thinned(events, Stays)
    BY <1>3, <1>5 DEF Superseded
  <2>2. k \in Nat /\ Len(events) \in Nat
    BY <1>2, LenProperties
  <2>3. /\ Len(pending) = k + Len(events)
        /\ \A i \in 1..(k + Len(events)) :
              pending[i] = IF i <= k THEN currentEvents[i] ELSE events[i - k]
    BY <1>2, ConcatProperties
  <2>4. Channel!IsThinned(currentEvents \o Thinned(events, Stays), pending,
                          {i \in 1..Len(pending) : i <= k \/ i - k \in Stays})
    BY <1>2, ThinnedBehind
  <2>5. ASSUME NEW i \in 1..Len(pending), ~(i <= k)
        PROVE  i - k \in Stays <=> ~Channel!About(pending[i], e)
    <3>1. i - k \in 1..Len(events) /\ pending[i] = events[i - k]
      BY <2>2, <2>3, <2>5
    <3>2. QED BY <3>1 DEF Channel!About
  <2>6. {i \in 1..Len(pending) : i <= k \/ i - k \in Stays}
          = {i \in 1..Len(pending) : i <= k \/ ~Channel!About(pending[i], e)}
    BY <2>5
  <2>7. k \in 0..Len(pending)
    BY <2>2, <2>3
  <2>8. pending' = currentEvents \o Thinned(events, Stays)
    BY <1>3, <2>1
  <2> HIDE DEF e, k, Stays
  <2>9. Channel!Withdraw(e)
    BY <1>3, <2>4, <2>6, <2>7, <2>8 DEF Channel!Withdraw
  <2>10. QED BY <1>1, <2>9 DEF Channel!Next
<1>6. QED BY <1>4, <1>5

(* run() takes all there is, which is nothing to who waits for it, ...       *)
LEMMA TakeIsRest ==
    TypeOK /\ WorkerOK /\ Take /\ Silent => Channel!Next
<1> SUFFICES ASSUME TypeOK, WorkerOK, Take, Silent PROVE Channel!Next
  OBVIOUS
<1>1. currentEvents = <<>> /\ events \in Seq(Event) /\ processed' = <<>>
  BY DEF WorkerOK, Take, TypeOK, Silent
<1>2. <<>> \o events = events /\ events \o <<>> = events
  BY <1>1, ConcatEmptySeq
<1>3. (currentEvents \o events)' = currentEvents \o events
  BY <1>1, <1>2 DEF Take
<1>4. QED BY <1>1, <1>3 DEF Channel!Next, Channel!Rest

(* ... and hands it over.                                                    *)
LEMMA HandOverIsProcess ==
    TypeOK /\ WorkerOK /\ HandOver => Channel!Next
<1> SUFFICES ASSUME TypeOK, WorkerOK, HandOver PROVE Channel!Next
  OBVIOUS
<1> DEFINE k == Len(currentEvents)
           pending == currentEvents \o events
<1>1. /\ currentEvents \in Seq(Event) /\ currentEvents # <<>> /\ events \in Seq(Event)
      /\ processed' = currentEvents /\ currentEvents' = <<>> /\ events' = events
  BY DEF WorkerOK, HandOver, TypeOK, queue
<1>2. k \in Nat \ {0} /\ Len(events) \in Nat
  BY <1>1, EmptySeq, LenProperties
<1>3. /\ pending \in Seq(Event)
      /\ Len(pending) = k + Len(events)
      /\ \A i \in 1..(k + Len(events)) :
            pending[i] = IF i <= k THEN currentEvents[i] ELSE events[i - k]
  BY <1>1, ConcatProperties
<1>4. k \in 1..Len(pending) /\ Len(pending) \in Nat
  BY <1>2, <1>3
<1>5. pending' = events
  BY <1>1, ConcatEmptySeq
<1> HIDE DEF k, pending
<1>6. \A i \in 1..Len(pending) : pending[i] \in Event
  BY <1>3, ElementOfSeq
<1>7. currentEvents = SubSeq(pending, 1, k)
  <2>1. /\ SubSeq(pending, 1, k) \in Seq(Event)
        /\ Len(SubSeq(pending, 1, k)) = k
        /\ \A i \in 1..k : SubSeq(pending, 1, k)[i] = pending[i]
    <3>1. \A i \in 1..k : pending[i] \in Event
      BY <1>4, <1>6
    <3>2. 1 \in Int /\ k \in Int
      BY <1>2
    <3>3. /\ SubSeq(pending, 1, k) \in Seq(Event)
          /\ Len(SubSeq(pending, 1, k)) = IF 1 <= k THEN k - 1 + 1 ELSE 0
          /\ \A i \in 1..(k - 1 + 1) : SubSeq(pending, 1, k)[i] = pending[1 + i - 1]
      BY <3>1, <3>2, SubSeqProperties
    <3>4. QED BY <1>2, <3>3
  <2>2. \A i \in 1..k : pending[i] = currentEvents[i]
    BY <1>2, <1>3
  <2>3. QED BY <1>1, <2>1, <2>2, SeqEqual DEF k
<1>8. events = SubSeq(pending, k + 1, Len(pending))
  <2> DEFINE rest == SubSeq(pending, k + 1, Len(pending))
  <2>1. \A i \in (k + 1)..Len(pending) : pending[i] \in Event
    BY <1>2, <1>4, <1>6
  <2>2. k + 1 \in Int /\ Len(pending) \in Int
    BY <1>2, <1>4
  <2>3. /\ rest \in Seq(Event)
        /\ Len(rest) = IF k + 1 <= Len(pending) THEN Len(pending) - (k + 1) + 1 ELSE 0
        /\ \A i \in 1..(Len(pending) - (k + 1) + 1) : rest[i] = pending[(k + 1) + i - 1]
    BY <2>1, <2>2, SubSeqProperties
  <2> HIDE DEF rest
  <2>4. Len(rest) = Len(events)
    BY <1>2, <1>3, <2>3
  <2>5. \A i \in 1..Len(events) : rest[i] = events[i]
    BY <1>2, <1>3, <2>3
  <2>6. rest = events
    BY <1>1, <2>3, <2>4, <2>5, SeqEqual
  <2>7. QED BY <2>6 DEF rest
<1>9. Channel!Process
  BY <1>1, <1>4, <1>5, <1>7, <1>8 DEF Channel!Process, pending
<1>10. QED BY <1>9 DEF Channel!Next

(* Events are handed over in the order of their registration, none twice,    *)
(* none made up and none lost, but for those that a later one about the same *)
(* application and resource withdraws before run() takes them                *)
(* (Resources.cpp:61-86, 98, 119-126).                                       *)
THEOREM ResourcesImplementsChannel == Spec => ImplementsChannel
<1>1. Init => Channel!Init
  <2>1. <<>> \o <<>> = <<>>
    BY EmptySeq, ConcatEmptySeq
  <2>2. QED BY <2>1 DEF Init, Channel!Init
<1>2. TypeOK /\ WorkerOK /\ [Next]_vars => [Channel!Next]_(Channel!vars)
  <2> SUFFICES ASSUME TypeOK, WorkerOK, [Next]_vars
               PROVE  [Channel!Next]_(Channel!vars)
    OBVIOUS
  <2>1. ASSUME UNCHANGED <<events, currentEvents>>, Silent PROVE Channel!Next
    BY <2>1 DEF Silent, Channel!Next, Channel!Rest
  <2>2. CASE Step
    BY <2>1, <2>2, InsertIsPut, AddIsWithdraw
       DEF Step, DoStart, DoRemoveWindow, queue, worker
  <2>3. CASE Worker
    BY <2>1, <2>3, HandOverIsProcess, TakeIsRest DEF Worker, End, queue
  <2>4. CASE Call
    BY <2>1, <2>4 DEF Call, RegisterResourceEvent, WindowClosed,
                      ActiveWindowChanged, RequestInterruption, queue, worker
  <2>5. CASE UNCHANGED vars
    BY <2>5 DEF vars, queue, worker, Channel!vars
  <2>6. QED BY <2>2, <2>3, <2>4, <2>5 DEF Next
<1>3. QED
  BY <1>1, <1>2, ResourcesTypeCorrect, WorkerStaysOK, PTL
     DEF Spec, ImplementsChannel, Channel!Spec

-----------------------------------------------------------------------------
(* Who follows the events knows what is in focus.                            *)
(*                                                                           *)
(* Both properties speak of the time when nothing is left to do.  What leads *)
(* there is said of the steps that are left: at most one of them is about    *)
(* the focus of a window, and what is told after it is right.                *)

Places == 1..Len(todo)

Inserts(i, type) == todo[i].step = "insert" /\ todo[i].event.type = type
InAt(i) == Inserts(i, "FocussedIn")
OutAt(i) == Inserts(i, "FocussedOut")
FocusAt(i, w) == (InAt(i) \/ OutAt(i)) /\ todo[i].event.wid = w

(* What is called comes alone.                                               *)
Alone == \A i \in Places : todo[i].step \in {"add", "remove"} => Len(todo) = 1

(* FocussedOut comes first, FocussedIn last, and not of the same window.     *)
OutFirst ==
    \A i, j \in Places : i < j =>
        /\ InAt(i) => todo[j].step = "start"
        /\ OutAt(i) => /\ ~OutAt(j)
                       /\ ~(InAt(j) /\ todo[i].event.wid = todo[j].event.wid)

(* u may be what was told of window w.                                       *)
Fits(w, u) == \/ u = FocussedIn(w)
              \/ u = NoUri /\ w # focussedWindow
              \/ w \in left /\ FocussedIn(w) = NoUri

(* What is left of u in focus when v is told to be out of it.                *)
Without(u, v) == IF u = v THEN NoUri ELSE u

ToldOK ==
    /\ \A w \in Wid \cup {NoWid} :
          (\A i \in Places : ~FocusAt(i, w)) => Fits(w, told[w])
    /\ \A i \in Places : \A w \in Wid \cup {NoWid} : FocusAt(i, w) =>
          /\ w \in DOMAIN windows
          /\ InAt(i) => todo[i].event.uri = FocussedIn(w)
          /\ OutAt(i) => Fits(w, Without(told[w], todo[i].event.uri))

(* An event that is dropped for being like the last one tells nothing new.   *)
LastTold ==
    /\ lastEvent.type = "FocussedIn" =>
          \/ told[lastEvent.wid] = lastEvent.uri
          \/ lastEvent.wid \notin DOMAIN windows
          \/ At("insert") /\ Head(todo).event.type # "FocussedIn"
    /\ lastEvent.type = "FocussedOut" => told[lastEvent.wid] # lastEvent.uri

Released ==
    \A i \in Places : Inserts(i, "Closed") =>
        \/ told[todo[i].event.wid] # todo[i].event.uri
        \/ todo[i].event.wid \in left
        \/ i = 2 /\ todo[1] = Insert(DeriveWithType(todo[2].event, "FocussedOut"))

(* What the steps that take the place of addEvent() are about.               *)
LEMMA AddedSteps ==
    ASSUME TypeOK, Alone, DoAdd,
           NEW e, e = Head(todo).event,
           NEW f, f = FocussedIn(e.wid)
    PROVE  /\ todo' \in Seq(Todo)
           /\ \A i \in Places' :
                /\ todo'[i].step \in {"insert", "start"}
                /\ todo'[i].step = "insert" => todo'[i].event.wid = e.wid
                /\ InAt(i)' => /\ e.wid # NoWid
                               /\ i = 2 /\ Len(todo') = 3
                               /\ todo'[3].step = "start"
                               /\ todo'[i].event.uri = e.uri
                               /\ Focussed(e, f) = e.uri
                /\ OutAt(i)' => /\ e.wid # NoWid
                                /\ i = 1
                                /\ todo'[i].event.uri = e.uri
                                /\ Focussed(e, f) = Without(f, e.uri)
                                /\ \A j \in Places' : j # 1 => ~InAt(j)'
                /\ Inserts(i, "Closed")' =>
                      /\ todo'[i].event = e
                      /\ \/ f # e.uri
                         \/ /\ i = 2
                            /\ todo'[1] = Insert(DeriveWithType(e, "FocussedOut"))
           /\ e.wid # NoWid /\ (\A i \in Places' : ~InAt(i)' /\ ~OutAt(i)') =>
                Focussed(e, f) = f
           /\ e.wid # NoWid => At("insert")' /\ Head(todo').event.type # "FocussedIn"
<1>1. e \in Event /\ todo \in Seq(Todo) /\ todo # <<>> /\ Head(todo) = todo[1]
        /\ Len(todo) \in Nat \ {0}
  BY HeadIsEvent DEF DoAdd
<1>2. e.type \in Type /\ e.uri # NoUri
  BY <1>1, NothingAssumption DEF Event
<1>3. Len(todo) = 1
  BY <1>1 DEF DoAdd, At, Alone, Places
<1>4. Tail(todo) = <<>>
  <2>1. Tail(todo) \in Seq(Todo) /\ Len(Tail(todo)) = 0
    BY <1>1, <1>3, HeadTailProperties
  <2>2. QED BY <2>1, EmptySeq
<1> DEFINE as(type) == Insert(DeriveWithType(e, type))
           windowed == Completed(e, f) \o <<Start>>
           plain == Optional(e.type \notin FocusType, <<Insert(e)>>) \o <<Start>>
<1>5. windowed \in Seq(Todo) /\ plain \in Seq(Todo)
  BY <1>1, CompletedForms, WindowlessForms
<1>6. todo' = IF e.wid = NoWid THEN plain ELSE windowed
  <2>1. windowed \o <<>> = windowed /\ plain \o <<>> = plain
    BY <1>5, ConcatEmptySeq
  <2> HIDE DEF windowed, plain
  <2>2. todo' = (IF e.wid = NoWid THEN plain ELSE windowed) \o <<>>
    BY <1>4 DEF DoAdd, Then, plain, windowed
  <2>3. QED BY <2>1, <2>2
<1>7. todo' \in Seq(Todo)
  BY <1>5, <1>6
<1> USE DEF Places, InAt, OutAt, Inserts, At
<1>8. CASE e.wid = NoWid
  <2>1. f = NoUri
    BY <1>8, FocusIsTyped, NothingAssumption
  <2>2. CASE e.type \notin FocusType
    <3>1. todo' = <<Insert(e), Start>>
      BY <1>1, <1>6, <1>8, <2>2, WindowlessForms
    <3>2. /\ Places' = {1, 2} /\ todo'[1] = Insert(e) /\ todo'[2] = Start
      BY <3>1
    <3>3. Insert(e).step = "insert" /\ Insert(e).event = e /\ Start.step = "start"
      BY DEF Insert, Start
    <3>4. \A i \in Places' : /\ todo'[i].step \in {"insert", "start"}
                             /\ todo'[i].step = "insert" => todo'[i].event.wid = e.wid
      BY <3>2, <3>3
    <3>5. \A i \in Places' : ~InAt(i)' /\ ~OutAt(i)'
      BY <2>2, <3>2, <3>3 DEF FocusType
    <3>6. \A i \in Places' : Inserts(i, "Closed")' => todo'[i].event = e /\ f # e.uri
      BY <1>2, <2>1, <3>2, <3>3
    <3>7. QED
      <4> HIDE DEF Places, At, InAt, OutAt, Inserts
      <4>1. QED BY <1>7, <1>8, <3>4, <3>5, <3>6
  <2>3. CASE e.type \in FocusType
    <3>1. todo' = <<Start>>
      BY <1>1, <1>6, <1>8, <2>3, WindowlessForms
    <3>2. QED BY <1>7, <1>8, <3>1 DEF Insert, Start
  <2>4. QED BY <2>2, <2>3
<1>9. CASE e.wid # NoWid /\ e.type = "Opened" /\ f = NoUri
  <2>1. todo' = <<Insert(e), as("FocussedIn"), Start>>
    BY <1>1, <1>6, <1>9, CompletedForms
  <2>2. as("FocussedIn").event.type = "FocussedIn" /\ as("FocussedIn").event.wid = e.wid
          /\ as("FocussedIn").event.uri = e.uri /\ as("FocussedIn").step = "insert"
    BY <1>1 DEF Insert, DeriveWithType, Event
  <2>3. Focussed(e, f) = e.uri
    BY <1>9 DEF Focussed
  <2> HIDE DEF as
  <2>4. /\ todo' # <<>> /\ Len(todo') = 3 /\ Places' = {1, 2, 3}
        /\ todo'[1] = Insert(e) /\ todo'[2] = as("FocussedIn") /\ todo'[3] = Start
        /\ Head(todo') = Insert(e)
    BY <2>1
  <2>5. Insert(e).step = "insert" /\ Insert(e).event = e /\ Start.step = "start"
    BY DEF Insert, Start
  <2>6. /\ ~InAt(1)' /\ ~OutAt(1)' /\ ~Inserts(1, "Closed")'
        /\ InAt(2)' /\ ~OutAt(2)' /\ ~Inserts(2, "Closed")'
        /\ ~InAt(3)' /\ ~OutAt(3)' /\ ~Inserts(3, "Closed")'
    BY <1>2, <1>9, <2>2, <2>4, <2>5
  <2> HIDE DEF Places
  <2>7. \A i \in Places' : todo'[i].step \in {"insert", "start"}
          /\ (todo'[i].step = "insert" => todo'[i].event.wid = e.wid)
    BY <2>2, <2>4, <2>5
  <2>8. At("insert")' /\ Head(todo').event.type # "FocussedIn"
    BY <1>9, <2>2, <2>4, <2>5
  <2>9. ASSUME NEW i \in Places' PROVE i = 1 \/ i = 2 \/ i = 3
    BY <2>4
  <2>10. ASSUME NEW i \in Places' PROVE ~OutAt(i)' /\ ~Inserts(i, "Closed")'
    BY <2>6, <2>9
  <2>11. ASSUME NEW i \in Places', InAt(i)' PROVE i = 2
    BY <2>6, <2>9, <2>11
  <2>12. todo'[2].event.uri = e.uri /\ todo'[3].step = "start"
    BY <2>2, <2>4, <2>5
  <2>13. 2 \in Places'
    BY <2>4
  <2>14. QED
    <3> HIDE DEF At, InAt, OutAt, Inserts
    <3>1. QED
      BY <1>7, <1>9, <2>3, <2>4, <2>6, <2>7, <2>8, <2>10, <2>11, <2>12, <2>13
<1>10. CASE e.wid # NoWid /\ e.type = "FocussedIn"
  <2>1. todo' = <<as("Opened"), Insert(e), Start>>
    BY <1>1, <1>6, <1>10, CompletedForms
  <2>2. as("Opened").event.type = "Opened" /\ as("Opened").event.wid = e.wid
          /\ as("Opened").step = "insert"
    BY <1>1 DEF Insert, DeriveWithType, Event
  <2>3. Focussed(e, f) = e.uri
    BY <1>10 DEF Focussed
  <2> HIDE DEF as
  <2>4. /\ todo' # <<>> /\ Len(todo') = 3 /\ Places' = {1, 2, 3}
        /\ todo'[1] = as("Opened") /\ todo'[2] = Insert(e) /\ todo'[3] = Start
        /\ Head(todo') = as("Opened")
    BY <2>1
  <2>5. Insert(e).step = "insert" /\ Insert(e).event = e /\ Start.step = "start"
    BY DEF Insert, Start
  <2>6. /\ ~InAt(1)' /\ ~OutAt(1)' /\ ~Inserts(1, "Closed")'
        /\ InAt(2)' /\ ~OutAt(2)' /\ ~Inserts(2, "Closed")'
        /\ ~InAt(3)' /\ ~OutAt(3)' /\ ~Inserts(3, "Closed")'
    BY <1>2, <1>10, <2>2, <2>4, <2>5
  <2> HIDE DEF Places
  <2>7. \A i \in Places' : todo'[i].step \in {"insert", "start"}
          /\ (todo'[i].step = "insert" => todo'[i].event.wid = e.wid)
    BY <2>2, <2>4, <2>5
  <2>8. At("insert")' /\ Head(todo').event.type # "FocussedIn"
    BY <1>10, <2>2, <2>4, <2>5
  <2>9. ASSUME NEW i \in Places' PROVE i = 1 \/ i = 2 \/ i = 3
    BY <2>4
  <2>10. ASSUME NEW i \in Places' PROVE ~OutAt(i)' /\ ~Inserts(i, "Closed")'
    BY <2>6, <2>9
  <2>11. ASSUME NEW i \in Places', InAt(i)' PROVE i = 2
    BY <2>6, <2>9, <2>11
  <2>12. todo'[2].event.uri = e.uri /\ todo'[3].step = "start"
    BY <2>2, <2>4, <2>5
  <2>13. 2 \in Places'
    BY <2>4
  <2>14. QED
    <3> HIDE DEF At, InAt, OutAt, Inserts
    <3>1. QED
      BY <1>7, <1>10, <2>3, <2>4, <2>6, <2>7, <2>8, <2>10, <2>11, <2>12, <2>13
<1>11. CASE e.wid # NoWid /\ e.type = "Closed" /\ f = e.uri
  <2>1. todo' = <<as("FocussedOut"), Insert(e), Start>>
    BY <1>1, <1>6, <1>11, CompletedForms
  <2>2. as("FocussedOut").event.type = "FocussedOut" /\ as("FocussedOut").event.wid = e.wid
          /\ as("FocussedOut").event.uri = e.uri /\ as("FocussedOut").step = "insert"
    BY <1>1 DEF Insert, DeriveWithType, Event
  <2>3. Focussed(e, f) = Without(f, e.uri)
    BY <1>11 DEF Focussed, Without
  <2>4. as("FocussedOut") = Insert(DeriveWithType(e, "FocussedOut"))
    OBVIOUS
  <2> HIDE DEF as
  <2>5. /\ todo' # <<>> /\ Len(todo') = 3 /\ Places' = {1, 2, 3}
        /\ todo'[1] = as("FocussedOut") /\ todo'[2] = Insert(e) /\ todo'[3] = Start
        /\ Head(todo') = as("FocussedOut")
    BY <2>1
  <2>6. Insert(e).step = "insert" /\ Insert(e).event = e /\ Start.step = "start"
    BY DEF Insert, Start
  <2>7. /\ ~InAt(1)' /\ OutAt(1)' /\ ~Inserts(1, "Closed")'
        /\ ~InAt(2)' /\ ~OutAt(2)' /\ Inserts(2, "Closed")'
        /\ ~InAt(3)' /\ ~OutAt(3)' /\ ~Inserts(3, "Closed")'
    BY <1>2, <1>11, <2>2, <2>5, <2>6
  <2> HIDE DEF Places
  <2>8. \A i \in Places' : todo'[i].step \in {"insert", "start"}
          /\ (todo'[i].step = "insert" => todo'[i].event.wid = e.wid)
    BY <2>2, <2>5, <2>6
  <2>9. At("insert")' /\ Head(todo').event.type # "FocussedIn"
    BY <1>11, <2>2, <2>5, <2>6
  <2>10. ASSUME NEW i \in Places' PROVE i = 1 \/ i = 2 \/ i = 3
    BY <2>5
  <2>11. ASSUME NEW i \in Places' PROVE ~InAt(i)'
    BY <2>7, <2>10
  <2>12. ASSUME NEW i \in Places', OutAt(i)' PROVE i = 1
    BY <2>7, <2>10, <2>12
  <2>13. ASSUME NEW i \in Places', Inserts(i, "Closed")' PROVE i = 2
    BY <2>7, <2>10, <2>13
  <2>14. /\ todo'[1].event.uri = e.uri /\ todo'[2].event = e /\ 1 \in Places'
         /\ todo'[1] = Insert(DeriveWithType(e, "FocussedOut"))
    BY <2>2, <2>4, <2>5, <2>6
  <2>15. QED
    <3> HIDE DEF At, InAt, OutAt, Inserts
    <3>1. QED
      BY <1>7, <1>11, <2>3, <2>5, <2>7, <2>8, <2>9, <2>11, <2>12, <2>13, <2>14
<1>12. CASE /\ e.wid # NoWid
            /\ \/ e.type = "Opened" /\ f # NoUri
               \/ e.type = "Closed" /\ f # e.uri
               \/ e.type \in {"Accessed", "Modified", "FocussedOut"}
  <2>1. todo' = <<Insert(e), Start>>
    BY <1>1, <1>6, <1>12, CompletedForms
  <2>2. Focussed(e, f) = IF e.type = "FocussedOut" THEN Without(f, e.uri) ELSE f
    BY <1>12 DEF Focussed, Without
  <2>3. /\ todo' # <<>> /\ Len(todo') = 2 /\ Places' = {1, 2}
        /\ todo'[1] = Insert(e) /\ todo'[2] = Start /\ Head(todo') = Insert(e)
    BY <2>1
  <2>4. Insert(e).step = "insert" /\ Insert(e).event = e /\ Start.step = "start"
    BY DEF Insert, Start
  <2>5. /\ ~InAt(1)' /\ ~InAt(2)' /\ ~OutAt(2)' /\ ~Inserts(2, "Closed")'
        /\ OutAt(1)' <=> e.type = "FocussedOut"
        /\ Inserts(1, "Closed")' <=> e.type = "Closed"
    BY <1>12, <2>3, <2>4
  <2> HIDE DEF Places
  <2>6. \A i \in Places' : todo'[i].step \in {"insert", "start"}
          /\ (todo'[i].step = "insert" => todo'[i].event.wid = e.wid)
    BY <2>3, <2>4
  <2>7. At("insert")' /\ Head(todo').event.type # "FocussedIn"
    BY <1>12, <2>3, <2>4
  <2>8. ASSUME NEW i \in Places' PROVE ~InAt(i)' /\ (i = 1 \/ i = 2)
    BY <2>3, <2>5
  <2>9. ASSUME NEW i \in Places', OutAt(i)' PROVE i = 1 /\ e.type = "FocussedOut"
    BY <2>5, <2>8, <2>9
  <2>10. ASSUME NEW i \in Places', Inserts(i, "Closed")' PROVE i = 1 /\ f # e.uri
    BY <1>12, <2>5, <2>8, <2>10
  <2>11. todo'[1].event = e /\ 1 \in Places'
    BY <2>3, <2>4
  <2>12. (\A i \in Places' : ~OutAt(i)') => Focussed(e, f) = f
    BY <2>2, <2>5, <2>11
  <2>13. QED
    <3> HIDE DEF At, InAt, OutAt, Inserts
    <3>1. QED
      BY <1>7, <1>12, <2>2, <2>6, <2>7, <2>8, <2>9, <2>10, <2>11, <2>12
<1>13. QED BY <1>2, <1>8, <1>9, <1>10, <1>11, <1>12 DEF Type, FocusType

(* What windows contain after addEvent().                                    *)
LEMMA AddedWindows ==
    ASSUME TypeOK, DoAdd, NEW e, e = Head(todo).event
    PROVE  /\ \A w : w # e.wid => FocussedIn(w)' = FocussedIn(w)
           /\ \A w : w \in DOMAIN windows => w \in DOMAIN windows'
           /\ \A w : w \in DOMAIN windows' => w \in DOMAIN windows \/ w = e.wid
           /\ e.wid # NoWid => /\ e.wid \in DOMAIN windows'
                               /\ FocussedIn(e.wid)' = Focussed(e, FocussedIn(e.wid))
           /\ e.wid = NoWid => \A w : FocussedIn(w)' = FocussedIn(w)
<1>1. CASE e.wid = NoWid
  <2>1. windows' = windows
    BY <1>1 DEF DoAdd
  <2>2. QED BY <1>1, <2>1 DEF FocussedIn
<1>2. CASE e.wid # NoWid
  <2>1. windows' = [v \in DOMAIN windows \cup {e.wid} |->
                      IF v = e.wid THEN WindowAfter(e) ELSE windows[v]]
    BY <1>2 DEF DoAdd
  <2>2. WindowAfter(e).focussed = Focussed(e, FocussedIn(e.wid))
    BY DEF WindowAfter
  <2>3. QED BY <1>2, <2>1, <2>2 DEF FocussedIn
<1>3. QED BY <1>1, <1>2

(* Lists of one and of two steps.                                            *)
LEMMA OneStep ==
    ASSUME NEW a PROVE 1..Len(<<a>>) = {1} /\ Len(<<a>>) = 1 /\ <<a>>[1] = a
OBVIOUS

LEMMA TwoSteps ==
    ASSUME NEW a, NEW b
    PROVE  /\ 1..Len(<<a, b>>) = {1, 2} /\ Len(<<a, b>>) = 2
           /\ <<a, b>>[1] = a /\ <<a, b>>[2] = b
OBVIOUS

(* What activeWindowChanged() has to do when w follows v.                    *)
LEMMA ChangedSteps ==
    ASSUME TypeOK, NEW v, NEW w,
           todo' = FocusEvent(v, "FocussedOut") \o FocusEvent(w, "FocussedIn")
    PROVE  /\ todo' \in Seq(Todo)
           /\ \A i \in Places' :
                /\ todo'[i].step = "insert"
                /\ ~Inserts(i, "Closed")'
                /\ InAt(i)' \/ OutAt(i)'
                /\ InAt(i)' => /\ todo'[i].event.wid = w
                               /\ todo'[i].event.uri = FocussedIn(w)
                               /\ FocussedIn(w) # NoUri
                               /\ i = Len(todo')
                /\ OutAt(i)' => /\ todo'[i].event.wid = v
                                /\ todo'[i].event.uri = FocussedIn(v)
                                /\ FocussedIn(v) # NoUri
                                /\ i = 1
           /\ FocussedIn(w) # NoUri => \E i \in Places' : InAt(i)'
           /\ FocussedIn(v) # NoUri => \E i \in Places' : OutAt(i)'
<1> DEFINE as(x, type) == Insert([app |-> windows[x].app, wid |-> x,
                                  uri |-> FocussedIn(x), type |-> type])
           out == as(v, "FocussedOut")
           in == as(w, "FocussedIn")
<1>1. /\ FocussedIn(v) = NoUri /\ FocussedIn(w) = NoUri => todo' = <<>>
      /\ FocussedIn(v) = NoUri /\ FocussedIn(w) # NoUri => todo' = <<in>>
      /\ FocussedIn(v) # NoUri /\ FocussedIn(w) = NoUri => todo' = <<out>>
      /\ FocussedIn(v) # NoUri /\ FocussedIn(w) # NoUri => todo' = <<out, in>>
      /\ todo' \in Seq(Todo)
  BY WindowChangeForms
<1>2. /\ out.step = "insert" /\ out.event.type = "FocussedOut"
      /\ out.event.wid = v /\ out.event.uri = FocussedIn(v)
      /\ in.step = "insert" /\ in.event.type = "FocussedIn"
      /\ in.event.wid = w /\ in.event.uri = FocussedIn(w)
  BY DEF Insert
<1> HIDE DEF out, in
<1> USE DEF InAt, OutAt, Inserts
<1>3. CASE FocussedIn(v) = NoUri /\ FocussedIn(w) = NoUri
  <2>1. Places' = {}
    BY <1>1, <1>3 DEF Places
  <2>2. QED BY <1>1, <1>3, <2>1
<1>4. CASE FocussedIn(v) = NoUri /\ FocussedIn(w) # NoUri
  <2>1. todo' = <<in>>
    BY <1>1, <1>4
  <2>2. Places' = {1} /\ Len(todo') = 1 /\ todo'[1] = in
    BY <2>1, OneStep, ZenonT(30) DEF Places
  <2>3. QED BY <1>1, <1>2, <1>4, <2>2
<1>5. CASE FocussedIn(v) # NoUri /\ FocussedIn(w) = NoUri
  <2>1. todo' = <<out>>
    BY <1>1, <1>5
  <2>2. Places' = {1} /\ todo'[1] = out
    BY <2>1, OneStep, ZenonT(30) DEF Places
  <2>3. QED BY <1>1, <1>2, <1>5, <2>2
<1>6. CASE FocussedIn(v) # NoUri /\ FocussedIn(w) # NoUri
  <2>1. todo' = <<out, in>>
    BY <1>1, <1>6
  <2>2. Places' = {1, 2} /\ Len(todo') = 2 /\ todo'[1] = out /\ todo'[2] = in
    <3>1. /\ 1..Len(<<out, in>>) = {1, 2} /\ Len(<<out, in>>) = 2
          /\ <<out, in>>[1] = out /\ <<out, in>>[2] = in
      BY TwoSteps
    <3>2. QED BY <2>1, <3>1, ZenonT(30) DEF Places
  <2>3. QED BY <1>1, <1>2, <1>6, <2>2
<1>7. QED BY <1>3, <1>4, <1>5, <1>6

-----------------------------------------------------------------------------
(* The steps that are left keep their order.                                 *)

InOrder == Alone /\ OutFirst

LEMMA PoppedKeepsOrder ==
    ASSUME TypeOK, InOrder, todo # <<>>, Then(<<>>)
    PROVE  InOrder'
<1>1. /\ Len(todo) \in Nat \ {0}
      /\ Len(todo') = Len(todo) - 1
      /\ \A i \in 1..Len(todo') : todo'[i] = todo[i + 1]
  BY Popped DEF TypeOK
<1>2. ASSUME NEW i \in Places'
      PROVE  i \in Nat /\ i + 1 \in Places /\ todo'[i] = todo[i + 1]
  BY <1>1 DEF Places
<1>3. Alone'
  BY <1>1, <1>2, SMTT(30) DEF InOrder, Alone, Places
<1>4. ASSUME NEW i \in Places', NEW j \in Places', i < j
      PROVE  /\ InAt(i)' => todo'[j].step = "start"
             /\ OutAt(i)' => /\ ~OutAt(j)'
                             /\ ~(InAt(j)' /\ todo'[i].event.wid = todo'[j].event.wid)
  <2>1. i + 1 < j + 1
    BY <1>2, <1>4
  <2>2. /\ InAt(i + 1) => todo[j + 1].step = "start"
        /\ OutAt(i + 1) => /\ ~OutAt(j + 1)
                           /\ ~(/\ InAt(j + 1)
                                /\ todo[i + 1].event.wid = todo[j + 1].event.wid)
    BY <1>2, <2>1 DEF InOrder, OutFirst
  <2>3. QED BY <1>2, <2>2 DEF InAt, OutAt, Inserts
<1>5. OutFirst'
  BY <1>4 DEF OutFirst
<1>6. QED BY <1>3, <1>5 DEF InOrder

LEMMA OrderIsKept == TypeOK /\ InOrder /\ [Next]_vars => InOrder'
<1> SUFFICES ASSUME TypeOK, InOrder, [Next]_vars PROVE InOrder'
  OBVIOUS
<1>1. CASE UNCHANGED todo
  BY <1>1 DEF InOrder, Alone, OutFirst, Places, InAt, OutAt, Inserts
<1>2. CASE DoInsert \/ DoStart \/ DoRemoveWindow
  <2>1. todo # <<>> /\ Then(<<>>)
    BY <1>2 DEF DoInsert, DoStart, DoRemoveWindow, At
  <2>2. QED BY <2>1, PoppedKeepsOrder
<1>3. CASE DoAdd
  <2> DEFINE e == Head(todo).event
             f == FocussedIn(e.wid)
  <2>1. /\ todo' \in Seq(Todo)
        /\ \A i \in Places' :
             /\ todo'[i].step \in {"insert", "start"}
             /\ InAt(i)' => i = 2 /\ Len(todo') = 3 /\ todo'[3].step = "start"
             /\ OutAt(i)' => i = 1 /\ \A j \in Places' : j # 1 => ~InAt(j)'
    BY <1>3, AddedSteps DEF InOrder
  <2>2. Alone'
    BY <2>1 DEF Alone
  <2>3. OutFirst'
    BY <2>1 DEF OutFirst, Places
  <2>4. QED BY <2>2, <2>3 DEF InOrder
<1>4. ASSUME NEW e \in Inputs, RegisterResourceEvent(e) PROVE InOrder'
  <2>1. todo' = <<Add(e)>>
    BY <1>4 DEF RegisterResourceEvent, Begin
  <2>2. QED BY <2>1 DEF InOrder, Alone, OutFirst, Places
<1>5. ASSUME NEW w \in Wid, WindowClosed(w) PROVE InOrder'
  <2>1. todo' = <<RemoveWindow(w)>>
    BY <1>5 DEF WindowClosed, Begin
  <2>2. QED BY <2>1 DEF InOrder, Alone, OutFirst, Places
<1>6. ASSUME NEW w \in Wid \cup {NoWid}, ActiveWindowChanged(w) PROVE InOrder'
  <2>1. /\ todo' = FocusEvent(focussedWindow, "FocussedOut") \o FocusEvent(w, "FocussedIn")
        /\ w # focussedWindow
    BY <1>6 DEF ActiveWindowChanged, Begin
  <2>2. /\ todo' \in Seq(Todo)
        /\ \A i \in Places' :
             /\ todo'[i].step = "insert"
             /\ InAt(i)' => todo'[i].event.wid = w /\ i = Len(todo')
             /\ OutAt(i)' => todo'[i].event.wid = focussedWindow /\ i = 1
    BY <2>1, ChangedSteps, ZenonT(60)
  <2>3. Alone'
    BY <2>2 DEF Alone
  <2>4. OutFirst'
    BY <2>1, <2>2 DEF OutFirst, Places
  <2>5. QED BY <2>3, <2>4 DEF InOrder
<1>7. CASE Worker \/ RequestInterruption \/ UNCHANGED vars
  BY <1>1, <1>7 DEF Worker, HandOver, Take, End, RequestInterruption, vars
<1>8. QED
  BY <1>2, <1>3, <1>4, <1>5, <1>6, <1>7 DEF Next, Step, Call

(* The places of the steps that are left when the first one is made.         *)
LEMMA PlacesMove ==
    ASSUME TypeOK, todo # <<>>, Then(<<>>)
    PROVE  /\ 1 \in Places /\ todo[1] = Head(todo)
           /\ \A i \in Places' : /\ i \in Nat \ {0} /\ i + 1 \in Places
                                 /\ 1 < i + 1
                                 /\ todo'[i] = todo[i + 1]
           /\ \A j \in Places : j = 1 \/ \E i \in Places' : j = i + 1
<1>1. /\ Len(todo) \in Nat \ {0}
      /\ Len(todo') = Len(todo) - 1
      /\ \A i \in 1..Len(todo') : todo'[i] = todo[i + 1]
      /\ Head(todo) = todo[1]
  BY Popped DEF TypeOK
<1>2. ASSUME NEW i \in Places'
      PROVE  i \in Nat \ {0} /\ i + 1 \in Places /\ 1 < i + 1 /\ todo'[i] = todo[i + 1]
  BY <1>1 DEF Places
<1>3. ASSUME NEW j \in Places, j # 1 PROVE \E i \in Places' : j = i + 1
  <2>1. j - 1 \in Places' /\ j = (j - 1) + 1
    BY <1>1, <1>3 DEF Places
  <2>2. QED BY <2>1
<1>4. QED BY <1>1, <1>2, <1>3 DEF Places

(* What an event tells of a window.                                          *)
LEMMA ToldOf ==
    ASSUME TypeOK, NEW e \in Event, Tell(e)
    PROVE  /\ \A w \in Wid \cup {NoWid} :
                told'[w] = IF e.wid # w THEN told[w]
                           ELSE IF e.type = "FocussedIn" THEN e.uri
                           ELSE IF e.type = "FocussedOut" THEN Without(told[w], e.uri)
                           ELSE told[w]
           /\ \A w : w \in left => \/ w \in left'
                                    \/ /\ e.wid = w
                                       /\ \/ e.type = "FocussedIn"
                                          \/ e.type = "FocussedOut" /\ told[w] = e.uri
<1>1. told \in [Wid \cup {NoWid} -> Uri \cup {NoUri}]
  BY DEF TypeOK
<1>2. CASE e.type = "FocussedIn"
  <2>1. told' = [told EXCEPT ![e.wid] = e.uri] /\ left' = left \ {e.wid}
    BY <1>2 DEF Tell, TellsOfFocus
  <2>2. QED BY <1>1, <1>2, <2>1
<1>3. CASE e.type = "FocussedOut" /\ told[e.wid] = e.uri
  <2>1. told' = [told EXCEPT ![e.wid] = NoUri] /\ left' = left \ {e.wid}
    BY <1>3 DEF Tell, TellsOfFocus
  <2>2. QED BY <1>1, <1>3, <2>1 DEF Without
<1>4. CASE e.type # "FocussedIn" /\ ~(e.type = "FocussedOut" /\ told[e.wid] = e.uri)
  <2>1. told' = told /\ left' = left
    BY <1>4 DEF Tell, TellsOfFocus, followers
  <2>2. QED BY <1>4, <2>1 DEF Without
<1>5. QED BY <1>2, <1>3, <1>4

Followed == InOrder /\ ToldOK /\ LastTold /\ Released

(* Nothing is told wrong by an event that is dropped.                        *)
LEMMA InsertTells ==
    ASSUME TypeOK, Followed, DoInsert, NEW e, e = Head(todo).event
    PROVE  /\ e \in Event /\ e.wid \in Wid \cup {NoWid} /\ e.uri \in Uri
           /\ lastEvent' = e
           /\ told' \in [Wid \cup {NoWid} -> Uri \cup {NoUri}]
           /\ \A w \in Wid \cup {NoWid} :
                told'[w] = IF e.wid # w THEN told[w]
                           ELSE IF e.type = "FocussedIn" THEN e.uri
                           ELSE IF e.type = "FocussedOut" THEN Without(told[w], e.uri)
                           ELSE told[w]
           /\ \A w : w \in left => \/ w \in left'
                                    \/ /\ e.wid = w
                                       /\ \/ e.type = "FocussedIn"
                                          \/ e.type = "FocussedOut" /\ told[w] = e.uri
<1>1. e \in Event /\ todo # <<>> /\ Head(todo) = todo[1] /\ 1 \in Places
        /\ todo[1].step = "insert"
  <2>1. todo # <<>> /\ Then(<<>>) /\ Head(todo).step = "insert"
    BY DEF DoInsert, At
  <2>2. e \in Event
    BY HeadIsEvent, <2>1 DEF DoInsert
  <2>3. QED BY <2>1, <2>2, PlacesMove
<1>2. e.wid \in Wid \cup {NoWid} /\ e.uri \in Uri
  BY <1>1 DEF Event
<1>3. lastEvent' = e /\ (Tell(e) \/ (UNCHANGED followers /\ lastEvent = e))
  BY DEF DoInsert, queue
<1>5. ASSUME lastEvent = e
      PROVE  /\ e.type = "FocussedIn" => told[e.wid] = e.uri
             /\ e.type = "FocussedOut" => told[e.wid] # e.uri
  <2>1. e.type = "FocussedIn" => e.wid \in DOMAIN windows
    BY <1>1, <1>2 DEF Followed, ToldOK, FocusAt, InAt, Inserts
  <2>2. QED BY <1>1, <1>5, <2>1 DEF Followed, LastTold, At
<1>6. CASE Tell(e)
  BY <1>1, <1>2, <1>3, <1>6, ToldOf, ToldIsTyped
<1>7. CASE UNCHANGED followers /\ lastEvent = e
  <2>1. told' = told /\ left' = left
    BY <1>7 DEF followers
  <2>2. \A w \in Wid \cup {NoWid} :
           told'[w] = IF e.wid # w THEN told[w]
                      ELSE IF e.type = "FocussedIn" THEN e.uri
                      ELSE IF e.type = "FocussedOut" THEN Without(told[w], e.uri)
                      ELSE told[w]
    BY <1>5, <1>7, <2>1 DEF Without
  <2>3. QED BY <1>1, <1>2, <1>3, <2>1, <2>2 DEF TypeOK
<1>8. QED BY <1>3, <1>6, <1>7

LEMMA InsertFollowed ==
    ASSUME TypeOK, Followed, DoInsert PROVE ToldOK' /\ LastTold' /\ Released'
<1> DEFINE e == Head(todo).event
<1>1. /\ e \in Event /\ e.wid \in Wid \cup {NoWid} /\ e.uri \in Uri
      /\ lastEvent' = e
      /\ told' \in [Wid \cup {NoWid} -> Uri \cup {NoUri}]
      /\ \A w \in Wid \cup {NoWid} :
           told'[w] = IF e.wid # w THEN told[w]
                      ELSE IF e.type = "FocussedIn" THEN e.uri
                      ELSE IF e.type = "FocussedOut" THEN Without(told[w], e.uri)
                      ELSE told[w]
      /\ \A w : w \in left => \/ w \in left'
                               \/ /\ e.wid = w
                                  /\ \/ e.type = "FocussedIn"
                                     \/ e.type = "FocussedOut" /\ told[w] = e.uri
  BY InsertTells
<1>2. /\ 1 \in Places /\ todo[1].event = e /\ todo[1].step = "insert"
      /\ \A i \in Places' : /\ i \in Nat \ {0} /\ i + 1 \in Places /\ 1 < i + 1
                            /\ todo'[i] = todo[i + 1]
      /\ \A j \in Places : j = 1 \/ \E i \in Places' : j = i + 1
  <2>1. todo # <<>> /\ Then(<<>>) /\ Head(todo).step = "insert"
    BY DEF DoInsert, At
  <2>2. QED BY <2>1, PlacesMove
<1>3. UNCHANGED <<windows, focussedWindow>>
  BY DEF DoInsert, desktop
<1>4. \A w : FocussedIn(w)' = FocussedIn(w)
  BY <1>3 DEF FocussedIn
<1> HIDE DEF e
<1>5. \A i \in Places' : /\ InAt(i)' <=> InAt(i + 1)
                         /\ OutAt(i)' <=> OutAt(i + 1)
                         /\ Inserts(i, "Closed")' <=> Inserts(i + 1, "Closed")
                         /\ todo'[i].event = todo[i + 1].event
                         /\ todo'[i].step = todo[i + 1].step
  BY <1>2 DEF InAt, OutAt, Inserts
<1>6. /\ InAt(1) <=> e.type = "FocussedIn"
      /\ OutAt(1) <=> e.type = "FocussedOut"
      /\ \A w : FocusAt(1, w) <=> e.type \in FocusType /\ e.wid = w
  BY <1>2 DEF InAt, OutAt, Inserts, FocusAt, FocusType
<1>7. \A i \in Places' : /\ InAt(1) => todo[i + 1].step = "start"
                         /\ OutAt(1) => ~OutAt(i + 1)
  BY <1>2 DEF Followed, InOrder, OutFirst
<1>8. \A i \in Places' : \A w : FocusAt(i, w)' <=> FocusAt(i + 1, w)
  BY <1>5 DEF FocusAt
<1>9. ASSUME NEW w \in Wid \cup {NoWid}, \A i \in Places' : ~FocusAt(i, w)'
      PROVE  Fits(w, told[w])'
  <2>1. CASE FocusAt(1, w)
    <3>1. /\ InAt(1) => e.uri = FocussedIn(w)
          /\ OutAt(1) => Fits(w, Without(told[w], e.uri))
      BY <1>2, <2>1 DEF Followed, ToldOK
    <3>2. \/ told'[w] = e.uri /\ InAt(1)
          \/ told'[w] = Without(told[w], e.uri) /\ OutAt(1)
      BY <1>1, <1>6, <2>1 DEF FocusType
    <3>3. CASE InAt(1)
      BY <1>4, <1>6, <3>1, <3>2, <3>3 DEF Fits
    <3>4. CASE OutAt(1)
      <4>1. e.wid = w /\ told'[w] = Without(told[w], e.uri)
        BY <1>1, <1>6, <2>1, <3>4
      <4>2. CASE w \in left /\ FocussedIn(w) = NoUri
        <5>1. w \in left' \/ told[w] = e.uri
          BY <1>1, <1>6, <3>4, <4>2
        <5>2. QED BY <1>4, <4>1, <4>2, <5>1 DEF Fits, Without
      <4>3. CASE ~(w \in left /\ FocussedIn(w) = NoUri)
        BY <1>3, <1>4, <3>1, <3>4, <4>1, <4>3 DEF Fits
      <4>4. QED BY <4>2, <4>3
    <3>5. QED BY <2>1, <3>3, <3>4 DEF FocusAt
  <2>2. CASE ~FocusAt(1, w)
    <3>1. \A j \in Places : ~FocusAt(j, w)
      BY <1>2, <1>8, <1>9, <2>2
    <3>2. Fits(w, told[w])
      BY <3>1 DEF Followed, ToldOK
    <3>3. told'[w] = told[w]
      BY <1>1, <1>6, <2>2 DEF FocusType
    <3>4. w \in left => w \in left'
      BY <1>1, <1>6, <2>2 DEF FocusType
    <3>5. QED BY <1>3, <1>4, <3>2, <3>3, <3>4 DEF Fits
  <2>3. QED BY <2>1, <2>2
<1>10. ASSUME NEW i \in Places', NEW w \in Wid \cup {NoWid}, FocusAt(i, w)'
       PROVE  /\ w \in DOMAIN windows'
              /\ InAt(i)' => todo'[i].event.uri = FocussedIn(w)'
              /\ OutAt(i)' => Fits(w, Without(told[w], todo[i].event.uri))'
  <2>1. FocusAt(i + 1, w) /\ i + 1 \in Places
    BY <1>2, <1>8, <1>10
  <2>2. /\ w \in DOMAIN windows
        /\ InAt(i + 1) => todo[i + 1].event.uri = FocussedIn(w)
        /\ OutAt(i + 1) => Fits(w, Without(told[w], todo[i + 1].event.uri))
    BY <2>1 DEF Followed, ToldOK
  <2>3. todo[i + 1].step = "insert"
    BY <2>1 DEF FocusAt, InAt, OutAt, Inserts
  <2>4. ~InAt(1) /\ (OutAt(1) => ~OutAt(i + 1))
    BY <1>7, <2>3
  <2>5. OutAt(i + 1) => told'[w] = told[w] /\ (w \in left => w \in left')
    BY <1>1, <1>6, <2>4
  <2>6. OutAt(i)' => Fits(w, Without(told'[w], todo'[i].event.uri))
    BY <1>5, <2>2, <2>5
  <2>7. QED BY <1>3, <1>4, <1>5, <2>2, <2>5, <2>6 DEF Fits
<1>11. ToldOK'
  <2> HIDE DEF Fits, FocusAt, InAt, OutAt, Places
  <2>1. QED BY <1>9, <1>10 DEF ToldOK
<1>12. LastTold'
  <2>1. e.uri # NoUri
    BY <1>1, NothingAssumption
  <2>2. QED BY <1>1, <2>1 DEF LastTold, Without
<1>13. ASSUME NEW i \in Places', Inserts(i, "Closed")'
       PROVE  \/ told'[todo'[i].event.wid] # todo'[i].event.uri
              \/ todo'[i].event.wid \in left'
  <2> DEFINE c == todo[i + 1].event
  <2>1. i + 1 \in Places /\ Inserts(i + 1, "Closed") /\ todo'[i].event = c
    BY <1>2, <1>5, <1>13
  <2>2. c \in Event
    <3>1. todo[i + 1] \in Todo /\ todo[i + 1].step = "insert"
      BY <2>1 DEF TypeOK, Inserts, Places
    <3>2. QED BY <3>1 DEF Todo
  <2>3. c.wid \in Wid \cup {NoWid} /\ c.uri # NoUri
    BY <2>2, NothingAssumption DEF Event
  <2> HIDE DEF c
  <2>4. CASE todo[1] = Insert(DeriveWithType(c, "FocussedOut"))
    <3>1. e = DeriveWithType(c, "FocussedOut")
      BY <1>2, <2>4 DEF Insert
    <3>2. e.type = "FocussedOut" /\ e.wid = c.wid /\ e.uri = c.uri
      BY <2>2, <3>1 DEF DeriveWithType, Event
    <3>3. told'[c.wid] = Without(told[c.wid], c.uri)
      BY <1>1, <2>3, <3>2
    <3>4. QED BY <2>1, <2>3, <3>3 DEF Without
  <2>5. CASE told[c.wid] # c.uri
    <3>1. ~InAt(1)
      BY <1>7, <2>1 DEF Inserts
    <3>2. told'[c.wid] = told[c.wid] \/ told'[c.wid] = Without(told[c.wid], e.uri)
      BY <1>1, <1>6, <2>3, <3>1
    <3>3. QED BY <2>1, <2>3, <2>5, <3>2 DEF Without
  <2>6. CASE c.wid \in left
    <3>1. ~InAt(1)
      BY <1>7, <2>1 DEF Inserts
    <3>2. CASE c.wid \in left'
      BY <2>1, <3>2
    <3>3. CASE c.wid \notin left'
      <4>1. e.type = "FocussedOut" /\ e.wid = c.wid /\ told[c.wid] = e.uri
        BY <1>1, <1>6, <2>6, <3>1, <3>3
      <4>2. told'[c.wid] = NoUri
        BY <1>1, <2>3, <4>1 DEF Without
      <4>3. QED BY <2>1, <2>3, <4>2
    <3>4. QED BY <3>2, <3>3
  <2>7. \/ todo[1] = Insert(DeriveWithType(c, "FocussedOut"))
        \/ told[c.wid] # c.uri \/ c.wid \in left
    BY <2>1 DEF Followed, Released, c
  <2>8. QED BY <2>4, <2>5, <2>6, <2>7
<1>14. Released'
  BY <1>13 DEF Released
<1>15. QED BY <1>11, <1>12, <1>14

LEMMA StartFollowed ==
    ASSUME TypeOK, Followed, DoStart PROVE ToldOK' /\ LastTold' /\ Released'
<1>1. /\ 1 \in Places /\ todo[1] = Head(todo) /\ todo[1].step = "start"
      /\ \A i \in Places' : /\ i \in Nat \ {0} /\ i + 1 \in Places /\ 1 < i + 1
                            /\ todo'[i] = todo[i + 1]
      /\ \A j \in Places : j = 1 \/ \E i \in Places' : j = i + 1
  <2>1. todo # <<>> /\ Then(<<>>) /\ Head(todo).step = "start"
    BY DEF DoStart, At
  <2>2. QED BY <2>1, PlacesMove
<1>2. UNCHANGED <<windows, focussedWindow, told, left, lastEvent>>
  BY DEF DoStart, desktop, queue, followers
<1>3. /\ \A w : FocussedIn(w)' = FocussedIn(w)
      /\ \A w, u : Fits(w, u)' <=> Fits(w, u)
  BY <1>2 DEF FocussedIn, Fits
<1>4. \A i \in Places' : /\ InAt(i)' <=> InAt(i + 1)
                         /\ OutAt(i)' <=> OutAt(i + 1)
                         /\ Inserts(i, "Closed")' <=> Inserts(i + 1, "Closed")
                         /\ todo'[i].event = todo[i + 1].event
                         /\ \A w : FocusAt(i, w)' <=> FocusAt(i + 1, w)
  BY <1>1 DEF InAt, OutAt, Inserts, FocusAt
<1>5. ~InAt(1) /\ ~OutAt(1) /\ \A w : ~FocusAt(1, w)
  BY <1>1 DEF InAt, OutAt, Inserts, FocusAt
<1>6. ASSUME NEW w \in Wid \cup {NoWid}, \A i \in Places' : ~FocusAt(i, w)'
      PROVE  Fits(w, told[w])'
  <2>1. \A j \in Places : ~FocusAt(j, w)
    BY <1>1, <1>4, <1>5, <1>6
  <2>2. Fits(w, told[w])
    BY <2>1 DEF Followed, ToldOK
  <2>3. QED BY <1>2, <2>2 DEF Fits, FocussedIn
<1>7. ASSUME NEW i \in Places', NEW w \in Wid \cup {NoWid}, FocusAt(i, w)'
      PROVE  /\ w \in DOMAIN windows'
             /\ InAt(i)' => todo'[i].event.uri = FocussedIn(w)'
             /\ OutAt(i)' => Fits(w, Without(told[w], todo[i].event.uri))'
  <2>1. FocusAt(i + 1, w) /\ i + 1 \in Places
    BY <1>1, <1>4, <1>7
  <2>2. /\ w \in DOMAIN windows
        /\ InAt(i + 1) => todo[i + 1].event.uri = FocussedIn(w)
        /\ OutAt(i + 1) => Fits(w, Without(told[w], todo[i + 1].event.uri))
    BY <2>1 DEF Followed, ToldOK
  <2>3. QED BY <1>2, <1>3, <1>4, <2>2 DEF Fits, FocussedIn
<1>8. ToldOK'
  <2> HIDE DEF Fits, FocusAt, InAt, OutAt, Places
  <2>1. QED BY <1>6, <1>7 DEF ToldOK
<1>9. LastTold'
  BY <1>1, <1>2 DEF Followed, LastTold, At
<1>10. ASSUME NEW i \in Places', Inserts(i, "Closed")'
       PROVE  \/ told'[todo'[i].event.wid] # todo'[i].event.uri
              \/ todo'[i].event.wid \in left'
  <2>1. i + 1 \in Places /\ Inserts(i + 1, "Closed")
    BY <1>1, <1>4, <1>10
  <2>2. ~\E e : todo[1] = Insert(e)
    BY <1>1 DEF Insert
  <2>3. \/ told[todo[i + 1].event.wid] # todo[i + 1].event.uri
        \/ todo[i + 1].event.wid \in left
    BY <2>1, <2>2 DEF Followed, Released
  <2>4. QED BY <1>2, <1>4, <2>3
<1>11. Released'
  BY <1>10 DEF Released
<1>12. QED BY <1>8, <1>9, <1>11

(* What was called comes alone, so that all windows are told of.             *)
LEMMA NothingPending ==
    ASSUME TypeOK, Followed,
           todo = <<>> \/ At("add") \/ At("remove")
    PROVE  /\ \A w \in Wid \cup {NoWid} : Fits(w, told[w])
           /\ ~At("insert")
           /\ At("add") \/ At("remove") => Len(todo) = 1 /\ Tail(todo) = <<>>
<1>1. todo = <<>> => Places = {}
  BY DEF Places
<1>2. todo # <<>> => /\ Len(todo) \in Nat \ {0} /\ Head(todo) = todo[1] /\ 1 \in Places
                     /\ Tail(todo) \in Seq(Todo) /\ Len(Tail(todo)) = Len(todo) - 1
  BY HeadTailProperties, EmptySeq DEF TypeOK, Places
<1>3. At("add") \/ At("remove") => Len(todo) = 1 /\ Tail(todo) = <<>>
  <2>1. At("add") \/ At("remove") => Len(todo) = 1
    BY <1>2 DEF At, Followed, InOrder, Alone
  <2>2. Len(todo) = 1 /\ todo # <<>> => Tail(todo) = <<>>
    <3>1. todo # <<>> /\ Len(todo) = 1 => Tail(todo) \in Seq(Todo) /\ Len(Tail(todo)) = 0
      BY <1>2
    <3>2. QED BY <3>1, EmptySeq
  <2>3. QED BY <2>1, <2>2 DEF At
<1>4. At("add") \/ At("remove") => \A i \in Places : i = 1
  BY <1>3 DEF Places
<1>5. \A i \in Places : todo[i].step # "insert"
  BY <1>1, <1>2, <1>4 DEF At
<1>6. \A w : \A i \in Places : ~FocusAt(i, w)
  BY <1>5 DEF FocusAt, InAt, OutAt, Inserts
<1>7. \A w \in Wid \cup {NoWid} : Fits(w, told[w])
  BY <1>6 DEF Followed, ToldOK
<1>8. QED BY <1>3, <1>7 DEF At

LEMMA RemoveFollowed ==
    ASSUME TypeOK, Followed, DoRemoveWindow PROVE ToldOK' /\ LastTold' /\ Released'
<1>0. PICK x : x = Head(todo).wid
  OBVIOUS
<1>1. /\ At("remove") /\ Then(<<>>)
      /\ windows' = [v \in DOMAIN windows \ {x} |-> windows[v]]
      /\ left' = IF told[x] = NoUri THEN left ELSE left \cup {x}
      /\ UNCHANGED <<lastEvent, focussedWindow, told>>
  BY <1>0 DEF DoRemoveWindow, queue
<1>2. \A w \in Wid \cup {NoWid} : Fits(w, told[w])
  BY <1>1, NothingPending
<1>3. Tail(todo) = <<>>
  BY <1>1, NothingPending
<1>4. todo' = <<>>
  BY <1>1, <1>3 DEF Then
<1>5. Places' = {}
  BY <1>4 DEF Places
<1>6. FocussedIn(x)' = NoUri /\ \A w : w # x => FocussedIn(w)' = FocussedIn(w)
  BY <1>1 DEF FocussedIn
<1>7. ASSUME NEW w \in Wid \cup {NoWid} PROVE Fits(w, told[w])'
  <2>1. CASE w = x
    BY <1>1, <1>6, <2>1 DEF Fits
  <2>2. CASE w # x
    BY <1>1, <1>2, <1>6, <2>2 DEF Fits
  <2>3. QED BY <2>1, <2>2
<1>8. ToldOK'
  BY <1>5, <1>7 DEF ToldOK
<1>9. LastTold'
  <2>1. ~At("insert")
    BY <1>1, NothingPending
  <2>2. DOMAIN windows' \subseteq DOMAIN windows
    BY <1>1
  <2>3. QED BY <1>1, <2>1, <2>2 DEF Followed, LastTold
<1>10. Released'
  BY <1>5 DEF Released
<1>11. QED BY <1>8, <1>9, <1>10

LEMMA AddFollowed ==
    ASSUME TypeOK, TypeOK', Followed, DoAdd,
           NEW e, e = Head(todo).event,
           NEW f, f = FocussedIn(e.wid)
    PROVE  ToldOK' /\ LastTold' /\ Released'
<1>1. /\ At("add") /\ UNCHANGED <<lastEvent, focussedWindow, told, left>>
      /\ e \in Event
  BY HeadIsEvent DEF DoAdd, followers
<1>2. /\ todo' \in Seq(Todo)
      /\ \A i \in Places' :
           /\ todo'[i].step = "insert" => todo'[i].event.wid = e.wid
           /\ InAt(i)' => /\ e.wid # NoWid
                          /\ todo'[i].event.uri = e.uri
                          /\ Focussed(e, f) = e.uri
           /\ OutAt(i)' => /\ e.wid # NoWid
                           /\ todo'[i].event.uri = e.uri
                           /\ Focussed(e, f) = Without(f, e.uri)
                           /\ ~InAt(i)'
           /\ Inserts(i, "Closed")' =>
                 /\ todo'[i].event = e
                 /\ \/ f # e.uri
                    \/ /\ i = 2
                       /\ todo'[1] = Insert(DeriveWithType(e, "FocussedOut"))
      /\ e.wid # NoWid /\ (\A i \in Places' : ~InAt(i)' /\ ~OutAt(i)') =>
           Focussed(e, f) = f
      /\ e.wid # NoWid => At("insert")' /\ Head(todo').event.type # "FocussedIn"
  <2>1. ASSUME NEW i \in Places', OutAt(i)' PROVE ~InAt(i)'
    BY <2>1 DEF InAt, OutAt, Inserts
  <2>2. Alone
    BY DEF Followed, InOrder
  <2> HIDE DEF InAt, OutAt, Inserts, Places
  <2>3. QED BY <2>1, <2>2, AddedSteps
<1>3. /\ \A w : w # e.wid => FocussedIn(w)' = FocussedIn(w)
      /\ \A w : w \in DOMAIN windows => w \in DOMAIN windows'
      /\ \A w : w \in DOMAIN windows' => w \in DOMAIN windows \/ w = e.wid
      /\ e.wid # NoWid => e.wid \in DOMAIN windows' /\ FocussedIn(e.wid)' = Focussed(e, f)
      /\ e.wid = NoWid => \A w : FocussedIn(w)' = FocussedIn(w)
  BY AddedWindows
<1>4. \A w \in Wid \cup {NoWid} : Fits(w, told[w])
  BY <1>1, NothingPending
<1>5. e.wid \in Wid \cup {NoWid} /\ e.uri # NoUri
  BY <1>1, NothingAssumption DEF Event
<1>6. ASSUME NEW w \in Wid \cup {NoWid}, \A i \in Places' : ~FocusAt(i, w)'
      PROVE  Fits(w, told[w])'
  <2>1. FocussedIn(w)' = FocussedIn(w)
    <3>1. CASE w # e.wid \/ e.wid = NoWid
      BY <1>3, <3>1
    <3>2. CASE w = e.wid /\ e.wid # NoWid
      <4>1. \A i \in Places' : ~InAt(i)' /\ ~OutAt(i)'
        BY <1>2, <1>6, <3>2 DEF FocusAt, InAt, OutAt, Inserts
      <4>2. QED BY <1>2, <1>3, <3>2, <4>1
    <3>3. QED BY <3>1, <3>2
  <2>2. QED BY <1>1, <1>4, <2>1 DEF Fits
<1>7. ASSUME NEW i \in Places', NEW w \in Wid \cup {NoWid}, FocusAt(i, w)'
      PROVE  /\ w \in DOMAIN windows'
             /\ InAt(i)' => todo'[i].event.uri = FocussedIn(w)'
             /\ OutAt(i)' => Fits(w, Without(told[w], todo[i].event.uri))'
  <2>1. w = e.wid /\ e.wid # NoWid
    BY <1>2, <1>7 DEF FocusAt, InAt, OutAt, Inserts
  <2>2. InAt(i)' => todo'[i].event.uri = FocussedIn(w)'
    BY <1>2, <1>3, <2>1
  <2>3. ASSUME OutAt(i)' PROVE Fits(w, Without(told[w], todo[i].event.uri))'
    <3>1. todo'[i].event.uri = e.uri /\ FocussedIn(w)' = Without(f, e.uri)
      BY <1>2, <1>3, <2>1, <2>3
    <3>2. \/ told[w] = f
          \/ told[w] = NoUri /\ w # focussedWindow
          \/ w \in left /\ f = NoUri
      BY <1>4, <2>1 DEF Fits
    <3>3. \/ Without(told'[w], todo'[i].event.uri) = FocussedIn(w)'
          \/ /\ Without(told'[w], todo'[i].event.uri) = NoUri
             /\ w # focussedWindow'
          \/ w \in left' /\ FocussedIn(w)' = NoUri
      BY <1>1, <3>1, <3>2 DEF Without
    <3>4. QED BY <3>3 DEF Fits
  <2>4. QED BY <1>3, <2>1, <2>2, <2>3
<1>8. ToldOK'
  <2> HIDE DEF Fits, FocusAt, InAt, OutAt, Places
  <2>1. QED BY <1>6, <1>7 DEF ToldOK
<1>9. LastTold'
  <2>1. ~At("insert")
    BY <1>1, NothingPending
  <2>2. NoWid \notin DOMAIN windows'
    BY NothingAssumption DEF TypeOK
  <2> HIDE DEF At
  <2>3. lastEvent.type = "FocussedIn" =>
          \/ told[lastEvent.wid] = lastEvent.uri
          \/ lastEvent.wid \notin DOMAIN windows'
          \/ At("insert")' /\ Head(todo').event.type # "FocussedIn"
    BY <1>2, <1>3, <2>1, <2>2 DEF Followed, LastTold
  <2>4. QED BY <1>1, <2>3 DEF Followed, LastTold
<1>10. ASSUME NEW i \in Places', Inserts(i, "Closed")'
       PROVE  \/ told'[todo'[i].event.wid] # todo'[i].event.uri
              \/ todo'[i].event.wid \in left'
              \/ i = 2 /\ todo'[1] = Insert(DeriveWithType(todo'[2].event, "FocussedOut"))
  <2>1. told[e.wid] = f \/ told[e.wid] = NoUri \/ e.wid \in left
    BY <1>4, <1>5 DEF Fits
  <2>2. QED BY <1>1, <1>2, <1>5, <1>10, <2>1
<1>11. Released'
  BY <1>10 DEF Released
<1>12. QED BY <1>8, <1>9, <1>11

(* The window manager and programs come when nothing is left to do.          *)
LEMMA BegunFollowed ==
    ASSUME TypeOK, Followed, Begin(todo'),
           UNCHANGED <<lastEvent, windows, told, left>>,
           \A i \in Places' : ~Inserts(i, "Closed")'
    PROVE  /\ \A w \in Wid \cup {NoWid} : Fits(w, told[w])
           /\ \A w : FocussedIn(w)' = FocussedIn(w)
           /\ LastTold' /\ Released'
<1>1. todo = <<>>
  BY DEF Begin
<1>2. /\ \A w \in Wid \cup {NoWid} : Fits(w, told[w])
      /\ ~At("insert")
  BY <1>1, NothingPending
<1>3. LastTold'
  BY <1>2 DEF Followed, LastTold
<1>4. QED BY <1>2, <1>3 DEF Released, FocussedIn

LEMMA RegisterFollowed ==
    ASSUME TypeOK, Followed, NEW e \in Inputs, RegisterResourceEvent(e)
    PROVE  ToldOK' /\ LastTold' /\ Released'
<1>1. /\ Begin(<<Add(e)>>) /\ todo' = <<Add(e)>>
      /\ UNCHANGED <<lastEvent, windows, focussedWindow, told, left>>
  BY DEF RegisterResourceEvent, Begin, queue, desktop, followers
<1>2. \A i \in Places' : todo'[i].step # "insert"
  <2>1. Add(e).step = "add"
    BY DEF Add
  <2>2. QED BY <1>1, <2>1 DEF Places
<1>3. \A i \in Places' : ~Inserts(i, "Closed")' /\ \A w : ~FocusAt(i, w)'
  BY <1>2 DEF Inserts, FocusAt, InAt, OutAt
<1>4. /\ \A w \in Wid \cup {NoWid} : Fits(w, told[w])
      /\ \A w : FocussedIn(w)' = FocussedIn(w)
      /\ LastTold' /\ Released'
  BY <1>1, <1>3, BegunFollowed DEF Begin
<1>5. ToldOK'
  <2>1. \A w \in Wid \cup {NoWid} : Fits(w, told[w])'
    BY <1>1, <1>4 DEF Fits
  <2> HIDE DEF Fits, FocusAt, Places
  <2>2. QED BY <1>3, <2>1 DEF ToldOK
<1>6. QED BY <1>4, <1>5

LEMMA ClosedFollowed ==
    ASSUME TypeOK, Followed, NEW x \in Wid, WindowClosed(x)
    PROVE  ToldOK' /\ LastTold' /\ Released'
<1>1. /\ Begin(<<RemoveWindow(x)>>) /\ todo' = <<RemoveWindow(x)>>
      /\ UNCHANGED <<lastEvent, windows, told, left>>
      /\ focussedWindow' \in {focussedWindow, NoWid}
  BY DEF WindowClosed, Begin, queue, followers
<1>2. \A i \in Places' : todo'[i].step # "insert"
  <2>1. RemoveWindow(x).step = "remove"
    BY DEF RemoveWindow
  <2>2. QED BY <1>1, <2>1 DEF Places
<1>3. \A i \in Places' : ~Inserts(i, "Closed")' /\ \A w : ~FocusAt(i, w)'
  BY <1>2 DEF Inserts, FocusAt, InAt, OutAt
<1>4. /\ \A w \in Wid \cup {NoWid} : Fits(w, told[w])
      /\ \A w : FocussedIn(w)' = FocussedIn(w)
      /\ LastTold' /\ Released'
  BY <1>1, <1>3, BegunFollowed DEF Begin
<1>5. FocussedIn(NoWid) = NoUri
  BY FocusIsTyped, NothingAssumption
<1>6. ToldOK'
  <2>1. \A w \in Wid \cup {NoWid} : Fits(w, told[w])'
    BY <1>1, <1>4, <1>5 DEF Fits
  <2> HIDE DEF Fits, FocusAt, Places
  <2>2. QED BY <1>3, <2>1 DEF ToldOK
<1>7. QED BY <1>4, <1>6

LEMMA ChangedFollowed ==
    ASSUME TypeOK, Followed, NEW y \in Wid \cup {NoWid}, ActiveWindowChanged(y),
           NEW x, x = focussedWindow
    PROVE  ToldOK' /\ LastTold' /\ Released'
<1>1. /\ todo' = FocusEvent(x, "FocussedOut") \o FocusEvent(y, "FocussedIn")
      /\ Begin(todo') /\ y # x /\ focussedWindow' = y
      /\ UNCHANGED <<lastEvent, windows, told, left>>
  BY DEF ActiveWindowChanged, Begin, queue, followers
<1>2. /\ \A i \in Places' :
           /\ ~Inserts(i, "Closed")'
           /\ InAt(i)' => /\ todo'[i].event.wid = y
                          /\ todo'[i].event.uri = FocussedIn(y)
                          /\ FocussedIn(y) # NoUri
           /\ OutAt(i)' => /\ todo'[i].event.wid = x
                           /\ todo'[i].event.uri = FocussedIn(x)
                           /\ FocussedIn(x) # NoUri
      /\ FocussedIn(y) # NoUri => \E i \in Places' : InAt(i)'
      /\ FocussedIn(x) # NoUri => \E i \in Places' : OutAt(i)'
  BY <1>1, ChangedSteps, ZenonT(60)
<1>3. /\ \A w \in Wid \cup {NoWid} : Fits(w, told[w])
      /\ \A w : FocussedIn(w)' = FocussedIn(w)
      /\ LastTold' /\ Released'
  BY <1>1, <1>2, BegunFollowed
<1>4. ASSUME NEW w \in Wid \cup {NoWid}, \A i \in Places' : ~FocusAt(i, w)'
      PROVE  Fits(w, told[w])'
  <2>1. \A i \in Places' : /\ InAt(i)' => FocusAt(i, y)'
                           /\ OutAt(i)' => FocusAt(i, x)'
    BY <1>2 DEF FocusAt
  <2>2. (w = y => FocussedIn(w) = NoUri) /\ (w = x => FocussedIn(w) = NoUri)
    BY <1>2, <1>4, <2>1
  <2>3. \/ told[w] = FocussedIn(w) \/ (told[w] = NoUri /\ w # x)
        \/ w \in left /\ FocussedIn(w) = NoUri
    BY <1>3 DEF Fits
  <2>4. \/ told[w] = FocussedIn(w) \/ (told[w] = NoUri /\ w # y)
        \/ w \in left /\ FocussedIn(w) = NoUri
    BY <2>2, <2>3
  <2>5. QED BY <1>1, <1>3, <2>4 DEF Fits
<1>5. ASSUME NEW i \in Places', NEW w \in Wid \cup {NoWid}, FocusAt(i, w)'
      PROVE  /\ w \in DOMAIN windows'
             /\ InAt(i)' => todo'[i].event.uri = FocussedIn(w)'
             /\ OutAt(i)' => Fits(w, Without(told[w], todo[i].event.uri))'
  <2>1. (InAt(i)' \/ OutAt(i)') /\ todo'[i].event.wid = w
    BY <1>5 DEF FocusAt
  <2>2. FocussedIn(w) # NoUri
    BY <1>2, <2>1
  <2>3. w \in DOMAIN windows
    BY <2>2, FocusIsTyped
  <2>4. InAt(i)' => todo'[i].event.uri = FocussedIn(w)'
    BY <1>2, <1>3, <2>1
  <2>5. ASSUME OutAt(i)' PROVE Fits(w, Without(told[w], todo[i].event.uri))'
    <3>1. w = x /\ todo'[i].event.uri = FocussedIn(x)
      BY <1>2, <2>1, <2>5
    <3>2. told[x] = FocussedIn(x)
      BY <1>3, <2>2, <3>1 DEF Fits
    <3>3. Without(told'[w], todo'[i].event.uri) = NoUri
      BY <1>1, <3>1, <3>2 DEF Without
    <3>4. QED BY <1>1, <3>1, <3>3 DEF Fits
  <2>6. QED BY <1>1, <2>3, <2>4, <2>5
<1>6. ToldOK'
  <2> HIDE DEF Fits, FocusAt, InAt, OutAt, Places
  <2>1. QED BY <1>4, <1>5 DEF ToldOK
<1>7. QED BY <1>3, <1>6

LEMMA FollowedStays == TypeOK /\ TypeOK' /\ Followed /\ [Next]_vars => Followed'
<1> SUFFICES ASSUME TypeOK, TypeOK', Followed, [Next]_vars PROVE Followed'
  OBVIOUS
<1>1. InOrder'
  BY OrderIsKept DEF Followed
<1>2. CASE Step
  BY <1>1, <1>2, InsertFollowed, StartFollowed, AddFollowed, RemoveFollowed
     DEF Step, Followed
<1>3. CASE UNCHANGED <<todo, windows, focussedWindow, told, left, lastEvent>>
  <2>1. ToldOK'
    BY <1>3 DEF Followed, ToldOK, Places, FocusAt, InAt, OutAt, Inserts, Fits, FocussedIn
  <2>2. LastTold' /\ Released'
    BY <1>3 DEF Followed, LastTold, Released, Places, Inserts, At
  <2>3. QED BY <1>1, <2>1, <2>2 DEF Followed
<1>4. CASE Worker \/ RequestInterruption \/ UNCHANGED vars
  BY <1>3, <1>4
     DEF Worker, HandOver, Take, End, RequestInterruption, vars, queue, desktop,
         followers
<1>5. CASE Call
  BY <1>1, <1>4, <1>5, RegisterFollowed, ClosedFollowed, ChangedFollowed
     DEF Call, Followed
<1>6. QED BY <1>2, <1>4, <1>5 DEF Next

LEMMA FollowedInit == Init => Followed
<1> SUFFICES ASSUME Init PROVE Followed
  OBVIOUS
<1>1. Places = {}
  BY DEF Init, Places
<1>2. \A w : FocussedIn(w) = NoUri
  BY DEF Init, FocussedIn
<1>3. InOrder /\ Released
  BY <1>1 DEF InOrder, Alone, OutFirst, Released
<1>4. ToldOK
  BY <1>1, <1>2 DEF Init, ToldOK, Fits
<1>5. LastTold
  BY DEF Init, LastTold, NoEvent
<1>6. QED BY <1>3, <1>4, <1>5 DEF Followed

LEMMA AlwaysFollowed == Spec => [](TypeOK /\ Followed)
<1>1. TypeOK /\ Followed /\ [Next]_vars => (TypeOK /\ Followed)'
  BY TypeStays, FollowedStays
<1>2. QED BY <1>1, InitTyped, FollowedInit, PTL DEF Spec

(* A resource is told to be closed in a window only after it was told to be  *)
(* out of focus there, although the event that would say so may be dropped   *)
(* for being like the last one (Resources.cpp:88-127, 170-182).              *)
THEOREM FocusIsReleased == Spec => []ReleasedBeforeClosed
<1>1. TypeOK /\ Followed => ReleasedBeforeClosed
  <2> SUFFICES ASSUME TypeOK, Followed, At("insert"), Head(todo).event.type = "Closed"
               PROVE  \/ told[Head(todo).event.wid] # Head(todo).event.uri
                      \/ Head(todo).event.wid \in left
    BY DEF ReleasedBeforeClosed
  <2>1. Head(todo) = todo[1] /\ Len(todo) \in Nat \ {0} /\ todo[1].step = "insert"
    BY HeadIsEvent DEF At
  <2>2. 1 \in Places /\ Inserts(1, "Closed")
    BY <2>1 DEF Places, Inserts
  <2>3. QED BY <2>1, <2>2 DEF Followed, Released
<1>2. QED BY <1>1, AlwaysFollowed, PTL

(* Who follows the events knows, when all that was called has been done,     *)
(* what is in focus in the active window, and takes nothing to be in focus   *)
(* in a window that has given it up, unless that was closed with it in focus *)
(* and nothing was told of it since (Resources.cpp:136-197, 211-262).        *)
THEOREM FollowersKnowTheFocus == Spec => []FocusIsTold
<1>1. TypeOK /\ Followed => FocusIsTold
  <2> SUFFICES ASSUME TypeOK, Followed, todo = <<>>, NEW w \in Wid
               PROVE  Fits(w, told[w])
    BY DEF FocusIsTold, Fits
  <2>1. QED BY NothingPending
<1>2. QED BY <1>1, AlwaysFollowed, PTL

-----------------------------------------------------------------------------
(* The plugin that listens.                                                  *)
(*                                                                           *)
(* It sees the events that are emitted and nothing else, so that what it has *)
(* in focus is said, like what is told, of the steps that are left: the      *)
(* event that is still to come makes it right.                               *)

SlcTypeOK == focussedResource \in Uri \cup {NoUri} /\ strayed \in BOOLEAN

(* An event that is dropped for being like the last one shows nothing new.   *)
LastShown == /\ lastEvent.type = "FocussedIn" => focussedResource = Shown(lastEvent.uri)
             /\ lastEvent.type = "FocussedOut" => focussedResource # lastEvent.uri

(* The windows closed in focus, with the one that is being removed.          *)
Gone == left \cup IF At("remove") /\ told[Head(todo).wid] # NoUri
                  THEN {Head(todo).wid} ELSE {}

(* What the plugin may have in focus with the active window as it is.        *)
Right(r) == \/ r = Shown(FocussedIn(focussedWindow))
            \/ /\ FocussedIn(focussedWindow) = NoUri
               /\ \E w \in Gone : r = Shown(told[w])

ShownThen ==
    /\ (\A i \in Places : ~InAt(i) /\ ~OutAt(i)) => Right(focussedResource)
    /\ \A i \in Places : InAt(i) => todo[i].event.wid = focussedWindow
    /\ \A i \in Places :
          OutAt(i) /\ (\A j \in Places : ~InAt(j)) =>
             Right(Without(focussedResource, todo[i].event.uri))

Shows == ~strayed => ShownThen

Shared == SlcTypeOK /\ LastShown /\ Shows

(* As long as no window is being removed, only the active window and what    *)
(* was told of closed ones count.                                            *)
LEMMA GoneStays ==
    ASSUME ~At("remove"), ~At("remove")',
           UNCHANGED <<told, left, focussedWindow>>,
           FocussedIn(focussedWindow)' = FocussedIn(focussedWindow)
    PROVE  \A r : Right(r) => Right(r)'
BY DEF Right, Gone, Shown

LEMMA ShownWithout ==
    ASSUME NEW u
    PROVE  /\ Shown(NoUri) = NoUri
           /\ Without(Shown(u), u) = NoUri
           /\ \A v : v # NoUri => Without(Shown(u), v) = Shown(Without(u, v))
BY DEF Shown, Without

(* What the plugin has in focus after an event that is put in the queue or   *)
(* dropped.                                                                  *)
LEMMA InsertShows ==
    ASSUME TypeOK, Followed, Shared, DoInsert, SlcStep, NEW e, e = Head(todo).event
    PROVE  /\ focussedResource' = IF e.type = "FocussedIn" THEN Shown(e.uri)
                                  ELSE IF e.type = "FocussedOut"
                                       THEN Without(focussedResource, e.uri)
                                  ELSE focussedResource
           /\ strayed' = (strayed /\ ~(/\ e.type = "FocussedIn"
                                       /\ e.wid = focussedWindow))
<1>1. At("insert") /\ todo # <<>> /\ todo \in Seq(Todo) /\ Then(<<>>)
  BY DEF DoInsert, At, TypeOK
<1>2. todo' # todo
  <2>1. Len(todo') = Len(todo) - 1 /\ Len(todo) \in Nat \ {0}
    BY <1>1, Popped
  <2>2. QED BY <2>1
<1>3. strayed' = (strayed /\ ~(e.type = "FocussedIn" /\ e.wid = focussedWindow))
  BY <1>1, <1>2, Zenon DEF SlcStep, Strays
<1>4. focussedResource' = IF events' # events
                          THEN IF e.type = "FocussedIn" THEN Shown(e.uri)
                               ELSE IF e.type = "FocussedOut"
                                    THEN Without(focussedResource, e.uri)
                               ELSE focussedResource
                          ELSE focussedResource
  <2>1. CASE events' = events
    BY <2>1 DEF SlcStep, Emits
  <2>2. CASE events' # events
    <3>1. RegisteredResourceEvent(e)
      BY <1>1, <1>2, <2>2 DEF SlcStep, Emits
    <3>2. QED BY <2>2, <3>1 DEF RegisteredResourceEvent, Without
  <2>3. QED BY <2>1, <2>2
<1>5. events' = events => lastEvent = e
  <2>1. e \in Event /\ events \in Seq(Event)
    BY <1>1, HeadIsEvent DEF TypeOK
  <2>2. Append(events, e) # events
    BY <2>1, AppendProperties
  <2>3. QED BY <2>2 DEF DoInsert
<1>6. lastEvent = e =>
        /\ e.type = "FocussedIn" => focussedResource = Shown(e.uri)
        /\ e.type = "FocussedOut" => focussedResource # e.uri
  BY DEF Shared, LastShown
<1>7. QED BY <1>3, <1>4, <1>5, <1>6 DEF Without

LEMMA InsertShared ==
    ASSUME TypeOK, Followed, Shared, DoInsert, SlcStep,
           NEW e, e = Head(todo).event
    PROVE  Shared'
<1>1. /\ focussedResource' = IF e.type = "FocussedIn" THEN Shown(e.uri)
                             ELSE IF e.type = "FocussedOut"
                                  THEN Without(focussedResource, e.uri)
                             ELSE focussedResource
      /\ strayed' = (strayed /\ ~(/\ e.type = "FocussedIn"
                                  /\ e.wid = focussedWindow))
  BY InsertShows
<1>2. /\ e.wid \in Wid \cup {NoWid} /\ e.uri \in Uri /\ e.uri # NoUri
      /\ lastEvent' = e
      /\ \A w \in Wid \cup {NoWid} :
           told'[w] = IF e.wid # w THEN told[w]
                      ELSE IF e.type = "FocussedIn" THEN e.uri
                      ELSE IF e.type = "FocussedOut" THEN Without(told[w], e.uri)
                      ELSE told[w]
      /\ \A w : w \in left => \/ w \in left'
                               \/ /\ e.wid = w
                                  /\ \/ e.type = "FocussedIn"
                                     \/ e.type = "FocussedOut" /\ told[w] = e.uri
  BY InsertTells, NothingAssumption
<1>3. /\ 1 \in Places /\ todo[1].event = e /\ todo[1].step = "insert"
      /\ \A i \in Places' : /\ i \in Nat \ {0} /\ i + 1 \in Places /\ 1 < i + 1
                            /\ todo'[i] = todo[i + 1]
      /\ \A j \in Places : j = 1 \/ \E i \in Places' : j = i + 1
  <2>1. todo # <<>> /\ Then(<<>>) /\ Head(todo).step = "insert"
    BY DEF DoInsert, At
  <2>2. QED BY <2>1, PlacesMove
<1>4. /\ UNCHANGED <<windows, focussedWindow>>
      /\ \A w : FocussedIn(w)' = FocussedIn(w)
  BY DEF DoInsert, desktop, FocussedIn
<1>5. \A i \in Places' : /\ InAt(i)' <=> InAt(i + 1)
                         /\ OutAt(i)' <=> OutAt(i + 1)
                         /\ todo'[i].event = todo[i + 1].event
                         /\ todo'[i].step = todo[i + 1].step
  BY <1>3 DEF InAt, OutAt, Inserts
<1>6. (InAt(1) <=> e.type = "FocussedIn") /\ (OutAt(1) <=> e.type = "FocussedOut")
  BY <1>3 DEF InAt, OutAt, Inserts
<1>7. \A i \in Places' : /\ InAt(1) => ~InAt(i)' /\ ~OutAt(i)'
                         /\ OutAt(1) => ~OutAt(i)'
  <2>1. \A i \in Places' : /\ InAt(1) => todo[i + 1].step = "start"
                           /\ OutAt(1) => ~OutAt(i + 1)
    BY <1>3 DEF Followed, InOrder, OutFirst
  <2>2. QED BY <1>5, <2>1 DEF InAt, OutAt, Inserts
<1>8. InAt(1) => e.uri = FocussedIn(e.wid)
  BY <1>2, <1>3 DEF Followed, ToldOK, FocusAt
<1>9. SlcTypeOK'
  <2>1. focussedResource' \in Uri \cup {NoUri}
    BY <1>1, <1>2 DEF Shared, SlcTypeOK, Shown, Without
  <2>2. strayed' \in BOOLEAN
    BY <1>1, Zenon
  <2>3. QED BY <2>1, <2>2 DEF SlcTypeOK
<1>10. LastShown'
  BY <1>1, <1>2 DEF LastShown, Without
<1>11. ~At("remove") /\ left \subseteq Wid
  BY DEF DoInsert, At, TypeOK
<1>12. ASSUME ~InAt(1), NEW r, r # e.uri \/ ~OutAt(1), Right(r) PROVE Right(r)'
  <2>1. CASE r = Shown(FocussedIn(focussedWindow))
    BY <1>4, <2>1 DEF Right, Shown
  <2>2. CASE r # Shown(FocussedIn(focussedWindow))
    <3>1. FocussedIn(focussedWindow) = NoUri /\ Gone = left
      BY <1>11, <1>12, <2>2 DEF Right, Gone
    <3>2. PICK w \in left : r = Shown(told[w])
      BY <1>12, <2>2, <3>1 DEF Right
    <3>3. CASE w \in left' /\ told'[w] = told[w]
      BY <1>4, <3>1, <3>2, <3>3 DEF Right, Gone, Shown
    <3>4. CASE ~(w \in left' /\ told'[w] = told[w])
      <4>1. e.type = "FocussedOut" /\ told[w] = e.uri
        BY <1>2, <1>6, <1>11, <1>12, <3>4 DEF Without
      <4>2. r = NoUri
        BY <1>6, <1>12, <3>2, <4>1 DEF Shown
      <4>3. QED BY <2>2, <3>1, <4>2 DEF Shown
    <3>5. QED BY <3>3, <3>4
  <2>3. QED BY <2>1, <2>2
<1>13. Shows'
  <2> SUFFICES ASSUME ~strayed' PROVE ShownThen'
    BY DEF Shows
  <2>1. CASE InAt(1) /\ e.wid = focussedWindow
    <3>1. focussedResource' = Shown(FocussedIn(focussedWindow))'
      BY <1>1, <1>4, <1>6, <1>8, <2>1 DEF Shown
    <3>2. Right(focussedResource)'
      BY <3>1 DEF Right
    <3> HIDE DEF InAt, OutAt, Places, Right
    <3>3. QED BY <1>7, <2>1, <3>2 DEF ShownThen
  <2>2. CASE ~(InAt(1) /\ e.wid = focussedWindow)
    <3>1. ~strayed
      BY <1>1, <1>6, <2>2, Zenon
    <3>2. ShownThen
      BY <3>1 DEF Shared, Shows
    <3>3. ~InAt(1)
      BY <1>3, <2>2, <3>2 DEF ShownThen
    <3>4. focussedResource' = IF OutAt(1) THEN Without(focussedResource, e.uri)
                              ELSE focussedResource
      BY <1>1, <1>6, <3>3
    <3>5. ASSUME \A i \in Places' : ~InAt(i)' /\ ~OutAt(i)'
          PROVE  Right(focussedResource)'
      <4>1. \A j \in Places : j = 1 \/ (~InAt(j) /\ ~OutAt(j))
        BY <1>3, <1>5, <3>5
      <4>2. CASE OutAt(1)
        <5>1. \A j \in Places : ~InAt(j)
          BY <3>3, <4>1
        <5>2. Right(Without(focussedResource, e.uri))
          BY <1>3, <3>2, <4>2, <5>1 DEF ShownThen
        <5>3. Without(focussedResource, e.uri) # e.uri
          BY <1>2 DEF Without
        <5>4. PICK q : q = Without(focussedResource, e.uri)
          OBVIOUS
        <5>5. Right(q) /\ q # e.uri
          BY <5>2, <5>3, <5>4
        <5>6. Right(q)'
          BY <1>12, <3>3, <5>5
        <5>7. focussedResource' = q
          BY <3>4, <4>2, <5>4
        <5>8. QED BY <5>6, <5>7 DEF Right
      <4>3. CASE ~OutAt(1)
        <5>1. \A j \in Places : ~InAt(j) /\ ~OutAt(j)
          BY <3>3, <4>1, <4>3
        <5>2. PICK q : q = focussedResource
          OBVIOUS
        <5>3. Right(q)
          BY <3>2, <5>1, <5>2 DEF ShownThen
        <5>4. Right(q)'
          BY <1>12, <3>3, <4>3, <5>3
        <5>5. focussedResource' = q
          BY <3>4, <4>3, <5>2
        <5>6. QED BY <5>4, <5>5 DEF Right
      <4>4. QED BY <4>2, <4>3
    <3>6. ASSUME NEW i \in Places', InAt(i)' PROVE todo'[i].event.wid = focussedWindow'
      BY <1>3, <1>4, <1>5, <3>2, <3>6 DEF ShownThen
    <3>7. ASSUME NEW i \in Places', OutAt(i)', \A j \in Places' : ~InAt(j)'
          PROVE  Right(Without(focussedResource, todo[i].event.uri))'
      <4>1. ~OutAt(1) /\ OutAt(i + 1) /\ i + 1 \in Places
        BY <1>3, <1>5, <1>7, <3>7
      <4>2. \A j \in Places : ~InAt(j)
        BY <1>3, <1>5, <3>3, <3>7
      <4>3. PICK q : q = Without(focussedResource, todo[i + 1].event.uri)
        OBVIOUS
      <4>4. Right(q)
        BY <3>2, <4>1, <4>2, <4>3 DEF ShownThen
      <4>5. Right(q)'
        BY <1>12, <3>3, <4>1, <4>4
      <4>6. Without(focussedResource', todo'[i].event.uri) = q
        BY <1>5, <3>4, <4>1, <4>3
      <4>7. QED BY <4>5, <4>6 DEF Right, Without
    <3> HIDE DEF InAt, OutAt, Places, Without, Right
    <3>8. QED BY <3>5, <3>6, <3>7 DEF ShownThen, Without
  <2>3. QED BY <2>1, <2>2
<1>14. QED BY <1>9, <1>10, <1>13 DEF Shared

(* The plugin sees nothing of the other steps.                               *)
LEMMA NothingShown ==
    ASSUME SlcStep, ~At("insert"), SlcTypeOK
    PROVE  /\ focussedResource' = focussedResource
           /\ strayed' \in BOOLEAN
           /\ ~strayed' => ~strayed
           /\ At("add") /\ todo' # todo /\ ~strayed' =>
                Head(todo).event.wid \in {NoWid, focussedWindow}
           /\ ~At("add") => strayed' = strayed
           /\ SlcTypeOK'
<1>1. focussedResource' = focussedResource
  BY DEF SlcStep, Emits
<1>2. strayed' = (\/ strayed
                  \/ /\ At("add") /\ todo' # todo
                     /\ Head(todo).event.wid \notin {NoWid, focussedWindow})
  BY DEF SlcStep, Strays
<1>3. strayed' \in BOOLEAN /\ strayed \in BOOLEAN
  BY <1>2, Zenon DEF SlcTypeOK
<1>4. ~strayed' => ~strayed
  BY <1>2, Zenon
<1>5. At("add") /\ todo' # todo /\ ~strayed' =>
        Head(todo).event.wid \in {NoWid, focussedWindow}
  BY <1>2, Zenon
<1>6. ~At("add") => strayed' = strayed
  BY <1>2, <1>3
<1>7. QED BY <1>1, <1>3, <1>4, <1>5, <1>6 DEF SlcTypeOK

LEMMA StartShared ==
    ASSUME TypeOK, Followed, Shared, DoStart, SlcStep PROVE Shared'
<1>1. /\ 1 \in Places /\ todo[1].step = "start"
      /\ \A i \in Places' : i + 1 \in Places /\ todo'[i] = todo[i + 1]
      /\ \A j \in Places : j = 1 \/ \E i \in Places' : j = i + 1
      /\ ~At("insert") /\ ~At("add") /\ ~At("remove")
  <2>1. todo # <<>> /\ Then(<<>>) /\ Head(todo).step = "start"
    BY DEF DoStart, At
  <2>2. QED BY <2>1, PlacesMove DEF At
<1>2. UNCHANGED <<windows, focussedWindow, lastEvent, told, left>>
  BY DEF DoStart, desktop, queue, followers
<1>3. focussedResource' = focussedResource /\ strayed' = strayed /\ SlcTypeOK'
  BY <1>1, NothingShown DEF Shared
<1>4. \A i \in Places' : /\ InAt(i)' <=> InAt(i + 1)
                         /\ OutAt(i)' <=> OutAt(i + 1)
                         /\ todo'[i].event = todo[i + 1].event
                         /\ todo'[i].step = todo[i + 1].step
  BY <1>1 DEF InAt, OutAt, Inserts
<1>5. ~InAt(1) /\ ~OutAt(1) /\ todo[1].step # "remove"
  BY <1>1 DEF InAt, OutAt, Inserts
<1>6. LastShown'
  BY <1>2, <1>3 DEF Shared, LastShown
<1>7. \A r : Right(r) => Right(r)'
  <2>1. ~At("remove")'
    <3>1. todo' # <<>> => 1 \in Places' /\ Head(todo') = todo'[1]
      <4>1. todo' \in Seq(Todo)
        BY <1>1, Popped DEF DoStart, At, TypeOK
      <4>2. QED BY <4>1, HeadTailProperties, EmptySeq DEF Places
    <3>2. \A j \in Places : j # 1 => todo[j].step # "remove"
      <4>1. \A j \in Places : todo[j].step = "remove" => Len(todo) = 1
        BY DEF Followed, InOrder, Alone
      <4>2. QED BY <4>1 DEF Places
    <3>3. \A i \in Places' : i + 1 # 1
      BY DEF Places
    <3>4. QED BY <1>1, <3>1, <3>2, <3>3 DEF At
  <2>2. FocussedIn(focussedWindow)' = FocussedIn(focussedWindow)
    BY <1>2 DEF FocussedIn
  <2>3. QED BY <1>1, <1>2, <2>1, <2>2, GoneStays
<1>8. ASSUME ~strayed' PROVE ShownThen'
  <2>1. ShownThen
    BY <1>3, <1>8 DEF Shared, Shows
  <2>2. (\A j \in Places' : ~InAt(j)') => \A j \in Places : ~InAt(j)
    BY <1>1, <1>4, <1>5
  <2>3. (\A j \in Places' : ~InAt(j)' /\ ~OutAt(j)') =>
          \A j \in Places : ~InAt(j) /\ ~OutAt(j)
    BY <1>1, <1>4, <1>5
  <2>4. ASSUME \A i \in Places' : ~InAt(i)' /\ ~OutAt(i)'
        PROVE  Right(focussedResource)'
    <3>1. PICK q : q = focussedResource
      OBVIOUS
    <3>2. Right(q)
      BY <2>1, <2>3, <2>4, <3>1 DEF ShownThen
    <3>3. QED BY <1>3, <1>7, <3>1, <3>2 DEF Right
  <2>5. \A i \in Places' : InAt(i)' => todo'[i].event.wid = focussedWindow'
    BY <1>1, <1>2, <1>4, <2>1 DEF ShownThen
  <2>6. ASSUME NEW i \in Places', OutAt(i)', \A j \in Places' : ~InAt(j)'
        PROVE  Right(Without(focussedResource, todo[i].event.uri))'
    <3>1. PICK q : q = Without(focussedResource, todo[i + 1].event.uri)
      OBVIOUS
    <3>2. Right(q)
      BY <1>1, <1>4, <2>1, <2>2, <2>6, <3>1 DEF ShownThen
    <3>3. Without(focussedResource', todo'[i].event.uri) = q
      BY <1>3, <1>4, <3>1
    <3>4. QED BY <1>7, <3>2, <3>3 DEF Right, Without
  <2> HIDE DEF InAt, OutAt, Places, Without, Right
  <2>7. QED BY <2>4, <2>5, <2>6 DEF ShownThen, Without
<1>9. QED BY <1>3, <1>6, <1>8 DEF Shared, Shows

LEMMA AddShared ==
    ASSUME TypeOK, Followed, Shared, DoAdd, SlcStep,
           NEW e, e = Head(todo).event,
           NEW f, f = FocussedIn(e.wid)
    PROVE  Shared'
<1>1. /\ At("add") /\ UNCHANGED <<lastEvent, focussedWindow, told, left>>
      /\ e \in Event /\ e.uri # NoUri
  BY HeadIsEvent, NothingAssumption DEF DoAdd, Event, followers
<1>2. /\ \A i \in Places' :
           /\ todo'[i].step \in {"insert", "start"}
           /\ todo'[i].step = "insert" => todo'[i].event.wid = e.wid
           /\ InAt(i)' => e.wid # NoWid
           /\ OutAt(i)' => /\ e.wid # NoWid
                           /\ todo'[i].event.uri = e.uri
                           /\ Focussed(e, f) = Without(f, e.uri)
      /\ e.wid # NoWid /\ (\A i \in Places' : ~InAt(i)' /\ ~OutAt(i)') =>
           Focussed(e, f) = f
  <2>1. Alone
    BY DEF Followed, InOrder
  <2> HIDE DEF InAt, OutAt, Inserts, Places
  <2>2. QED BY <2>1, AddedSteps
<1>3. /\ e.wid # NoWid => FocussedIn(e.wid)' = Focussed(e, f)
      /\ e.wid = NoWid => \A w : FocussedIn(w)' = FocussedIn(w)
  BY AddedWindows
<1>4. Len(todo) = 1 /\ Head(todo) = todo[1] /\ ~At("insert")
  BY <1>1, NothingPending, HeadIsEvent
<1>5. todo' # todo
  <2>1. 1 \in Places /\ todo[1].step = "add"
    BY <1>1, <1>4 DEF At, Places
  <2>2. todo' = todo => 1 \in Places' /\ todo'[1].step = "add"
    BY <2>1 DEF Places
  <2>3. QED BY <1>2, <2>2
<1>6. /\ focussedResource' = focussedResource /\ SlcTypeOK'
      /\ ~strayed' => ~strayed /\ e.wid \in {NoWid, focussedWindow}
  BY <1>1, <1>4, <1>5, NothingShown DEF Shared
<1>7. LastShown'
  BY <1>1, <1>6 DEF Shared, LastShown
<1>8. ~At("remove") /\ ~At("remove")'
  <2>1. todo' \in Seq(Todo)
    BY <1>1, AddedSteps DEF Followed, InOrder
  <2>2. todo' # <<>> => 1 \in Places' /\ Head(todo') = todo'[1]
    BY <2>1, HeadTailProperties, EmptySeq DEF Places
  <2>3. QED BY <1>1, <1>2, <2>2 DEF At
<1>9. ASSUME ~strayed' PROVE ShownThen'
  <2>1. PICK q : q = focussedResource
    OBVIOUS
  <2>2. Right(q)
    <3>1. \A i \in Places : todo[i].step = "add"
      BY <1>1, <1>4 DEF At, Places
    <3>2. \A i \in Places : ~InAt(i) /\ ~OutAt(i)
      BY <3>1 DEF InAt, OutAt, Inserts
    <3>3. QED BY <1>6, <1>9, <2>1, <3>2 DEF Shared, Shows, ShownThen
  <2>3. e.wid = NoWid \/ (e.wid # NoWid /\ e.wid = focussedWindow)
    BY <1>6, <1>9
  <2>4. ASSUME \A i \in Places' : ~InAt(i)' /\ ~OutAt(i)'
        PROVE  Right(focussedResource)'
    <3>1. FocussedIn(focussedWindow)' = FocussedIn(focussedWindow)
      BY <1>1, <1>2, <1>3, <2>3, <2>4 DEF FocussedIn
    <3>2. Right(q)'
      BY <1>1, <1>8, <2>2, <3>1, GoneStays
    <3>3. QED BY <1>6, <2>1, <3>2 DEF Right
  <2>5. ASSUME NEW i \in Places', InAt(i)' PROVE todo'[i].event.wid = focussedWindow'
    <3>1. e.wid # NoWid /\ todo'[i].step = "insert"
      BY <1>2, <2>5 DEF InAt, Inserts
    <3>2. QED BY <1>1, <1>2, <2>3, <3>1
  <2>6. ASSUME NEW i \in Places', OutAt(i)'
        PROVE  Right(Without(focussedResource, todo[i].event.uri))'
    <3>1. /\ e.wid # NoWid /\ todo'[i].event.uri = e.uri
          /\ Focussed(e, f) = Without(f, e.uri)
      BY <1>2, <2>6
    <3>2. e.wid = focussedWindow /\ f = FocussedIn(focussedWindow)
      BY <2>3, <3>1
    <3>3. FocussedIn(focussedWindow)' = Without(f, e.uri)
      BY <1>1, <1>3, <3>1, <3>2 DEF FocussedIn
    <3>4. Shown(FocussedIn(focussedWindow))' = Shown(Without(f, e.uri))
      BY <3>3 DEF Shown
    <3>5. Without(focussedResource', todo'[i].event.uri) = Without(q, e.uri)
      BY <1>6, <2>1, <3>1
    <3>6. CASE q = Shown(f)
      <4>1. Without(Shown(f), e.uri) = Shown(Without(f, e.uri))
        BY <1>1, ShownWithout
      <4>2. QED BY <3>4, <3>5, <3>6, <4>1 DEF Right, Without
    <3>7. CASE q # Shown(f)
      <4>1. f = NoUri /\ Gone = left /\ Gone' = left'
        BY <1>8, <2>2, <3>2, <3>7 DEF Right, Gone
      <4>2. PICK w \in left : q = Shown(told[w])
        BY <2>2, <3>2, <3>7, <4>1 DEF Right
      <4>3. FocussedIn(focussedWindow)' = NoUri /\ Shown(NoUri) = NoUri
        BY <3>3, <4>1, ShownWithout DEF Without
      <4>4. CASE q = e.uri
        <5>1. Without(focussedResource', todo'[i].event.uri) = NoUri
          BY <3>5, <4>4 DEF Without
        <5>2. QED BY <3>4, <4>1, <4>3, <5>1 DEF Right, Without
      <4>5. CASE q # e.uri
        <5>1. Without(focussedResource', todo'[i].event.uri) = Shown(told[w])
          BY <3>5, <4>2, <4>5 DEF Without
        <5>2. w \in Gone' /\ Shown(told[w])' = Shown(told[w])
          BY <1>1, <4>1, <4>2 DEF Shown
        <5>3. QED BY <1>1, <4>3, <5>1, <5>2 DEF Right, Without, Shown
      <4>6. QED BY <4>4, <4>5
    <3>8. QED BY <3>6, <3>7
  <2> HIDE DEF InAt, OutAt, Places, Without, Right
  <2>7. QED BY <2>4, <2>5, <2>6 DEF ShownThen, Without
<1>10. QED BY <1>6, <1>7, <1>9 DEF Shared, Shows

(* A window that is closed in focus is one more that followers still take to *)
(* have a resource in focus.                                                 *)
LEMMA RemoveShared ==
    ASSUME TypeOK, Followed, Shared, DoRemoveWindow, SlcStep PROVE Shared'
<1>0. PICK x : x = Head(todo).wid
  OBVIOUS
<1>1. /\ At("remove") /\ ~At("insert") /\ ~At("add") /\ todo # <<>>
      /\ UNCHANGED <<lastEvent, focussedWindow, told>>
      /\ windows' = [v \in DOMAIN windows \ {x} |-> windows[v]]
      /\ left' = Gone
  BY <1>0, NothingPending DEF DoRemoveWindow, queue, At, Gone
<1>2. focussedResource' = focussedResource /\ SlcTypeOK' /\ strayed' = strayed
  BY <1>1, NothingShown DEF Shared
<1>3. LastShown'
  BY <1>1, <1>2 DEF Shared, LastShown
<1>4. todo' = <<>> /\ Places' = {} /\ Gone' = Gone
  <2>1. todo' = <<>>
    BY <1>1, NothingPending DEF DoRemoveWindow, Then
  <2>2. QED BY <1>1, <2>1 DEF Places, Gone, At
<1>5. \A w \in Wid \cup {NoWid} : Fits(w, told[w])
  BY <1>1, NothingPending
<1>6. FocussedIn(x)' = NoUri /\ \A w : w # x => FocussedIn(w)' = FocussedIn(w)
  BY <1>1 DEF FocussedIn
<1>7. focussedWindow \in Wid \cup {NoWid} /\ Shown(NoUri) = NoUri
  BY ShownWithout DEF TypeOK
<1>8. ASSUME ~strayed' PROVE Right(focussedResource)'
  <2>1. Right(focussedResource)
    <3>1. \A i \in Places : todo[i].step = "remove"
      <4>1. Len(todo) = 1 /\ Head(todo) = todo[1]
        BY <1>1, NothingPending DEF TypeOK
      <4>2. QED BY <1>1, <4>1 DEF At, Places
    <3>2. \A i \in Places : ~InAt(i) /\ ~OutAt(i)
      BY <3>1 DEF InAt, OutAt, Inserts
    <3> HIDE DEF InAt, OutAt, Places
    <3>3. QED BY <1>2, <1>8, <3>2 DEF Shared, Shows, ShownThen
  <2>2. CASE focussedWindow # x
    <3>1. FocussedIn(focussedWindow)' = FocussedIn(focussedWindow)
      BY <1>1, <1>6, <2>2 DEF FocussedIn
    <3>2. QED BY <1>1, <1>2, <1>4, <2>1, <3>1 DEF Right, Shown
  <2>3. CASE focussedWindow = x
    <3>1. FocussedIn(focussedWindow)' = NoUri
      BY <1>1, <1>6, <2>3 DEF FocussedIn
    <3>2. CASE focussedResource = Shown(FocussedIn(x)) /\ FocussedIn(x) # NoUri
      <4>1. told[x] = FocussedIn(x)
        BY <1>5, <1>7, <2>3, <3>2 DEF Fits
      <4>2. x \in Gone
        BY <1>0, <1>1, <3>2, <4>1 DEF Gone
      <4>3. focussedResource' = Shown(told[x]) /\ x \in Gone'
        BY <1>2, <1>4, <3>2, <4>1, <4>2
      <4>4. Shown(told[x]) = Shown(told'[x])
        BY <1>1
      <4>5. QED BY <3>1, <4>3, <4>4 DEF Right, Shown
    <3>3. CASE focussedResource = Shown(FocussedIn(x)) /\ FocussedIn(x) = NoUri
      BY <1>2, <1>7, <3>1, <3>3 DEF Right, Shown
    <3>4. CASE focussedResource # Shown(FocussedIn(x))
      <4>1. \E w \in Gone : focussedResource = Shown(told[w])
        BY <2>1, <2>3, <3>4 DEF Right
      <4>2. QED BY <1>1, <1>2, <1>4, <3>1, <4>1 DEF Right, Shown
    <3>5. QED BY <3>2, <3>3, <3>4
  <2>4. QED BY <2>2, <2>3
<1>9. ASSUME ~strayed' PROVE ShownThen'
  <2> HIDE DEF Right
  <2>1. QED BY <1>4, <1>8, <1>9 DEF ShownThen
<1>10. QED BY <1>2, <1>3, <1>9 DEF Shared, Shows

(* What holds when the next call or signal comes.                            *)
LEMMA BegunShared ==
    ASSUME Shared, SlcStep, Begin(todo'), UNCHANGED lastEvent
    PROVE  /\ focussedResource' = focussedResource /\ strayed' = strayed
           /\ SlcTypeOK' /\ LastShown'
           /\ Gone = left
           /\ ~strayed => Right(focussedResource)
<1>1. todo = <<>> /\ ~At("insert") /\ ~At("add") /\ ~At("remove")
  BY DEF Begin, At
<1>2. focussedResource' = focussedResource /\ strayed' = strayed /\ SlcTypeOK'
  BY <1>1, NothingShown DEF Shared
<1>3. LastShown'
  BY <1>2 DEF Shared, LastShown
<1>4. Places = {}
  BY <1>1 DEF Places
<1>5. ~strayed => Right(focussedResource)
  BY <1>4 DEF Shared, Shows, ShownThen
<1>6. QED BY <1>1, <1>2, <1>3, <1>5 DEF Gone

LEMMA RegisterShared ==
    ASSUME TypeOK, Followed, Shared, SlcStep,
           NEW e \in Inputs, RegisterResourceEvent(e)
    PROVE  Shared'
<1>1. /\ Begin(todo') /\ todo' = <<Add(e)>>
      /\ UNCHANGED <<lastEvent, windows, focussedWindow, told, left>>
  BY DEF RegisterResourceEvent, Begin, queue, desktop, followers
<1>2. /\ focussedResource' = focussedResource /\ strayed' = strayed
      /\ SlcTypeOK' /\ LastShown'
      /\ ~strayed => Right(focussedResource)
  BY <1>1, BegunShared
<1>3. \A i \in Places' : ~InAt(i)' /\ ~OutAt(i)'
  <2>1. Add(e).step = "add"
    BY DEF Add
  <2>2. \A i \in Places' : todo'[i].step # "insert"
    BY <1>1, <2>1 DEF Places
  <2>3. QED BY <2>2 DEF InAt, OutAt, Inserts
<1>4. ~At("remove") /\ ~At("remove")'
  BY <1>1 DEF Begin, At, Add
<1>5. ASSUME ~strayed' PROVE ShownThen'
  <2>1. FocussedIn(focussedWindow)' = FocussedIn(focussedWindow)
    BY <1>1 DEF FocussedIn
  <2>2. Right(focussedResource)'
    BY <1>1, <1>2, <1>4, <1>5, <2>1 DEF Right, Gone, Shown
  <2> HIDE DEF InAt, OutAt, Places, Right
  <2>3. QED BY <1>3, <2>2 DEF ShownThen
<1>6. QED BY <1>2, <1>5 DEF Shared, Shows

LEMMA ClosedShared ==
    ASSUME TypeOK, Followed, Shared, SlcStep, NEW x \in Wid, WindowClosed(x)
    PROVE  Shared'
<1>1. /\ Begin(todo') /\ todo' = <<RemoveWindow(x)>> /\ todo = <<>>
      /\ UNCHANGED <<lastEvent, windows, told, left>>
      /\ focussedWindow' = IF focussedWindow = x THEN NoWid ELSE focussedWindow
  BY DEF WindowClosed, Begin, queue, followers
<1>2. /\ focussedResource' = focussedResource /\ strayed' = strayed
      /\ SlcTypeOK' /\ LastShown' /\ Gone = left
      /\ ~strayed => Right(focussedResource)
  BY <1>1, BegunShared
<1>3. /\ \A i \in Places' : ~InAt(i)' /\ ~OutAt(i)'
      /\ At("remove")' /\ Head(todo').wid = x
  <2>1. RemoveWindow(x).step = "remove" /\ RemoveWindow(x).wid = x
    BY DEF RemoveWindow
  <2>2. \A i \in Places' : todo'[i].step # "insert"
    BY <1>1, <2>1 DEF Places
  <2>3. QED BY <1>1, <2>1, <2>2 DEF InAt, OutAt, Inserts, At
<1>4. left \subseteq Gone' /\ (told[x] # NoUri => x \in Gone')
  BY <1>1, <1>3 DEF Gone
<1>5. FocussedIn(NoWid) = NoUri /\ Shown(NoUri) = NoUri
  BY FocusIsTyped, NothingAssumption, ShownWithout
<1>6. ASSUME ~strayed' PROVE Right(focussedResource)'
  <2>1. Right(focussedResource)
    BY <1>2, <1>6
  <2>2. CASE focussedWindow # x
    <3>1. FocussedIn(focussedWindow)' = FocussedIn(focussedWindow)
      BY <1>1, <2>2 DEF FocussedIn
    <3>2. QED BY <1>1, <1>2, <1>4, <2>1, <3>1 DEF Right, Shown
  <2>3. CASE focussedWindow = x
    <3>1. FocussedIn(focussedWindow)' = NoUri
      BY <1>1, <1>5, <2>3 DEF FocussedIn
    <3>2. CASE focussedResource = Shown(FocussedIn(x)) /\ FocussedIn(x) # NoUri
      <4>1. Fits(x, told[x])
        BY <1>1, NothingPending
      <4>2. told[x] = FocussedIn(x)
        BY <2>3, <3>2, <4>1 DEF Fits
      <4>3. QED BY <1>1, <1>2, <1>4, <3>1, <3>2, <4>2 DEF Right, Shown
    <3>3. CASE focussedResource = Shown(FocussedIn(x)) /\ FocussedIn(x) = NoUri
      BY <1>2, <1>5, <3>1, <3>3 DEF Right, Shown
    <3>4. CASE focussedResource # Shown(FocussedIn(x))
      <4>1. \E w \in left : focussedResource = Shown(told[w])
        BY <1>2, <2>1, <2>3, <3>4 DEF Right
      <4>2. QED BY <1>1, <1>2, <1>4, <3>1, <4>1 DEF Right, Shown
    <3>5. QED BY <3>2, <3>3, <3>4
  <2>4. QED BY <2>2, <2>3
<1>7. ASSUME ~strayed' PROVE ShownThen'
  <2> HIDE DEF InAt, OutAt, Places, Right
  <2>1. QED BY <1>3, <1>6, <1>7 DEF ShownThen
<1>8. QED BY <1>2, <1>7 DEF Shared, Shows

LEMMA ChangedShared ==
    ASSUME TypeOK, Followed, Shared, SlcStep,
           NEW y \in Wid \cup {NoWid}, ActiveWindowChanged(y),
           NEW x, x = focussedWindow
    PROVE  Shared'
<1>1. /\ todo' = FocusEvent(x, "FocussedOut") \o FocusEvent(y, "FocussedIn")
      /\ Begin(todo') /\ focussedWindow' = y
      /\ UNCHANGED <<lastEvent, windows, told, left>>
  BY DEF ActiveWindowChanged, Begin, queue, followers
<1>2. /\ \A i \in Places' :
           /\ InAt(i)' => todo'[i].event.wid = y
           /\ OutAt(i)' => /\ todo'[i].event.uri = FocussedIn(x)
                           /\ FocussedIn(x) # NoUri
      /\ FocussedIn(y) # NoUri => \E i \in Places' : InAt(i)'
      /\ FocussedIn(x) # NoUri => \E i \in Places' : OutAt(i)'
  BY <1>1, ChangedSteps, ZenonT(60)
<1>3. /\ focussedResource' = focussedResource /\ strayed' = strayed
      /\ SlcTypeOK' /\ LastShown' /\ Gone = left
      /\ ~strayed => Right(focussedResource)
  BY <1>1, BegunShared
<1>4. FocussedIn(focussedWindow)' = FocussedIn(y) /\ left \subseteq Gone'
  BY <1>1 DEF FocussedIn, Gone
<1>5. Shown(NoUri) = NoUri /\ Without(Shown(FocussedIn(x)), FocussedIn(x)) = NoUri
  BY ShownWithout
<1>6. ASSUME ~strayed' PROVE ShownThen'
  <2>1. Right(focussedResource)
    BY <1>3, <1>6
  <2>2. ASSUME \A i \in Places' : ~InAt(i)' /\ ~OutAt(i)'
        PROVE  Right(focussedResource)'
    <3>1. FocussedIn(x) = NoUri /\ FocussedIn(y) = NoUri
      BY <1>2, <2>2
    <3>2. QED BY <1>1, <1>3, <1>4, <2>1, <3>1 DEF Right, Shown
  <2>3. ASSUME NEW i \in Places', OutAt(i)', \A j \in Places' : ~InAt(j)'
        PROVE  Right(Without(focussedResource, todo[i].event.uri))'
    <3>1. /\ FocussedIn(y) = NoUri /\ todo'[i].event.uri = FocussedIn(x)
          /\ FocussedIn(x) # NoUri
      BY <1>2, <2>3
    <3>2. focussedResource = Shown(FocussedIn(x))
      BY <2>1, <3>1 DEF Right
    <3>3. Without(focussedResource', todo'[i].event.uri) = NoUri
      BY <1>3, <1>5, <3>1, <3>2
    <3>4. QED BY <1>4, <1>5, <3>1, <3>3 DEF Right, Without, Shown
  <2> HIDE DEF InAt, OutAt, Places, Without, Right
  <2>4. \A i \in Places' : InAt(i)' => todo'[i].event.wid = focussedWindow'
    BY <1>1, <1>2
  <2>5. QED BY <2>2, <2>3, <2>4 DEF ShownThen, Without
<1>7. QED BY <1>3, <1>6 DEF Shared, Shows

LEMMA SharedStays == TypeOK /\ Followed /\ Shared /\ [SlcNext]_slcVars => Shared'
<1> SUFFICES ASSUME TypeOK, Followed, Shared, [SlcNext]_slcVars PROVE Shared'
  OBVIOUS
<1>1. CASE SlcStep /\ Step
  BY <1>1, InsertShared, StartShared, AddShared, RemoveShared DEF Step
<1>2. CASE UNCHANGED <<todo, windows, focussedWindow, lastEvent, told, left,
                       focussedResource, strayed>>
  <2>1. \A r : Right(r) <=> Right(r)'
    BY <1>2 DEF Right, Gone, At, Shown, FocussedIn
  <2>2. ShownThen => ShownThen'
    BY <1>2, <2>1 DEF ShownThen, Places, InAt, OutAt, Inserts, Without, Right
  <2>3. QED BY <1>2, <2>2 DEF Shared, SlcTypeOK, LastShown, Shows, Shown
<1>3. CASE SlcStep /\ (Worker \/ RequestInterruption)
  <2>1. UNCHANGED <<todo, windows, focussedWindow, lastEvent, told, left>>
    BY <1>3 DEF Worker, HandOver, Take, End, RequestInterruption, queue, desktop,
                followers
  <2>2. focussedResource' = focussedResource
    BY <1>3, <2>1 DEF SlcStep, Emits
  <2>3. strayed' = strayed
    <3>1. strayed' = (\/ strayed
                      \/ /\ At("add") /\ todo' # todo
                         /\ Head(todo).event.wid \notin {NoWid, focussedWindow})
      BY <1>3, <2>1 DEF SlcStep, Strays
    <3>2. strayed \in BOOLEAN
      BY DEF Shared, SlcTypeOK
    <3>3. QED BY <2>1, <3>1, <3>2, Zenon
  <2>4. QED BY <1>2, <2>1, <2>2, <2>3
<1>4. CASE UNCHANGED slcVars
  BY <1>2, <1>4 DEF slcVars, vars, queue, desktop, followers
<1>5. CASE SlcStep /\ Call
  BY <1>3, <1>5, RegisterShared, ClosedShared, ChangedShared DEF Call
<1>6. QED BY <1>1, <1>3, <1>4, <1>5 DEF SlcNext, Next

(* The plugin takes part in every step and holds none up.                    *)
LEMMA SlcListens == SlcSpec => Spec
<1>1. SlcInit => Init
  BY DEF SlcInit
<1>2. [SlcNext]_slcVars => [Next]_vars
  BY DEF SlcNext, slcVars
<1>3. QED BY <1>1, <1>2, PTL DEF SlcSpec, Spec

(* What the share-like-connect plugin has in focus is the resource in focus  *)
(* in the active window, however windows are switched and closed, as long as *)
(* programs tell only of the active one; while there is none in focus, it    *)
(* may be that of a window closed with it in focus, of which nobody was told *)
(* (SlcPlugin.cpp:57-92, Resources.cpp:88-127, 211-262).                     *)
THEOREM FocusIsShared == SlcSpec => []FocusIsFollowed
<1>1. SlcInit => Shared
  <2> SUFFICES ASSUME SlcInit PROVE Shared
    OBVIOUS
  <2>1. focussedWindow = NoWid /\ FocussedIn(NoWid) = NoUri /\ Places = {}
    BY DEF SlcInit, Init, FocussedIn, Places
  <2>2. Shown(NoUri) = NoUri
    BY ShownWithout
  <2>3. Shows
    BY <2>1, <2>2 DEF SlcInit, Shows, ShownThen, Right
  <2>4. SlcTypeOK /\ LastShown
    BY DEF SlcInit, Init, SlcTypeOK, LastShown, NoEvent
  <2>5. QED BY <2>3, <2>4 DEF Shared
<1>2. Shared /\ TypeOK => SlcShowsActive
  <2> SUFFICES ASSUME Shared, TypeOK PROVE SlcShowsActive
    OBVIOUS
  <2>1. todo = <<>> => Places = {}
    BY DEF Places
  <2>2. todo = <<>> /\ ~strayed => Right(focussedResource)
    BY <2>1 DEF Shared, Shows, ShownThen
  <2>3. todo = <<>> => Gone = left
    BY DEF Gone, At
  <2>4. QED BY <2>2, <2>3 DEF Shared, SlcTypeOK, SlcShowsActive, Right
<1>3. QED
  BY <1>1, <1>2, SharedStays, SlcListens, AlwaysFollowed, FollowersKnowTheFocus, PTL
     DEF SlcSpec, FocusIsFollowed
=============================================================================
