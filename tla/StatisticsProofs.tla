-------------------------- MODULE StatisticsProofs --------------------------
(* The theorems about the sqlite plugin: Statistics, for any activities,      *)
(* agents and resources, any number of rows and any length of time, and      *)
(* Linking, for any activities, files, applications and agents.              *)
EXTENDS Statistics, Linking, WellFoundedInduction, TLAPS

LEMMA BoundsAreNumbers == MaxTime \in Nat /\ MaxDelay \in Nat /\ MaxRows \in Nat
BY BoundsAssumption

(* A set of numbers with a member has a smallest one, as there is no endless *)
(* way down.                                                                 *)
LEMMA SmallestNumber ==
    ASSUME NEW S \in SUBSET Nat, S # {}
    PROVE  \E n \in S : \A m \in S : n <= m
<1>1. PICK n \in S : \A m \in S : ~ (<<m, n>> \in OpToRel(<, Nat))
  BY NatLessThanWellFounded, WFMin
<1>2. \A m \in S : ~ (m < n)
  BY <1>1 DEF OpToRel
<1>3. QED BY <1>2

LEMMA SmallestOf ==
    ASSUME NEW S \in SUBSET Nat, S # {}
    PROVE  Min(S) \in S
<1>1. PICK n \in S : \A m \in S : n <= m
  BY SmallestNumber
<1>2. QED BY <1>1 DEF Min

(* The largest of some times is the one least far from the last.             *)
LEMMA LargestOf ==
    ASSUME NEW S \in SUBSET Time, S # {}
    PROVE  Max(S) \in S /\ \A y \in S : y <= Max(S)
<1> DEFINE T == {MaxTime - x : x \in S}
<1>1. \A x \in S : x \in Nat /\ MaxTime - x \in Nat
  BY BoundsAreNumbers DEF Time
<1>2. T \in SUBSET Nat /\ T # {}
  BY <1>1
<1> HIDE DEF T
<1>3. PICK n \in T : \A m \in T : n <= m
  BY <1>2, SmallestNumber
<1>4. PICK x \in S : n = MaxTime - x
  BY DEF T
<1>5. \A y \in S : MaxTime - x <= MaxTime - y
  BY <1>3, <1>4 DEF T
<1>6. \A y \in S : x >= y
  BY <1>1, <1>5, BoundsAreNumbers
<1>7. Max(S) \in S /\ \A y \in S : Max(S) >= y
  BY <1>6 DEF Max
<1>8. QED BY <1>1, <1>7

LEMMA KeyIsKey == \A a \in Activity, i \in Item : KeyOf(a, i) \in Key
BY DEF KeyOf, Key

-----------------------------------------------------------------------------
(* Types.                                                                    *)

LEMMA CreatedType ==
    ASSUME TypeOK, NEW k \in Key PROVE Created(k) \in Score
<1>1. CASE cache[k] = NoScore
  BY <1>1 DEF TypeOK, Created, Score
<1>2. CASE cache[k] # NoScore
  BY <1>2 DEF TypeOK, Created
<1>3. QED BY <1>1, <1>2

(* A new row has an id of its own and was not added yet.                     *)
LEMMA OpenedRow ==
    ASSUME TypeOK, NEW k \in Key, NEW start \in Time, NEW end \in Time \cup {Null},
           OpenResourceEvent(k, start, end)
    PROVE  \E r \in Row : /\ rows' = rows \cup {r}
                          /\ r.key = k /\ r.start = start /\ r.end = end
                          /\ r.added = 0
<1> DEFINE ids == Id \ {r.id : r \in rows}
           row == [id |-> Min(ids), key |-> k, start |-> start, end |-> end,
                   added |-> 0]
<1>1. ids # {} /\ ids \in SUBSET Nat
  BY BoundsAreNumbers DEF OpenResourceEvent, Id
<1>2. Min(ids) \in Id
  BY <1>1, SmallestOf
<1>3. row \in Row
  BY <1>2 DEF Row
<1>4. rows' = rows \cup {row}
  BY DEF OpenResourceEvent
<1>5. QED BY <1>3, <1>4

LEMMA ClosedRow ==
    ASSUME NEW r \in Row, NEW end \in Time
    PROVE  /\ [r EXCEPT !.end = end] \in Row
           /\ [r EXCEPT !.end = end].key = r.key
           /\ [r EXCEPT !.end = end].start = r.start
           /\ [r EXCEPT !.end = end].end = end
           /\ [r EXCEPT !.end = end].added = r.added
BY DEF Row

Counted(r) == [r EXCEPT !.added = IF r.end = Null THEN @ ELSE @ + 1]

LEMMA CountedRow ==
    ASSUME NEW r \in Row
    PROVE  /\ Counted(r) \in Row
           /\ Counted(r).key = r.key
           /\ Counted(r).start = r.start
           /\ Counted(r).end = r.end
           /\ Counted(r).added = IF r.end = Null THEN r.added ELSE r.added + 1
BY DEF Row, Counted

LEMMA InitTypes == Init => TypeOK
<1> SUFFICES ASSUME Init PROVE TypeOK
  OBVIOUS
<1>1. now \in Time
  BY BoundsAreNumbers DEF Init, Time
<1>2. cache \in [Key -> Score \cup {NoScore}]
  BY DEF Init
<1>3. QED BY <1>1, <1>2 DEF Init, TypeOK

LEMMA AddEventTypes ==
    ASSUME TypeOK, NEW e \in Event,
           NEW accepted \in Activity, NEW recorded \in Activity,
           NEW processed \in Activity,
           AddEvent(e, accepted, recorded, processed)
    PROVE  TypeOK'
<1> DEFINE k == KeyOf(recorded, e.item)
           p == KeyOf(processed, e.item)
<1>1. k \in Key /\ p \in Key /\ e.time \in Time
  BY KeyIsKey DEF Event
<1> HIDE DEF k, p
<1>2. rows' \in SUBSET Row
  <2>1. CASE OpenResourceEvent(k, e.time, e.time)
    BY <1>1, <2>1, OpenedRow DEF TypeOK
  <2>2. CASE OpenResourceEvent(k, e.time, Null)
    BY <1>1, <2>2, OpenedRow DEF TypeOK
  <2>3. CASE CloseResourceEvent(k, e.time)
    BY <1>1, <2>3, ClosedRow DEF CloseResourceEvent, TypeOK
  <2>4. QED BY <2>1, <2>2, <2>3 DEF AddEvent, k
<1>3. scheduled' \in SUBSET Key /\ timer' \in {"stopped", "running", "due"}
  BY <1>1 DEF AddEvent, ProcessResource, TypeOK, p
<1>4. QED BY <1>2, <1>3 DEF AddEvent, TypeOK, world

LEMMA UpdateScoreTypes ==
    ASSUME TypeOK, NEW k \in Key, UpdateScore(k)
    PROVE  TypeOK'
<1> DEFINE new == Additions(k)
           starts == {r.start : r \in new}
           last == IF new = {} THEN now ELSE Max(starts)
<1>1. new \in SUBSET rows /\ starts \in SUBSET Time
  BY DEF Additions, TypeOK, Row
<1>2. last \in Time
  BY <1>1, LargestOf DEF TypeOK
<1>3. [first |-> Created(k).first, last |-> last] \in Score
  BY <1>2, CreatedType DEF Score
<1>4. cache' = [cache EXCEPT ![k] = [first |-> Created(k).first, last |-> last]]
  BY DEF UpdateScore
<1>5. rows' = (rows \ new) \cup {Counted(r) : r \in new}
  BY DEF UpdateScore, Counted
<1>6. cache' \in [Key -> Score \cup {NoScore}]
  BY <1>3, <1>4 DEF TypeOK
<1>7. rows' \in SUBSET Row
  BY <1>1, <1>5, CountedRow DEF TypeOK
<1>8. QED BY <1>6, <1>7 DEF UpdateScore, TypeOK, world

LEMMA KeepTypes ==
    ASSUME TypeOK, NEW R \in SUBSET rows, NEW K \in SUBSET Key, Keep(R, K)
    PROVE  TypeOK'
BY DEF Keep, TypeOK, world, maintainer

(* Every deletion keeps some rows and some scores.                           *)
LEMMA DeleteKeeps ==
    ASSUME Delete
    PROVE  \E R \in SUBSET rows, K \in SUBSET Key : Keep(R, K)
BY DEF Delete, DeleteEverything, DeleteRecentStats, DeleteEarlierStats,
       DeleteStatsForResource

LEMMA NextTypes == TypeOK /\ [Next]_vars => TypeOK'
<1> SUFFICES ASSUME TypeOK, [Next]_vars PROVE TypeOK'
  OBVIOUS
<1>1. CASE AddEvents
  BY <1>1, AddEventTypes DEF AddEvents
<1>2. CASE ProcessResources
  BY <1>2 DEF ProcessResources, TypeOK, world, tables
<1>3. CASE UpdateScores
  BY <1>3, UpdateScoreTypes DEF UpdateScores
<1>4. CASE Delete
  BY <1>4, DeleteKeeps, KeepTypes
<1>5. ASSUME NEW a \in Private, SetOffTheRecord(a) PROVE TypeOK'
  BY <1>5, PrivateAssumption DEF SetOffTheRecord, TypeOK, tables, maintainer
<1>6. CASE Tick
  BY <1>6, BoundsAreNumbers DEF Tick, TypeOK, tables, maintainer, Time
<1>7. CASE Restart
  BY <1>7 DEF Restart, TypeOK, world, tables
<1>8. CASE Elapse
  BY <1>8 DEF Elapse, TypeOK, world, tables
<1>9. CASE UNCHANGED vars
  BY <1>9 DEF vars, TypeOK, world, tables, maintainer
<1>10. QED BY <1>1, <1>2, <1>3, <1>4, <1>5, <1>6, <1>7, <1>8, <1>9 DEF Next

(* Rows, scores and what is scheduled keep to their types                    *)
(* (StatsPlugin.cpp:150-214, ResourceScoreCache.cpp:149-263).                *)
THEOREM TypeCorrect == Spec => []TypeOK
BY InitTypes, NextTypes, PTL DEF Spec

-----------------------------------------------------------------------------
(* Rows and scores.  A row is new to a score if it began after the last      *)
(* update, so an added row began no later than that; and it began after the  *)
(* first update, so a deletion that takes the score takes the row.           *)

TimesInOrder ==
    /\ \A r \in rows : r.start <= now /\ (r.end # Null => r.start <= r.end)
    /\ \A k \in Key : cache[k] # NoScore =>
          cache[k].first <= cache[k].last /\ cache[k].last <= now

AddedRow(r) ==
    /\ r.added = 1
    /\ r.end # Null
    /\ cache[r.key] # NoScore
    /\ cache[r.key].first < r.start
    /\ r.start <= cache[r.key].last

AddedRows == \A r \in rows : r.added = 0 \/ AddedRow(r)

Accounted == TimesInOrder /\ AddedRows

LEMMA InitAccounted == Init => Accounted
BY DEF Init, Accounted, TimesInOrder, AddedRows

LEMMA AddEventAccounted ==
    ASSUME TypeOK, Accounted, NEW e \in Event,
           NEW accepted \in Activity, NEW recorded \in Activity,
           NEW processed \in Activity,
           AddEvent(e, accepted, recorded, processed)
    PROVE  Accounted'
<1> DEFINE k == KeyOf(recorded, e.item)
<1>1. /\ k \in Key /\ e.time \in Time
      /\ e.time <= now
      /\ \A r \in rows : r.start <= e.time
  BY KeyIsKey, BoundsAreNumbers DEF Event, AddEvent, InOrder, TypeOK, Time
<1>2. cache' = cache /\ now' = now
  BY DEF AddEvent, world
<1> HIDE DEF k
<1>3. ASSUME NEW end \in {e.time, Null}, OpenResourceEvent(k, e.time, end)
      PROVE  Accounted'
  <2>1. PICK r \in Row : /\ rows' = rows \cup {r}
                         /\ r.start = e.time /\ r.end = end /\ r.added = 0
    BY <1>1, <1>3, OpenedRow
  <2>2. TimesInOrder'
    BY <1>1, <1>2, <2>1, BoundsAreNumbers
       DEF Accounted, TimesInOrder, TypeOK, Time
  <2>3. AddedRows'
    BY <1>2, <2>1 DEF Accounted, AddedRows, AddedRow
  <2>4. QED BY <2>2, <2>3 DEF Accounted
<1>4. CASE CloseResourceEvent(k, e.time)
  <2> DEFINE open == {r \in rows : r.key = k /\ r.end = Null}
             Closed(r) == [r EXCEPT !.end = e.time]
  <2>1. rows' = (rows \ open) \cup {Closed(r) : r \in open}
    BY <1>4 DEF CloseResourceEvent
  <2>2. ASSUME NEW r \in open
        PROVE  /\ Closed(r).start = r.start /\ Closed(r).end = e.time
               /\ Closed(r).added = 0
               /\ r.start <= now
    <3>1. r \in Row /\ r \in rows /\ r.end = Null
      BY DEF TypeOK
    <3>2. r.added = 0
      BY <3>1 DEF Accounted, AddedRows, AddedRow
    <3>3. QED BY <1>1, <3>1, <3>2, ClosedRow DEF Accounted, TimesInOrder
  <2> HIDE DEF Closed
  <2>3. TimesInOrder'
    BY <1>1, <1>2, <2>1, <2>2 DEF Accounted, TimesInOrder
  <2>4. AddedRows'
    BY <1>2, <2>1, <2>2 DEF Accounted, AddedRows, AddedRow
  <2>5. QED BY <2>3, <2>4 DEF Accounted
<1>5. QED BY <1>3, <1>4 DEF AddEvent, k

(* What an update adds began after the last one, and the update after it is  *)
(* of the time the last of it began.                                         *)
LastStart(k) == IF Additions(k) = {} THEN now
                ELSE Max({r.start : r \in Additions(k)})

LEMMA LastIsLast ==
    ASSUME TypeOK, Accounted, NEW k \in Key
    PROVE  /\ Additions(k) \in SUBSET rows
           /\ {Created(k).first, Created(k).last, now, LastStart(k)} \subseteq Nat
           /\ Created(k).first <= Created(k).last
           /\ Created(k).last <= LastStart(k) /\ LastStart(k) <= now
           /\ \A r \in Additions(k) : /\ r.key = k /\ r.start > Created(k).last
                                      /\ r.start <= LastStart(k)
<1> DEFINE new == Additions(k)
           starts == {r.start : r \in new}
           last == LastStart(k)
<1>1. /\ new \in SUBSET rows /\ starts \in SUBSET Time
      /\ \A r \in new : r.key = k /\ r.start > Created(k).last
  BY DEF Additions, TypeOK, Row
<1>2. /\ Created(k) \in Score
      /\ Created(k).first <= Created(k).last /\ Created(k).last <= now
  BY CreatedType, BoundsAreNumbers
     DEF Created, Accounted, TimesInOrder, TypeOK, Time
<1>3. Created(k).first \in Nat /\ Created(k).last \in Nat /\ now \in Nat
  BY <1>2, BoundsAreNumbers DEF Score, Time, TypeOK
<1>4. /\ last \in Nat
      /\ Created(k).last <= last /\ last <= now
      /\ \A r \in new : r.start <= last
  <2>1. CASE new = {}
    BY <1>2, <1>3, <2>1 DEF LastStart
  <2>2. CASE new # {}
    <3>1. starts # {}
      BY <2>2
    <3>2. Max(starts) \in starts /\ \A y \in starts : y <= Max(starts)
      BY <1>1, <3>1, LargestOf
    <3>3. PICK r \in new : Max(starts) = r.start
      BY <3>2
    <3>4. r.start \in Time /\ r.start <= now /\ r.start > Created(k).last
      BY <1>1 DEF Accounted, TimesInOrder, TypeOK, Row
    <3>5. last = r.start
      BY <2>2, <3>3 DEF LastStart
    <3>6. \A q \in new : q.start <= last
      BY <2>2, <3>2 DEF LastStart
    <3>7. QED BY <1>3, <3>4, <3>5, <3>6, BoundsAreNumbers DEF Time
  <2>3. QED BY <2>1, <2>2
<1>5. QED BY <1>1, <1>2, <1>3, <1>4

LEMMA UpdateScoreAccounted ==
    ASSUME TypeOK, Accounted, NEW k \in Key, UpdateScore(k)
    PROVE  Accounted'
<1> DEFINE new == Additions(k)
           last == LastStart(k)
<1>1. /\ new \in SUBSET rows
      /\ \A r \in new : r.key = k /\ r.start > Created(k).last
  BY LastIsLast
<1>2. Created(k).first <= Created(k).last
  BY LastIsLast
<1>3. Created(k).first \in Nat /\ Created(k).last \in Nat /\ now \in Nat
  BY LastIsLast
<1>4. /\ last \in Nat
      /\ Created(k).last <= last /\ last <= now
      /\ \A r \in new : r.start <= last
  BY LastIsLast
<1>5. /\ cache' = [cache EXCEPT ![k] = [first |-> Created(k).first, last |-> last]]
      /\ now' = now
      /\ rows' = (rows \ new) \cup {Counted(r) : r \in new}
  BY DEF UpdateScore, Counted, world, LastStart
<1> HIDE DEF last, new
<1>6. /\ cache'[k].first = Created(k).first
      /\ cache'[k].last = last
      /\ cache'[k] # NoScore
      /\ \A l \in Key : l # k => cache'[l] = cache[l]
  BY <1>3, <1>5 DEF TypeOK, NoScore, Null
<1>7. ASSUME NEW r \in new
      PROVE  /\ r \in Row /\ r \in rows /\ r.key = k /\ r.start \in Nat
             /\ r.added = 0
             /\ Created(k).first < r.start /\ r.start <= last
  <2>1. r \in Row /\ r \in rows /\ r.key = k /\ r.start \in Nat
    BY <1>1, BoundsAreNumbers DEF TypeOK, Row, Time
  <2>2. Created(k).last < r.start
    BY <1>1, <1>3, <2>1
  <2>3. r.added = 0
    <3> SUFFICES ASSUME r.added # 0 PROVE FALSE
      OBVIOUS
    <3>1. cache[k] # NoScore /\ r.start <= cache[k].last
      BY <2>1 DEF Accounted, AddedRows, AddedRow
    <3>2. Created(k) = cache[k]
      BY <3>1 DEF Created
    <3>3. QED BY <1>3, <2>1, <2>2, <3>1, <3>2
  <2>4. QED BY <1>2, <1>3, <1>4, <2>1, <2>2, <2>3
<1>8. TimesInOrder'
  <2>1. ASSUME NEW r \in rows'
        PROVE  r.start <= now /\ (r.end # Null => r.start <= r.end)
    <3>1. CASE r \in rows
      BY <3>1 DEF Accounted, TimesInOrder
    <3>2. CASE r \notin rows
      <4>1. PICK q \in new : r = Counted(q)
        BY <1>5, <3>2
      <4>2. r.start = q.start /\ r.end = q.end /\ q \in rows
        BY <1>7, <4>1, CountedRow
      <4>3. QED BY <4>2 DEF Accounted, TimesInOrder
    <3>3. QED BY <3>1, <3>2
  <2>2. ASSUME NEW l \in Key, cache'[l] # NoScore
        PROVE  cache'[l].first <= cache'[l].last /\ cache'[l].last <= now
    <3>1. CASE l = k
      BY <1>2, <1>3, <1>4, <1>6, <3>1
    <3>2. CASE l # k
      BY <1>6, <2>2, <3>2 DEF Accounted, TimesInOrder
    <3>3. QED BY <3>1, <3>2
  <2>3. QED BY <1>5, <2>1, <2>2 DEF TimesInOrder
<1>9. AddedRows'
  <2> SUFFICES ASSUME NEW r \in rows', r.added # 0 PROVE AddedRow(r)'
    BY DEF AddedRows
  <2>1. CASE \E q \in new : r = Counted(q)
    <3>1. PICK q \in new : r = Counted(q)
      BY <2>1
    <3>2. /\ r.key = k /\ r.start = q.start /\ r.end = q.end
          /\ r.added = IF q.end = Null THEN q.added ELSE q.added + 1
      BY <1>7, <3>1, CountedRow
    <3>3. q.end # Null /\ r.added = 1
      BY <1>7, <3>2
    <3>4. QED BY <1>6, <1>7, <3>2, <3>3 DEF AddedRow
  <2>2. CASE r \in rows /\ r.key # k
    <3>1. r.key \in Key
      BY <2>2 DEF TypeOK, Row
    <3>2. AddedRow(r)
      BY <2>2 DEF Accounted, AddedRows
    <3>3. QED BY <1>6, <2>2, <3>1, <3>2 DEF AddedRow
  <2>3. CASE r \in rows /\ r.key = k
    <3>1. AddedRow(r) /\ r.start \in Nat
      BY <2>3, BoundsAreNumbers DEF Accounted, AddedRows, TypeOK, Row, Time
    <3>2. cache[k] # NoScore /\ Created(k) = cache[k]
      BY <2>3, <3>1 DEF AddedRow, Created
    <3>3. cache'[k].first < r.start /\ r.start <= cache'[k].last
      BY <1>3, <1>4, <1>6, <2>3, <3>1, <3>2 DEF AddedRow
    <3>4. QED BY <1>6, <2>3, <3>1, <3>3 DEF AddedRow
  <2>4. QED BY <1>5, <2>1, <2>2, <2>3
<1>10. QED BY <1>8, <1>9 DEF Accounted

(* A deletion keeps the score of each added row it keeps.                    *)
KeepsScores(R, K) == \A r \in R : AddedRow(r) => r.key \in K

LEMMA KeepAccounted ==
    ASSUME TypeOK, Accounted, NEW R \in SUBSET rows, NEW K \in SUBSET Key,
           KeepsScores(R, K), Keep(R, K)
    PROVE  Accounted'
<1>1. /\ now' = now /\ rows' = R
      /\ cache' = [k \in Key |-> IF k \in K THEN cache[k] ELSE NoScore]
  BY DEF Keep, world
<1>2. \A k \in Key : cache'[k] = cache[k] \/ (k \notin K /\ cache'[k] = NoScore)
  BY <1>1
<1>3. TimesInOrder'
  BY <1>1, <1>2 DEF Accounted, TimesInOrder
<1>4. AddedRows'
  <2> SUFFICES ASSUME NEW r \in R, r.added # 0 PROVE AddedRow(r)'
    BY <1>1 DEF AddedRows
  <2>1. AddedRow(r)
    BY DEF Accounted, AddedRows
  <2>2. r.key \in K /\ r.key \in Key
    BY <2>1 DEF KeepsScores
  <2>3. cache'[r.key] = cache[r.key]
    BY <1>2, <2>2
  <2>4. QED BY <2>1, <2>3 DEF AddedRow
<1>5. QED BY <1>3, <1>4 DEF Accounted

LEMMA DeleteAccounted ==
    ASSUME TypeOK, Accounted, Delete PROVE Accounted'
<1>1. PICK acts \in Some :
         \/ DeleteEverything(acts)
         \/ \E t \in 0..now : DeleteRecentStats(acts, t)
         \/ \E t \in 0..now : DeleteEarlierStats(acts, t)
         \/ \E items \in SUBSET Item : DeleteStatsForResource(acts, items)
  BY DEF Delete
<1>2. now \in Nat
  BY BoundsAreNumbers DEF TypeOK, Time
<1>3. ASSUME NEW r \in rows, AddedRow(r)
      PROVE  /\ r.key \in Key
             /\ r.start \in Nat /\ r.end \in Nat /\ r.start <= r.end
             /\ cache[r.key].first \in Nat /\ cache[r.key].last \in Nat
             /\ cache[r.key].first < r.start /\ r.start <= cache[r.key].last
  BY <1>3, BoundsAreNumbers
     DEF AddedRow, Accounted, TimesInOrder, TypeOK, Row, Score, Time, NoScore, Null
<1>4. CASE DeleteEverything(acts)
  BY <1>3, <1>4, KeepAccounted DEF DeleteEverything, KeepsScores
<1>5. ASSUME NEW t \in 0..now, DeleteRecentStats(acts, t) PROVE Accounted'
  <2> DEFINE R == {r \in rows : r.key.act \notin acts \/ r.end <= t}
             K == {k \in Key : k.act \notin acts \/ cache[k].first <= t}
  <2>1. KeepsScores(R, K)
    BY <1>2, <1>3 DEF KeepsScores
  <2>2. QED BY <1>5, <2>1, KeepAccounted DEF DeleteRecentStats
<1>6. ASSUME NEW t \in 0..now, DeleteEarlierStats(acts, t) PROVE Accounted'
  <2> DEFINE R == {r \in rows : r.key.act \notin acts \/ r.start >= t}
             K == {k \in Key : k.act \notin acts \/ cache[k].last >= t}
  <2>1. KeepsScores(R, K)
    BY <1>2, <1>3 DEF KeepsScores
  <2>2. QED BY <1>6, <2>1, KeepAccounted DEF DeleteEarlierStats
<1>7. ASSUME NEW items \in SUBSET Item, DeleteStatsForResource(acts, items)
      PROVE  Accounted'
  BY <1>3, <1>7, KeepAccounted DEF DeleteStatsForResource, KeepsScores
<1>8. QED BY <1>1, <1>4, <1>5, <1>6, <1>7

LEMMA NextAccounted == TypeOK /\ Accounted /\ [Next]_vars => Accounted'
<1> SUFFICES ASSUME TypeOK, Accounted, [Next]_vars PROVE Accounted'
  OBVIOUS
<1>1. CASE AddEvents
  BY <1>1, AddEventAccounted DEF AddEvents
<1>2. CASE UpdateScores
  BY <1>2, UpdateScoreAccounted DEF UpdateScores
<1>3. CASE Delete
  BY <1>3, DeleteAccounted
<1>4. CASE Tick
  <2>1. now \in Nat /\ \A r \in rows : r.start \in Nat
    BY BoundsAreNumbers DEF TypeOK, Row, Time
  <2>2. \A k \in Key : cache[k] # NoScore => cache[k].last \in Nat
    BY BoundsAreNumbers DEF TypeOK, Score, Time
  <2>3. QED BY <1>4, <2>1, <2>2
        DEF Tick, tables, Accounted, TimesInOrder, AddedRows, AddedRow
<1>5. CASE UNCHANGED <<now, rows, cache>>
  BY <1>5 DEF Accounted, TimesInOrder, AddedRows, AddedRow
<1>6. QED BY <1>1, <1>2, <1>3, <1>4, <1>5
      DEF Next, Elapse, ProcessResources, SetOffTheRecord, Restart, vars, world, tables

LEMMA AccountedHolds == Spec => [](TypeOK /\ Accounted)
<1>1. Init => TypeOK /\ Accounted
  BY InitTypes, InitAccounted
<1>2. TypeOK /\ Accounted /\ [Next]_vars => TypeOK' /\ Accounted'
  BY NextTypes, NextAccounted
<1>3. QED BY <1>1, <1>2, PTL DEF Spec

(* The length of a row is never added to scores twice, over any updates,     *)
(* deletions and restarts (ResourceScoreCache.cpp:84, 215-218, 244).         *)
THEOREM EachRowCountsOnce == Spec => []AddedOnce
<1>1. TypeOK /\ Accounted => AddedOnce
  BY DEF TypeOK, Accounted, AddedRows, AddedRow, AddedOnce
<1>2. QED BY <1>1, AccountedHolds, PTL

(* No deletion takes a score and leaves a row that was added to it           *)
(* (StatsPlugin.cpp:449-466, 483-503, 523-545, 576-607).                     *)
THEOREM ScoresGoWithTheirRows == Spec => []CreditedHasScore
<1>1. Accounted => CreditedHasScore
  BY DEF Accounted, AddedRows, AddedRow, CreditedHasScore
<1>2. QED BY <1>1, AccountedHolds, PTL

-----------------------------------------------------------------------------
(* Which rows are forgotten.                                                 *)

(* An update that is made leaves nothing of its score for later.             *)
LEMMA NothingLeftToAdd ==
    ASSUME TypeOK, Accounted, NEW k \in Key, UpdateScore(k), NEW r \in rows'
    PROVE  /\ r.key = k => ~Forgotten(r)'
           /\ r.key # k => r \in rows
<1> DEFINE new == Additions(k)
           last == LastStart(k)
<1>1. /\ cache' = [cache EXCEPT ![k] = [first |-> Created(k).first, last |-> last]]
      /\ rows' = (rows \ new) \cup {Counted(q) : q \in new}
  BY DEF UpdateScore, Counted, LastStart
<1>2. /\ new \in SUBSET rows /\ last \in Nat /\ Created(k).last \in Nat
      /\ Created(k).last <= last
      /\ \A q \in new : q.key = k /\ q.start <= last
  BY LastIsLast
<1>3. cache'[k].last = last
  BY <1>1 DEF TypeOK
<1> HIDE DEF last
<1>4. CASE \E q \in new : r = Counted(q)
  <2>1. PICK q \in new : r = Counted(q)
    BY <1>4
  <2>2. q \in Row /\ r.key = q.key /\ r.start = q.start /\ q.start \in Nat
    BY <1>2, <2>1, CountedRow, BoundsAreNumbers DEF TypeOK, Row, Time
  <2>3. r.key = k /\ r.start \in Nat /\ r.start <= last
    BY <1>2, <2>2
  <2>4. QED BY <1>2, <1>3, <2>3 DEF Forgotten
<1>5. CASE r \in rows /\ r \notin new
  <2>1. r.start \in Nat
    BY <1>5, BoundsAreNumbers DEF TypeOK, Row, Time
  <2>2. r.key = k => r.start <= Created(k).last
    BY <1>2, <1>5, <2>1 DEF Additions
  <2>3. r.key = k => r.start <= last
    BY <1>2, <2>1, <2>2
  <2>4. QED BY <1>2, <1>3, <1>5, <2>1, <2>3 DEF Forgotten
<1>6. QED BY <1>1, <1>4, <1>5

(* A row that was there is forgotten only if it was, or in a restart.        *)
ForgottenAlready(r) == \E q \in rows : q.id = r.id /\ Forgotten(q)

LEMMA ForgottenBefore ==
    ASSUME NEW r, r \in rows, Forgotten(r)',
           cache'[r.key] # NoScore => cache'[r.key] = cache[r.key],
           r.key \in scheduled \cup updating => r.key \in (scheduled \cup updating)'
    PROVE  ForgottenAlready(r)
BY DEF Forgotten, ForgottenAlready

LEMMA AddEventForgets ==
    ASSUME TypeOK, NEW e \in Event,
           NEW accepted \in Activity, NEW recorded \in Activity,
           NEW processed \in Activity,
           AddEvent(e, accepted, recorded, processed),
           NEW r \in rows', Forgotten(r)'
    PROVE  \/ ForgottenAlready(r)
           \/ r.key.act = recorded /\ processed # recorded
<1> DEFINE k == KeyOf(recorded, e.item)
<1>1. /\ cache' = cache /\ updating' = updating
      /\ \/ e.type = "Opened" /\ scheduled' = scheduled
         \/ scheduled' = scheduled \cup {KeyOf(processed, e.item)}
  BY DEF AddEvent, ProcessResource
<1>2. CASE r \in rows
  BY <1>1, <1>2, ForgottenBefore
<1>3. k \in Key /\ e.time \in Time /\ k.act = recorded
  BY KeyIsKey DEF Event, KeyOf
<1>4. CASE r \notin rows
  <2>1. r.key = k
    <3> HIDE DEF k
    <3>1. ASSUME NEW end \in {e.time, Null}, OpenResourceEvent(k, e.time, end)
          PROVE  r.key = k
      BY <1>4, <3>1 DEF OpenResourceEvent
    <3>2. CASE CloseResourceEvent(k, e.time)
      <4> DEFINE open == {q \in rows : q.key = k /\ q.end = Null}
      <4>1. PICK q \in open : r = [q EXCEPT !.end = e.time]
        BY <1>4, <3>2 DEF CloseResourceEvent
      <4>2. q \in Row /\ q.key = k
        BY DEF TypeOK
      <4>3. QED BY <4>1, <4>2 DEF Row
    <3>3. QED BY <3>1, <3>2 DEF AddEvent, k
  <2>2. e.type # "Opened"
    <3>1. ASSUME e.type = "Opened" PROVE r.end = Null
      <4>1. OpenResourceEvent(k, e.time, Null)
        BY <3>1 DEF AddEvent
      <4> HIDE DEF k
      <4>2. QED BY <1>4, <4>1 DEF OpenResourceEvent
    <3>2. QED BY <3>1 DEF Forgotten
  <2>3. r.key \notin scheduled'
    BY DEF Forgotten
  <2>4. KeyOf(processed, e.item) \in scheduled'
    BY <1>1, <2>2
  <2>5. processed # recorded
    BY <2>1, <2>3, <2>4
  <2>6. QED BY <1>3, <2>1, <2>5
<1>5. QED BY <1>2, <1>4

(* What an event or an update leaves to be added is scheduled, over any      *)
(* deletions and changes of the activity: only a restart forgets it, or the  *)
(* activity changes between recording and scheduling                         *)
(* (StatsPlugin.cpp:399-425, ResourceScoreMaintainer.cpp:132-155).           *)
THEOREM LittleIsForgotten == Spec => ForgottenOnlyIf
<1>1. ASSUME TypeOK, Accounted, [Next]_vars, NEW r \in rows', Forgotten(r)'
      PROVE  \/ ForgottenAlready(r)
             \/ Restart
             \/ \E e \in Event, accepted, processed \in Activity :
                   /\ AddEvent(e, accepted, r.key.act, processed)
                   /\ processed # r.key.act
  <2>1. ASSUME r \in rows, cache' = cache,
               (scheduled \cup updating)' = scheduled \cup updating
        PROVE  ForgottenAlready(r)
    BY <1>1, <2>1, ForgottenBefore
  <2>2. CASE AddEvents
    <3>1. PICK e \in Event, accepted \in Activity, recorded \in Activity,
               processed \in Activity : AddEvent(e, accepted, recorded, processed)
      BY <2>2 DEF AddEvents
    <3>2. ForgottenAlready(r) \/ (r.key.act = recorded /\ processed # recorded)
      BY <1>1, <3>1, AddEventForgets
    <3>3. QED BY <3>1, <3>2
  <2>3. CASE ProcessResources
    BY <1>1, <2>1, <2>3 DEF ProcessResources, tables
  <2>4. ASSUME NEW k \in Key, UpdateScore(k) PROVE ForgottenAlready(r)
    <3>1. r.key # k /\ r \in rows
      BY <1>1, <2>4, NothingLeftToAdd
    <3>2. cache'[r.key] = cache[r.key]
      <4>1. r.key \in Key
        BY <1>1, <3>1 DEF TypeOK, Row
      <4>2. QED BY <1>1, <2>4, <3>1, <4>1 DEF UpdateScore, TypeOK
    <3>3. r.key \in scheduled \cup updating => r.key \in (scheduled \cup updating)'
      BY <2>4, <3>1 DEF UpdateScore
    <3>4. QED BY <1>1, <3>1, <3>2, <3>3, ForgottenBefore
  <2>5. CASE Delete
    <3>1. PICK R \in SUBSET rows, K \in SUBSET Key : Keep(R, K)
      BY <2>5, DeleteKeeps
    <3>2. /\ rows' = R /\ UNCHANGED <<scheduled, updating>>
          /\ cache' = [k \in Key |-> IF k \in K THEN cache[k] ELSE NoScore]
      BY <3>1 DEF Keep, maintainer
    <3>3. r \in rows /\ r.key \in Key
      BY <1>1, <3>2 DEF TypeOK, Row
    <3>4. cache'[r.key] # NoScore => cache'[r.key] = cache[r.key]
      BY <3>2, <3>3
    <3>5. QED BY <1>1, <3>2, <3>3, <3>4, ForgottenBefore
  <2>6. ASSUME NEW a \in Private, SetOffTheRecord(a) PROVE ForgottenAlready(r)
    BY <1>1, <2>1, <2>6 DEF SetOffTheRecord, tables, maintainer
  <2>7. CASE Tick \/ Elapse \/ UNCHANGED vars
    BY <1>1, <2>1, <2>7 DEF Tick, Elapse, tables, maintainer, vars
  <2>8. QED BY <1>1, <2>2, <2>3, <2>4, <2>5, <2>6, <2>7 DEF Next, UpdateScores
<1>2. TypeOK /\ Accounted /\ [Next]_vars =>
        [\A r \in rows' : Forgotten(r)' =>
          \/ \E q \in rows : q.id = r.id /\ Forgotten(q)
          \/ Restart
          \/ \E e \in Event, accepted, processed \in Activity :
                /\ AddEvent(e, accepted, r.key.act, processed)
                /\ processed # r.key.act]_vars
  BY <1>1 DEF ForgottenAlready
<1>3. QED BY <1>2, AccountedHolds, PTL DEF Spec, ForgottenOnlyIf

-----------------------------------------------------------------------------
(* Linking: requests.                                                        *)

LEMMA IdleIsNoRequest == Idle \notin Request
BY DEF Idle, Request, Operation

(* The parts of a request, and what its other stages are.                    *)
LEMMA RequestParts ==
    ASSUME request \in Request
    PROVE  /\ request.op \in {"link", "unlink"}
           /\ request.stage \in Stages
           /\ request.agent \in Agent
           /\ request.res \in Resource
           /\ request.act \in ActivityId \cup Special
BY DEF Request, Operation

LEMMA StageChanges ==
    ASSUME request \in Request, NEW stage \in Stages
    PROVE  [request EXCEPT !.stage = stage] \in Request
BY DEF Request

LEMMA WhoRuns ==
    ASSUME LinkTypeOK, request # Idle PROVE request \in Request
BY DEF LinkTypeOK

-----------------------------------------------------------------------------
(* Announcements and the queue of them.                                      *)

LEMMA News ==
    ASSUME NEW news \in Announcement
    PROVE  /\ news.told \in {"added", "removed"}
           /\ news = NewItems <=> news.told = "added"
           /\ news.told = "removed" => news.res \in Resource /\ news.why \in SUBSET Reason
BY DEF Announcement, NewItems

LEMMA GoneIsNews ==
    ASSUME NEW res \in Resource, NEW why \in SUBSET Reason
    PROVE  /\ Gone(res, why) \in Announcement
           /\ Gone(res, why).told = "removed"
           /\ Gone(res, why).res = res
           /\ Gone(res, why).why = why
BY DEF Announcement, Gone

LEMMA NewItemsIsNews == NewItems \in Announcement /\ NewItems.told = "added"
BY DEF Announcement, NewItems

(* What is announced comes last, unless it was the last one before.          *)
LEMMA Sent ==
    ASSUME announced \in Seq(Announcement), NEW news \in Announcement, Send(news)
    PROVE  /\ announced' \in Seq(Announcement)
           /\ announced'[Len(announced')] = news
           /\ Len(announced') \in Nat \ {0}
           /\ Len(announced) <= Len(announced')
           /\ \A i \in DOMAIN announced :
                 i \in DOMAIN announced' /\ announced'[i] = announced[i]
<1>1. CASE announced' = Append(announced, news)
  BY <1>1
<1>2. CASE announced' # Append(announced, news)
  BY <1>2 DEF Send
<1> QED BY <1>1, <1>2

(* An announcement that something is gone is a new one.                      *)
LEMMA SentGone ==
    ASSUME announced \in Seq(Announcement), NEW news \in Announcement,
           news.told = "removed", Send(news)
    PROVE  announced' = Append(announced, news)
BY NewItemsIsNews DEF Send

LEMMA Taken ==
    ASSUME announced \in Seq(Announcement), announced # <<>>,
           announced' = Tail(announced)
    PROVE  /\ announced' \in Seq(Announcement)
           /\ Head(announced) = announced[1]
           /\ Head(announced) \in Announcement
           /\ 1 \in DOMAIN announced
           /\ Len(announced') = Len(announced) - 1
           /\ \A i \in DOMAIN announced' :
                 i + 1 \in DOMAIN announced /\ announced'[i] = announced[i + 1]
           /\ \A i \in DOMAIN announced :
                 i = 1 \/ (i - 1 \in DOMAIN announced' /\ announced'[i - 1] = announced[i])
OBVIOUS

LEMMA DoubtedIsNews ==
    ASSUME NEW news \in Announcement
    PROVE  /\ Doubted(news) \in Announcement
           /\ Doubted(news).told = news.told
           /\ news.told = "removed" =>
                 /\ Doubted(news).res = news.res
                 /\ "died" \in Doubted(news).why
<1>1. CASE news = NewItems
  BY <1>1, NewItemsIsNews DEF Doubted
<1>2. CASE news # NewItems
  <2>1. news \in [told : {"removed"}, res : Resource, why : SUBSET Reason]
    BY <1>2 DEF Announcement
  <2>2. Doubted(news) = [news EXCEPT !.why = @ \cup {"died"}]
    BY <1>2 DEF Doubted
  <2>3. news.why \cup {"died"} \in SUBSET Reason
    BY <2>1 DEF Reason
  <2> QED BY <2>1, <2>2, <2>3 DEF Announcement
<1> QED BY <1>1, <1>2

(* Stripped, as a resource; and why the name may be wrong.                   *)
LEMMA StrippedType ==
    ASSUME request \in Request
    PROVE  Stripped \in Resource
<1>1. request.res \in Resource
  BY RequestParts
<1>2. request.res.kind = "prefixed" => request.res.name \in Application
  BY <1>1 DEF Resource, FileResource
<1> QED BY <1>1, <1>2 DEF Stripped, Resource

LEMMA MisnamedType == Misnamed \in SUBSET Reason
BY DEF Misnamed, Reason

-----------------------------------------------------------------------------
(* Types.  A request past its first stage names no current activity.         *)
ResolvedOK == request # Idle /\ request.stage # "activity" =>
                  request.act \in ActivityId \cup {NoActivity, ":global", ":any"}
Typed == LinkTypeOK /\ ResolvedOK

LEMMA TypedInit == LinkInit => Typed
<1> SUFFICES ASSUME LinkInit PROVE Typed
  OBVIOUS
<1>1. 0 \in 0..MaxCalls
  BY LimitsAssumption
<1>2. changed \in BOOLEAN
  BY Zenon DEF LinkInit
<1>3. /\ listed \in SUBSET ActivityId /\ removed \in SUBSET ActivityId
      /\ current \in ActivityId \cup {NoActivity}
      /\ files \in SUBSET FileResource
      /\ links \in SUBSET Link /\ uncommitted \in SUBSET Link
      /\ request = Idle
      /\ announced \in Seq(Announcement)
      /\ shown \in SUBSET Resource
      /\ stale \in SUBSET Reason
      /\ valid = {}
  BY InheritedAssumption DEF LinkInit
<1>4. calls \in 0..MaxCalls
  BY <1>1 DEF LinkInit
<1>5. LinkTypeOK
  BY <1>2, <1>3, <1>4 DEF LinkTypeOK
<1> QED BY <1>3, <1>5 DEF Typed, ResolvedOK

(* What a query that links leaves in the table is a link.                    *)
LEMMA ChangedType ==
    ASSUME Typed, Running("execute")
    PROVE  Changed(links) \in SUBSET Link
<1>1. request \in Request /\ request.stage = "execute"
  BY WhoRuns DEF Running, Typed
<1>2. request.act \in ActivityId \cup {NoActivity, ":global", ":any"}
  BY <1>1, IdleIsNoRequest DEF Typed, ResolvedOK
<1>3. LinkedTo \in ActivityId \cup {NoActivity, ":global"}
  BY <1>2 DEF LinkedTo
<1>4. [act |-> LinkedTo, agent |-> request.agent, res |-> request.res] \in Link
  BY <1>1, <1>3, RequestParts DEF Link
<1>5. links \in SUBSET Link
  BY DEF LinkTypeOK, Typed
<1> QED BY <1>4, <1>5 DEF Changed

(* What LinkTypeOK says of each variable, primed: an action is left to show  *)
(* that of the variables it changes.                                         *)
LEMMA ItemsType ==
    ASSUME NEW table \in SUBSET Link
    PROVE  Items(table) \in SUBSET Resource
BY DEF Items, LinkedIn, Link

LEMMA HereType == LinkTypeOK' => Here' \subseteq ActivityId \cup FileResource \cup {NoActivity}
BY DEF LinkTypeOK, Here

LEMMA TypedStep == Typed /\ [LinkNext]_linkVars => Typed'
<1> SUFFICES ASSUME Typed, [LinkNext]_linkVars PROVE Typed'
  OBVIOUS
<1>0. /\ listed \in SUBSET ActivityId /\ removed \in SUBSET ActivityId
      /\ current \in ActivityId \cup {NoActivity}
      /\ files \in SUBSET FileResource
      /\ links \in SUBSET Link /\ uncommitted \in SUBSET Link
      /\ request \in Request \cup {Idle}
      /\ announced \in Seq(Announcement)
      /\ shown \in SUBSET Resource
      /\ stale \in SUBSET Reason
      /\ valid \in SUBSET (ActivityId \cup FileResource \cup {NoActivity})
      /\ calls \in 0..MaxCalls
      /\ changed \in BOOLEAN
  BY DEF Typed, LinkTypeOK
<1>1. ASSUME NEW op \in Operation, NEW agent \in Agent, NEW res \in Resource,
             NEW act \in ActivityId \cup Special, Call(op, agent, res, act)
      PROVE  Typed'
  <2>1. /\ request' = [op |-> op, stage |-> "activity", agent |-> agent,
                       res |-> res, act |-> act]
        /\ valid' = Here
        /\ calls < MaxCalls /\ calls' = calls + 1
        /\ UNCHANGED <<listed, removed, current, files, links, uncommitted,
                       changed, announced, shown, stale>>
    BY <1>1 DEF Call, Begin, surround, store, view
  <2>2. request' \in Request /\ request'.stage = "activity"
    BY <2>1 DEF Request, Stages
  <2>3. valid' \in SUBSET (ActivityId \cup FileResource \cup {NoActivity})
    BY <1>0, <2>1 DEF Here
  <2>4. calls' \in 0..MaxCalls
    BY <1>0, <2>1, LimitsAssumption
  <2> QED BY <1>0, <2>1, <2>2, <2>3, <2>4 DEF Typed, LinkTypeOK, ResolvedOK
<1>2. CASE ResolveActivity
  <2>1. /\ request \in Request
        /\ request' = [request EXCEPT !.stage = "exists", !.act = Resolved]
        /\ UNCHANGED <<listed, removed, current, files, links, uncommitted,
                       changed, announced, shown, stale, valid, calls>>
    BY <1>0, <1>2 DEF ResolveActivity, Running, surround, store, view
  <2>2. Resolved \in ActivityId \cup {NoActivity, ":global", ":any"}
    BY <1>0, <2>1, RequestParts DEF Resolved, Special
  <2>3. request' \in Request /\ request'.act = Resolved
    BY <2>1, <2>2 DEF Request, Stages, Special
  <2> QED BY <1>0, <2>1, <2>2, <2>3 DEF Typed, LinkTypeOK, ResolvedOK
<1>3. ASSUME NEW stage \in Stages, Continue(stage), request # Idle,
             request.stage # "activity"
      PROVE  /\ request' \in Request
             /\ ResolvedOK'
             /\ valid' \in SUBSET (ActivityId \cup FileResource \cup {NoActivity})
  <2>1. request \in Request /\ request' = [request EXCEPT !.stage = stage]
    BY <1>0, <1>3 DEF Continue
  <2>2. request' \in Request
    BY <2>1, StageChanges
  <2>3. request'.act = request.act
    BY <2>1 DEF Request
  <2> QED BY <1>0, <1>3, <2>2, <2>3 DEF Continue, Typed, ResolvedOK
<1>4. ASSUME Return
      PROVE  /\ request' \in Request \cup {Idle}
             /\ ResolvedOK'
             /\ valid' \in SUBSET (ActivityId \cup FileResource \cup {NoActivity})
  BY <1>4 DEF Return, ResolvedOK
<1>5. CASE CheckActivity
  <2>1. /\ request # Idle /\ request.stage = "exists"
        /\ Continue("execute") \/ Return
        /\ UNCHANGED <<listed, removed, current, files, links, uncommitted,
                       changed, announced, shown, stale, calls>>
    BY <1>5 DEF CheckActivity, Running, surround, store, view
  <2>2. "execute" \in Stages
    BY DEF Stages
  <2> QED BY <1>0, <1>3, <1>4, <2>1, <2>2 DEF Typed, LinkTypeOK
<1>6. CASE Execute
  <2>1. /\ Running("execute")
        /\ request # Idle /\ request.stage = "execute"
        /\ uncommitted' \in {Changed(links), links}
        /\ Continue("announce")
        /\ UNCHANGED <<listed, removed, current, files, links,
                       changed, announced, shown, stale, calls>>
    BY <1>6 DEF Execute, Running, surround, view
  <2>2. "announce" \in Stages
    BY DEF Stages
  <2>3. uncommitted' \in SUBSET Link
    BY <1>0, <2>1, ChangedType
  <2> QED BY <1>0, <1>3, <2>1, <2>2, <2>3 DEF Typed, LinkTypeOK
<1>7. CASE Announce
  <2>1. /\ request # Idle /\ request.stage = "announce"
        /\ stale' = stale \cup FromAny
        /\ Continue("commit")
        /\ UNCHANGED <<listed, removed, current, files, links, uncommitted,
                       changed, shown, calls>>
    BY <1>7 DEF Announce, Running, surround, store
  <2>2. "commit" \in Stages
    BY DEF Stages
  <2>3. request \in Request
    BY <2>1, WhoRuns DEF Typed
  <2>4. announced' \in Seq(Announcement)
    <3>1. Gone(Stripped, Misnamed) \in Announcement
      BY <2>3, StrippedType, MisnamedType, GoneIsNews
    <3>2. \/ Send(NewItems) \/ Send(Gone(Stripped, Misnamed))
          \/ announced' = announced
      BY <1>7 DEF Announce
    <3> QED BY <1>0, <3>1, <3>2, NewItemsIsNews, Sent
  <2>5. stale' \in SUBSET Reason
    BY <1>0, <2>1 DEF FromAny, Reason
  <2> QED BY <1>0, <1>3, <2>1, <2>2, <2>4, <2>5 DEF Typed, LinkTypeOK
<1>8. CASE Commit
  <2>1. /\ links' = uncommitted /\ Return
        /\ UNCHANGED <<listed, removed, current, files, uncommitted,
                       changed, announced, shown, stale, calls>>
    BY <1>8 DEF Commit, surround, view
  <2> QED BY <1>0, <1>4, <2>1 DEF Typed, LinkTypeOK
<1>9. CASE OnCurrentActivityChanged
  <2>1. /\ UNCHANGED <<listed, removed, current, files, links, uncommitted,
                       request, shown, stale, valid, calls>>
    BY <1>9 DEF OnCurrentActivityChanged, surround, store, view
  <2>2. changed' \in BOOLEAN
    BY <1>9, Zenon DEF OnCurrentActivityChanged
  <2>3. announced' \in Seq(Announcement)
    BY <1>0, <1>9, NewItemsIsNews, Sent DEF OnCurrentActivityChanged
  <2> QED BY <1>0, <2>1, <2>2, <2>3 DEF Typed, LinkTypeOK, ResolvedOK
<1>10. CASE ReadView
  <2>1. /\ announced # <<>> /\ announced' = Tail(announced)
        /\ shown' = Items(links)
        /\ stale' = IF ~Running("commit") THEN {}
                    ELSE FromAny \cup IF Uncommitted THEN {"early"} ELSE {}
        /\ UNCHANGED <<listed, removed, current, files, links, uncommitted,
                       request, changed, valid, calls>>
    BY <1>10 DEF ReadView, surround, store
  <2>2. announced' \in Seq(Announcement)
    BY <1>0, <2>1, Taken
  <2>3. stale' \in SUBSET Reason
    BY <2>1 DEF FromAny, Reason
  <2>4. shown' \in SUBSET Resource
    BY <1>0, <2>1, ItemsType
  <2> QED BY <1>0, <2>1, <2>2, <2>3, <2>4 DEF Typed, LinkTypeOK, ResolvedOK
<1>17. CASE DropItem
  <2>1. /\ announced # <<>> /\ announced' = Tail(announced)
        /\ Head(announced) # NewItems
        /\ shown' = shown \ {Head(announced).res}
        /\ stale' = stale \cup Head(announced).why
        /\ UNCHANGED <<listed, removed, current, files, links, uncommitted,
                       request, changed, valid, calls>>
    BY <1>17 DEF DropItem, surround, store
  <2>2. announced' \in Seq(Announcement) /\ Head(announced) \in Announcement
    BY <1>0, <2>1, Taken
  <2>3. stale' \in SUBSET Reason
    BY <1>0, <2>1, <2>2, News
  <2> QED BY <1>0, <2>1, <2>2, <2>3 DEF Typed, LinkTypeOK, ResolvedOK
<1>11. ASSUME SeenToo,
              Here' \subseteq ActivityId \cup FileResource \cup {NoActivity}
       PROVE  valid' \in SUBSET (ActivityId \cup FileResource \cup {NoActivity})
  BY <1>0, <1>11 DEF SeenToo
<1>12. ASSUME NEW a \in ActivityId, AddOrRemoveActivity(a) PROVE Typed'
  <2>1. /\ SeenToo
        /\ listed' \in SUBSET ActivityId /\ removed' \in SUBSET ActivityId
        /\ UNCHANGED <<current, files, links, uncommitted, request, changed,
                       announced, shown, stale, calls>>
    BY <1>0, <1>12 DEF AddOrRemoveActivity, store, view
  <2>2. Here' \subseteq ActivityId \cup FileResource \cup {NoActivity}
    BY <1>0, <2>1 DEF Here
  <2> QED BY <1>0, <1>11, <2>1, <2>2 DEF Typed, LinkTypeOK, ResolvedOK
<1>13. ASSUME NEW a \in listed \cup {NoActivity}, SwitchActivity(a) PROVE Typed'
  <2>1. /\ SeenToo
        /\ current' \in ActivityId \cup {NoActivity}
        /\ UNCHANGED <<listed, removed, files, links, uncommitted, request,
                       announced, shown, stale, calls>>
    BY <1>0, <1>13 DEF SwitchActivity, store, view
  <2>2. changed' \in BOOLEAN
    BY <1>13, Zenon DEF SwitchActivity
  <2>3. Here' \subseteq ActivityId \cup FileResource \cup {NoActivity}
    BY <1>0, <2>1 DEF Here
  <2> QED BY <1>0, <1>11, <2>1, <2>2, <2>3 DEF Typed, LinkTypeOK, ResolvedOK
<1>14. ASSUME NEW f \in FileResource, MakeOrDeleteFile(f) PROVE Typed'
  <2>1. /\ SeenToo
        /\ files' \in SUBSET FileResource
        /\ UNCHANGED <<listed, removed, current, links, uncommitted, request,
                       changed, announced, shown, stale, calls>>
    BY <1>0, <1>14 DEF MakeOrDeleteFile, store, view
  <2>2. Here' \subseteq ActivityId \cup FileResource \cup {NoActivity}
    BY <1>0, <2>1 DEF Here
  <2> QED BY <1>0, <1>11, <2>1, <2>2 DEF Typed, LinkTypeOK, ResolvedOK
<1>15. CASE Die
  <2>1. /\ Return
        /\ uncommitted' = links
        /\ stale' = stale \cup IF changed \/ Uncommitted THEN {"died"} ELSE {}
        /\ \/ announced' = [i \in 1..Len(announced) |-> Doubted(announced[i])]
           \/ announced' = announced
        /\ UNCHANGED <<listed, removed, current, files, links, shown, calls>>
    BY <1>15 DEF Die, surround
  <2>2. changed' \in BOOLEAN
    BY <1>15, Zenon DEF Die
  <2>3. stale' \in SUBSET Reason
    BY <1>0, <2>1 DEF Reason
  <2>4. announced' \in Seq(Announcement)
    BY <1>0, <2>1, DoubtedIsNews
  <2> QED BY <1>0, <1>4, <2>1, <2>2, <2>3, <2>4 DEF Typed, LinkTypeOK
<1>16. CASE UNCHANGED linkVars
  BY <1>0, <1>16 DEF linkVars, surround, store, view, Typed, LinkTypeOK, ResolvedOK
<1> QED BY <1>1, <1>2, <1>5, <1>6, <1>7, <1>8, <1>9, <1>10, <1>12, <1>13, <1>14,
           <1>15, <1>16, <1>17 DEF LinkNext

-----------------------------------------------------------------------------
(* What a method acts upon was there while it ran.  Everything that there is *)
(* now is among what there was; the file of the call was found; and the      *)
(* activity that passed the look-up was either listed or the current one.    *)
Seen ==
    request # Idle =>
        /\ Here \subseteq valid
        /\ request.res.kind = "file" => request.res \in valid
        /\ request.stage = "exists" /\ request.act = NoActivity =>
               NoActivity \in valid
        /\ request.stage \in {"execute", "announce", "commit"} =>
               request.act \in valid \cup {":global", ":any"}

(* Until it commits, the transaction holds the outcome of one query.         *)
Going ==
    request # Idle /\ request.stage \in {"announce", "commit"} =>
        uncommitted \in {Changed(links), links}

(* What the table is about to be, and what the view will be when it has      *)
(* taken the announcements that are on their way.  If it is not going to     *)
(* read the table, it drops what is announced as gone, which is all that     *)
(* what it shows has too much; what is gone is not in the table, unless a    *)
(* later announcement makes the view read.                                   *)
Coming == IF Running("commit") THEN uncommitted ELSE links
Trusted(i) == announced[i].told = "removed" /\ announced[i].why = {}
NoNewsAfter(i) == \A j \in DOMAIN announced : j > i => announced[j].told # "added"
SoundDrops ==
    ~changed => \A i \in DOMAIN announced :
                   Trusted(i) /\ NoNewsAfter(i) =>
                       announced[i].res \notin Items(Coming)
AllTrusted == stale = {} /\ \A i \in DOMAIN announced : Trusted(i)
Dropping(res) == \E i \in DOMAIN announced : announced[i].res = res
SoundView ==
    ~changed /\ AllTrusted =>
        /\ Items(Coming) \subseteq shown
        /\ \A res \in shown : res \in Items(Coming) \/ Dropping(res)
Fresh == SoundDrops /\ SoundView

IInv == Typed /\ Seen /\ Going /\ Fresh

LEMMA IInvInit == LinkInit => IInv
<1> SUFFICES ASSUME LinkInit PROVE IInv
  OBVIOUS
<1>1. /\ request = Idle /\ shown = {} /\ announced = <<>>
      /\ current = NoActivity
  BY DEF LinkInit
<1>2. Coming = links
  BY <1>1 DEF Coming, Running
<1>3. Items(links) = {}
  BY <1>1 DEF Items, LinkedIn
<1>4. Fresh
  BY <1>1, <1>2, <1>3 DEF Fresh, SoundDrops, SoundView
<1> QED BY <1>1, <1>4, TypedInit DEF IInv, Seen, Going

(* What Changed needs of the request is not its stage.                       *)
LEMMA ChangedKeeps ==
    ASSUME request \in Request, NEW stage,
           request' = [request EXCEPT !.stage = stage], links' = links
    PROVE  /\ Changed(links)' = Changed(links)
           /\ request'.stage = stage
           /\ request'.act = request.act
           /\ request'.res = request.res
           /\ request'.op = request.op
<1>1. /\ request'.act = request.act
      /\ request'.res = request.res
      /\ request'.op = request.op
      /\ request'.agent = request.agent
      /\ request'.stage = stage
  BY DEF Request
<1>2. LinkedTo' = LinkedTo
  BY <1>1 DEF LinkedTo
<1>3. \A l : Matches(l)' <=> Matches(l)
  <2>1. Stripped' = Stripped
    BY <1>1 DEF Stripped
  <2> QED BY <1>1, <2>1 DEF Matches
<1>4. {l \in links' : ~Matches(l)'} = {l \in links : ~Matches(l)}
  BY <1>3
<1> QED BY <1>1, <1>2, <1>4 DEF Changed

(* A query about another activity leaves the links of the current one.       *)
LEMMA ChangedElsewhere ==
    ASSUME Typed, request \in Request, request.stage # "activity",
           ~Named, FromAny = {}
    PROVE  Items(Changed(links)) = Items(links)
<1>1. current # NoActivity => request.act # current
  BY DEF Named
<1>2. CASE request.op = "link"
  <2> DEFINE new == [act |-> LinkedTo, agent |-> request.agent,
                     res |-> request.res]
  <2>1. Changed(links) = links \cup {new}
    BY <1>2 DEF Changed
  <2>2. current # ":global"
    BY SpecialAssumption DEF Typed, LinkTypeOK
  <2>3. current # NoActivity => new.act # current
    BY <1>1, <2>2 DEF LinkedTo
  <2> HIDE DEF new
  <2> QED BY <2>1, <2>3 DEF Items, LinkedIn
<1>3. CASE request.op # "link"
  <2>1. Changed(links) = {l \in links : ~Matches(l)}
    BY <1>3 DEF Changed
  <2>2. request.op = "unlink"
    BY <1>3, RequestParts
  <2>3. request.act # ":any"
    BY <2>2 DEF FromAny
  <2>4. \A l \in links : Matches(l) => l.act = request.act
    BY <2>3 DEF Matches
  <2> QED BY <1>1, <2>1, <2>4 DEF Items, LinkedIn
<1> QED BY <1>2, <1>3

LEMMA SeenStep == Typed /\ Seen /\ [LinkNext]_linkVars => Seen'
<1> SUFFICES ASSUME Typed, Seen, [LinkNext]_linkVars PROVE Seen'
  OBVIOUS
<1>0. request \in Request \cup {Idle}
  BY DEF Typed, LinkTypeOK
<1>1. ASSUME NEW op \in Operation, NEW agent \in Agent, NEW res \in Resource,
             NEW act \in ActivityId \cup Special, Call(op, agent, res, act)
      PROVE  Seen'
  <2>1. /\ request'.stage = "activity" /\ request'.res = res
        /\ valid' = Here /\ Here' = Here
        /\ res.kind = "file" => res \in Here
    BY <1>1 DEF Call, Begin, surround, Here
  <2> QED BY <2>1 DEF Seen
<1>2. CASE ResolveActivity
  <2>1. /\ request \in Request /\ request # Idle
        /\ request' = [request EXCEPT !.stage = "exists", !.act = Resolved]
        /\ valid' = valid /\ Here' = Here /\ current' = current
    BY <1>0, <1>2 DEF ResolveActivity, Running, surround, Here
  <2>2. request'.stage = "exists" /\ request'.act = Resolved
        /\ request'.res = request.res
    BY <2>1 DEF Request
  <2>3. Resolved = NoActivity => current = NoActivity
    BY SpecialAssumption DEF Resolved
  <2>4. Resolved = NoActivity => NoActivity \in valid
    BY <2>1, <2>3 DEF Seen, Here
  <2> QED BY <2>1, <2>2, <2>4 DEF Seen
<1>3. ASSUME NEW stage \in {"execute", "announce", "commit"}, Continue(stage),
             UNCHANGED surround, request # Idle,
             request.act \in valid \cup {":global", ":any"}
      PROVE  Seen'
  <2>1. /\ request \in Request
        /\ request' = [request EXCEPT !.stage = stage]
        /\ valid' = valid /\ Here' = Here
    BY <1>0, <1>3 DEF Continue, surround, Here
  <2>2. request'.stage = stage /\ request'.act = request.act
        /\ request'.res = request.res
    BY <2>1 DEF Request
  <2> QED BY <1>3, <2>1, <2>2 DEF Seen
<1>4. ASSUME request' = Idle PROVE Seen'
  BY <1>4 DEF Seen
<1>5. CASE CheckActivity
  <2>1. CASE request.act \in listed \cup {NoActivity, ":global", ":any"}
    <3>1. /\ Continue("execute") /\ UNCHANGED surround /\ request # Idle
          /\ request.stage = "exists"
      BY <1>5, <2>1 DEF CheckActivity, Running
    <3>2. request.act \in valid \cup {":global", ":any"}
      BY <2>1, <3>1 DEF Seen, Here
    <3> QED BY <1>3, <3>1, <3>2
  <2>2. CASE request.act \notin listed \cup {NoActivity, ":global", ":any"}
    BY <1>4, <1>5, <2>2 DEF CheckActivity, Return
  <2> QED BY <2>1, <2>2
<1>6. CASE Execute
  <2>1. /\ Continue("announce") /\ UNCHANGED surround /\ request # Idle
        /\ request.stage = "execute"
    BY <1>6 DEF Execute, Running
  <2> QED BY <1>3, <2>1 DEF Seen
<1>7. CASE Announce
  <2>1. /\ Continue("commit") /\ UNCHANGED surround /\ request # Idle
        /\ request.stage = "announce"
    BY <1>7 DEF Announce, Running
  <2> QED BY <1>3, <2>1 DEF Seen
<1>8. CASE Commit \/ Die
  BY <1>4, <1>8 DEF Commit, Die, Return
<1>9. CASE OnCurrentActivityChanged \/ ReadView \/ DropItem \/ UNCHANGED linkVars
  <2>1. request' = request /\ valid' = valid /\ Here' = Here
    BY <1>9 DEF OnCurrentActivityChanged, ReadView, DropItem, linkVars, surround, Here
  <2> QED BY <2>1 DEF Seen
<1>10. ASSUME SeenToo, request' = request PROVE Seen'
  <2>1. request # Idle => valid' = valid \cup Here'
    BY <1>10 DEF SeenToo
  <2> QED BY <1>10, <2>1 DEF Seen
<1>11. ASSUME NEW a \in ActivityId, AddOrRemoveActivity(a) PROVE Seen'
  BY <1>10, <1>11 DEF AddOrRemoveActivity
<1>12. ASSUME NEW a \in listed \cup {NoActivity}, SwitchActivity(a) PROVE Seen'
  BY <1>10, <1>12 DEF SwitchActivity
<1>13. ASSUME NEW f \in FileResource, MakeOrDeleteFile(f) PROVE Seen'
  BY <1>10, <1>13 DEF MakeOrDeleteFile
<1> QED BY <1>1, <1>2, <1>5, <1>6, <1>7, <1>8, <1>9, <1>11, <1>12, <1>13 DEF LinkNext

LEMMA GoingStep == Typed /\ Going /\ [LinkNext]_linkVars => Going'
<1> SUFFICES ASSUME Typed, Going, [LinkNext]_linkVars PROVE Going'
  OBVIOUS
<1>0. request \in Request \cup {Idle}
  BY DEF Typed, LinkTypeOK
<1>1. ASSUME request' # Idle => request'.stage \notin {"announce", "commit"}
      PROVE  Going'
  BY <1>1 DEF Going
<1>2. ASSUME request' = request, UNCHANGED store PROVE Going'
  <2>1. Changed(links)' = Changed(links)
    BY <1>2 DEF Changed, Matches, Stripped, LinkedTo, store
  <2> QED BY <1>2, <2>1 DEF Going, store
<1>3. ASSUME NEW op \in Operation, NEW agent \in Agent, NEW res \in Resource,
             NEW act \in ActivityId \cup Special, Call(op, agent, res, act)
      PROVE  Going'
  <2>1. request'.stage = "activity"
    BY <1>3 DEF Call, Begin
  <2> QED BY <1>1, <2>1
<1>4. CASE ResolveActivity
  <2>1. /\ request \in Request
        /\ request' = [request EXCEPT !.stage = "exists", !.act = Resolved]
    BY <1>0, <1>4 DEF ResolveActivity, Running
  <2>2. request'.stage = "exists"
    BY <2>1 DEF Request
  <2> QED BY <1>1, <2>2
<1>5. CASE CheckActivity
  <2>1. request \in Request /\ (Continue("execute") \/ Return)
    BY <1>0, <1>5 DEF CheckActivity, Running
  <2>2. request' # Idle => request'.stage = "execute"
    BY <2>1 DEF Continue, Return, Request
  <2> QED BY <1>1, <2>2
<1>6. CASE Execute
  <2>1. /\ request \in Request /\ links' = links
        /\ request' = [request EXCEPT !.stage = "announce"]
        /\ uncommitted' \in {Changed(links), links}
    BY <1>0, <1>6 DEF Execute, Running, Continue
  <2>2. Changed(links)' = Changed(links)
    BY <2>1, ChangedKeeps
  <2> QED BY <2>1, <2>2 DEF Going
<1>7. CASE Announce
  <2>1. /\ request \in Request /\ request # Idle /\ request.stage = "announce"
        /\ links' = links /\ uncommitted' = uncommitted
        /\ request' = [request EXCEPT !.stage = "commit"]
    BY <1>0, <1>7 DEF Announce, Running, Continue, store
  <2>2. Changed(links)' = Changed(links)
    BY <2>1, ChangedKeeps
  <2> QED BY <2>1, <2>2 DEF Going
<1>8. CASE Commit \/ Die
  BY <1>1, <1>8 DEF Commit, Die, Return
<1>9. CASE \/ OnCurrentActivityChanged \/ ReadView \/ DropItem
           \/ UNCHANGED linkVars
           \/ \E a \in ActivityId : AddOrRemoveActivity(a)
           \/ \E a \in listed \cup {NoActivity} : SwitchActivity(a)
           \/ \E f \in FileResource : MakeOrDeleteFile(f)
  BY <1>2, <1>9 DEF OnCurrentActivityChanged, ReadView, DropItem, linkVars,
                    AddOrRemoveActivity, SwitchActivity, MakeOrDeleteFile
<1> QED BY <1>3, <1>4, <1>5, <1>6, <1>7, <1>8, <1>9 DEF LinkNext

(* A step that leaves the queue, what is to come and the view's own state.   *)
LEMMA SameView ==
    ASSUME Fresh, announced' = announced, stale' = stale, shown' = shown,
           current' = current, changed' = changed, Coming' = Coming
    PROVE  Fresh'
<1>1. Items(Coming)' = Items(Coming)
  BY DEF Items, LinkedIn
<1>2. /\ \A i : Trusted(i)' <=> Trusted(i)
      /\ \A i : NoNewsAfter(i)' <=> NoNewsAfter(i)
      /\ \A res : Dropping(res)' <=> Dropping(res)
  BY DEF Trusted, NoNewsAfter, Dropping
<1>3. AllTrusted' <=> AllTrusted
  BY <1>2 DEF AllTrusted
<1>4. SoundDrops'
  BY <1>1, <1>2 DEF Fresh, SoundDrops
<1>5. SoundView'
  BY <1>1, <1>2, <1>3 DEF Fresh, SoundView
<1> QED BY <1>4, <1>5 DEF Fresh

(* A view that is going to read the table need not be right.                 *)
LEMMA ReadsLast ==
    ASSUME announced' \in Seq(Announcement), Len(announced') \in Nat \ {0},
           announced'[Len(announced')] = NewItems
    PROVE  Fresh'
<1> DEFINE n == Len(announced')
<1>1. n \in DOMAIN announced' /\ announced'[n].told = "added"
  BY NewItemsIsNews
<1>2. ~AllTrusted'
  BY <1>1 DEF AllTrusted, Trusted
<1>3. ASSUME NEW i \in DOMAIN announced', Trusted(i)'
      PROVE  ~NoNewsAfter(i)'
  <2>1. i # n /\ i <= n
    BY <1>1, <1>3 DEF Trusted
  <2>2. n > i
    BY <2>1
  <2> QED BY <1>1, <2>2 DEF NoNewsAfter
<1>4. SoundDrops'
  BY <1>3 DEF SoundDrops
<1>5. SoundView'
  BY <1>2 DEF SoundView
<1> QED BY <1>4, <1>5 DEF Fresh

(* The links of the current activity after an unlink from it that names what *)
(* goes are those without what is named.                                     *)
LEMMA NamedGoes ==
    ASSUME Typed, request \in Request, request.op = "unlink", Named,
           Misnamed = {}
    PROVE  /\ uncommitted = Changed(links)
           /\ \A res : res \in Items(Changed(links)) <=>
                          res \in Items(links) /\ res # Stripped
<1>1. /\ uncommitted = Changed(links)
      /\ \A l \in links : Matches(l) => l.res = Stripped
      /\ Stripped \notin {l.res : l \in {m \in LinkedIn(links) : ~Matches(m)}}
  <2>1. \A why \in {"failed", "prefix", "shared"} : why \notin Misnamed
    OBVIOUS
  <2> QED BY <2>1 DEF Misnamed
<1>2. Changed(links) = {l \in links : ~Matches(l)}
  BY DEF Changed
<1>3. \A l \in LinkedIn(links) : ~Matches(l) => l.res # Stripped
  BY <1>1
<1>4. LinkedIn(Changed(links)) = {l \in LinkedIn(links) : ~Matches(l)}
  BY <1>2 DEF LinkedIn
<1>5. \A l \in LinkedIn(links) : Matches(l) <=> l.res = Stripped
  BY <1>1, <1>3 DEF LinkedIn
<1> QED BY <1>1, <1>4, <1>5 DEF Items

(* What an unlink leaves of a table is in the table.                         *)
LEMMA UnlinkShrinks ==
    ASSUME Going, request # Idle, request.stage = "announce",
           request.op = "unlink"
    PROVE  Items(uncommitted) \subseteq Items(links)
<1>1. uncommitted \subseteq links
  BY DEF Going, Changed
<1> QED BY <1>1 DEF Items, LinkedIn

LEMMA AnnounceFresh ==
    ASSUME IInv, Announce
    PROVE  Fresh'
<1>1. /\ request \in Request /\ request # Idle /\ request.stage = "announce"
      /\ Typed /\ Going /\ SoundDrops /\ SoundView
      /\ announced \in Seq(Announcement)
  BY DEF IInv, Fresh, Typed, LinkTypeOK, Announce, Running
<1>2. /\ links' = links /\ uncommitted' = uncommitted /\ shown' = shown
      /\ current' = current /\ changed' = changed
      /\ stale' = stale \cup FromAny
      /\ request' = [request EXCEPT !.stage = "commit"]
  BY DEF Announce, Continue, surround, store
<1>3. Coming = links
  BY <1>1 DEF Coming, Running
<1>4. Coming' = uncommitted
  <2>1. request' # Idle /\ request'.stage = "commit"
    BY <1>1, <1>2, StageChanges, IdleIsNoRequest DEF Request, Stages
  <2> QED BY <1>2, <2>1 DEF Coming, Running
<1>5. Items(Coming)' = Items(uncommitted)
  BY <1>2, <1>4 DEF Items, LinkedIn
<1>6. CASE Named /\ request.op = "link"
  <2>1. Send(NewItems)
    BY <1>6 DEF Announce
  <2> QED BY <1>1, <2>1, NewItemsIsNews, Sent, ReadsLast
<1>7. CASE Named /\ request.op = "unlink"
  <2>1. Send(Gone(Stripped, Misnamed))
    BY <1>7 DEF Announce
  <2>2. PICK news : news = Gone(Stripped, Misnamed)
    OBVIOUS
  <2>3. /\ news \in Announcement /\ news.told = "removed"
        /\ news.res = Stripped /\ news.why = Misnamed
    BY <1>1, <2>2, StrippedType, MisnamedType, GoneIsNews
  <2>4. announced' = Append(announced, news)
    BY <1>1, <2>1, <2>2, <2>3, SentGone
  <2> DEFINE n == Len(announced) + 1
  <2>5. /\ DOMAIN announced' = DOMAIN announced \cup {n}
        /\ announced'[n] = news
        /\ \A i \in DOMAIN announced : announced'[i] = announced[i] /\ i < n
    BY <1>1, <2>4
  <2>6. Items(uncommitted) \subseteq Items(links)
    BY <1>1, <1>7, UnlinkShrinks
  <2>7. ASSUME Misnamed = {}
        PROVE  \A res : res \in Items(uncommitted) <=>
                           res \in Items(links) /\ res # Stripped
    BY <1>1, <1>7, <2>7, NamedGoes
  <2>8. SoundDrops'
    <3> SUFFICES ASSUME ~changed, NEW i \in DOMAIN announced', Trusted(i)',
                        NoNewsAfter(i)'
                 PROVE  announced'[i].res \notin Items(uncommitted)
      BY <1>2, <1>5 DEF SoundDrops
    <3>1. CASE i = n
      BY <2>3, <2>5, <2>7, <3>1 DEF Trusted
    <3>2. CASE i # n
      <4>1. i \in DOMAIN announced /\ announced'[i] = announced[i]
        BY <2>5, <3>2
      <4>2. Trusted(i) /\ NoNewsAfter(i)
        BY <2>5, <4>1 DEF Trusted, NoNewsAfter
      <4> QED BY <1>1, <1>3, <2>6, <4>1, <4>2 DEF SoundDrops
    <3> QED BY <3>1, <3>2
  <2>9. SoundView'
    <3> SUFFICES ASSUME ~changed, AllTrusted'
                 PROVE  /\ Items(uncommitted) \subseteq shown
                        /\ \A res \in shown :
                              res \in Items(uncommitted) \/ Dropping(res)'
      BY <1>2, <1>5 DEF SoundView
    <3>1. AllTrusted /\ Misnamed = {}
      BY <1>2, <2>3, <2>5 DEF AllTrusted, Trusted
    <3>2. /\ Items(links) \subseteq shown
          /\ \A res \in shown : res \in Items(links) \/ Dropping(res)
      BY <1>1, <1>3, <3>1 DEF SoundView
    <3>3. \A res : Dropping(res) => Dropping(res)'
      BY <2>5 DEF Dropping
    <3>4. \A res : res = Stripped => Dropping(res)'
      BY <2>3, <2>5 DEF Dropping
    <3> QED BY <2>6, <2>7, <3>1, <3>2, <3>3, <3>4
  <2> QED BY <2>8, <2>9 DEF Fresh
<1>8. CASE ~Named
  <2>1. announced' = announced
    BY <1>8 DEF Announce
  <2>2. /\ \A i : Trusted(i)' <=> Trusted(i)
        /\ \A i : NoNewsAfter(i)' <=> NoNewsAfter(i)
        /\ \A res : Dropping(res)' <=> Dropping(res)
    BY <2>1 DEF Trusted, NoNewsAfter, Dropping
  <2>3. FromAny = {} => Items(uncommitted) = Items(links)
    BY <1>1, <1>8, ChangedElsewhere DEF Going
  <2>4. Items(uncommitted) \subseteq Items(links)
    <3>1. FromAny # {} => request.op = "unlink"
      BY DEF FromAny
    <3> QED BY <1>1, <2>3, <3>1, UnlinkShrinks
  <2>5. SoundDrops'
    BY <1>1, <1>2, <1>3, <1>5, <2>1, <2>2, <2>4 DEF SoundDrops
  <2>6. SoundView'
    <3>1. AllTrusted' => AllTrusted /\ FromAny = {}
      BY <1>2, <2>1, <2>2 DEF AllTrusted
    <3> QED BY <1>1, <1>2, <1>3, <1>5, <2>2, <2>3, <3>1 DEF SoundView
  <2> QED BY <2>5, <2>6 DEF Fresh
<1> QED BY <1>1, <1>6, <1>7, <1>8, RequestParts

(* Of a shorter queue the same may be said.                                  *)
LEMMA DropsMoveUp ==
    ASSUME SoundDrops, announced \in Seq(Announcement), announced # <<>>,
           announced' = Tail(announced), changed' = changed,
           Items(Coming)' = Items(Coming)
    PROVE  SoundDrops'
<1> SUFFICES ASSUME ~changed, NEW i \in DOMAIN announced', Trusted(i)',
                    NoNewsAfter(i)'
             PROVE  announced'[i].res \notin Items(Coming)
  BY DEF SoundDrops
<1>1. i + 1 \in DOMAIN announced /\ announced'[i] = announced[i + 1]
  BY Taken
<1>2. Trusted(i + 1)
  BY <1>1 DEF Trusted
<1>3. NoNewsAfter(i + 1)
  <2> SUFFICES ASSUME NEW j \in DOMAIN announced, j > i + 1
               PROVE  announced[j].told # "added"
    BY DEF NoNewsAfter
  <2>1. j # 1 /\ i \in Nat /\ j \in Nat /\ j - 1 > i
    BY <1>1
  <2>2. j - 1 \in DOMAIN announced' /\ announced'[j - 1] = announced[j]
    BY <2>1, Taken
  <2> QED BY <2>1, <2>2 DEF NoNewsAfter
<1> QED BY <1>1, <1>2, <1>3 DEF SoundDrops

(* The view takes the first announcement: it reads ...                       *)
LEMMA ReadFresh ==
    ASSUME IInv, ReadView
    PROVE  Fresh'
<1>1. /\ SoundDrops /\ announced \in Seq(Announcement)
  BY DEF IInv, Fresh, Typed, LinkTypeOK
<1>2. /\ announced # <<>> /\ announced' = Tail(announced)
      /\ shown' = Items(links)
      /\ stale' = IF ~Running("commit") THEN {}
                  ELSE FromAny \cup IF Uncommitted THEN {"early"} ELSE {}
      /\ links' = links /\ uncommitted' = uncommitted /\ request' = request
      /\ current' = current /\ changed' = changed
  BY DEF ReadView, surround, store
<1>3. Coming' = Coming
  BY <1>2 DEF Coming, Running
<1>4. Items(Coming)' = Items(Coming)
  BY <1>2, <1>3 DEF Items, LinkedIn
<1>5. stale' = {} => Coming = links
  BY <1>2 DEF Coming, Uncommitted
<1>6. SoundView'
  <2>1. AllTrusted' => shown' = Items(Coming)
    BY <1>2, <1>5 DEF AllTrusted
  <2> QED BY <1>4, <2>1 DEF SoundView
<1>7. SoundDrops'
  BY <1>1, <1>2, <1>4, DropsMoveUp
<1> QED BY <1>6, <1>7 DEF Fresh

(* ... or drops what is gone.                                                *)
LEMMA DropFresh ==
    ASSUME IInv, DropItem
    PROVE  Fresh'
<1>1. /\ SoundDrops /\ SoundView /\ announced \in Seq(Announcement)
  BY DEF IInv, Fresh, Typed, LinkTypeOK
<1>2. /\ announced # <<>> /\ announced' = Tail(announced)
      /\ Head(announced) # NewItems
      /\ shown' = shown \ {Head(announced).res}
      /\ stale' = stale \cup Head(announced).why
      /\ links' = links /\ uncommitted' = uncommitted /\ request' = request
      /\ current' = current /\ changed' = changed
  BY DEF DropItem, surround, store
<1>3. Coming' = Coming
  BY <1>2 DEF Coming, Running
<1>4. Items(Coming)' = Items(Coming)
  BY <1>2, <1>3 DEF Items, LinkedIn
<1>5. /\ Head(announced) = announced[1] /\ 1 \in DOMAIN announced
      /\ announced[1].told = "removed"
      /\ \A i \in DOMAIN announced :
            i = 1 \/ (i - 1 \in DOMAIN announced' /\ announced'[i - 1] = announced[i])
  BY <1>1, <1>2, Taken, News
<1>6. SoundDrops'
  BY <1>1, <1>2, <1>4, DropsMoveUp
<1>7. SoundView'
  <2> SUFFICES ASSUME ~changed, AllTrusted'
               PROVE  /\ Items(Coming) \subseteq shown'
                      /\ \A res \in shown' : res \in Items(Coming) \/ Dropping(res)'
    BY <1>2, <1>4 DEF SoundView
  <2>1. \A i \in DOMAIN announced : Trusted(i)
    <3>1. Trusted(1)
      BY <1>2, <1>5 DEF AllTrusted, Trusted
    <3>2. ASSUME NEW i \in DOMAIN announced, i # 1 PROVE Trusted(i)
      <4>1. /\ i - 1 \in DOMAIN announced'
            /\ announced'[i - 1] = announced[i]
        BY <1>5, <3>2
      <4>2. PICK j : j = i - 1
        OBVIOUS
      <4>3. Trusted(j)'
        BY <4>1, <4>2 DEF AllTrusted
      <4> QED BY <4>1, <4>2, <4>3 DEF Trusted
    <3> QED BY <3>1, <3>2
  <2>2. AllTrusted
    BY <1>2, <2>1 DEF AllTrusted
  <2>3. announced[1].res \notin Items(Coming)
    <3>1. Trusted(1) /\ NoNewsAfter(1)
      BY <1>5, <2>1 DEF Trusted, NoNewsAfter
    <3> QED BY <1>1, <1>5, <3>1 DEF SoundDrops
  <2>4. /\ Items(Coming) \subseteq shown
        /\ \A res \in shown : res \in Items(Coming) \/ Dropping(res)
    BY <1>1, <2>2 DEF SoundView
  <2>5. \A res : Dropping(res) => Dropping(res)' \/ res = announced[1].res
    BY <1>5 DEF Dropping
  <2> QED BY <1>2, <1>5, <2>3, <2>4, <2>5
<1> QED BY <1>6, <1>7 DEF Fresh

(* A death leaves all that is announced in doubt, if there was more to say.  *)
LEMMA DieFresh ==
    ASSUME IInv, Die
    PROVE  Fresh'
<1>1. Fresh /\ announced \in Seq(Announcement)
  BY DEF IInv, Typed, LinkTypeOK
<1>2. /\ links' = links /\ current' = current /\ shown' = shown
      /\ request' = Idle /\ changed' = FALSE
  BY DEF Die, Return, surround
<1>3. Coming' = links
  BY <1>2 DEF Coming, Running
<1>4. CASE changed \/ Uncommitted
  <2>1. /\ "died" \in stale'
        /\ announced' = [i \in 1..Len(announced) |-> Doubted(announced[i])]
    BY <1>4 DEF Die
  <2>2. \A i \in DOMAIN announced' :
           announced'[i].told = "removed" => "died" \in announced'[i].why
    BY <1>1, <2>1, DoubtedIsNews
  <2>3. \A i \in DOMAIN announced' : ~Trusted(i)'
    BY <2>2 DEF Trusted
  <2>4. ~AllTrusted'
    BY <2>1 DEF AllTrusted
  <2> QED BY <2>3, <2>4 DEF Fresh, SoundDrops, SoundView
<1>5. CASE ~changed /\ ~Uncommitted
  <2>1. announced' = announced /\ stale' = stale \cup {}
    BY <1>5 DEF Die
  <2>2. Coming = links
    BY <1>5 DEF Coming, Uncommitted
  <2>3. changed' <=> changed
    BY <1>2, <1>5
  <2>4. Items(Coming)' = Items(Coming)
    BY <1>2, <1>3, <2>2 DEF Items, LinkedIn
  <2>5. stale' = stale
    BY <2>1
  <2>6. Fresh'
    <3>1. /\ \A i : Trusted(i)' <=> Trusted(i)
          /\ \A i : NoNewsAfter(i)' <=> NoNewsAfter(i)
          /\ \A res : Dropping(res)' <=> Dropping(res)
      BY <2>1 DEF Trusted, NoNewsAfter, Dropping
    <3>2. AllTrusted' <=> AllTrusted
      BY <2>1, <2>5, <3>1 DEF AllTrusted
    <3>3. SoundDrops'
      BY <1>1, <2>1, <2>3, <2>4, <3>1 DEF Fresh, SoundDrops
    <3>4. SoundView'
      BY <1>1, <1>2, <2>3, <2>4, <3>1, <3>2 DEF Fresh, SoundView
    <3> QED BY <3>3, <3>4 DEF Fresh
  <2> QED BY <2>6
<1> QED BY <1>4, <1>5

LEMMA FreshStep == IInv /\ [LinkNext]_linkVars => Fresh'
<1> SUFFICES ASSUME IInv, [LinkNext]_linkVars PROVE Fresh'
  OBVIOUS
<1>0. /\ Fresh
      /\ request \in Request \cup {Idle}
      /\ announced \in Seq(Announcement)
  BY DEF IInv, Typed, LinkTypeOK
<1>1. ASSUME links' = links, UNCHANGED view, announced' = announced,
             current' = current, changed' = changed,
             ~Running("commit"), ~Running("commit")'
      PROVE  Fresh'
  <2>1. Coming' = Coming
    BY <1>1 DEF Coming
  <2> QED BY <1>0, <1>1, <2>1, SameView DEF view
<1>2. ASSUME NEW op \in Operation, NEW agent \in Agent, NEW res \in Resource,
             NEW act \in ActivityId \cup Special, Call(op, agent, res, act)
      PROVE  Fresh'
  <2>1. /\ request = Idle /\ request'.stage = "activity" /\ links' = links
        /\ UNCHANGED view /\ current' = current
        /\ changed' = changed /\ announced' = announced
    BY <1>2 DEF Call, Begin, surround, store
  <2> QED BY <1>1, <2>1 DEF Running
<1>3. CASE ResolveActivity \/ CheckActivity \/ Execute
  <2>1. /\ request \in Request /\ links' = links
        /\ UNCHANGED view /\ current' = current
        /\ changed' = changed /\ announced' = announced
        /\ ~Running("commit")
    BY <1>0, <1>3 DEF ResolveActivity, CheckActivity, Execute, Running, surround, store
  <2>2. \/ request' = [request EXCEPT !.stage = "exists", !.act = Resolved]
        \/ request' = [request EXCEPT !.stage = "execute"]
        \/ request' = [request EXCEPT !.stage = "announce"]
        \/ request' = Idle
    BY <1>3 DEF ResolveActivity, CheckActivity, Execute, Continue, Return
  <2>3. request' = Idle \/ request'.stage \in {"exists", "execute", "announce"}
    BY <2>1, <2>2 DEF Request
  <2>4. ~Running("commit")'
    BY <2>3 DEF Running
  <2> QED BY <1>1, <2>1, <2>4
<1>4. CASE Announce
  BY <1>4, AnnounceFresh
<1>5. CASE Commit
  <2>1. /\ Running("commit") /\ request' = Idle
        /\ links' = uncommitted /\ shown' = shown /\ current' = current
        /\ changed' = changed /\ announced' = announced /\ stale' = stale
    BY <1>5 DEF Commit, Return, surround, view
  <2>2. Coming' = Coming
    BY <2>1 DEF Coming, Running
  <2> QED BY <1>0, <2>1, <2>2, SameView
<1>6. CASE OnCurrentActivityChanged
  BY <1>0, <1>6, NewItemsIsNews, Sent, ReadsLast DEF OnCurrentActivityChanged
<1>7. CASE ReadView
  BY <1>7, ReadFresh
<1>8. CASE DropItem
  BY <1>8, DropFresh
<1>9. CASE \/ \E a \in ActivityId : AddOrRemoveActivity(a)
           \/ \E f \in FileResource : MakeOrDeleteFile(f)
           \/ UNCHANGED linkVars
  <2>1. /\ request' = request /\ links' = links /\ uncommitted' = uncommitted
        /\ shown' = shown /\ current' = current
        /\ changed' = changed /\ announced' = announced /\ stale' = stale
    BY <1>9 DEF AddOrRemoveActivity, MakeOrDeleteFile, linkVars, surround, store, view
  <2>2. Coming' = Coming
    BY <2>1 DEF Coming, Running
  <2> QED BY <1>0, <2>1, <2>2, SameView
<1>10. ASSUME NEW a \in listed \cup {NoActivity}, SwitchActivity(a) PROVE Fresh'
  <2>1. changed'
    BY <1>10 DEF SwitchActivity
  <2> QED BY <2>1 DEF Fresh, SoundDrops, SoundView
<1>11. CASE Die
  BY <1>11, DieFresh
<1> QED BY <1>2, <1>3, <1>4, <1>5, <1>6, <1>7, <1>8, <1>9, <1>10, <1>11 DEF LinkNext

LEMMA IInvStep == IInv /\ [LinkNext]_linkVars => IInv'
BY TypedStep, SeenStep, GoingStep, FreshStep DEF IInv

LEMMA IInvAlways == LinkSpec => []IInv
BY IInvInit, IInvStep, PTL DEF LinkSpec

-----------------------------------------------------------------------------
(* Every variable stays in its type (ResourceLinking.cpp).                   *)
THEOREM LinkTypeCorrect == LinkSpec => []LinkTypeOK
<1>1. IInv => LinkTypeOK
  BY DEF IInv, Typed
<1> QED BY <1>1, IInvAlways, PTL

(* When nothing is under way, and nothing was lost on the way, the view of   *)
(* the current activity shows the table (ResourceLinking.cpp:101-122,        *)
(* 174-204, 317-325).                                                        *)
THEOREM ViewStaysFresh == LinkSpec => []ViewIsFresh
<1>1. IInv => ViewIsFresh
  <2> SUFFICES ASSUME IInv, request = Idle, ~changed, announced = <<>>, stale = {}
               PROVE  shown = Items(links)
    BY DEF ViewIsFresh
  <2>1. Coming = links
    BY DEF Coming, Running
  <2>2. AllTrusted /\ ~\E i \in DOMAIN announced : TRUE
    BY DEF AllTrusted
  <2>3. /\ Items(links) \subseteq shown
        /\ \A res \in shown : res \in Items(links)
    BY <2>1, <2>2 DEF IInv, Fresh, SoundView, Dropping
  <2> QED BY <2>3
<1> QED BY <1>1, IInvAlways, PTL

-----------------------------------------------------------------------------
(* The steps.  The table changes by Commit alone.                            *)

LEMMA OnlyCommit == [LinkNext]_linkVars => links' = links \/ Commit
<1> SUFFICES ASSUME [LinkNext]_linkVars PROVE links' = links \/ Commit
  OBVIOUS
<1>1. CASE \E op \in Operation, agent \in Agent, res \in Resource,
             act \in ActivityId \cup Special : Call(op, agent, res, act)
  BY <1>1 DEF Call, Begin, store
<1>2. CASE ResolveActivity \/ CheckActivity \/ Execute \/ Announce
  BY <1>2 DEF ResolveActivity, CheckActivity, Execute, Announce, store
<1>3. CASE OnCurrentActivityChanged \/ ReadView \/ DropItem \/ Die \/ UNCHANGED linkVars
  BY <1>3 DEF OnCurrentActivityChanged, ReadView, DropItem, Die, linkVars, store
<1>4. CASE \/ \E a \in ActivityId : AddOrRemoveActivity(a)
           \/ \E a \in listed \cup {NoActivity} : SwitchActivity(a)
           \/ \E f \in FileResource : MakeOrDeleteFile(f)
  BY <1>4 DEF AddOrRemoveActivity, SwitchActivity, MakeOrDeleteFile, store
<1> QED BY <1>1, <1>2, <1>3, <1>4 DEF LinkNext

(* What a commit finds.                                                      *)
LEMMA AtCommit ==
    ASSUME IInv, Commit
    PROVE  /\ request \in Request
           /\ links' \in {Changed(links), links}
           /\ request.act \in valid \cup {":global", ":any"}
           /\ request.res.kind = "file" => request.res \in valid
<1>1. /\ request # Idle /\ request.stage = "commit" /\ links' = uncommitted
  BY DEF Commit, Running
<1>2. request \in Request
  BY <1>1, WhoRuns DEF IInv, Typed
<1> QED BY <1>1, <1>2 DEF IInv, Going, Seen

LEMMA AddedWas ==
    ASSUME IInv, Commit, NEW l \in links' \ links
    PROVE  /\ l.act = ":global" \/ l.act \in valid
           /\ l.res \in FileResource => l.res \in valid
<1>1. links' = Changed(links) /\ l \in Changed(links) /\ l \notin links
  BY AtCommit
<1>2. l = [act |-> LinkedTo, agent |-> request.agent, res |-> request.res]
  BY <1>1 DEF Changed
<1>3. l.act = LinkedTo /\ l.res = request.res
  BY <1>2
<1>4. LinkedTo = ":global" \/ LinkedTo \in valid
  BY AtCommit DEF LinkedTo
<1>5. request.res \in FileResource => request.res \in valid
  BY AtCommit DEF FileResource
<1> QED BY <1>3, <1>4, <1>5

LEMMA TakenWas ==
    ASSUME IInv, Commit, NEW l \in links \ links'
    PROVE  /\ request.op = "unlink"
           /\ l.act = ":global" \/ l.act \in valid \/ request.act = ":any"
           /\ l.res \in FileResource => l.res \in valid
<1>1. links' = Changed(links) /\ l \in links /\ l \notin Changed(links)
  BY AtCommit
<1>2. request.op = "unlink" /\ Matches(l)
  <2>1. request.op # "link"
    BY <1>1 DEF Changed
  <2>2. request.op = "unlink"
    BY <2>1, AtCommit, RequestParts
  <2> QED BY <1>1, <2>1, <2>2 DEF Changed
<1>3. l.act = request.act \/ request.act = ":any"
  BY <1>2 DEF Matches
<1>4. l.res \in FileResource => l.res = request.res /\ l.res.kind = "file"
  BY <1>2 DEF Matches, Stripped, FileResource
<1> QED BY <1>2, <1>3, <1>4, AtCommit

(* After an unlink nothing is linked that was asked for.                     *)
LEMMA UnlinkedIsNotLinked ==
    ASSUME Typed, request # Idle, request.op = "unlink",
           uncommitted' = Changed(links)
    PROVE  ~IsLinked(uncommitted')
<1>1. uncommitted' = {l \in links : ~Matches(l)}
  BY DEF Changed
<1>2. request.res \in Resource
  BY WhoRuns, RequestParts DEF Typed
<1>3. ASSUME NEW l, l.act = request.act, l.agent = request.agent,
             l.res = request.res
      PROVE  Matches(l)
  <2>1. CASE request.agent = Favorites /\ request.res.kind = "prefixed"
    <3>1. /\ Stripped = [kind |-> "plain", name |-> request.res.name]
          /\ request.res = [kind |-> "prefixed", name |-> request.res.name]
      BY <1>2, <2>1 DEF Stripped, Resource, FileResource
    <3>2. Stripped.kind = "plain" /\ Stripped.name = request.res.name
      BY <3>1
    <3> QED BY <1>3, <2>1, <3>1, <3>2 DEF Matches
  <2>2. CASE ~(request.agent = Favorites /\ request.res.kind = "prefixed")
    BY <1>3, <2>2 DEF Matches, Stripped
  <2> QED BY <2>1, <2>2
<1> QED BY <1>1, <1>3 DEF IsLinked

(* A link comes and goes with what the method was asked for, whatever        *)
(* changes around it while it runs (ResourceLinking.cpp:64-240).             *)
THEOREM LinksAlwaysStand == LinkSpec => LinksStand
<1>1. IInv /\ [LinkNext]_linkVars =>
        [\A l \in links' \ links :
            /\ l.act = ":global" \/ l.act \in valid
            /\ l.res \in FileResource => l.res \in valid]_linkVars
  BY OnlyCommit, AddedWas
<1>2. IInv /\ [LinkNext]_linkVars =>
        [\A l \in links \ links' :
            /\ request.op = "unlink"
            /\ \/ l.act = ":global"
               \/ l.act \in valid
               \/ request.act = ":any"
            /\ l.res \in FileResource => l.res \in valid]_linkVars
  BY OnlyCommit, TakenWas
<1>3. IInv /\ [LinkNext]_linkVars =>
        [Execute /\ request.op = "unlink" /\ uncommitted' = Changed(links) =>
            ~IsLinked(uncommitted')]_linkVars
  BY UnlinkedIsNotLinked DEF IInv, Execute, Running
<1>4. LinkSpec => LinkedToWhatWas
  BY <1>1, IInvAlways, PTL DEF LinkSpec, LinkedToWhatWas
<1>5. LinkSpec => OrphansStay
  BY <1>2, IInvAlways, PTL DEF LinkSpec, OrphansStay
<1>6. LinkSpec => UnlinkUndoesLink
  BY <1>3, IInvAlways, PTL DEF LinkSpec, UnlinkUndoesLink
<1> QED BY <1>4, <1>5, <1>6 DEF LinksStand
=============================================================================
