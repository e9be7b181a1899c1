------------------------- MODULE ResourceInfoProofs -------------------------
(* What the spies keep to, for any documents, uses and times, whatever the   *)
(* statistics do meanwhile.                                                  *)
EXTENDS ResourceInfo, FiniteSetTheorems, SequenceTheorems, TLAPS

-----------------------------------------------------------------------------
SpyTypes == /\ now \in Nat
            /\ stamp \in [Doc -> Int] /\ \A d \in Doc : stamp[d] <= now
            /\ uses \in [Doc -> Nat] /\ seen \in [Doc -> Nat]
            /\ lastUpdate \in [Spy -> Nat]
            /\ left \subseteq Doc \X Nat

Switches == /\ dirty \in [Spy -> BOOLEAN]
            /\ late \in [Doc -> BOOLEAN]
            /\ half \in BOOLEAN

(* What the statistics do is done on the thread of the spies.                *)
OneThread == todo # <<>> => main \notin Spy \cup {"idle"}

(* A spy has each document to look at once, and the history file tells of a  *)
(* use that is not registered yet.                                           *)
LeftOK == \A d \in Doc, n \in Nat : <<d, n>> \in left =>
             /\ main = SpyOn(d)
             /\ n = 0 <=> d \notin GtkDoc
             /\ n > 0 => seen[d] < n /\ n <= uses[d]
             /\ \A m \in Nat : <<d, m>> \in left => m = n

(* What was registered is no longer new, once the spy has been at it.        *)
SeenOK == \A d \in Doc :
             /\ seen[d] <= uses[d]
             /\ seen[d] = uses[d] =>
                   \/ ~IsNew(d)
                   \/ main = SpyOn(d) /\ \A n \in Nat : <<d, n>> \notin left

(* What was not is still new, and the spy has it to look at or is going to   *)
(* be told.                                                                  *)
OwedOK == \A d \in Doc : uses[d] > seen[d] /\ ~late[d] =>
             /\ IsNew(d)
             /\ main = SpyOn(d) => \E n \in {0, uses[d]} : <<d, n>> \in left
             /\ main # SpyOn(d) => dirty[SpyOn(d)] \/ (d \in GtkDoc /\ half)

SpiesOK == /\ SpyTypes /\ Switches
           /\ LeftOK /\ SeenOK /\ OwedOK
           /\ again = FALSE

LEMMA SpyOnIs ==
    ASSUME NEW d \in Doc
    PROVE  /\ SpyOn(d) \in Spy
           /\ d \in GtkDoc => SpyOn(d) = "gtk"
           /\ d \notin GtkDoc => SpyOn(d) = "kde"
BY DEF SpyOn, Spy

LEMMA SpiesInit == Init => SpiesOK /\ OneThread
<1> SUFFICES ASSUME Init PROVE SpiesOK /\ OneThread
  OBVIOUS
<1> USE DEF Init, SpyInit
<1>1. SpyTypes
  BY DEF SpyTypes
<1>0. Switches
  BY Zenon DEF Switches
<1>2. LeftOK /\ again = FALSE /\ OneThread
  BY DEF LeftOK, OneThread
<1>3. SeenOK
  BY SpyOnIs DEF SeenOK, IsNew
<1>4. OwedOK
  BY DEF OwedOK
<1> QED BY <1>0, <1>1, <1>2, <1>3, <1>4 DEF SpiesOK

(* What the statistics do is nothing to the spies.                           *)
LEMMA SpiesFrame ==
    ASSUME SpiesOK,
           UNCHANGED <<now, files, spies, late>>,
           main' = main \/ {main, main'} \cap Spy = {}
    PROVE  SpiesOK'
<1> USE DEF SpiesOK, files, spies
<1>1. SpyTypes' /\ Switches' /\ again' = FALSE
  BY DEF SpyTypes, Switches
<1>2. \A d \in Doc : /\ main' = SpyOn(d) <=> main = SpyOn(d)
                     /\ IsNew(d)' <=> IsNew(d)
  BY SpyOnIs DEF IsNew
<1>3. LeftOK'
  BY <1>2 DEF LeftOK
<1>4. SeenOK'
  BY <1>2 DEF SeenOK
<1>5. OwedOK'
  BY <1>2 DEF OwedOK
<1> QED BY <1>1, <1>3, <1>4, <1>5

-----------------------------------------------------------------------------
(* Programs.                                                                 *)

LEMMA StampIs ==
    ASSUME now \in Nat, NEW d \in Doc
    PROVE  StampOf(d) \in Int /\ StampOf(d) <= now
BY DEF StampOf

LEMMA UseStep == ASSUME SpiesOK, NEW d \in Doc, Use(d) PROVE SpiesOK'
<1> USE DEF SpiesOK
<1> DEFINE s == SpyOn(d)
           isLate == main = s \/ StampOf(d) <= lastUpdate[s]
<1>1. /\ stamp' = [stamp EXCEPT ![d] = StampOf(d)]
      /\ uses' = [uses EXCEPT ![d] = @ + 1]
      /\ dirty' = [dirty EXCEPT ![s] = TRUE]
      /\ half' = (half /\ s # "gtk")
      /\ late' = [late EXCEPT ![d] = isLate]
      /\ UNCHANGED <<now, lastUpdate, left, seen, again, main>>
  BY DEF Use, spies
<1>2. s \in Spy /\ isLate \in BOOLEAN
  BY SpyOnIs
<1>3. SpyTypes'
  BY <1>1, StampIs DEF SpyTypes
<1>4. Switches'
  <2>1. (half /\ s # "gtk") \in BOOLEAN
    OBVIOUS
  <2> HIDE DEF s, isLate
  <2> QED BY <1>1, <1>2, <2>1, Zenon DEF Switches
<1>5. ASSUME NEW e \in Doc, e # d
      PROVE  /\ stamp'[e] = stamp[e] /\ uses'[e] = uses[e] /\ late'[e] = late[e]
             /\ IsNew(e)' <=> IsNew(e)
             /\ dirty[SpyOn(e)] => dirty'[SpyOn(e)]
             /\ e \in GtkDoc /\ half => dirty'[SpyOn(e)] \/ half'
  BY <1>1, <1>2, <1>5, SpyOnIs DEF SpyTypes, Switches, IsNew
<1>6. /\ uses'[d] = uses[d] + 1 /\ late'[d] = isLate /\ dirty'[s]
      /\ ~isLate => IsNew(d)' /\ main' # s
      /\ uses[d] \in Nat /\ seen[d] \in Nat
  BY <1>1, <1>2, StampIs DEF SpyTypes, Switches, IsNew
<1>7. LeftOK'
  BY <1>1, <1>5, <1>6 DEF LeftOK, SpyTypes
<1>8. SeenOK'
  BY <1>1, <1>5, <1>6 DEF SeenOK
<1>9. OwedOK'
  <2>1. ASSUME ~late'[d] PROVE IsNew(d)' /\ main' # s /\ dirty'[s]
    BY <1>6, <2>1
  <2>2. ASSUME NEW e \in Doc, e # d, uses'[e] > seen'[e], ~late'[e]
        PROVE  /\ IsNew(e)'
               /\ main' = SpyOn(e) => \E n \in {0, uses'[e]} : <<e, n>> \in left'
               /\ main' # SpyOn(e) => dirty'[SpyOn(e)] \/ (e \in GtkDoc /\ half')
    BY <1>1, <1>5, <2>2 DEF OwedOK
  <2> QED BY <1>1, <2>1, <2>2 DEF OwedOK
<1> QED BY <1>1, <1>3, <1>4, <1>7, <1>8, <1>9

LEMMA ClockStep == ASSUME SpiesOK, Tick \/ Rewrite PROVE SpiesOK'
<1> USE DEF SpiesOK
<1>1. CASE Tick
  BY <1>1 DEF Tick, files, spies, SpyTypes, Switches, LeftOK, SeenOK, OwedOK, IsNew
<1>2. CASE Rewrite
  <2>1. /\ half' \in BOOLEAN /\ dirty' = [dirty EXCEPT !["gtk"] = TRUE]
        /\ UNCHANGED <<now, stamp, uses, spies, main, late>>
    BY <1>2 DEF Rewrite
  <2>2. \A d \in Doc : /\ IsNew(d)' <=> IsNew(d)
                       /\ d \in GtkDoc => dirty'[SpyOn(d)]
                       /\ dirty[SpyOn(d)] => dirty'[SpyOn(d)]
    BY <2>1, SpyOnIs DEF IsNew, spies, Switches, Spy
  <2>3. Switches' /\ SpyTypes'
    BY <2>1 DEF Switches, SpyTypes, spies
  <2> QED BY <2>1, <2>2, <2>3 DEF spies, LeftOK, SeenOK, OwedOK
<1> QED BY <1>1, <1>2

-----------------------------------------------------------------------------
(* The spies.                                                                *)

LEMMA DirectoryStep == ASSUME SpiesOK, DirectoryUpdated PROVE SpiesOK'
<1> USE DEF SpiesOK
<1>1. /\ main = "idle" /\ main' = "kde"
      /\ dirty' = [dirty EXCEPT !["kde"] = FALSE]
      /\ left' = {<<d, 0>> : d \in {d \in DocsOf("kde") : uses[d] > 0}}
      /\ UNCHANGED <<now, stamp, uses, half, lastUpdate, seen, again, late>>
  BY DEF DirectoryUpdated, Report
<1>2. \A d \in Doc : /\ IsNew(d)' <=> IsNew(d)
                     /\ d \in GtkDoc => main' # SpyOn(d) /\ dirty'[SpyOn(d)] = dirty[SpyOn(d)]
                     /\ d \notin GtkDoc => main' = SpyOn(d)
                     /\ main # SpyOn(d)
  BY <1>1, SpyOnIs DEF IsNew, Switches, Spy
<1>3. \A d \in Doc, n \in Nat :
         <<d, n>> \in left' <=> d \notin GtkDoc /\ uses[d] > 0 /\ n = 0
  BY <1>1, SpyOnIs DEF DocsOf
<1>4. SpyTypes' /\ Switches'
  <2>1. left' \subseteq Doc \X Nat
    BY <1>1 DEF DocsOf
  <2>2. SpyTypes'
    BY <1>1, <2>1 DEF SpyTypes
  <2> QED BY <1>1, <2>2 DEF Switches
<1>5. LeftOK'
  BY <1>2, <1>3 DEF LeftOK
<1>6. SeenOK'
  BY <1>1, <1>2 DEF SeenOK
<1>7. OwedOK'
  <2>1. ASSUME NEW d \in Doc, d \notin GtkDoc, uses[d] > seen[d]
        PROVE  <<d, 0>> \in left'
    BY <1>3, <2>1 DEF SpyTypes
  <2>2. ASSUME NEW d \in Doc, uses[d] > seen[d], ~late[d]
        PROVE  /\ IsNew(d)
               /\ d \in GtkDoc => dirty[SpyOn(d)] \/ half
    BY <1>2, <2>2 DEF OwedOK
  <2> QED BY <1>1, <1>2, <2>1, <2>2 DEF OwedOK
<1> QED BY <1>1, <1>4, <1>5, <1>6, <1>7

LEMMA FileStep == ASSUME SpiesOK, FileUpdated PROVE SpiesOK'
<1> USE DEF SpiesOK
<1>1. /\ main = "idle"
      /\ dirty' = [dirty EXCEPT !["gtk"] = FALSE]
      /\ UNCHANGED <<now, stamp, uses, half, lastUpdate, seen, again, late>>
  BY DEF FileUpdated, Report
<1>2. \A d \in Doc : /\ IsNew(d)' <=> IsNew(d)
                     /\ d \notin GtkDoc => dirty'[SpyOn(d)] = dirty[SpyOn(d)]
                     /\ main # SpyOn(d)
  BY <1>1, SpyOnIs DEF IsNew, Switches, Spy
<1>3. CASE half
  <2>1. UNCHANGED <<main, left>>
    BY <1>3 DEF FileUpdated
  <2>2. SpyTypes' /\ Switches'
    BY <1>1, <2>1 DEF SpyTypes, Switches
  <2>3. LeftOK' /\ SeenOK'
    BY <1>1, <1>2, <2>1 DEF LeftOK, SeenOK
  <2>4. OwedOK'
    BY <1>1, <1>2, <1>3, <2>1 DEF OwedOK
  <2> QED BY <1>1, <2>2, <2>3, <2>4
<1>4. CASE ~half
  <2>1. /\ main' = "gtk"
        /\ left' = {<<d, uses[d]>> : d \in {d \in DocsOf("gtk") : IsNew(d)}}
    BY <1>4 DEF FileUpdated
  <2>2. \A d \in Doc, n \in Nat :
           <<d, n>> \in left' <=> d \in GtkDoc /\ IsNew(d) /\ n = uses[d]
    BY <2>1, SpyOnIs DEF DocsOf
  <2>3. \A d \in Doc : main' = SpyOn(d) <=> d \in GtkDoc
    BY <2>1, SpyOnIs
  <2>4. SpyTypes' /\ Switches'
    <3>1. left' \subseteq Doc \X Nat
      BY <2>1 DEF DocsOf, SpyTypes
    <3>2. SpyTypes'
      BY <1>1, <3>1 DEF SpyTypes
    <3> QED BY <1>1, <3>2 DEF Switches
  <2>5. \A d \in Doc : IsNew(d) => seen[d] < uses[d]
    BY <1>2 DEF SeenOK, SpyTypes
  <2>6. LeftOK'
    BY <1>1, <2>2, <2>3, <2>5 DEF LeftOK, SpyTypes
  <2>7. SeenOK'
    BY <1>1, <1>2 DEF SeenOK
  <2>8. OwedOK'
    BY <1>1, <1>2, <2>2, <2>3, <1>4 DEF OwedOK, SpyTypes
  <2> QED BY <1>1, <2>4, <2>6, <2>7, <2>8
<1> QED BY <1>3, <1>4

(* The use that is registered is one that was not.                           *)
LEMMA LookStep == ASSUME SpiesOK, NEW d \in Doc, NEW use \in Nat, LookAt(d, use)
                  PROVE SpiesOK'
<1> USE DEF SpiesOK
<1>1. /\ <<d, use>> \in left /\ left' = left \ {<<d, use>>}
      /\ UNCHANGED <<now, files, lastUpdate, main, late>>
  BY DEF LookAt
<1>2. /\ main = SpyOn(d)
      /\ \A n \in Nat : <<d, n>> \in left => n = use
      /\ use > 0 => seen[d] < use /\ use <= uses[d]
  BY <1>1 DEF LeftOK
<1>3. PICK last \in Nat :
         /\ last = (IF use > 0 THEN use ELSE IF IsNew(d) THEN uses[d] ELSE seen[d])
         /\ seen' = [seen EXCEPT ![d] = last]
  BY DEF LookAt, AddDocument, SpyTypes
<1>4. again' = FALSE
  <2>1. ASSUME NEW n, AddDocument(d, n), ~(seen[d] >= n) PROVE again' = FALSE
    BY <2>1, Zenon DEF AddDocument
  <2>2. CASE use > 0
    <3>1. ~(seen[d] >= use)
      BY <1>2, <2>2 DEF SpyTypes
    <3> QED BY <2>1, <2>2, <3>1 DEF LookAt
  <2>3. CASE ~(use > 0) /\ IsNew(d)
    <3>1. ~(seen[d] >= uses[d])
      BY <1>1, <1>2, <2>3 DEF SeenOK, SpyTypes
    <3> QED BY <2>1, <2>3, <3>1 DEF LookAt
  <2>4. CASE ~(use > 0) /\ ~IsNew(d)
    BY <2>4, Zenon DEF LookAt
  <2> QED BY <2>2, <2>3, <2>4
<1>5. SpyTypes' /\ Switches'
  BY <1>1, <1>3 DEF SpyTypes, Switches, files
<1>6. /\ \A e \in Doc : e # d =>
            /\ seen'[e] = seen[e]
            /\ \A n \in Nat : <<e, n>> \in left' <=> <<e, n>> \in left
      /\ \A n \in Nat : <<d, n>> \notin left'
      /\ seen'[d] = last
      /\ \A e \in Doc : IsNew(e)' <=> IsNew(e)
  BY <1>1, <1>2, <1>3 DEF SpyTypes, IsNew, files
<1>7. LeftOK'
  BY <1>1, <1>6 DEF LeftOK, files
<1>8. SeenOK'
  BY <1>1, <1>2, <1>3, <1>6 DEF SeenOK, files, SpyTypes
<1>9. OwedOK'
  <2>1. uses[d] > last => late[d]
    <3> SUFFICES ASSUME uses[d] > last, ~late[d] PROVE FALSE
      OBVIOUS
    <3>1. uses[d] > seen[d]
      BY <1>2, <1>3 DEF SpyTypes
    <3>2. IsNew(d) /\ use \in {0, uses[d]}
      BY <1>2, <3>1 DEF OwedOK, SpyTypes
    <3> QED BY <1>3, <3>2 DEF SpyTypes
  <2>2. ASSUME NEW e \in Doc, e # d, uses'[e] > seen'[e], ~late'[e]
        PROVE  /\ IsNew(e)'
               /\ main' = SpyOn(e) => \E n \in {0, uses'[e]} : <<e, n>> \in left'
               /\ main' # SpyOn(e) => dirty'[SpyOn(e)] \/ (e \in GtkDoc /\ half')
    BY <1>1, <1>6, <2>2 DEF OwedOK, files, SpyTypes
  <2> QED BY <1>1, <1>6, <2>1, <2>2 DEF OwedOK, files
<1> QED BY <1>4, <1>5, <1>7, <1>8, <1>9

LEMMA UpdatedStep == ASSUME SpiesOK, Updated PROVE SpiesOK'
<1> USE DEF SpiesOK
<1>1. /\ main \in Spy /\ left = {} /\ main' = "idle"
      /\ lastUpdate' = [lastUpdate EXCEPT ![main] = now]
      /\ UNCHANGED <<now, files, left, seen, again, late>>
  BY DEF Updated
<1>2. SpyTypes' /\ Switches'
  BY <1>1 DEF SpyTypes, Switches, files
<1>3. ASSUME NEW d \in Doc
      PROVE  /\ main = SpyOn(d) => ~IsNew(d)'
             /\ main # SpyOn(d) => (IsNew(d)' <=> IsNew(d))
             /\ main' # SpyOn(d)
  BY <1>1, SpyOnIs DEF IsNew, SpyTypes, files, Spy
<1>4. LeftOK' /\ SeenOK'
  BY <1>1, <1>3 DEF LeftOK, SeenOK, files
<1>5. OwedOK'
  BY <1>1, <1>3 DEF OwedOK, files
<1> QED BY <1>1, <1>2, <1>4, <1>5

LEMMA RestartStep == ASSUME SpiesOK, RestartSpies PROVE SpiesOK'
<1> USE DEF SpiesOK
<1>1. /\ main' = "idle" /\ left' = {}
      /\ dirty' = [s \in Spy |-> FALSE] /\ lastUpdate' = [s \in Spy |-> now]
      /\ late' = [d \in Doc |-> late[d] \/ uses[d] > seen[d]]
      /\ UNCHANGED <<now, stamp, uses, half, seen, again>>
  BY DEF RestartSpies
<1>2. SpyTypes'
  BY <1>1 DEF SpyTypes
<1>3. Switches'
  BY <1>1, Zenon DEF Switches
<1>4. \A d \in Doc : ~IsNew(d)'
  BY <1>1, SpyOnIs DEF IsNew, SpyTypes
<1>5. LeftOK' /\ SeenOK'
  BY <1>1, <1>4 DEF LeftOK, SeenOK
<1>6. \A d \in Doc : uses[d] > seen[d] => late'[d]
  BY <1>1
<1>7. OwedOK'
  BY <1>1, <1>6 DEF OwedOK
<1> QED BY <1>1, <1>2, <1>3, <1>5, <1>7

-----------------------------------------------------------------------------
(* The statistics.                                                           *)

LEMMA StatisticsStep ==
    ASSUME SpiesOK, OneThread,
           \/ \E docs \in SUBSET Doc : AddEvents(docs)
           \/ \E d \in Described : RegisteredResourceTitle(d) \/ RegisteredResourceMimetype(d)
           \/ \E d \in GtkDoc : RegisteredResourceMimetypeOfSpy(d)
           \/ Statements
    PROVE  SpiesOK' /\ OneThread'
<1>1. ASSUME UNCHANGED <<now, files, spies, late>>,
             main \notin Spy, main' \in {main, "idle", "events", "describe"},
             todo' # <<>> => main' \notin Spy \cup {"idle"}
      PROVE  SpiesOK' /\ OneThread'
  BY <1>1, SpiesFrame DEF OneThread, Spy
<1>2. ASSUME NEW docs, AddEvents(docs) PROVE SpiesOK' /\ OneThread'
  BY <1>1, <1>2 DEF AddEvents, Spy
<1>3. ASSUME NEW field, NEW uri, NEW value, Describe(field, uri, value)
      PROVE  SpiesOK' /\ OneThread'
  BY <1>1, <1>3 DEF Describe, Spy
<1>4. ASSUME NEW what, Execute(what), todo # <<>> PROVE SpiesOK' /\ OneThread'
  BY <1>1, <1>4 DEF Execute, OneThread, Spy
<1>5. CASE Statements
  <2>1. todo # <<>> /\ \E what : Execute(what)
    BY <1>5 DEF Statements, DoBegin, DoCommit, DoInsertRow, DoUpdate, Detect, DoRecord, At
  <2> QED BY <1>4, <2>1
<1> QED BY <1>2, <1>3, <1>5
        DEF RegisteredResourceTitle, RegisteredResourceMimetype, RegisteredResourceMimetypeOfSpy

LEMMA SpiesStep == SpiesOK /\ OneThread /\ [Next]_vars => SpiesOK' /\ OneThread'
<1> SUFFICES ASSUME SpiesOK, OneThread, [Next]_vars PROVE SpiesOK' /\ OneThread'
  OBVIOUS
<1>1. CASE SpyNext /\ UNCHANGED infoVars
  <2>1. SpiesOK'
    <3>1. \A n \in 0..MaxUses : n \in Nat
      BY TimeAssumption
    <3> QED BY <1>1, <3>1, ClockStep, UseStep, DirectoryStep, FileStep, LookStep, UpdatedStep
            DEF SpyNext
  <2>2. todo' = todo /\ (todo' # <<>> => main' = main)
    BY <1>1 DEF infoVars, SpyNext, OneThread, Tick, Use, Rewrite, DirectoryUpdated, FileUpdated,
                LookAt, Updated, Report
  <2> QED BY <2>1, <2>2 DEF OneThread
<1>2. CASE Restart
  BY <1>2, RestartStep DEF Restart, OneThread
<1>3. CASE UNCHANGED vars
  BY <1>3, SpiesFrame DEF vars, spyVars, infoVars, OneThread
<1> QED BY <1>1, <1>2, <1>3, StatisticsStep DEF Next

(* No use of a document is registered twice, and one that the watch has      *)
(* reported is, but for those that come too late for their spy               *)
(* (EventSpy.cpp:45-58, GtkEventSpy.cpp:173-205).                            *)
THEOREM UsesAreCounted == Spec => []EachUseOnce
<1>1. SpiesOK => EachUseOnce
  <2> SUFFICES ASSUME SpiesOK, NEW d \in Doc, main = "idle", ~dirty[SpyOn(d)], ~half,
                      uses[d] > seen[d]
               PROVE  late[d]
    BY DEF EachUseOnce, SpiesOK
  <2> QED BY SpyOnIs DEF SpiesOK, OwedOK, Spy
<1> QED BY <1>1, SpiesInit, SpiesStep, PTL DEF Spec

-----------------------------------------------------------------------------
(* What is written.                                                          *)
(*                                                                           *)
(* Statements come in plans, of which the rest is left to do: what a plan    *)
(* still has to write accounts for what is missing in the table, and its end *)
(* is always to commit.                                                      *)

Writes == {"title", "mimetype"}
Table == [Uri -> Info \cup {NoInfo}]
Pending == {todo[i] : i \in 1..Len(todo)}

InfoTypes == /\ todo \in Seq(Statement)
             /\ todo # <<>> <=> main \in {"events", "describe"}
             /\ main \in Spy \cup {"idle", "events", "describe"}
             /\ info \in Table
             /\ saved \in [info : Table, recorded : SUBSET Doc]
             /\ recorded \subseteq batch /\ saved.recorded \subseteq batch
             /\ batch \subseteq Doc /\ cut \subseteq Uri
             /\ told \in [Uri -> SUBSET Writes]
             /\ transaction \in BOOLEAN /\ detected \in BOOLEAN

(* Outside of transactions nothing waits to be saved.                        *)
SavedOK == /\ ~transaction => saved = [info |-> info, recorded |-> recorded]
           /\ todo = <<>> => ~transaction
           /\ todo # <<>> => todo[Len(todo)].do = "commit"

(* A field is only written of a row that is there.                           *)
Describing == main = "describe" =>
    \E field \in Writes, u \in Uri, v \in Value :
       /\ field = "title" => v = "told"
       /\ \/ todo = <<Do("row", u, ""), Begin, Do(field, u, v), Commit>>
          \/ info[u] # NoInfo /\ todo = <<Begin, Do(field, u, v), Commit>>
          \/ info[u] # NoInfo /\ todo = <<Do(field, u, v), Commit>>
          \/ todo = <<Commit>>

(* What is found out is of a row that no program has told of.                *)
FoundOut == \A s \in Pending :
    /\ s.do = "row" => info[s.uri] # NoInfo
    /\ s.do \in Writes => /\ info[s.uri] # NoInfo /\ s.value = "auto"
                          /\ told[s.uri] = {} \/ s.uri \in cut
    /\ s.do = "record" => s.uri.doc \in batch

(* The batch goes on to its end, and is all in one transaction as long as    *)
(* nothing is found out.                                                     *)
Whole(d) ==
    \/ todo = <<Begin, Do("detect", Path(d), ""), Do("record", Path(d), ""), Commit>>
    \/ /\ transaction
       /\ todo = <<Do("detect", Path(d), ""), Do("record", Path(d), ""), Commit>>
    \/ transaction /\ todo = <<Do("record", Path(d), ""), Commit>>
    \/ transaction /\ todo = <<Commit>>

Adding == main = "events" =>
    /\ FoundOut
    /\ recorded = batch \/ \E s \in Pending : s.do = "record"
    /\ ~detected => saved.recorded = {} /\ \E d \in batch : Whole(d)

Settled == main # "events" => recorded = batch /\ saved.recorded = batch

Awaits(u, f) == \E s \in Pending :
    /\ s.uri = u
    /\ \/ s.do = f /\ s.value # ""
       \/ main = "describe" /\ s.do \in Writes

(* A field that is empty is going to be written or has a reason to be.       *)
FilledIn(u) ==
    info[u] # NoInfo =>
      /\ info[u].title = "" => told[u] # {} \/ u \in cut \/ Awaits(u, "title")
      /\ info[u].mimetype = "" => told[u] # {} \/ u \in cut \/ Awaits(u, "mimetype")
Filled == \A u \in Uri : FilledIn(u)

KeptTold == \A u \in Uri : told[u] # {} /\ u \notin cut =>
    /\ info[u] # NoInfo
    /\ "title" \in told[u] => info[u].title = "told"

Plans == SavedOK /\ Describing /\ Adding /\ Settled
Rows == Filled /\ KeptTold
InfoOK == InfoTypes /\ Plans /\ Rows

LEMMA FieldsAre ==
    /\ NoInfo \notin Info /\ EmptyInfo \in Info
    /\ \A i \in Info, v \in Value : /\ [i EXCEPT !.title = v] \in Info
                                    /\ [i EXCEPT !.title = v].title = v
                                    /\ [i EXCEPT !.title = v].mimetype = i.mimetype
                                    /\ [i EXCEPT !.mimetype = v] \in Info
                                    /\ [i EXCEPT !.mimetype = v].mimetype = v
                                    /\ [i EXCEPT !.mimetype = v].title = i.title
BY DEF NoInfo, Info, EmptyInfo, Value

LEMMA StatementsAre ==
    ASSUME NEW w \in Uri
    PROVE  /\ Begin \in Statement /\ Commit \in Statement
           /\ Begin.do = "begin" /\ Commit.do = "commit"
           /\ \A x \in {"row", "title", "mimetype", "detect", "record"}, u \in Uri, v \in Value :
                /\ Do(x, u, v) \in Statement
                /\ Do(x, u, v).do = x /\ Do(x, u, v).uri = u /\ Do(x, u, v).value = v
<1>1. NoUri \in Uri
  BY DEF NoUri
<1>2. QED BY <1>1 DEF Begin, Commit, Do, Statement, Value

(* What is left to do after a statement that others come in place of.        *)
LEMMA Spliced ==
    ASSUME todo \in Seq(Statement), todo # <<>>,
           NEW S \in Seq(Statement), todo' = S \o Tail(todo)
    PROVE  /\ todo' \in Seq(Statement)
           /\ This \in Pending
           /\ \A s \in Pending : s = This \/ s \in Pending'
           /\ \A s \in Pending' : s \in Pending \/ \E i \in 1..Len(S) : s = S[i]
           /\ \A i \in 1..Len(S) : S[i] \in Pending'
           /\ Len(todo) = 1 => This = todo[Len(todo)] /\ (S = <<>> => todo' = <<>>)
           /\ Len(todo) # 1 => todo' # <<>> /\ todo'[Len(todo')] = todo[Len(todo)]
<1>1. /\ Len(todo) \in Nat \ {0} /\ Head(todo) = todo[1]
      /\ Tail(todo) \in Seq(Statement) /\ Len(Tail(todo)) = Len(todo) - 1
      /\ \A i \in 1..Len(Tail(todo)) : Tail(todo)[i] = todo[i + 1]
  BY HeadTailProperties, EmptySeq
<1>2. Len(S) \in Nat
  OBVIOUS
<1> DEFINE T == Tail(todo)
<1> HIDE DEF T
<1>3. /\ S \o T \in Seq(Statement) /\ Len(S \o T) = Len(S) + Len(T)
      /\ \A i \in 1..(Len(S) + Len(T)) :
            (S \o T)[i] = IF i <= Len(S) THEN S[i] ELSE T[i - Len(S)]
  <2>1. T \in Seq(Statement)
    BY <1>1 DEF T
  <2>2. QED BY <2>1, ConcatProperties
<1>4. todo' = S \o T /\ Len(T) = Len(todo) - 1 /\ \A i \in 1..Len(T) : T[i] = todo[i + 1]
  BY <1>1 DEF T
<1>5. /\ todo' \in Seq(Statement) /\ Len(todo') = Len(S) + Len(todo) - 1
      /\ \A i \in 1..Len(todo') :
            todo'[i] = IF i <= Len(S) THEN S[i] ELSE todo[i - Len(S) + 1]
  BY <1>1, <1>2, <1>3, <1>4
<1>6. ASSUME NEW s \in Pending PROVE s = This \/ s \in Pending'
  <2>1. PICK i \in 1..Len(todo) : s = todo[i]
    BY DEF Pending
  <2>2. CASE i = 1
    BY <1>1, <2>1, <2>2 DEF This
  <2>3. CASE i # 1
    <3>1. (i - 1) + Len(S) \in 1..Len(todo') /\ todo'[(i - 1) + Len(S)] = todo[i]
      BY <1>1, <1>2, <1>5, <2>3
    <3>2. QED BY <2>1, <3>1 DEF Pending
  <2>4. QED BY <2>2, <2>3
<1>7. ASSUME NEW s \in Pending' PROVE s \in Pending \/ \E i \in 1..Len(S) : s = S[i]
  <2>1. PICK i \in 1..Len(todo') : s = todo'[i]
    BY DEF Pending
  <2>2. CASE i <= Len(S)
    BY <1>2, <1>5, <2>1, <2>2
  <2>3. CASE ~(i <= Len(S))
    <3>1. i - Len(S) + 1 \in 1..Len(todo) /\ s = todo[i - Len(S) + 1]
      BY <1>1, <1>2, <1>5, <2>1, <2>3
    <3>2. QED BY <3>1 DEF Pending
  <2>4. QED BY <2>2, <2>3
<1>8. ASSUME NEW i \in 1..Len(S) PROVE S[i] \in Pending'
  <2>1. i \in 1..Len(todo') /\ todo'[i] = S[i]
    BY <1>1, <1>2, <1>5
  <2>2. QED BY <2>1 DEF Pending
<1>9. This \in Pending
  BY <1>1 DEF This, Pending
<1>10. Len(todo) = 1 /\ S = <<>> => todo' = <<>>
  BY <1>5, EmptySeq, SMTT(30)
<1>11. ASSUME Len(todo) # 1 PROVE todo' # <<>> /\ todo'[Len(todo')] = todo[Len(todo)]
  <2>1. Len(todo') \in 1..Len(todo') /\ Len(todo') > Len(S)
    BY <1>1, <1>2, <1>5, <1>11
  <2>2. QED BY <1>1, <1>2, <1>5, <2>1
<1>12. QED BY <1>1, <1>5, <1>6, <1>7, <1>8, <1>9, <1>10, <1>11 DEF This

LEMMA Executed ==
    ASSUME InfoTypes, SavedOK, todo # <<>>, NEW S \in Seq(Statement), Execute(S)
    PROVE  /\ todo' \in Seq(Statement) /\ This \in Statement /\ This \in Pending
           /\ main' = IF todo' = <<>> THEN "idle" ELSE main
           /\ todo' # <<>> <=> main' \in {"events", "describe"}
           /\ main' \in Spy \cup {"idle", "events", "describe"}
           /\ batch' = batch /\ cut' = cut
           /\ This.do # "commit" => todo' # <<>>
           /\ todo' # <<>> /\ (This.do # "commit" \/ S = <<>>) =>
                 todo'[Len(todo')].do = "commit"
           /\ \A s \in Pending : s = This \/ s \in Pending'
           /\ \A s \in Pending' : s \in Pending \/ \E i \in 1..Len(S) : s = S[i]
           /\ \A i \in 1..Len(S) : S[i] \in Pending'
           /\ Pending' # {} => todo' # <<>>
           /\ todo' = <<>> => Pending' = {}
           /\ Pending \subseteq Statement
<1>1. todo \in Seq(Statement) /\ todo' = S \o Tail(todo)
  BY DEF InfoTypes, Execute
<1>2. /\ todo' \in Seq(Statement)
      /\ This \in Pending
      /\ \A s \in Pending : s = This \/ s \in Pending'
      /\ \A s \in Pending' : s \in Pending \/ \E i \in 1..Len(S) : s = S[i]
      /\ \A i \in 1..Len(S) : S[i] \in Pending'
      /\ Len(todo) = 1 => This = todo[Len(todo)] /\ (S = <<>> => todo' = <<>>)
      /\ Len(todo) # 1 => todo' # <<>> /\ todo'[Len(todo')] = todo[Len(todo)]
  BY <1>1, Spliced
<1>3. Pending \subseteq Statement
  BY <1>1 DEF Pending
<1>4. todo[Len(todo)].do = "commit"
  BY DEF SavedOK
<1>5. todo' = <<>> => Pending' = {}
  BY DEF Pending
<1>6. main' = (IF todo' = <<>> THEN "idle" ELSE main) /\ batch' = batch /\ cut' = cut
  BY DEF Execute
<1>7. main \in {"events", "describe"}
  BY DEF InfoTypes
<1>8. QED BY <1>2, <1>3, <1>4, <1>5, <1>6, <1>7

(* The first statement is no longer there.                                   *)
LEMMA Rest ==
    /\ \A a : <<>> \o Tail(<<a>>) = <<>>
    /\ \A a, b : <<>> \o Tail(<<a, b>>) = <<b>>
    /\ \A a, b, c : <<>> \o Tail(<<a, b, c>>) = <<b, c>>
    /\ \A a, b, c, d : <<>> \o Tail(<<a, b, c, d>>) = <<b, c, d>>
OBVIOUS

LEMMA Heads ==
    /\ \A a : Head(<<a>>) = a
    /\ \A a, b : Head(<<a, b>>) = a
    /\ \A a, b, c : Head(<<a, b, c>>) = a
    /\ \A a, b, c, d : Head(<<a, b, c, d>>) = a
OBVIOUS

(* What is done for a program that describes a document.                     *)
LEMMA DescribedStatement ==
    ASSUME InfoTypes, Describing, main = "describe"
    PROVE  /\ todo # <<>>
           /\ This.do \in {"row", "begin", "commit"} \cup Writes
           /\ This.do = "title" => This.value = "told"
           /\ This.do \in Writes => info[This.uri] # NoInfo
           /\ This.do = "row" => \E s \in Pending : s.uri = This.uri /\ s.do \in Writes
<1>1. PICK field \in Writes, u \in Uri, v \in Value :
        /\ field = "title" => v = "told"
        /\ \/ todo = <<Do("row", u, ""), Begin, Do(field, u, v), Commit>>
           \/ info[u] # NoInfo /\ todo = <<Begin, Do(field, u, v), Commit>>
           \/ info[u] # NoInfo /\ todo = <<Do(field, u, v), Commit>>
           \/ todo = <<Commit>>
  BY DEF Describing
<1> DEFINE row == Do("row", u, "")
           write == Do(field, u, v)
<1>2. /\ row.do = "row" /\ row.uri = u
      /\ write.do = field /\ write.uri = u /\ write.value = v
      /\ Begin.do = "begin" /\ Commit.do = "commit"
  BY DEF Do, Begin, Commit
<1> HIDE DEF row, write
<1>3. \/ todo = <<row, Begin, write, Commit>>
      \/ info[u] # NoInfo /\ todo = <<Begin, write, Commit>>
      \/ info[u] # NoInfo /\ todo = <<write, Commit>>
      \/ todo = <<Commit>>
  BY <1>1 DEF row, write
<1>4. CASE todo = <<row, Begin, write, Commit>>
  <2>1. This = row /\ write \in Pending /\ todo # <<>>
    <3>1. 3 \in 1..Len(todo) /\ todo[3] = write /\ todo # <<>>
      BY <1>4
    <3>2. QED BY <1>4, <3>1, Heads DEF This, Pending
  <2>2. QED BY <1>1, <1>2, <2>1 DEF Writes
<1>5. CASE info[u] # NoInfo /\ todo = <<Begin, write, Commit>>
  BY <1>2, <1>5, Heads DEF This, Writes
<1>6. CASE info[u] # NoInfo /\ todo = <<write, Commit>>
  BY <1>1, <1>2, <1>6, Heads DEF This, Writes
<1>7. CASE todo = <<Commit>>
  BY <1>2, <1>7, Heads DEF This, Writes
<1>8. QED BY <1>3, <1>4, <1>5, <1>6, <1>7

LEMMA DescribingGoesOn ==
    ASSUME InfoTypes, Describing, main = "describe", Execute(<<>>),
           \A u \in Uri : info[u] # NoInfo => info'[u] # NoInfo,
           This.do = "row" => info'[This.uri] # NoInfo
    PROVE  Describing'
<1> SUFFICES ASSUME main' = "describe" PROVE Describing'
  BY DEF Describing
<1>1. PICK field \in Writes, u \in Uri, v \in Value :
        /\ field = "title" => v = "told"
        /\ \/ todo = <<Do("row", u, ""), Begin, Do(field, u, v), Commit>>
           \/ info[u] # NoInfo /\ todo = <<Begin, Do(field, u, v), Commit>>
           \/ info[u] # NoInfo /\ todo = <<Do(field, u, v), Commit>>
           \/ todo = <<Commit>>
  BY DEF Describing
<1> DEFINE row == Do("row", u, "")
           write == Do(field, u, v)
<1>2. row.do = "row" /\ row.uri = u
  BY DEF Do
<1> HIDE DEF row, write
<1>3. \/ todo = <<row, Begin, write, Commit>>
      \/ info[u] # NoInfo /\ todo = <<Begin, write, Commit>>
      \/ info[u] # NoInfo /\ todo = <<write, Commit>>
      \/ todo = <<Commit>>
  BY <1>1 DEF row, write
<1>4. todo' = <<>> \o Tail(todo) /\ todo' # <<>>
  BY DEF Execute
<1>5. \/ info'[u] # NoInfo /\ todo' = <<Begin, write, Commit>>
      \/ info'[u] # NoInfo /\ todo' = <<write, Commit>>
      \/ todo' = <<Commit>>
  <2>1. CASE todo = <<row, Begin, write, Commit>>
    <3>1. This = row /\ todo' = <<Begin, write, Commit>>
      BY <1>4, <2>1, Heads, Rest DEF This
    <3>2. QED BY <1>2, <3>1
  <2>2. CASE info[u] # NoInfo /\ todo = <<Begin, write, Commit>>
    BY <1>4, <2>2, Rest
  <2>3. CASE info[u] # NoInfo /\ todo = <<write, Commit>>
    BY <1>4, <2>3, Rest
  <2>4. CASE todo = <<Commit>>
    BY <1>4, <2>4, Rest
  <2>5. QED BY <1>3, <2>1, <2>2, <2>3, <2>4
<1>6. \/ info'[u] # NoInfo /\ todo' = <<Begin, Do(field, u, v), Commit>>
      \/ info'[u] # NoInfo /\ todo' = <<Do(field, u, v), Commit>>
      \/ todo' = <<Commit>>
  BY <1>5 DEF write
<1>7. QED BY <1>1, <1>6 DEF Describing

(* What is done of a batch.                                                  *)
LEMMA FoundOutStays ==
    ASSUME FoundOut, Pending' \subseteq Pending, UNCHANGED <<told, cut, batch>>,
           \A s \in Pending : info[s.uri] # NoInfo => info'[s.uri] # NoInfo
    PROVE  FoundOut'
BY DEF FoundOut

LEMMA WholeGoesOn ==
    ASSUME NEW d, Whole(d), Execute(<<>>), todo' # <<>>,
           transaction' \/ (transaction' = transaction /\ This.do # "begin")
    PROVE  Whole(d)'
<1> DEFINE detect == Do("detect", Path(d), "")
           record == Do("record", Path(d), "")
<1> HIDE DEF detect, record
<1>1. \/ todo = <<Begin, detect, record, Commit>>
      \/ transaction /\ todo = <<detect, record, Commit>>
      \/ transaction /\ todo = <<record, Commit>>
      \/ transaction /\ todo = <<Commit>>
  BY DEF Whole, detect, record
<1>2. todo' = <<>> \o Tail(todo) /\ Begin.do = "begin"
  BY DEF Execute, Begin, Do
<1>3. \/ transaction' /\ todo' = <<detect, record, Commit>>
      \/ transaction' /\ todo' = <<record, Commit>>
      \/ transaction' /\ todo' = <<Commit>>
  <2>1. CASE todo = <<Begin, detect, record, Commit>>
    <3>1. This = Begin
      BY <2>1, Heads DEF This
    <3>2. todo' = <<detect, record, Commit>>
      BY <1>2, <2>1, Rest
    <3>3. transaction'
      BY <1>2, <3>1
    <3>4. QED BY <3>2, <3>3
  <2>2. CASE transaction /\ todo = <<detect, record, Commit>>
    <3>1. todo' = <<record, Commit>>
      BY <1>2, <2>2, Rest
    <3>2. transaction'
      BY <2>2
    <3>3. QED BY <3>1, <3>2
  <2>3. CASE transaction /\ todo = <<record, Commit>>
    <3>1. todo' = <<Commit>>
      BY <1>2, <2>3, Rest
    <3>2. transaction'
      BY <2>3
    <3>3. QED BY <3>1, <3>2
  <2>4. CASE todo = <<Commit>>
    BY <1>2, <2>4, Rest
  <2>5. QED BY <1>1, <2>1, <2>2, <2>3, <2>4
<1>4. QED BY <1>3 DEF Whole, detect, record

LEMMA WholeStatement ==
    ASSUME NEW d \in Doc, Whole(d)
    PROVE  /\ This.do \in {"begin", "detect", "record", "commit"}
           /\ This.do # "begin" => transaction
           /\ This.do = "commit" => todo = <<Commit>>
           /\ This.do \in {"detect", "record"} => This.uri = Path(d)
           /\ This.do = "record" => todo = <<Do("record", Path(d), ""), Commit>>
<1> DEFINE detect == Do("detect", Path(d), "")
           record == Do("record", Path(d), "")
<1>1. /\ detect.do = "detect" /\ record.do = "record" /\ Begin.do = "begin"
      /\ Commit.do = "commit" /\ detect.uri = Path(d) /\ record.uri = Path(d)
  BY DEF Do, Begin, Commit
<1> HIDE DEF detect, record
<1>2. \/ todo = <<Begin, detect, record, Commit>>
      \/ transaction /\ todo = <<detect, record, Commit>>
      \/ transaction /\ todo = <<record, Commit>>
      \/ transaction /\ todo = <<Commit>>
  BY DEF Whole, detect, record
<1>3. \/ This = Begin
      \/ transaction /\ This = detect
      \/ transaction /\ This = record /\ todo = <<record, Commit>>
      \/ transaction /\ This = Commit /\ todo = <<Commit>>
  BY <1>2, Heads DEF This
<1>4. QED BY <1>1, <1>3 DEF record


(* What is still to be done to a row is, after a statement that does not do  *)
(* it.                                                                       *)
LEMMA AwaitsStays ==
    ASSUME InfoTypes, SavedOK, todo # <<>>, NEW S \in Seq(Statement), Execute(S),
           NEW u \in Uri, NEW f \in Writes, Awaits(u, f),
           This.uri # u \/ This.do \notin Writes \/ (This.do # f /\ main # "describe")
    PROVE  Awaits(u, f)'
<1>1. PICK s \in Pending : /\ s.uri = u
                           /\ \/ s.do = f /\ s.value # ""
                              \/ main = "describe" /\ s.do \in Writes
  BY DEF Awaits
<1>2. s # This
  BY <1>1
<1>3. s \in Pending' /\ main' = main
  BY <1>2, Executed
<1>4. QED BY <1>1, <1>3 DEF Awaits

LEMMA RowsStay ==
    ASSUME InfoOK, todo # <<>>, NEW S \in Seq(Statement), Execute(S),
           UNCHANGED <<info, told>>, This.do \notin Writes
    PROVE  Rows'
<1> USE DEF InfoOK, Plans, Rows
<1>1. cut' = cut
  BY DEF Execute
<1>2. KeptTold'
  BY <1>1 DEF KeptTold
<1>3. ASSUME NEW u \in Uri PROVE FilledIn(u)'
  <2>1. \A f \in Writes : Awaits(u, f) => Awaits(u, f)'
    BY AwaitsStays
  <2>2. QED BY <1>1, <2>1 DEF Filled, FilledIn, Writes
<1>4. QED BY <1>2, <1>3 DEF Filled

LEMMA WriteIs ==
    ASSUME InfoTypes, SavedOK, NEW i \in Table, NEW r \in SUBSET batch, Write(i, r),
           UNCHANGED transaction
    PROVE  /\ info' \in Table /\ recorded' \subseteq batch
           /\ saved' \in [info : Table, recorded : SUBSET Doc]
           /\ saved'.recorded \subseteq batch
           /\ ~transaction' => saved' = [info |-> info', recorded |-> recorded']
           /\ saved'.recorded = saved.recorded \/ saved'.recorded = recorded'
           /\ transaction => saved' = saved
           /\ saved.recorded = batch /\ r = batch => saved'.recorded = batch
BY DEF InfoTypes, SavedOK, Write

(* What goes on from one statement to the next.                              *)
LEMMA GoesOn ==
    ASSUME InfoTypes, SavedOK, todo # <<>>, NEW S \in Seq(Statement), Execute(S),
           This.do # "commit"
    PROVE  /\ todo' # <<>> /\ main' = main
           /\ todo'[Len(todo')].do = "commit"
           /\ \A s \in Pending : s.do # This.do => s \in Pending'
BY Executed

LEMMA NothingIsAStatement == <<>> \in Seq(Statement) /\ Len(<<>>) = 0
OBVIOUS

LEMMA Shortened ==
    ASSUME InfoTypes, SavedOK, todo # <<>>, Execute(<<>>)
    PROVE  Pending' \subseteq Pending /\ batch' = batch /\ cut' = cut
<1>1. \A s \in Pending' : s \in Pending \/ \E i \in 1..Len(<<>>) : s = (<<>>)[i]
  BY Executed, NothingIsAStatement
<1>2. 1..Len(<<>>) = {}
  BY NothingIsAStatement
<1>3. QED BY <1>1, <1>2 DEF Execute

LEMMA BeginStep == ASSUME InfoOK, DoBegin PROVE InfoOK'
<1> USE DEF InfoOK, Plans
<1>1. /\ todo # <<>> /\ This.do = "begin" /\ transaction' = TRUE /\ Execute(<<>>)
      /\ UNCHANGED <<info, recorded, saved, detected, told>>
  BY DEF DoBegin, At, This
<1>2. /\ todo' # <<>> /\ main' = main /\ todo'[Len(todo')].do = "commit"
      /\ \A s \in Pending : s.do # This.do => s \in Pending'
  BY <1>1, NothingIsAStatement, GoesOn
<1>3. InfoTypes'
  BY <1>1, Executed, NothingIsAStatement DEF InfoTypes
<1>4. SavedOK'
  BY <1>1, <1>2 DEF SavedOK
<1>5. Describing'
  <2>1. CASE main = "describe"
    BY <1>1, <2>1, DescribingGoesOn
  <2>2. CASE main # "describe"
    BY <1>2, <2>2 DEF Describing
  <2>3. QED BY <2>1, <2>2
<1>6. Adding'
  <2> SUFFICES ASSUME main = "events" PROVE Adding'
    BY <1>2 DEF Adding
  <2>1. Pending' \subseteq Pending /\ batch' = batch /\ cut' = cut
    BY <1>1, Shortened
  <2>2. FoundOut'
    BY <1>1, <2>1, FoundOutStays DEF Adding
  <2>3. recorded' = batch' \/ \E s \in Pending' : s.do = "record"
    BY <1>1, <1>2, <2>1 DEF Adding
  <2>4. ~detected' => saved'.recorded = {} /\ \E d \in batch' : Whole(d)'
    BY <1>1, <1>2, <2>1, WholeGoesOn DEF Adding
  <2>5. QED BY <2>2, <2>3, <2>4 DEF Adding
<1>7. Settled'
  BY <1>1, <1>2 DEF Settled, Execute
<1>8. Rows'
  BY <1>1, NothingIsAStatement, RowsStay DEF Writes
<1>9. QED BY <1>3, <1>4, <1>5, <1>6, <1>7, <1>8

LEMMA CommitStep == ASSUME InfoOK, DoCommit PROVE InfoOK'
<1> USE DEF InfoOK, Plans
<1>1. /\ todo # <<>> /\ This.do = "commit" /\ transaction' = FALSE /\ Execute(<<>>)
      /\ saved' = [info |-> info, recorded |-> recorded]
      /\ UNCHANGED <<info, recorded, detected, told>>
  BY DEF DoCommit, At, This
<1>2. /\ todo' \in Seq(Statement)
      /\ main' = IF todo' = <<>> THEN "idle" ELSE main
      /\ todo' # <<>> <=> main' \in {"events", "describe"}
      /\ main' \in Spy \cup {"idle", "events", "describe"}
      /\ batch' = batch /\ cut' = cut
      /\ todo' # <<>> => todo'[Len(todo')].do = "commit"
      /\ \A s \in Pending : s = This \/ s \in Pending'
      /\ todo' = <<>> => Pending' = {}
  BY <1>1, Executed, NothingIsAStatement
<1>0. Pending' \subseteq Pending
  BY <1>1, Shortened
<1>3. InfoTypes'
  BY <1>1, <1>2 DEF InfoTypes
<1>4. SavedOK'
  BY <1>1, <1>2 DEF SavedOK
<1>5. Describing'
  <2>1. CASE main = "describe"
    BY <1>1, <2>1, DescribingGoesOn
  <2>2. CASE main # "describe"
    BY <1>2, <2>2 DEF Describing
  <2>3. QED BY <2>1, <2>2
<1>6. Adding'
  <2> SUFFICES ASSUME main' = "events" PROVE Adding'
    BY DEF Adding
  <2>1. main = "events" /\ todo' # <<>>
    BY <1>2
  <2>2. FoundOut'
    BY <1>0, <1>1, <1>2, <2>1, FoundOutStays DEF Adding
  <2>3. recorded' = batch' \/ \E s \in Pending' : s.do = "record"
    BY <1>1, <1>2, <2>1 DEF Adding
  <2>4. detected'
    <3> SUFFICES ASSUME ~detected' PROVE FALSE
      OBVIOUS
    <3>1. PICK d \in batch : Whole(d)
      BY <1>1, <2>1 DEF Adding
    <3>2. todo = <<Commit>>
      BY <1>1, <3>1, WholeStatement DEF InfoTypes
    <3>3. todo' = <<>> \o Tail(todo)
      BY <1>1 DEF Execute
    <3>4. QED BY <2>1, <3>2, <3>3, Rest
  <2>5. QED BY <2>2, <2>3, <2>4 DEF Adding
<1>7. Settled'
  <2> SUFFICES ASSUME main' # "events" PROVE recorded = batch
    BY <1>1, <1>2 DEF Settled
  <2>1. CASE main = "events"
    <3>1. Pending' = {}
      BY <1>2, <2>1
    <3>2. \A s \in Pending : s.do # "record"
      BY <1>1, <1>2, <3>1
    <3>3. QED BY <2>1, <3>2 DEF Adding
  <2>2. CASE main # "events"
    BY <2>2 DEF Settled
  <2>3. QED BY <2>1, <2>2
<1>8. Rows'
  BY <1>1, NothingIsAStatement, RowsStay DEF Writes
<1>9. QED BY <1>3, <1>4, <1>5, <1>6, <1>7, <1>8


LEMMA InsertRowStep == ASSUME InfoOK, DoInsertRow PROVE InfoOK'
<1> USE DEF InfoOK, Plans
<1> DEFINE i == IF info[This.uri] = NoInfo THEN [info EXCEPT ![This.uri] = EmptyInfo]
                                           ELSE info
<1>1. /\ todo # <<>> /\ This.do = "row" /\ Execute(<<>>) /\ Write(i, recorded)
      /\ UNCHANGED <<transaction, detected, told>>
  BY DEF DoInsertRow, At, This, InsertRow
<1>2. /\ todo' # <<>> /\ main' = main /\ todo'[Len(todo')].do = "commit"
      /\ \A s \in Pending : s.do # This.do => s \in Pending'
  BY <1>1, NothingIsAStatement, GoesOn
<1>3. /\ todo' \in Seq(Statement) /\ This \in Statement /\ This \in Pending
      /\ Pending \subseteq Statement
  BY <1>1, Executed, NothingIsAStatement
<1>4. Pending' \subseteq Pending /\ batch' = batch /\ cut' = cut
  BY <1>1, Shortened
<1>5. This.uri \in Uri /\ EmptyInfo # NoInfo /\ i \in Table
  BY <1>3, FieldsAre DEF InfoTypes, Table, Statement
<1>6. recorded' = recorded /\ info' = i
  BY <1>1 DEF Write
<1> HIDE DEF i
<1>7. /\ saved' \in [info : Table, recorded : SUBSET Doc]
      /\ saved'.recorded \subseteq batch
      /\ ~transaction' => saved' = [info |-> info', recorded |-> recorded']
      /\ saved'.recorded = saved.recorded \/ saved'.recorded = recorded'
      /\ transaction => saved' = saved
      /\ saved.recorded = batch /\ recorded = batch => saved'.recorded = batch
  BY <1>1, <1>5, WriteIs DEF InfoTypes
<1>8. /\ \A u \in Uri : info[u] # NoInfo => info'[u] = info[u]
      /\ \A u \in Uri : u # This.uri => info'[u] = info[u]
      /\ info'[This.uri] # NoInfo
  BY <1>5, <1>6 DEF i, InfoTypes, Table
<1>9. InfoTypes'
  BY <1>1, <1>2, <1>3, <1>4, <1>5, <1>6, <1>7 DEF InfoTypes
<1>10. SavedOK'
  BY <1>1, <1>2, <1>7 DEF SavedOK
<1>11. Describing'
  <2>1. CASE main = "describe"
    BY <1>1, <1>8, <2>1, DescribingGoesOn
  <2>2. CASE main # "describe"
    BY <1>2, <2>2 DEF Describing
  <2>3. QED BY <2>1, <2>2
<1>12. Adding'
  <2> SUFFICES ASSUME main = "events" PROVE Adding'
    BY <1>2 DEF Adding
  <2>1. FoundOut'
    <3>1. \A s \in Pending : info[s.uri] # NoInfo => info'[s.uri] # NoInfo
      BY <1>3, <1>8 DEF Statement
    <3>2. QED BY <1>1, <1>4, <3>1, FoundOutStays DEF Adding
  <2>2. recorded' = batch' \/ \E s \in Pending' : s.do = "record"
    BY <1>1, <1>2, <1>4, <1>6 DEF Adding
  <2>3. detected
    <3>1. ASSUME NEW d \in batch, Whole(d) PROVE FALSE
      BY <1>1, <3>1, WholeStatement DEF InfoTypes
    <3>2. QED BY <3>1 DEF Adding
  <2>4. QED BY <1>1, <2>1, <2>2, <2>3 DEF Adding
<1>13. Settled'
  BY <1>2, <1>4, <1>6, <1>7 DEF Settled
<1>14. ASSUME NEW u \in Uri PROVE FilledIn(u)'
  <2>1. \A f \in Writes : Awaits(u, f) => Awaits(u, f)'
    BY <1>1, NothingIsAStatement, AwaitsStays DEF Writes
  <2>2. CASE info[u] # NoInfo \/ u # This.uri
    BY <1>1, <1>4, <1>8, <2>1, <2>2 DEF Rows, Filled, FilledIn, Writes
  <2>3. CASE info[u] = NoInfo /\ u = This.uri
    <3>1. main = "describe"
      <4>1. main # "events"
        BY <1>1, <1>3, <2>3 DEF Adding, FoundOut
      <4>2. QED BY <1>1, <4>1 DEF InfoTypes
    <3>2. PICK s \in Pending : s.uri = This.uri /\ s.do \in Writes
      BY <1>1, <3>1, DescribedStatement
    <3>3. s \in Pending'
      BY <1>1, <1>2, <3>2 DEF Writes
    <3>4. Awaits(u, "title")' /\ Awaits(u, "mimetype")'
      BY <1>2, <2>3, <3>1, <3>2, <3>3 DEF Awaits
    <3>5. QED BY <3>4 DEF FilledIn
  <2>4. QED BY <2>2, <2>3
<1>15. KeptTold'
  BY <1>1, <1>4, <1>8 DEF Rows, KeptTold
<1>16. QED BY <1>9, <1>10, <1>11, <1>12, <1>13, <1>14, <1>15 DEF Rows, Filled

LEMMA UpdateStep == ASSUME InfoOK, DoUpdate PROVE InfoOK'
<1> USE DEF InfoOK, Plans
<1> DEFINE s == This
           i == IF s.do = "title" THEN [info EXCEPT ![s.uri].title = s.value]
                                  ELSE [info EXCEPT ![s.uri].mimetype = s.value]
<1>1. /\ todo # <<>> /\ s.do \in Writes /\ Execute(<<>>) /\ Write(i, recorded)
      /\ told' = IF main = "describe" THEN [told EXCEPT ![s.uri] = @ \cup {s.do}] ELSE told
      /\ UNCHANGED <<transaction, detected>>
  BY DEF DoUpdate, At, This, Writes
<1>2. /\ todo' # <<>> /\ main' = main /\ todo'[Len(todo')].do = "commit"
      /\ \A t \in Pending : t.do # s.do => t \in Pending'
  BY <1>1, NothingIsAStatement, GoesOn DEF Writes
<1>3. /\ todo' \in Seq(Statement) /\ s \in Statement /\ s \in Pending
      /\ Pending \subseteq Statement
  BY <1>1, Executed, NothingIsAStatement
<1>4. Pending' \subseteq Pending /\ batch' = batch /\ cut' = cut
  BY <1>1, Shortened
<1>5. s.uri \in Uri /\ s.value \in Value
  BY <1>3 DEF Statement
<1>6. CASE main = "describe" \/ main = "events"
  <2>1. info[s.uri] # NoInfo
    <3>1. CASE main = "describe"
      BY <1>1, <3>1, DescribedStatement DEF Writes
    <3>2. CASE main = "events"
      BY <1>1, <1>3, <3>2 DEF Adding, FoundOut
    <3>3. QED BY <1>6, <3>1, <3>2
  <2>2. info[s.uri] \in Info
    BY <1>5, <2>1 DEF InfoTypes, Table
  <2>3. recorded' = recorded /\ info' = i
    BY <1>1 DEF Write
  <2>4. /\ \A u \in Uri : u # s.uri => i[u] = info[u]
        /\ i[s.uri] = IF s.do = "title" THEN [info[s.uri] EXCEPT !.title = s.value]
                                        ELSE [info[s.uri] EXCEPT !.mimetype = s.value]
    BY <1>5 DEF InfoTypes, Table
  <2>5. /\ i[s.uri] \in Info
        /\ s.do = "title" => i[s.uri].title = s.value /\ i[s.uri].mimetype = info[s.uri].mimetype
        /\ s.do = "mimetype" => i[s.uri].mimetype = s.value /\ i[s.uri].title = info[s.uri].title
    <3> DEFINE r == info[s.uri]
               n == i[s.uri]
               v == s.value
    <3>1. r \in Info /\ v \in Value
      BY <1>5, <2>2
    <3>2. n = IF s.do = "title" THEN [r EXCEPT !.title = v] ELSE [r EXCEPT !.mimetype = v]
      BY <2>4
    <3> HIDE DEF r, n, v
    <3>3. /\ n \in Info
          /\ s.do = "title" => n.title = v /\ n.mimetype = r.mimetype
          /\ s.do = "mimetype" => n.mimetype = v /\ n.title = r.title
      <4>1. CASE s.do = "title"
        BY <3>1, <3>2, <4>1, FieldsAre
      <4>2. CASE s.do = "mimetype"
        BY <3>1, <3>2, <4>2, FieldsAre
      <4>3. QED BY <1>1, <4>1, <4>2 DEF Writes
    <3>4. QED BY <3>3 DEF r, n, v
  <2>6. i \in Table
    <3>1. i \in [Uri -> Info \cup {NoInfo}]
      <4>1. DOMAIN i = Uri /\ i = [u \in Uri |-> i[u]]
        BY DEF InfoTypes, Table
      <4> HIDE DEF i
      <4>2. \A u \in Uri : i[u] \in Info \cup {NoInfo}
        BY <2>4, <2>5 DEF InfoTypes, Table
      <4>3. QED BY <4>1, <4>2
    <3>2. QED BY <3>1 DEF Table
  <2> HIDE DEF i
  <2>7. /\ saved' \in [info : Table, recorded : SUBSET Doc]
        /\ saved'.recorded \subseteq batch
        /\ ~transaction' => saved' = [info |-> info', recorded |-> recorded']
        /\ saved'.recorded = saved.recorded \/ saved'.recorded = recorded'
        /\ transaction => saved' = saved
        /\ saved.recorded = batch /\ recorded = batch => saved'.recorded = batch
    BY <1>1, <2>6, WriteIs DEF InfoTypes
  <2>8. \A u \in Uri : info[u] # NoInfo => info'[u] # NoInfo
    BY <2>3, <2>4, <2>5, FieldsAre
  <2>9. /\ told' \in [Uri -> SUBSET Writes]
        /\ \A u \in Uri : u # s.uri => told'[u] = told[u]
        /\ main = "describe" => told'[s.uri] = told[s.uri] \cup {s.do}
        /\ main = "events" => told' = told
    BY <1>1, <1>5 DEF InfoTypes
  <2>10. InfoTypes'
    BY <1>1, <1>2, <1>3, <1>4, <2>3, <2>6, <2>7, <2>9 DEF InfoTypes
  <2>11. SavedOK'
    BY <1>1, <1>2, <2>7 DEF SavedOK
  <2>12. Describing'
    <3>1. CASE main = "describe"
      BY <1>1, <2>8, <3>1, DescribingGoesOn DEF Writes
    <3>2. CASE main # "describe"
      BY <1>2, <3>2 DEF Describing
    <3>3. QED BY <3>1, <3>2
  <2>13. Adding'
    <3> SUFFICES ASSUME main = "events" PROVE Adding'
      BY <1>2 DEF Adding
    <3>1. FoundOut'
      <4>1. \A t \in Pending : info[t.uri] # NoInfo => info'[t.uri] # NoInfo
        BY <1>3, <2>8 DEF Statement
      <4>2. QED BY <1>4, <2>9, <4>1, FoundOutStays DEF Adding
    <3>2. recorded' = batch' \/ \E t \in Pending' : t.do = "record"
      BY <1>1, <1>2, <1>4, <2>3 DEF Adding, Writes
    <3>3. detected
      <4>1. ASSUME NEW d \in batch, Whole(d) PROVE FALSE
        BY <1>1, <4>1, WholeStatement DEF InfoTypes, Writes
      <4>2. QED BY <4>1 DEF Adding
    <3>4. QED BY <1>1, <3>1, <3>2, <3>3 DEF Adding
  <2>14. Settled'
    BY <1>2, <1>4, <2>3, <2>7 DEF Settled
  <2>15. ASSUME NEW u \in Uri PROVE FilledIn(u)'
    <3>1. CASE u # s.uri
      <4>1. \A f \in Writes : Awaits(u, f) => Awaits(u, f)'
        BY <1>1, <3>1, NothingIsAStatement, AwaitsStays
      <4>2. info'[u] = info[u] /\ told'[u] = told[u] /\ cut' = cut
        BY <1>4, <2>3, <2>4, <2>9, <3>1
      <4>3. QED BY <4>1, <4>2 DEF Rows, Filled, FilledIn, Writes
    <3>2. CASE u = s.uri /\ main = "describe"
      BY <2>9, <3>2 DEF FilledIn
    <3>3. CASE u = s.uri /\ main = "events"
      <4>1. s.value = "auto"
        BY <1>1, <1>3, <3>3 DEF Adding, FoundOut
      <4>2. \A f \in Writes : f # s.do /\ Awaits(u, f) => Awaits(u, f)'
        BY <1>1, <3>3, NothingIsAStatement, AwaitsStays
      <4>3. told'[u] = told[u] /\ cut' = cut /\ info'[u] = i[u]
        BY <1>4, <2>3, <2>9, <3>3
      <4>4. CASE s.do = "title"
        BY <2>1, <2>5, <3>3, <4>1, <4>2, <4>3, <4>4 DEF Rows, Filled, FilledIn, Writes
      <4>5. CASE s.do = "mimetype"
        BY <2>1, <2>5, <3>3, <4>1, <4>2, <4>3, <4>5 DEF Rows, Filled, FilledIn, Writes
      <4>6. QED BY <1>1, <4>4, <4>5 DEF Writes
    <3>4. QED BY <1>6, <3>1, <3>2, <3>3
  <2>16. KeptTold'
    <3> SUFFICES ASSUME NEW u \in Uri, told'[u] # {}, u \notin cut'
                 PROVE  info'[u] # NoInfo /\ ("title" \in told'[u] => info'[u].title = "told")
      BY DEF KeptTold
    <3>1. CASE u # s.uri
      BY <1>4, <2>3, <2>4, <2>9, <3>1 DEF Rows, KeptTold
    <3>2. CASE u = s.uri /\ main = "describe"
      <4>1. s.do = "title" => s.value = "told"
        BY <3>2, DescribedStatement
      <4>2. "title" \in told'[u] => s.do = "title" \/ "title" \in told[u]
        BY <2>9, <3>2
      <4>3. info'[u] # NoInfo /\ info'[u] = i[u]
        BY <2>1, <2>3, <2>8, <3>2
      <4>4. "title" \in told[u] => info[u].title = "told"
        BY <1>4 DEF Rows, KeptTold
      <4>5. CASE s.do = "title"
        BY <2>5, <3>2, <4>1, <4>3, <4>5
      <4>6. CASE s.do = "mimetype"
        BY <2>5, <3>2, <4>2, <4>3, <4>4, <4>6
      <4>7. QED BY <1>1, <4>5, <4>6 DEF Writes
    <3>3. CASE u = s.uri /\ main = "events"
      <4>1. told[u] = {} \/ u \in cut
        BY <1>1, <1>3, <3>3 DEF Adding, FoundOut
      <4>2. QED BY <1>4, <2>9, <3>3, <4>1
    <3>4. QED BY <1>6, <3>1, <3>2, <3>3
  <2>17. QED BY <2>10, <2>11, <2>12, <2>13, <2>14, <2>15, <2>16 DEF Rows, Filled
<1>7. QED BY <1>1, <1>6 DEF InfoTypes


(* All that is found out of a resource.                                      *)
Finding(u) == Save("mimetype", u, "auto") \o Save("title", u, "auto")

LEMMA FindingOut ==
    ASSUME NEW u \in Uri, NEW S, S = Finding(u)
    PROVE  /\ S \in Seq(Statement)
           /\ \A i \in 1..Len(S) : /\ S[i].do \in {"row", "begin", "commit"} \cup Writes
                                   /\ S[i].do \in {"row"} \cup Writes => S[i].uri = u
                                   /\ S[i].do \in Writes => S[i].value = "auto"
           /\ \A f \in Writes : \E i \in 1..Len(S) :
                 S[i].do = f /\ S[i].uri = u /\ S[i].value = "auto"
<1> DEFINE row == Do("row", u, "")
           mimetype == Do("mimetype", u, "auto")
           title == Do("title", u, "auto")
<1>1. /\ row \in Statement /\ mimetype \in Statement /\ title \in Statement
      /\ Begin \in Statement /\ Commit \in Statement
  <2>1. {"", "auto"} \subseteq Value
    BY DEF Value
  <2>2. QED BY <2>1, StatementsAre
<1>2. /\ row.do = "row" /\ row.uri = u
      /\ mimetype.do = "mimetype" /\ mimetype.uri = u /\ mimetype.value = "auto"
      /\ title.do = "title" /\ title.uri = u /\ title.value = "auto"
      /\ Begin.do = "begin" /\ Commit.do = "commit"
  BY DEF Do, Begin, Commit
<1> DEFINE P == <<row, Begin, mimetype, Commit>>
           Q == <<row, Begin, title, Commit>>
<1>3. S = P \o Q
  BY DEF Save, Finding
<1> HIDE DEF row, mimetype, title
<1>4. /\ P \in Seq(Statement) /\ Len(P) = 4 /\ P[3] = mimetype
      /\ \A i \in 1..4 : P[i] \in {row, Begin, mimetype, Commit}
      /\ Q \in Seq(Statement) /\ Len(Q) = 4 /\ Q[3] = title
      /\ \A i \in 1..4 : Q[i] \in {row, Begin, title, Commit}
  BY <1>1
<1> HIDE DEF P, Q
<1>5. /\ S \in Seq(Statement) /\ Len(S) = 8
      /\ \A i \in 1..8 : S[i] = IF i <= 4 THEN P[i] ELSE Q[i - 4]
  <2>1. /\ P \o Q \in Seq(Statement) /\ Len(P \o Q) = Len(P) + Len(Q)
        /\ \A i \in 1..(Len(P) + Len(Q)) :
              (P \o Q)[i] = IF i <= Len(P) THEN P[i] ELSE Q[i - Len(P)]
    BY <1>4, ConcatProperties
  <2>2. /\ S \in Seq(Statement) /\ Len(S) = Len(P) + Len(Q)
        /\ \A i \in 1..(Len(P) + Len(Q)) :
              S[i] = IF i <= Len(P) THEN P[i] ELSE Q[i - Len(P)]
    BY <1>3, <2>1, Zenon
  <2>3. Len(P) = 4 /\ Len(Q) = 4
    BY <1>4
  <2>4. QED BY <2>2, <2>3
<1>6. /\ S[3] = mimetype /\ S[7] = title
      /\ \A i \in 1..8 : S[i] \in {row, Begin, mimetype, Commit, title}
  <2>1. 3 \in 1..8 /\ 7 \in 1..8 /\ 7 - 4 = 3
    OBVIOUS
  <2>2. \A i \in 1..8 : ~(i <= 4) => i - 4 \in 1..4
    OBVIOUS
  <2>3. \A i \in 1..8 : i <= 4 => i \in 1..4
    OBVIOUS
  <2>4. S[3] = P[3] /\ S[7] = Q[3]
    BY <1>5, <2>1
  <2>5. \A i \in 1..8 : S[i] \in {row, Begin, mimetype, Commit, title}
    BY <1>4, <1>5, <2>2, <2>3
  <2>6. QED BY <1>4, <2>4, <2>5
<1>7. ASSUME NEW i \in 1..Len(S)
      PROVE  /\ S[i].do \in {"row", "begin", "commit"} \cup Writes
             /\ S[i].do \in {"row"} \cup Writes => S[i].uri = u
             /\ S[i].do \in Writes => S[i].value = "auto"
  BY <1>2, <1>5, <1>6 DEF Writes
<1>8. ASSUME NEW f \in Writes
      PROVE  \E i \in 1..Len(S) : S[i].do = f /\ S[i].uri = u /\ S[i].value = "auto"
  <2>1. 3 \in 1..Len(S) /\ 7 \in 1..Len(S)
    BY <1>5
  <2>2. CASE f = "title"
    BY <1>2, <1>6, <2>1, <2>2
  <2>3. CASE f = "mimetype"
    BY <1>2, <1>6, <2>1, <2>3
  <2>4. QED BY <2>2, <2>3 DEF Writes
<1>9. QED BY <1>5, <1>7, <1>8

LEMMA DetectStep == ASSUME InfoOK, Detect PROVE InfoOK'
<1> USE DEF InfoOK, Plans
<1>1. /\ todo # <<>> /\ This.do = "detect"
      /\ UNCHANGED <<transaction, told>>
  BY DEF Detect, At, This
<1>2. main = "events"
  BY <1>1, DescribedStatement DEF InfoTypes, Writes
<1>3. This \in Statement /\ This.uri \in Uri
  <2>1. This \in Statement
    BY <1>1, HeadTailProperties, EmptySeq DEF InfoTypes, This
  <2>2. QED BY <2>1 DEF Statement
<1>4. CASE info[This.uri] # NoInfo
  <2>1. Execute(<<>>) /\ UNCHANGED <<info, recorded, saved, detected>>
    BY <1>4 DEF Detect
  <2>2. /\ todo' # <<>> /\ main' = main /\ todo'[Len(todo')].do = "commit"
        /\ \A s \in Pending : s.do # This.do => s \in Pending'
    BY <1>1, <2>1, NothingIsAStatement, GoesOn
  <2>3. Pending' \subseteq Pending /\ batch' = batch /\ cut' = cut
    BY <1>1, <2>1, Shortened
  <2>4. InfoTypes'
    BY <1>1, <2>1, <2>3, Executed, NothingIsAStatement DEF InfoTypes
  <2>5. SavedOK'
    BY <1>1, <2>1, <2>2 DEF SavedOK
  <2>6. Adding'
    <3>1. FoundOut'
      BY <1>1, <1>2, <2>1, <2>3, FoundOutStays DEF Adding
    <3>2. recorded' = batch' \/ \E s \in Pending' : s.do = "record"
      BY <1>1, <1>2, <2>1, <2>2, <2>3 DEF Adding
    <3>3. ~detected' => saved'.recorded = {} /\ \E d \in batch' : Whole(d)'
      BY <1>1, <1>2, <2>1, <2>2, <2>3, WholeGoesOn DEF Adding
    <3>4. QED BY <3>1, <3>2, <3>3 DEF Adding
  <2>7. Rows'
    BY <1>1, <2>1, NothingIsAStatement, RowsStay DEF Writes
  <2>8. QED BY <1>2, <2>2, <2>4, <2>5, <2>6, <2>7 DEF Describing, Settled
<1>5. CASE info[This.uri] = NoInfo
  <2>0. PICK u \in Uri : u = This.uri
    BY <1>3
  <2> DEFINE i == [info EXCEPT ![u] = EmptyInfo]
  <2>1. PICK S : /\ S = Finding(u)
                 /\ Execute(S) /\ Write(i, recorded) /\ detected' = TRUE
    BY <1>5, <2>0 DEF Detect, InsertRow, Finding
  <2>2. /\ S \in Seq(Statement)
        /\ \A n \in 1..Len(S) : /\ S[n].do \in {"row", "begin", "commit"} \cup Writes
                                /\ S[n].do \in {"row"} \cup Writes => S[n].uri = u
                                /\ S[n].do \in Writes => S[n].value = "auto"
        /\ \A f \in Writes : \E n \in 1..Len(S) :
              S[n].do = f /\ S[n].uri = u /\ S[n].value = "auto"
    BY <2>1, FindingOut
  <2>3. i \in Table /\ EmptyInfo # NoInfo
    BY FieldsAre DEF InfoTypes, Table
  <2>4. /\ \A w \in Uri : w # u => info'[w] = info[w]
        /\ info'[u] = EmptyInfo /\ recorded' = recorded
    BY <2>1 DEF Write, InfoTypes, Table
  <2> HIDE DEF i
  <2>5. /\ todo' # <<>> /\ main' = main /\ todo'[Len(todo')].do = "commit"
        /\ \A s \in Pending : s.do # This.do => s \in Pending'
    BY <1>1, <2>1, <2>2, GoesOn
  <2>6. /\ todo' \in Seq(Statement) /\ Pending \subseteq Statement
        /\ batch' = batch /\ cut' = cut
        /\ \A s \in Pending' : s \in Pending \/ \E n \in 1..Len(S) : s = S[n]
        /\ \A n \in 1..Len(S) : S[n] \in Pending'
    BY <1>1, <2>1, <2>2, Executed
  <2>7. /\ saved' \in [info : Table, recorded : SUBSET Doc]
        /\ saved'.recorded \subseteq batch
        /\ info' \in Table
        /\ ~transaction' => saved' = [info |-> info', recorded |-> recorded']
    BY <1>1, <2>1, <2>3, WriteIs DEF InfoTypes
  <2>8. InfoTypes'
    BY <1>1, <2>1, <2>4, <2>5, <2>6, <2>7 DEF InfoTypes
  <2>9. SavedOK'
    BY <1>1, <2>5, <2>7 DEF SavedOK
  <2>10. told[u] = {} \/ u \in cut
    BY <1>5, <2>0 DEF Rows, KeptTold
  <2>11. FoundOut'
    <3>1. ASSUME NEW s \in Pending
          PROVE  /\ s.do = "row" => info'[s.uri] # NoInfo
                 /\ s.do \in Writes => /\ info'[s.uri] # NoInfo /\ s.value = "auto"
                                       /\ told'[s.uri] = {} \/ s.uri \in cut'
                 /\ s.do = "record" => s.uri.doc \in batch'
      <4>1. s.uri \in Uri
        BY <2>6, <3>1 DEF Statement
      <4>2. info[s.uri] # NoInfo => info'[s.uri] # NoInfo
        BY <2>3, <2>4, <4>1
      <4>3. QED BY <1>1, <1>2, <2>6, <4>2 DEF Adding, FoundOut
    <3>2. ASSUME NEW n \in 1..Len(S), NEW s, s = S[n]
          PROVE  /\ s.do = "row" => info'[s.uri] # NoInfo
                 /\ s.do \in Writes => /\ info'[s.uri] # NoInfo /\ s.value = "auto"
                                       /\ told'[s.uri] = {} \/ s.uri \in cut'
                 /\ s.do # "record"
      BY <1>1, <2>2, <2>3, <2>4, <2>6, <2>10, <3>2 DEF Writes
    <3>3. QED BY <2>6, <3>1, <3>2 DEF FoundOut
  <2>12. Adding'
    <3>1. recorded' = batch' \/ \E s \in Pending' : s.do = "record"
      BY <1>1, <1>2, <2>4, <2>5, <2>6 DEF Adding
    <3>2. QED BY <2>1, <2>11, <3>1 DEF Adding
  <2>13. ASSUME NEW w \in Uri PROVE FilledIn(w)'
    <3>1. CASE w = u
      <4>1. \A f \in Writes : Awaits(u, f)'
        <5> SUFFICES ASSUME NEW f \in Writes PROVE Awaits(u, f)'
          OBVIOUS
        <5>1. PICK n \in 1..Len(S) : S[n].do = f /\ S[n].uri = u /\ S[n].value = "auto"
          BY <2>2
        <5>2. S[n] \in Pending'
          BY <2>6
        <5>3. QED BY <5>1, <5>2 DEF Awaits
      <4>2. QED BY <3>1, <4>1 DEF FilledIn, Writes
    <3>2. CASE w # u
      <4>1. \A f \in Writes : Awaits(w, f) => Awaits(w, f)'
        BY <1>1, <2>0, <2>1, <2>2, <3>2, AwaitsStays
      <4>2. info'[w] = info[w] /\ told' = told /\ cut' = cut
        BY <1>1, <2>4, <2>6, <3>2
      <4>3. QED BY <4>1, <4>2 DEF Rows, Filled, FilledIn, Writes
    <3>3. QED BY <3>1, <3>2
  <2>14. KeptTold'
    BY <1>1, <2>4, <2>6, <2>10 DEF Rows, KeptTold
  <2>15. QED BY <1>2, <2>5, <2>8, <2>9, <2>12, <2>13, <2>14
             DEF Describing, Settled, Rows, Filled
<1>6. QED BY <1>4, <1>5


(* The events of a batch.                                                    *)
LEMMA EventIs ==
    ASSUME NEW d \in Doc
    PROVE  /\ Path(d) \in Uri /\ Path(d).doc = d
           /\ Do("detect", Path(d), "") \in Statement /\ Do("record", Path(d), "") \in Statement
           /\ Do("detect", Path(d), "").do = "detect" /\ Do("record", Path(d), "").do = "record"
           /\ Do("record", Path(d), "").uri.doc = d
<1>1. Path(d) \in Uri /\ Path(d).doc = d
  BY DEF Path, Uri
<1>2. "" \in Value
  BY DEF Value
<1>3. QED BY <1>1, <1>2, StatementsAre DEF Do

LEMMA OpenIs ==
    ASSUME NEW d \in Doc, NEW S, S = OpenResourceEvent(d)
    PROVE  /\ S \in Seq(Statement)
           /\ \A i \in 1..Len(S) : S[i] \in {Do("detect", Path(d), ""), Do("record", Path(d), "")}
           /\ \E i \in 1..Len(S) : S[i].do = "record"
<1> DEFINE detect == Do("detect", Path(d), "")
           record == Do("record", Path(d), "")
<1>1. detect \in Statement /\ record \in Statement /\ record.do = "record"
  BY EventIs
<1>2. S = <<detect, record>>
  BY DEF OpenResourceEvent
<1> HIDE DEF detect, record
<1>3. /\ S \in Seq(Statement) /\ Len(S) = 2 /\ S[2] = record
      /\ \A i \in 1..2 : S[i] \in {detect, record}
  BY <1>1, <1>2
<1>4. 2 \in 1..Len(S) /\ S[2].do = "record"
  BY <1>1, <1>3
<1>5. \A i \in 1..Len(S) : S[i] \in {detect, record}
  BY <1>3
<1>6. QED BY <1>3, <1>4, <1>5 DEF detect, record

LEMMA Joined ==
    ASSUME NEW T, NEW a \in Seq(T), NEW b \in Seq(T), NEW c \in Seq(T),
           Len(c) = Len(a) + Len(b),
           \A i \in 1..Len(a) : c[i] = a[i],
           \A i \in 1..Len(b) : c[Len(a) + i] = b[i]
    PROVE  a \o b = c
<1>1. /\ a \o b \in Seq(T) /\ Len(a \o b) = Len(a) + Len(b)
      /\ \A i \in 1..(Len(a) + Len(b)) :
            (a \o b)[i] = IF i <= Len(a) THEN a[i] ELSE b[i - Len(a)]
  BY ConcatProperties
<1> DEFINE ab == a \o b
<1>2. /\ ab \in Seq(T) /\ Len(ab) = Len(c)
      /\ \A i \in 1..Len(c) : ab[i] = IF i <= Len(a) THEN a[i] ELSE b[i - Len(a)]
  BY <1>1
<1>3. Len(a) \in Nat /\ Len(b) \in Nat
  OBVIOUS
<1> HIDE DEF ab
<1>4. ASSUME NEW i \in 1..Len(c) PROVE ab[i] = c[i]
  <2>1. CASE i <= Len(a)
    BY <1>2, <1>3, <2>1
  <2>2. CASE ~(i <= Len(a))
    <3>1. i - Len(a) \in 1..Len(b) /\ Len(a) + (i - Len(a)) = i
      BY <1>3, <2>2
    <3>2. c[i] = b[i - Len(a)]
      BY <3>1
    <3>3. QED BY <1>2, <2>2, <3>2
  <2>3. QED BY <2>1, <2>2
<1>5. ab = c
  BY <1>2, <1>4, SeqEqual
<1>6. QED BY <1>5 DEF ab

LEMMA NextEvent ==
    /\ \A a, b, c, d : <<c, d>> \o Tail(<<a, b>>) = <<c, d, b>>
    /\ \A a, b, c, d : <<a>> \o <<b, c>> \o <<d>> = <<a, b, c, d>>
<1>1. \A a, b : Tail(<<a, b>>) = <<b>>
  OBVIOUS
<1>2. ASSUME NEW b, NEW c, NEW d PROVE <<c, d>> \o <<b>> = <<c, d, b>>
  <2> DEFINE T == {b, c, d}
             s == <<c, d>>
             t == <<b>>
             r == <<c, d, b>>
  <2>1. /\ s \in Seq(T) /\ Len(s) = 2 /\ s[1] = c /\ s[2] = d
    OBVIOUS
  <2>2. /\ t \in Seq(T) /\ Len(t) = 1 /\ t[1] = b
    OBVIOUS
  <2>3. /\ r \in Seq(T) /\ Len(r) = 3 /\ r[1] = c /\ r[2] = d /\ r[3] = b
    OBVIOUS
  <2> HIDE DEF T, s, t, r
  <2>4. s \o t = r
    <3>1. \A i \in 1..Len(s) : r[i] = s[i]
      BY <2>1, <2>3
    <3>2. \A i \in 1..Len(t) : r[Len(s) + i] = t[i]
      BY <2>1, <2>2, <2>3
    <3>3. Len(r) = Len(s) + Len(t)
      BY <2>1, <2>2, <2>3
    <3>4. QED BY <2>1, <2>2, <2>3, <3>1, <3>2, <3>3, Joined
  <2>5. QED BY <2>4 DEF s, t, r
<1>3. ASSUME NEW a, NEW b, NEW c PROVE <<a>> \o <<b, c>> = <<a, b, c>>
  <2> DEFINE T == {a, b, c}
             s == <<a>>
             t == <<b, c>>
             r == <<a, b, c>>
  <2>1. /\ s \in Seq(T) /\ Len(s) = 1 /\ s[1] = a
    OBVIOUS
  <2>2. /\ t \in Seq(T) /\ Len(t) = 2 /\ t[1] = b /\ t[2] = c
    OBVIOUS
  <2>3. /\ r \in Seq(T) /\ Len(r) = 3 /\ r[1] = a /\ r[2] = b /\ r[3] = c
    OBVIOUS
  <2> HIDE DEF T, s, t, r
  <2>4. s \o t = r
    <3>1. \A i \in 1..Len(s) : r[i] = s[i]
      BY <2>1, <2>3
    <3>2. \A i \in 1..Len(t) : r[Len(s) + i] = t[i]
      BY <2>1, <2>2, <2>3
    <3>3. Len(r) = Len(s) + Len(t)
      BY <2>1, <2>2, <2>3
    <3>4. QED BY <2>1, <2>2, <2>3, <3>1, <3>2, <3>3, Joined
  <2>5. QED BY <2>4 DEF s, t, r
<1>4. ASSUME NEW a, NEW b, NEW c, NEW d PROVE <<a, b, c>> \o <<d>> = <<a, b, c, d>>
  <2> DEFINE T == {a, b, c, d}
             s == <<a, b, c>>
             t == <<d>>
             r == <<a, b, c, d>>
  <2>1. /\ s \in Seq(T) /\ Len(s) = 3 /\ s[1] = a /\ s[2] = b /\ s[3] = c
    OBVIOUS
  <2>2. /\ t \in Seq(T) /\ Len(t) = 1 /\ t[1] = d
    OBVIOUS
  <2>3. /\ r \in Seq(T) /\ Len(r) = 4 /\ r[1] = a /\ r[2] = b /\ r[3] = c /\ r[4] = d
    OBVIOUS
  <2> HIDE DEF T, s, t, r
  <2>4. s \o t = r
    <3>1. \A i \in 1..Len(s) : r[i] = s[i]
      BY <2>1, <2>3
    <3>2. \A i \in 1..Len(t) : r[Len(s) + i] = t[i]
      BY <2>1, <2>2, <2>3
    <3>3. Len(r) = Len(s) + Len(t)
      BY <2>1, <2>2, <2>3
    <3>4. QED BY <2>1, <2>2, <2>3, <3>1, <3>2, <3>3, Joined
  <2>5. QED BY <2>4 DEF s, t, r
<1>5. ASSUME NEW a, NEW b, NEW c, NEW d PROVE <<c, d>> \o Tail(<<a, b>>) = <<c, d, b>>
  <2>1. Tail(<<a, b>>) = <<b>>
    BY <1>1
  <2>2. QED BY <1>2, <2>1, Zenon
<1>6. ASSUME NEW a, NEW b, NEW c, NEW d PROVE <<a>> \o <<b, c>> \o <<d>> = <<a, b, c, d>>
  <2>1. <<a>> \o <<b, c>> = <<a, b, c>>
    BY <1>3
  <2>2. QED BY <1>4, <2>1, Zenon
<1>7. QED BY <1>5, <1>6, Zenon

LEMMA RecordStep == ASSUME InfoOK, DoRecord PROVE InfoOK'
<1> USE DEF InfoOK, Plans
<1> DEFINE r == recorded \cup {This.uri.doc}
<1>1. /\ todo # <<>> /\ This.do = "record" /\ Write(info, r)
      /\ UNCHANGED <<transaction, detected, told>>
  BY DEF DoRecord, At, This
<1>2. main = "events"
  BY <1>1, DescribedStatement DEF InfoTypes, Writes
<1>3. PICK S : /\ Execute(S) /\ S \in Seq(Statement)
               /\ \/ S = <<>> /\ recorded' = batch
                  \/ \E d \in batch : S = OpenResourceEvent(d)
  <2>1. CASE recorded' = batch
    BY <2>1, NothingIsAStatement DEF DoRecord
  <2>2. CASE recorded' # batch
    <3>1. PICK d \in batch : Execute(OpenResourceEvent(d))
      BY <2>2 DEF DoRecord
    <3>2. OpenResourceEvent(d) \in Seq(Statement)
      BY OpenIs DEF InfoTypes
    <3>3. QED BY <3>1, <3>2
  <2>3. QED BY <2>1, <2>2
<1>4. /\ todo' # <<>> /\ main' = main /\ todo'[Len(todo')].do = "commit"
      /\ \A s \in Pending : s.do # This.do => s \in Pending'
  BY <1>1, <1>3, GoesOn
<1>5. /\ todo' \in Seq(Statement) /\ This \in Pending
      /\ batch' = batch /\ cut' = cut
      /\ \A s \in Pending' : s \in Pending \/ \E i \in 1..Len(S) : s = S[i]
      /\ \A i \in 1..Len(S) : S[i] \in Pending'
  BY <1>1, <1>3, Executed
<1>6. r \subseteq batch /\ info \in Table
  BY <1>1, <1>2, <1>5 DEF Adding, FoundOut, InfoTypes
<1>7. info' = info /\ recorded' = r
  BY <1>1 DEF Write
<1> HIDE DEF r
<1>8. /\ saved' \in [info : Table, recorded : SUBSET Doc]
      /\ saved'.recorded \subseteq batch
      /\ ~transaction' => saved' = [info |-> info', recorded |-> recorded']
      /\ transaction => saved' = saved
  BY <1>1, <1>6, WriteIs DEF InfoTypes
<1>9. InfoTypes'
  BY <1>1, <1>4, <1>5, <1>6, <1>7, <1>8 DEF InfoTypes
<1>10. SavedOK'
  BY <1>1, <1>4, <1>8 DEF SavedOK
<1>11. ASSUME NEW s \in Pending'
       PROVE  \/ s \in Pending
              \/ s.do = "detect"
              \/ s.do = "record" /\ s.uri.doc \in batch
  <2> SUFFICES ASSUME NEW i \in 1..Len(S), s = S[i]
               PROVE  s.do = "detect" \/ (s.do = "record" /\ s.uri.doc \in batch)
    BY <1>5
  <2>1. CASE S = <<>>
    BY <2>1, NothingIsAStatement
  <2>2. CASE \E d \in batch : S = OpenResourceEvent(d)
    <3>1. PICK d \in batch : S = OpenResourceEvent(d)
      BY <2>2
    <3>2. d \in Doc
      BY DEF InfoTypes
    <3>3. s \in {Do("detect", Path(d), ""), Do("record", Path(d), "")}
      BY <3>1, <3>2, OpenIs
    <3>4. CASE s = Do("detect", Path(d), "")
      BY <3>2, <3>4, EventIs, Zenon
    <3>5. CASE s = Do("record", Path(d), "")
      <4>1. s.do = "record" /\ s.uri.doc = d
        BY <3>2, <3>5, EventIs, Zenon
      <4>2. QED BY <4>1
    <3>6. QED BY <3>3, <3>4, <3>5
  <2>3. QED BY <1>3, <2>1, <2>2
<1>12. FoundOut'
  BY <1>1, <1>2, <1>5, <1>7, <1>11 DEF Adding, FoundOut, Writes
<1>13. recorded' = batch' \/ \E s \in Pending' : s.do = "record"
  <2>1. CASE S = <<>>
    BY <1>3, <1>5, <2>1 DEF OpenResourceEvent
  <2>2. CASE \E d \in batch : S = OpenResourceEvent(d)
    <3>1. \E i \in 1..Len(S) : S[i].do = "record"
      BY <2>2, OpenIs DEF InfoTypes
    <3>2. QED BY <1>5, <3>1
  <2>3. QED BY <1>3, <2>1, <2>2
<1>14. ASSUME ~detected' PROVE saved'.recorded = {} /\ \E d \in batch' : Whole(d)'
  <2>1. PICK d \in batch : Whole(d)
    BY <1>1, <1>2, <1>14 DEF Adding
  <2>2. transaction /\ todo = <<Do("record", Path(d), ""), Commit>>
    BY <1>1, <2>1, WholeStatement DEF InfoTypes
  <2>3. saved'.recorded = {}
    BY <1>1, <1>2, <1>8, <1>14, <2>2 DEF Adding
  <2>4. CASE S = <<>>
    <3>1. Whole(d)'
      BY <1>1, <1>3, <1>4, <2>1, <2>4, WholeGoesOn
    <3>2. QED BY <1>5, <2>3, <3>1
  <2>5. CASE \E e \in batch : S = OpenResourceEvent(e)
    <3>1. PICK e \in batch : S = OpenResourceEvent(e)
      BY <2>5
    <3>2. todo' = OpenResourceEvent(e) \o Tail(todo)
      BY <1>3, <3>1 DEF Execute
    <3>3. todo' = <<Do("detect", Path(e), ""), Do("record", Path(e), ""), Commit>>
      BY <2>2, <3>2, NextEvent DEF OpenResourceEvent
    <3>4. Whole(e)'
      BY <1>1, <2>2, <3>3 DEF Whole
    <3>5. QED BY <1>5, <2>3, <3>4
  <2>6. QED BY <1>3, <2>4, <2>5
<1>15. Rows'
  BY <1>1, <1>3, <1>7, RowsStay DEF Writes
<1>16. QED BY <1>2, <1>4, <1>9, <1>10, <1>12, <1>13, <1>14, <1>15
           DEF Describing, Settled, Adding

-----------------------------------------------------------------------------
(* How a plan begins, and how it ends early.                                 *)

LEMMA NothingToDo ==
    ASSUME InfoOK, main = "idle"
    PROVE  /\ todo = <<>> /\ ~transaction /\ saved = [info |-> info, recorded |-> recorded]
           /\ Pending = {}
           /\ recorded = batch /\ saved.recorded = batch
           /\ \A u \in Uri, f \in Writes : ~Awaits(u, f)
<1>1. todo = <<>>
  BY DEF InfoOK, InfoTypes
<1>2. Pending = {}
  BY <1>1 DEF Pending
<1>3. QED BY <1>1, <1>2 DEF InfoOK, Plans, SavedOK, Settled, Awaits

LEMMA RowsKept ==
    ASSUME InfoOK, main = "idle", UNCHANGED <<info, told, cut>>
    PROVE  Rows'
BY NothingToDo DEF InfoOK, Rows, Filled, FilledIn, KeptTold, Writes

LEMMA FourStatements ==
    ASSUME NEW a \in Statement, NEW b \in Statement, NEW c \in Statement, NEW d \in Statement,
           todo' = <<a, b, c, d>>
    PROVE  /\ todo' \in Seq(Statement) /\ todo' # <<>>
           /\ todo'[Len(todo')] = d
           /\ Pending' = {a, b, c, d}
<1>1. /\ todo' \in Seq(Statement) /\ Len(todo') = 4
      /\ todo'[1] = a /\ todo'[2] = b /\ todo'[3] = c /\ todo'[4] = d
  OBVIOUS
<1>2. Pending' = {todo'[i] : i \in 1..4}
  BY <1>1 DEF Pending
<1>3. \A i \in 1..4 : i = 1 \/ i = 2 \/ i = 3 \/ i = 4
  OBVIOUS
<1>4. Pending' = {todo'[1], todo'[2], todo'[3], todo'[4]}
  BY <1>2, <1>3
<1>5. QED BY <1>1, <1>4

LEMMA AddEventsStep ==
    ASSUME InfoOK, NEW docs \in SUBSET Doc, AddEvents(docs) PROVE InfoOK'
<1> USE DEF InfoOK, Plans
<1>1. /\ main = "idle" /\ main' = "events" /\ batch' = docs /\ recorded' = {}
      /\ saved' = [saved EXCEPT !.recorded = {}] /\ detected' = FALSE
      /\ UNCHANGED <<info, transaction, told, cut>>
  BY DEF AddEvents
<1>2. PICK d \in docs : todo' = <<Begin>> \o OpenResourceEvent(d) \o <<Commit>>
  BY DEF AddEvents
<1> DEFINE detect == Do("detect", Path(d), "")
           record == Do("record", Path(d), "")
<1>3. todo' = <<Begin, detect, record, Commit>>
  BY <1>2, NextEvent DEF OpenResourceEvent
<1>4. /\ detect \in Statement /\ record \in Statement
      /\ Begin \in Statement /\ Commit \in Statement
      /\ detect.do = "detect" /\ record.do = "record" /\ record.uri.doc = d
      /\ Begin.do = "begin" /\ Commit.do = "commit"
  <2>1. d \in Doc /\ Path(d) \in Uri
    BY EventIs
  <2>2. /\ detect \in Statement /\ record \in Statement
        /\ detect.do = "detect" /\ record.do = "record" /\ record.uri.doc = d
    BY <2>1, EventIs, Zenon
  <2>3. QED BY <2>1, <2>2, StatementsAre
<1>5. Whole(d)'
  BY <1>3 DEF Whole
<1> HIDE DEF detect, record
<1>6. /\ todo' \in Seq(Statement) /\ todo' # <<>> /\ todo'[Len(todo')] = Commit
      /\ Pending' = {Begin, detect, record, Commit}
  BY <1>3, <1>4, FourStatements
<1>7. /\ ~transaction /\ saved = [info |-> info, recorded |-> recorded]
  BY <1>1, NothingToDo
<1>8. saved' = [info |-> info, recorded |-> {}]
  BY <1>1, <1>7
<1>9. InfoTypes'
  BY <1>1, <1>6, <1>8 DEF InfoTypes
<1>10. SavedOK'
  BY <1>1, <1>4, <1>6, <1>8 DEF SavedOK
<1>11. Adding'
  <2>1. FoundOut'
    BY <1>1, <1>4, <1>6 DEF FoundOut, Writes
  <2>2. QED BY <1>1, <1>4, <1>5, <1>6, <1>8, <2>1 DEF Adding
<1>12. Rows'
  BY <1>1, RowsKept
<1>13. QED BY <1>1, <1>9, <1>10, <1>11, <1>12 DEF Describing, Settled

LEMMA DescribeStep ==
    ASSUME InfoOK, NEW field \in Writes, NEW u \in Uri, NEW value \in Value,
           Describe(field, u, value), field = "title" => value = "told"
    PROVE  InfoOK'
<1> USE DEF InfoOK, Plans
<1>1. /\ main = "idle" /\ main' = "describe" /\ todo' = Save(field, u, value)
      /\ UNCHANGED <<info, recorded, transaction, saved, batch, detected, told, cut>>
  BY DEF Describe, tables, history
<1>2. todo' = <<Do("row", u, ""), Begin, Do(field, u, value), Commit>>
  BY <1>1 DEF Save
<1>3. Describing'
  BY <1>2 DEF Describing
<1>4. /\ Do("row", u, "") \in Statement /\ Do(field, u, value) \in Statement
      /\ Begin \in Statement /\ Commit \in Statement /\ Commit.do = "commit"
  BY StatementsAre, ZenonT(60) DEF Writes, Value
<1>5. todo' \in Seq(Statement) /\ todo' # <<>> /\ todo'[Len(todo')] = Commit
  BY <1>2, <1>4, FourStatements
<1>6. /\ ~transaction /\ saved = [info |-> info, recorded |-> recorded]
      /\ recorded = batch /\ saved.recorded = batch
  BY <1>1, NothingToDo
<1>7. InfoTypes'
  BY <1>1, <1>5 DEF InfoTypes
<1>8. SavedOK'
  BY <1>1, <1>4, <1>5, <1>6 DEF SavedOK
<1>9. Rows'
  BY <1>1, RowsKept
<1>10. QED BY <1>1, <1>3, <1>6, <1>7, <1>8, <1>9 DEF Adding, Settled

LEMMA InfoRestart == ASSUME InfoOK, Restart PROVE InfoOK'
<1> USE DEF InfoOK, Plans
<1>1. /\ main' = "idle" /\ todo' = <<>> /\ info' = saved.info /\ recorded' = {}
      /\ saved' = [saved EXCEPT !.recorded = {}] /\ batch' = {}
      /\ detected' = FALSE /\ transaction' = FALSE
      /\ cut' = cut \cup {u \in Uri : Interrupted(u)} /\ told' = told
  BY DEF Restart, RestartSpies
<1>2. saved' = [info |-> saved.info, recorded |-> {}]
  BY <1>1 DEF InfoTypes
<1>3. InfoTypes'
  <2>1. todo' \in Seq(Statement)
    BY <1>1
  <2>2. info' \in Table /\ cut' \subseteq Uri
    BY <1>1 DEF InfoTypes
  <2>3. saved' \in [info : Table, recorded : SUBSET Doc] /\ saved'.recorded = {}
    BY <1>1, <1>2 DEF InfoTypes
  <2>4. QED BY <1>1, <2>1, <2>2, <2>3 DEF InfoTypes
<1>4. SavedOK' /\ Describing' /\ Adding' /\ Settled'
  BY <1>1, <1>2 DEF SavedOK, Describing, Adding, Settled
<1>5. ASSUME NEW u \in Uri, u \notin cut'
      PROVE  /\ u \notin cut /\ info'[u] = info[u]
             /\ info[u] # NoInfo => \A f \in Writes : ~Awaits(u, f)
  <2>1. ~Interrupted(u) /\ u \notin cut
    BY <1>1, <1>5
  <2>2. info'[u] = info[u]
    BY <1>1, <2>1 DEF Interrupted
  <2>3. ASSUME info[u] # NoInfo, NEW f \in Writes, Awaits(u, f) PROVE FALSE
    <3>1. PICK s \in Pending : s.uri = u /\ s.do \in Writes
      BY <2>3 DEF Awaits
    <3>2. PICK i \in 1..Len(todo) : s = todo[i]
      BY DEF Pending
    <3>3. i \in DOMAIN todo
      BY DEF InfoTypes
    <3>4. QED BY <2>1, <2>3, <3>1, <3>2, <3>3 DEF Interrupted, Writes
  <2>4. QED BY <2>1, <2>2, <2>3
<1>6. ASSUME NEW u \in Uri PROVE FilledIn(u)'
  BY <1>1, <1>5 DEF Rows, Filled, FilledIn, Writes
<1>7. KeptTold'
  BY <1>1, <1>5 DEF Rows, KeptTold
<1>8. QED BY <1>3, <1>4, <1>6, <1>7 DEF Rows, Filled

LEMMA InfoFrame ==
    ASSUME InfoOK, UNCHANGED infoVars,
           main' = main \/ {main, main'} \subseteq Spy \cup {"idle"}
    PROVE  InfoOK'
<1> USE DEF InfoOK, Plans, infoVars, tables, history
<1>1. /\ main' = "describe" <=> main = "describe"
      /\ main' = "events" <=> main = "events"
      /\ Pending' = Pending
  BY DEF Pending, Spy
<1>2. InfoTypes' /\ SavedOK'
  BY <1>1 DEF InfoTypes, SavedOK
<1>3. Describing' /\ Settled'
  BY <1>1 DEF Describing, Settled
<1>4. Adding'
  BY <1>1 DEF Adding, FoundOut, Whole
<1>5. Filled' /\ KeptTold'
  BY <1>1 DEF Rows, Filled, FilledIn, Awaits, KeptTold
<1>6. QED BY <1>2, <1>3, <1>4, <1>5 DEF Rows

LEMMA InfoInit == Init => InfoOK
<1> SUFFICES ASSUME Init PROVE InfoOK
  OBVIOUS
<1>1. /\ todo = <<>> /\ info = [u \in Uri |-> NoInfo] /\ recorded = {} /\ transaction = FALSE
      /\ saved = [info |-> info, recorded |-> {}] /\ batch = {} /\ detected = FALSE
      /\ told = [u \in Uri |-> {}] /\ cut = {} /\ main = "idle"
  BY DEF Init, SpyInit
<1>2. InfoTypes
  <2>1. info \in Table
    BY <1>1 DEF Table
  <2>2. saved \in [info : Table, recorded : SUBSET Doc] /\ saved.recorded = {}
    BY <1>1, <2>1
  <2>3. todo \in Seq(Statement) /\ told \in [Uri -> SUBSET Writes]
    BY <1>1
  <2>4. QED BY <1>1, <2>1, <2>2, <2>3 DEF InfoTypes
<1>3. SavedOK /\ Describing /\ Adding /\ Settled
  BY <1>1 DEF SavedOK, Describing, Adding, Settled
<1>4. Filled /\ KeptTold
  BY <1>1 DEF Filled, FilledIn, KeptTold
<1>5. QED BY <1>2, <1>3, <1>4 DEF InfoOK, Plans, Rows

LEMMA InfoStep == InfoOK /\ [Next]_vars => InfoOK'
<1> SUFFICES ASSUME InfoOK, [Next]_vars PROVE InfoOK'
  OBVIOUS
<1>1. CASE SpyNext /\ UNCHANGED infoVars
  <2>1. main' = main \/ {main, main'} \subseteq Spy \cup {"idle"}
    BY <1>1 DEF SpyNext, Tick, Use, Rewrite, DirectoryUpdated, FileUpdated,
                LookAt, Updated, Report, Spy, spies
  <2>2. QED BY <1>1, <2>1, InfoFrame
<1>2. CASE \E docs \in SUBSET Doc : AddEvents(docs)
  BY <1>2, AddEventsStep
<1>3. ASSUME NEW d \in Described,
             RegisteredResourceTitle(d) \/ RegisteredResourceMimetype(d)
      PROVE  InfoOK'
  <2>1. Path(d) \in Uri /\ {"", "told"} \subseteq Value
    BY DescribedAssumption, EventIs DEF Value
  <2>2. CASE RegisteredResourceTitle(d)
    BY <2>1, <2>2, DescribeStep DEF RegisteredResourceTitle, Writes
  <2>3. CASE RegisteredResourceMimetype(d)
    BY <2>1, <2>3, DescribeStep DEF RegisteredResourceMimetype, Writes
  <2>4. QED BY <1>3, <2>2, <2>3
<1>4. ASSUME NEW d \in GtkDoc, RegisteredResourceMimetypeOfSpy(d) PROVE InfoOK'
  <2>1. Url(d) \in Uri /\ "told" \in Value
    BY DocAssumption DEF Url, Uri, Value
  <2>2. QED BY <1>4, <2>1, DescribeStep DEF RegisteredResourceMimetypeOfSpy, Writes
<1>5. CASE Statements
  BY <1>5, BeginStep, CommitStep, InsertRowStep, UpdateStep, DetectStep, RecordStep DEF Statements
<1>6. CASE Restart
  BY <1>6, InfoRestart
<1>7. CASE UNCHANGED vars
  BY <1>7, InfoFrame DEF vars, spyVars
<1>8. QED BY <1>1, <1>2, <1>3, <1>4, <1>5, <1>6, <1>7 DEF Next

(* A batch of events is recorded as a whole or, in a crash, not at all,      *)
(* unless one of its resources was new; and what a row was told, or could be *)
(* found out, is in it whenever nothing is being written, but for a crash in *)
(* between or where the other field was told first (StatsPlugin.cpp:216-302, *)
(* 395-435).                                                                 *)
THEOREM BatchesAreWhole == Spec => []RecordedWhole
<1>1. InfoOK => TornOnlyIf
  BY DEF InfoOK, Plans, Adding, Settled, TornOnlyIf
<1>2. InfoOK => InfoIsKept
  <2> SUFFICES ASSUME InfoOK, main = "idle", NEW u \in Uri, info[u] # NoInfo
               PROVE  /\ "" \in {info[u].title, info[u].mimetype} => told[u] # {} \/ u \in cut
                      /\ "title" \in told[u] /\ u \notin cut => info[u].title = "told"
                      /\ info[u] = saved.info[u]
    BY DEF InfoIsKept
  <2>1. \A f \in Writes : ~Awaits(u, f)
    BY NothingToDo
  <2>2. saved.info = info
    <3>1. saved = [info |-> info, recorded |-> recorded]
      BY NothingToDo
    <3>2. QED BY <3>1
  <2>3. QED BY <2>1, <2>2 DEF InfoOK, Rows, Filled, FilledIn, KeptTold, Writes
<1>3. InfoOK => RecordedWhole
  BY <1>1, <1>2 DEF RecordedWhole
<1>4. QED BY <1>3, InfoInit, InfoStep, PTL DEF Spec


-----------------------------------------------------------------------------
(* The bounds: the clock ends, and no document is used more often than all   *)
(* documents together may be.                                                *)

InBounds == /\ now \in Time
            /\ stamp \in [Doc -> Time \cup {-1}]
            /\ uses \in [Doc -> 0..MaxUses]
            /\ lastUpdate \in [Spy -> Time]
            /\ left \subseteq Doc \X (0..MaxUses)
            /\ accessed \subseteq Doc /\ mimetypes \subseteq GtkDoc

LEMMA UsesAreBounded ==
    ASSUME uses \in [Doc -> 0..MaxUses], TotalUses < MaxUses, NEW d \in Doc
    PROVE  uses[d] < MaxUses
<1> SUFFICES ASSUME uses[d] = MaxUses PROVE FALSE
  BY TimeAssumption
<1> DEFINE All == Doc \X (1..MaxUses)
           Past == {u \in All : u[2] <= uses[u[1]]}
           Own == {d} \X (1..MaxUses)
<1>1. IsFiniteSet(1..MaxUses) /\ Cardinality(1..MaxUses) = MaxUses
  <2>1. 1 \in Int /\ MaxUses \in Int /\ MaxUses - 1 + 1 = MaxUses /\ MaxUses >= 0
    BY TimeAssumption
  <2>2. /\ IsFiniteSet(1..MaxUses)
        /\ Cardinality(1..MaxUses) = IF 1 > MaxUses THEN 0 ELSE MaxUses - 1 + 1
    BY <2>1, FS_Interval
  <2>3. QED BY <2>1, <2>2
<1>2. IsFiniteSet(All)
  BY <1>1, DocAssumption, FS_Product
<1>3. IsFiniteSet({d}) /\ Cardinality({d}) = 1
  BY FS_Singleton
<1>4. IsFiniteSet(Own) /\ Cardinality(Own) = 1 * MaxUses
  BY <1>1, <1>3, FS_Product
<1>5. Past \subseteq All /\ Own \subseteq Past
  OBVIOUS
<1>6. IsFiniteSet(Past)
  BY <1>2, <1>5, FS_Subset
<1>7. Cardinality(Own) <= Cardinality(Past)
  BY <1>5, <1>6, FS_Subset
<1>8. Cardinality(Past) = TotalUses
  BY DEF TotalUses
<1>9. Cardinality(Past) \in Nat
  BY <1>6, FS_CardinalityType
<1> HIDE DEF All, Past, Own
<1>10. QED BY <1>4, <1>7, <1>8, <1>9, TimeAssumption

LEMMA BoundsInit == Init => InBounds
BY TimeAssumption DEF Init, SpyInit, InBounds, Time

LEMMA BoundsStep == InBounds /\ [Next]_vars => InBounds'
<1> SUFFICES ASSUME InBounds, [Next]_vars PROVE InBounds'
  OBVIOUS
<1> USE TimeAssumption DEF InBounds
<1>1. CASE Tick
  BY <1>1 DEF Tick, files, spies, Time
<1>2. ASSUME NEW d \in Doc, Use(d) PROVE InBounds'
  <2>1. /\ stamp' = [stamp EXCEPT ![d] = StampOf(d)]
        /\ uses' = [uses EXCEPT ![d] = @ + 1] /\ TotalUses < MaxUses
        /\ UNCHANGED <<now, lastUpdate, left, accessed, mimetypes>>
    BY <1>2 DEF Use, spies
  <2>2. uses[d] + 1 \in 0..MaxUses
    BY <2>1, UsesAreBounded
  <2>3. StampOf(d) \in Time
    BY DEF StampOf, Time
  <2>4. QED BY <2>1, <2>2, <2>3
<1>3. CASE Rewrite
  BY <1>3 DEF Rewrite, spies
<1>4. CASE DirectoryUpdated
  <2>1. left' \subseteq Doc \X (0..MaxUses)
    BY <1>4 DEF DirectoryUpdated, DocsOf
  <2>2. QED BY <1>4, <2>1 DEF DirectoryUpdated
<1>5. CASE FileUpdated
  <2>1. left' \subseteq Doc \X (0..MaxUses)
    BY <1>5 DEF FileUpdated, DocsOf
  <2>2. QED BY <1>5, <2>1 DEF FileUpdated
<1>6. ASSUME NEW d \in Doc, NEW use \in 0..MaxUses, LookAt(d, use) PROVE InBounds'
  <2>1. accessed' \subseteq Doc /\ mimetypes' \subseteq GtkDoc
    BY <1>6 DEF LookAt, AddDocument
  <2>2. QED BY <1>6, <2>1 DEF LookAt, files
<1>7. CASE Updated
  BY <1>7 DEF Updated, files
<1>8. ASSUME NEW docs, AddEvents(docs) PROVE InBounds'
  BY <1>8 DEF AddEvents, files, spies
<1>9. ASSUME NEW d \in Described,
             RegisteredResourceTitle(d) \/ RegisteredResourceMimetype(d)
      PROVE  InBounds'
  BY <1>9 DEF RegisteredResourceTitle, RegisteredResourceMimetype, Describe, files, spies
<1>10. ASSUME NEW d \in GtkDoc, RegisteredResourceMimetypeOfSpy(d) PROVE InBounds'
  BY <1>10 DEF RegisteredResourceMimetypeOfSpy, Describe, files, spies
<1>11. CASE Statements
  <2>1. \E what : Execute(what)
    BY <1>11 DEF Statements, DoBegin, DoCommit, DoInsertRow, DoUpdate, Detect, DoRecord
  <2>2. QED BY <2>1 DEF Execute, files, spies
<1>12. CASE Restart
  BY <1>12 DEF Restart, RestartSpies
<1>13. CASE UNCHANGED vars
  BY <1>13 DEF vars, spyVars, files, spies
<1>14. QED BY <1>1, <1>2, <1>3, <1>4, <1>5, <1>6, <1>7, <1>8, <1>9, <1>10, <1>11, <1>12, <1>13
           DEF Next, SpyNext

(* Each variable of the spies and the statistics keeps its type, and the     *)
(* main thread has statements to execute only while it is at a batch or a    *)
(* description.                                                              *)
THEOREM SpiesTypeCorrect == Spec => []TypeOK
<1>1. SpiesOK /\ InfoOK /\ InBounds => TypeOK
  <2> SUFFICES ASSUME SpiesOK, InfoOK, InBounds PROVE TypeOK
    OBVIOUS
  <2>1. seen \in [Doc -> 0..MaxUses]
    BY TimeAssumption DEF SpiesOK, SpyTypes, SeenOK, InBounds
  <2>2. {half, again, transaction, detected} \subseteq BOOLEAN
    BY DEF SpiesOK, Switches, InfoOK, InfoTypes
  <2>3. dirty \in [Spy -> BOOLEAN] /\ late \in [Doc -> BOOLEAN]
    BY DEF SpiesOK, Switches
  <2>4. saved.info \in Table
    BY DEF InfoOK, InfoTypes
  <2>5. QED BY <2>1, <2>2, <2>3, <2>4
            DEF TypeOK, InfoOK, InfoTypes, InBounds, Table, Writes
<1>2. QED BY <1>1, SpiesInit, SpiesStep, InfoInit, InfoStep, BoundsInit, BoundsStep, PTL DEF Spec
====
