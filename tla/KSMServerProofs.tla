-------------------------- MODULE KSMServerProofs ---------------------------
(* Proofs about KSMServer for any activities, threads, requests and bounds.  *)
EXTENDS KSMServer, SequenceTheorems, FunctionTheorems, FiniteSetTheorems, TLAPS

(* One name for the disjuncts of Next that the proofs split on.              *)
LEMMA NextCases ==
    ASSUME NEW P,
           [Next]_vars,
           \A f \in Frame, r \in Request : AskKWin(f, r) => P,
           \A f \in Frame, r \in Request : AskWithoutKWin(f, r) => P,
           \A f \in Frame : Scan(f) => P,
           \A f \in Frame : AppendRequest(f) => P,
           \A f \in Frame : LoseAppend(f) => P,
           \A f \in Frame : TestProcessing(f) => P,
           \A f \in Frame : RaiseProcessing(f) => P,
           \A f \in Frame : PostProcess(f) => P,
           \A f \in Frame : TestActivity(f) => P,
           \A f \in Frame : Emit(f) => P,
           \A f \in Frame : ClearActivity(f) => P,
           TakeFirst => P,
           FindEmpty => P,
           AssignActivity => P,
           MakeRunning => P,
           CallKWin => P,
           ProcessAgain => P,
           LowerProcessing => P,
           \A c \in Call : CallFinished(c) => P,
           KWinComesOrGoes => P,
           UNCHANGED vars => P
    PROVE  P
BY AskedAssumption DEF Next, Caller, Sender, Process, Processing

LEMMA FrameFacts ==
    /\ Main \in Frame /\ Inner \in Frame /\ Main # Inner
    /\ IsFiniteSet(Frame)
    /\ Cardinality(Frame) \in Nat
    /\ Cardinality(Thread) \in Nat
    /\ Cardinality(Frame) = Cardinality(Thread) + 1
BY ThreadAssumption, FS_AddElement, FS_CardinalityType DEF Frame

-----------------------------------------------------------------------------
(* Types.  A frame that is about to use a request or to send an outcome has  *)
(* one, and Main tells an outcome while Inner runs.                          *)

ReqReady == \A f \in Frame :
    pc[f] \in {"scan", "append", "assign", "make", "call"} => req[f] \in Request

EventReady == \A f \in Frame :
    sending[f] \in {"test", "emit"} => event[f] \in Event

MainWaits == /\ ~Free(Inner) => sending[Main] = "clear"
             /\ sending[Main] # "no" => pc[Main] \in {"idle", "again"}

Types == TypeOK /\ ReqReady /\ EventReady /\ MainWaits

LEMMA InitTypes == Init => Types
<1> SUFFICES ASSUME Init PROVE Types
  OBVIOUS
<1> USE FrameFacts DEF Init
<1>1. queue \in Seq(Request)
  OBVIOUS
<1>2. calls \in [Call -> Nat]
  OBVIOUS
<1>3. /\ pc \in [Frame -> Places]
      /\ req \in [Frame -> Request \cup {NoRequest}]
  BY DEF Places
<1>4. /\ sending \in [Frame -> {"no", "test", "emit", "told", "clear"}]
      /\ event \in [Frame -> Event \cup {"None"}]
  OBVIOUS
<1>5. TypeOK
  BY <1>1, <1>2, <1>3, <1>4 DEF TypeOK
<1>6. ReqReady /\ EventReady
  BY DEF ReqReady, EventReady
<1>7. MainWaits
  BY DEF MainWaits, Free, At
<1>8. QED BY <1>5, <1>6, <1>7 DEF Types

LEMMA NextTypes == Types /\ [Next]_vars => Types'
<1> SUFFICES ASSUME Types, [Next]_vars PROVE Types'
  OBVIOUS
<1> USE FrameFacts DEF Types, TypeOK, ReqReady, EventReady, MainWaits, flags,
      callers, senders, Free, At, Quiet, Hold, Places
<1>1. ASSUME NEW f \in Frame, NEW r \in Request, AskKWin(f, r) PROVE Types'
  BY <1>1 DEF AskKWin, MayAsk, Entered
<1>2. ASSUME NEW f \in Frame, NEW r \in Request, AskWithoutKWin(f, r) PROVE Types'
  BY <1>2 DEF AskWithoutKWin, MayAsk, Entered, Event
<1>3. ASSUME NEW f \in Frame, Scan(f) PROVE Types'
  BY <1>3 DEF Scan, Goto
<1>4. ASSUME NEW f \in Frame, AppendRequest(f) PROVE Types'
  <2>1. req[f] \in Request
    BY <1>4 DEF AppendRequest, Goto
  <2>2. queue' \in Seq(Request)
    BY <1>4, <2>1 DEF AppendRequest
  <2>3. QED BY <1>4, <2>2 DEF AppendRequest, Goto
<1>5. ASSUME NEW f \in Frame, LoseAppend(f) PROVE Types'
  BY <1>5 DEF LoseAppend, Goto
<1>6. ASSUME NEW f \in Frame, TestProcessing(f) PROVE Types'
  BY <1>6 DEF TestProcessing, Goto
<1>7. ASSUME NEW f \in Frame, RaiseProcessing(f) PROVE Types'
  BY <1>7 DEF RaiseProcessing, Goto
<1>8. ASSUME NEW f \in Frame, PostProcess(f) PROVE Types'
  BY <1>8 DEF PostProcess, Goto
<1>9. ASSUME NEW f \in Frame, TestActivity(f) PROVE Types'
  BY <1>9 DEF TestActivity
<1>10. ASSUME NEW f \in Frame, Emit(f) PROVE Types'
  <2>1. reported' \in [act : Activity, event : Event] \cup {Nothing}
    BY <1>10 DEF Emit
  <2>2. QED BY <1>10, <2>1 DEF Emit
<1>11. ASSUME NEW f \in Frame, ClearActivity(f) PROVE Types'
  BY <1>11 DEF ClearActivity
<1>12. ASSUME TakeFirst PROVE Types'
  <2>1. Head(queue) \in Request /\ Tail(queue) \in Seq(Request)
    BY <1>12, HeadTailProperties DEF TakeFirst
  <2>2. QED BY <1>12, <2>1 DEF TakeFirst, Goto
<1>13. ASSUME FindEmpty PROVE Types'
  BY <1>13 DEF FindEmpty, Goto
<1>14. ASSUME AssignActivity PROVE Types'
  <2>1. req[Main].act \in Activity
    BY <1>14 DEF AssignActivity, Goto, Request
  <2>2. QED BY <1>14, <2>1 DEF AssignActivity, Goto
<1>15. ASSUME MakeRunning PROVE Types'
  BY <1>15 DEF MakeRunning, Goto, Send, Event
<1>16. ASSUME CallKWin PROVE Types'
  <2> DEFINE c == [act |-> processingActivity, start |-> req[Main].start]
  <2>1. c \in Call
    BY <1>16 DEF CallKWin, Goto, Call, Request
  <2>2. /\ calls \in [Call -> Nat]
        /\ calls' = [calls EXCEPT ![c] = @ + 1]
    BY <1>16 DEF CallKWin
  <2> HIDE DEF c
  <2>3. calls' \in [Call -> Nat]
    BY <2>1, <2>2
  <2>4. QED BY <1>16, <2>3 DEF CallKWin, Goto
<1>17. ASSUME ProcessAgain PROVE Types'
  BY <1>17 DEF ProcessAgain, Goto
<1>18. ASSUME LowerProcessing PROVE Types'
  BY <1>18 DEF LowerProcessing, Goto
<1>19. ASSUME NEW c \in Call, CallFinished(c) PROVE Types'
  <2>1. Outcomes(c) \subseteq Event
    BY DEF Outcomes, Event
  <2>2. /\ calls \in [Call -> Nat]
        /\ calls[c] - 1 \in Nat
        /\ calls' = [calls EXCEPT ![c] = calls[c] - 1]
    BY <1>19 DEF CallFinished
  <2>3. calls' \in [Call -> Nat]
    BY <2>2
  <2>4. QED BY <1>19, <2>1, <2>3 DEF CallFinished, Send
<1>20. ASSUME KWinComesOrGoes PROVE Types'
  BY <1>20 DEF KWinComesOrGoes
<1>21. ASSUME UNCHANGED vars PROVE Types'
  BY <1>21 DEF vars
<1>22. QED
  BY <1>1, <1>2, <1>3, <1>4, <1>5, <1>6, <1>7, <1>8, <1>9, <1>10, <1>11,
     <1>12, <1>13, <1>14, <1>15, <1>16, <1>17, <1>18, <1>19, <1>20, <1>21, NextCases

LEMMA TypesHold == Spec => []Types
BY InitTypes, NextTypes, PTL DEF Spec

(* Every variable keeps to its type in every behaviour (KSMServer_p.h).      *)
THEOREM TypeCorrect == Spec => []TypeOK
BY TypesHold, PTL DEF Types

-----------------------------------------------------------------------------
(* The flag and the events it stands for.                                    *)

LEMMA InitFlag == Init => FlagHasProcessor
BY DEF Init, FlagHasProcessor

LEMMA NextFlag == Types /\ FlagHasProcessor /\ [Next]_vars => FlagHasProcessor'
<1> SUFFICES ASSUME Types, FlagHasProcessor, [Next]_vars PROVE FlagHasProcessor'
  OBVIOUS
<1> USE FrameFacts DEF FlagHasProcessor, InProcess, Types, TypeOK, MainWaits, flags,
      callers, senders, Free, At
<1>1. ASSUME NEW f \in Frame, NEW r \in Request, AskKWin(f, r) PROVE FlagHasProcessor'
  BY <1>1 DEF AskKWin, MayAsk
<1>2. ASSUME NEW f \in Frame, NEW r \in Request, AskWithoutKWin(f, r) PROVE FlagHasProcessor'
  BY <1>2 DEF AskWithoutKWin
<1>3. ASSUME NEW f \in Frame, Scan(f) PROVE FlagHasProcessor'
  BY <1>3 DEF Scan, Goto
<1>4. ASSUME NEW f \in Frame, AppendRequest(f) PROVE FlagHasProcessor'
  BY <1>4 DEF AppendRequest, Goto
<1>5. ASSUME NEW f \in Frame, LoseAppend(f) PROVE FlagHasProcessor'
  BY <1>5 DEF LoseAppend, Goto
<1>6. ASSUME NEW f \in Frame, TestProcessing(f) PROVE FlagHasProcessor'
  BY <1>6 DEF TestProcessing, Goto
<1>7. ASSUME NEW f \in Frame, RaiseProcessing(f) PROVE FlagHasProcessor'
  BY <1>7 DEF RaiseProcessing, Goto
<1>8. ASSUME NEW f \in Frame, PostProcess(f) PROVE FlagHasProcessor'
  BY <1>8 DEF PostProcess, Goto
<1>9. ASSUME NEW f \in Frame, TestActivity(f) PROVE FlagHasProcessor'
  BY <1>9 DEF TestActivity
<1>10. ASSUME NEW f \in Frame, Emit(f) PROVE FlagHasProcessor'
  BY <1>10 DEF Emit
<1>11. ASSUME NEW f \in Frame, ClearActivity(f) PROVE FlagHasProcessor'
  BY <1>11 DEF ClearActivity
<1>12. ASSUME TakeFirst PROVE FlagHasProcessor'
  BY <1>12 DEF TakeFirst, Goto
<1>13. ASSUME FindEmpty PROVE FlagHasProcessor'
  BY <1>13 DEF FindEmpty, Goto
<1>14. ASSUME AssignActivity PROVE FlagHasProcessor'
  BY <1>14 DEF AssignActivity, Goto
<1>15. ASSUME MakeRunning PROVE FlagHasProcessor'
  BY <1>15 DEF MakeRunning, Goto
<1>16. ASSUME CallKWin PROVE FlagHasProcessor'
  BY <1>16 DEF CallKWin, Goto
<1>17. ASSUME ProcessAgain PROVE FlagHasProcessor'
  BY <1>17 DEF ProcessAgain, Goto
<1>18. ASSUME LowerProcessing PROVE FlagHasProcessor'
  BY <1>18 DEF LowerProcessing, Goto
<1>19. ASSUME NEW c \in Call, CallFinished(c) PROVE FlagHasProcessor'
  BY <1>19 DEF CallFinished
<1>20. ASSUME KWinComesOrGoes PROVE FlagHasProcessor'
  BY <1>20 DEF KWinComesOrGoes
<1>21. ASSUME UNCHANGED vars PROVE FlagHasProcessor'
  BY <1>21 DEF vars
<1>22. QED
  BY <1>1, <1>2, <1>3, <1>4, <1>5, <1>6, <1>7, <1>8, <1>9, <1>10, <1>11,
     <1>12, <1>13, <1>14, <1>15, <1>16, <1>17, <1>18, <1>19, <1>20, <1>21, NextCases

(* However many threads set, test and lower the flag at once, it is never up *)
(* with nobody left to lower it (KSMServer.cpp:79-82, 93-104).               *)
THEOREM FlagIsNeverStuck == Spec => []FlagHasProcessor
BY InitFlag, NextFlag, TypesHold, PTL DEF Spec

-----------------------------------------------------------------------------
(* The activity an outcome will be told about.                               *)

LEMMA InitReported == Init => ReportedCallOutstanding
BY DEF Init, ReportedCallOutstanding

LEMMA NextReported ==
    Types /\ ReportedCallOutstanding /\ [Next]_vars => ReportedCallOutstanding'
<1> SUFFICES ASSUME Types, ReportedCallOutstanding, [Next]_vars
             PROVE  ReportedCallOutstanding'
  OBVIOUS
<1> USE FrameFacts DEF ReportedCallOutstanding, Types, TypeOK, ReqReady, MainWaits,
      flags, callers, senders, Free, At
<1>1. ASSUME NEW f \in Frame, NEW r \in Request, AskKWin(f, r) PROVE ReportedCallOutstanding'
  BY <1>1 DEF AskKWin, MayAsk, Entered
<1>2. ASSUME NEW f \in Frame, NEW r \in Request, AskWithoutKWin(f, r) PROVE ReportedCallOutstanding'
  BY <1>2 DEF AskWithoutKWin, MayAsk, Entered
<1>3. ASSUME NEW f \in Frame, Scan(f) PROVE ReportedCallOutstanding'
  BY <1>3 DEF Scan, Goto
<1>4. ASSUME NEW f \in Frame, AppendRequest(f) PROVE ReportedCallOutstanding'
  BY <1>4 DEF AppendRequest, Goto
<1>5. ASSUME NEW f \in Frame, LoseAppend(f) PROVE ReportedCallOutstanding'
  BY <1>5 DEF LoseAppend, Goto
<1>6. ASSUME NEW f \in Frame, TestProcessing(f) PROVE ReportedCallOutstanding'
  BY <1>6 DEF TestProcessing, Goto
<1>7. ASSUME NEW f \in Frame, RaiseProcessing(f) PROVE ReportedCallOutstanding'
  BY <1>7 DEF RaiseProcessing, Goto
<1>8. ASSUME NEW f \in Frame, PostProcess(f) PROVE ReportedCallOutstanding'
  BY <1>8 DEF PostProcess, Goto
<1>9. ASSUME NEW f \in Frame, TestActivity(f) PROVE ReportedCallOutstanding'
  BY <1>9 DEF TestActivity
<1>10. ASSUME NEW f \in Frame, Emit(f) PROVE ReportedCallOutstanding'
  BY <1>10 DEF Emit
<1>11. ASSUME NEW f \in Frame, ClearActivity(f) PROVE ReportedCallOutstanding'
  BY <1>11 DEF ClearActivity
<1>12. ASSUME TakeFirst PROVE ReportedCallOutstanding'
  BY <1>12 DEF TakeFirst, Goto
<1>13. ASSUME FindEmpty PROVE ReportedCallOutstanding'
  BY <1>13 DEF FindEmpty, Goto
<1>14. ASSUME AssignActivity PROVE ReportedCallOutstanding'
  BY <1>14 DEF AssignActivity, Goto
<1>15. ASSUME MakeRunning PROVE ReportedCallOutstanding'
  BY <1>15 DEF MakeRunning, Goto, Send
<1>16. ASSUME CallKWin PROVE ReportedCallOutstanding'
  <2> DEFINE c == [act |-> processingActivity, start |-> req[Main].start]
  <2>1. c \in Call /\ calls[c] \in Nat
    BY <1>16 DEF CallKWin, Goto, Call, Request
  <2>2. calls'[c] > 0
    BY <1>16, <2>1 DEF CallKWin
  <2>3. c.act = processingActivity'
    BY <1>16 DEF CallKWin
  <2>4. QED BY <2>1, <2>2, <2>3
<1>17. ASSUME ProcessAgain PROVE ReportedCallOutstanding'
  BY <1>17 DEF ProcessAgain, Goto
<1>18. ASSUME LowerProcessing PROVE ReportedCallOutstanding'
  BY <1>18 DEF LowerProcessing, Goto
<1>19. ASSUME NEW c \in Call, CallFinished(c) PROVE ReportedCallOutstanding'
  BY <1>19 DEF CallFinished, Send
<1>20. ASSUME KWinComesOrGoes PROVE ReportedCallOutstanding'
  BY <1>20 DEF KWinComesOrGoes
<1>21. ASSUME UNCHANGED vars PROVE ReportedCallOutstanding'
  BY <1>21 DEF vars
<1>22. QED
  BY <1>1, <1>2, <1>3, <1>4, <1>5, <1>6, <1>7, <1>8, <1>9, <1>10, <1>11,
     <1>12, <1>13, <1>14, <1>15, <1>16, <1>17, <1>18, <1>19, <1>20, <1>21, NextCases

(* Whoever clears it in between, an outcome is only ever told about an       *)
(* activity whose call is out or is about to be made, or whose outcome the   *)
(* main thread is telling (KSMServer.cpp:99, 117, 182-191).                  *)
THEOREM ReportsAreOutstanding == Spec => []ReportedCallOutstanding
BY InitReported, NextReported, TypesHold, PTL DEF Spec
-----------------------------------------------------------------------------
(* How many requests about an activity wait.                                 *)

LEMMA WaitingIsFinite ==
    ASSUME NEW q \in Seq(Request), NEW a
    PROVE  /\ IsFiniteSet(Waiting(q, a))
           /\ Cardinality(Waiting(q, a)) \in Nat
<1>1. DOMAIN q = 1..Len(q) /\ Len(q) \in Nat
  BY LenProperties
<1>2. IsFiniteSet(1..Len(q))
  BY <1>1, FS_Interval
<1>3. Waiting(q, a) \in SUBSET (1..Len(q))
  BY <1>1 DEF Waiting
<1>4. IsFiniteSet(Waiting(q, a))
  BY <1>2, <1>3, FS_Subset
<1>5. QED BY <1>4, FS_CardinalityType

LEMMA WaitingAfterAppend ==
    ASSUME NEW q \in Seq(Request), NEW r \in Request, NEW a
    PROVE  Cardinality(Waiting(Append(q, r), a))
             = Cardinality(Waiting(q, a)) + (IF r.act = a THEN 1 ELSE 0)
<1> DEFINE new == Append(q, r)
           n == Len(q) + 1
<1>1. /\ new \in Seq(Request)
      /\ Len(new) = n
      /\ \A i \in 1..Len(q) : new[i] = q[i]
      /\ new[n] = r
  BY AppendProperties
<1>2. DOMAIN q = 1..Len(q) /\ Len(q) \in Nat /\ DOMAIN new = 1..n
  BY <1>1, LenProperties
<1>3. n \notin Waiting(q, a)
  BY <1>2 DEF Waiting
<1>4. CASE r.act = a
  <2>1. Waiting(new, a) = Waiting(q, a) \cup {n}
    BY <1>1, <1>2, <1>4 DEF Waiting
  <2>2. QED BY <1>3, <1>4, <2>1, WaitingIsFinite, FS_AddElement, ZenonT(60)
<1>5. CASE r.act # a
  <2>1. Waiting(new, a) = Waiting(q, a)
    BY <1>1, <1>2, <1>5 DEF Waiting
  <2>2. QED BY <1>5, <2>1, WaitingIsFinite
<1>6. QED BY <1>4, <1>5

LEMMA WaitingAfterTail ==
    ASSUME NEW q \in Seq(Request), q # <<>>, NEW a
    PROVE  Cardinality(Waiting(Tail(q), a))
             = Cardinality(Waiting(q, a)) - (IF Head(q).act = a THEN 1 ELSE 0)
<1> DEFINE rest == Tail(q)
           W == Waiting(rest, a)
           V == Waiting(q, a) \ {1}
           f == [i \in W |-> i + 1]
<1>1. /\ rest \in Seq(Request)
      /\ Len(rest) = Len(q) - 1
      /\ \A i \in 1..Len(rest) : rest[i] = q[i + 1]
  BY HeadTailProperties
<1>2. DOMAIN q = 1..Len(q) /\ Len(q) \in Nat /\ DOMAIN rest = 1..Len(rest)
  BY <1>1, LenProperties
<1>3. \A i \in W : i \in Nat /\ f[i] \in V
  BY <1>1, <1>2 DEF Waiting
<1>4. \A j \in V : j - 1 \in W /\ f[j - 1] = j
  BY <1>1, <1>2 DEF Waiting
<1>5. \A i, k \in W : f[i] = f[k] => i = k
  BY <1>3
<1>6. f \in Bijection(W, V)
  BY <1>3, <1>4, <1>5, Fun_IsBij
<1>7. Cardinality(V) = Cardinality(W)
  <2>1. IsFiniteSet(W)
    BY <1>1, WaitingIsFinite
  <2>2. ExistsBijection(W, V)
    BY <1>6 DEF ExistsBijection
  <2> HIDE DEF V, W
  <2>3. QED BY <2>1, <2>2, FS_Bijection
<1>8. 1 \in Waiting(q, a) <=> Head(q).act = a
  <2>1. Len(q) >= 1 /\ q[1] = Head(q)
    BY <1>1, <1>2, LenProperties
  <2>2. QED BY <1>2, <2>1 DEF Waiting
<1>9. Cardinality(V) = Cardinality(Waiting(q, a))
                         - (IF 1 \in Waiting(q, a) THEN 1 ELSE 0)
  <2>1. IsFiniteSet(Waiting(q, a)) /\ Cardinality(Waiting(q, a)) \in Nat
    BY WaitingIsFinite
  <2>2. Cardinality(V) = IF 1 \in Waiting(q, a) THEN Cardinality(Waiting(q, a)) - 1
                                               ELSE Cardinality(Waiting(q, a))
    BY <2>1, FS_RemoveElement
  <2>3. QED BY <2>1, <2>2
<1>10. QED BY <1>7, <1>8, <1>9

-----------------------------------------------------------------------------
(* KSMServer implements Sessions.                                            *)

LEMMA TellersAreFinite ==
    /\ IsFiniteSet(Tellers)
    /\ Cardinality(Tellers) \in Nat
    /\ Cardinality(Tellers) <= Cardinality(Frame)
BY FrameFacts, FS_Subset, FS_CardinalityType DEF Tellers

LEMMA TellersAreFiniteNext ==
    /\ IsFiniteSet(Tellers')
    /\ Cardinality(Tellers') \in Nat
    /\ Cardinality(Tellers') <= Cardinality(Frame)
BY FrameFacts, FS_Subset, FS_CardinalityType DEF Tellers

(* What k requests that wait are owed.                                       *)
Due(k) == Cardinality(Frame) * k

LEMMA DueFacts ==
    /\ \A k \in Nat : Due(k) \in Nat
    /\ Due(0) = 0
    /\ \A k \in Nat : Due(k + 1) = Due(k) + Cardinality(Frame)
<1>1. PICK n \in Nat : n = Cardinality(Frame)
  BY FrameFacts
<1>2. \A k \in Nat : n * k \in Nat /\ n * (k + 1) = n * k + n
  OBVIOUS
<1>3. n * 0 = 0
  OBVIOUS
<1>4. QED BY <1>1, <1>2, <1>3 DEF Due

(* The three parts of what is owed: by those that wait, by the one in hand   *)
(* and by the one that is processed.                                         *)
LEMMA OwedParts ==
    ASSUME TypeOK, NEW a \in Activity
    PROVE  \E n, w, m, h, p \in Nat :
             /\ n = Cardinality(Frame)
             /\ w = Cardinality(Waiting(queue, a))
             /\ h = IF pc[Main] = "assign" /\ req[Main].act = a THEN n ELSE 0
             /\ p = IF processingActivity = a THEN Cardinality(Tellers) ELSE 0
             /\ m = Due(w)
             /\ Owed[a] = m + h + p
<1>1. PICK n \in Nat, w \in Nat, k \in Nat :
        /\ n = Cardinality(Frame)
        /\ w = Cardinality(Waiting(queue, a))
        /\ k = Cardinality(Tellers)
  BY FrameFacts, TellersAreFinite, WaitingIsFinite DEF TypeOK
<1>2. PICK h \in Nat : h = IF pc[Main] = "assign" /\ req[Main].act = a THEN n ELSE 0
  OBVIOUS
<1>3. PICK p \in Nat : p = IF processingActivity = a THEN Cardinality(Tellers) ELSE 0
  BY <1>1
<1>4. PICK m \in Nat : m = Due(w)
  BY <1>1, DueFacts
<1>5. Owed[a] = m + h + p
  BY <1>1, <1>2, <1>3, <1>4 DEF Owed, Due
<1>6. QED BY <1>1, <1>2, <1>3, <1>4, <1>5

LEMMA OwedPartsNext ==
    ASSUME TypeOK', NEW a \in Activity
    PROVE  \E n, w, m, h, p \in Nat :
             /\ n = Cardinality(Frame)
             /\ w = Cardinality(Waiting(queue', a))
             /\ h = IF pc'[Main] = "assign" /\ req'[Main].act = a THEN n ELSE 0
             /\ p = IF processingActivity' = a THEN Cardinality(Tellers') ELSE 0
             /\ m = Due(w)
             /\ Owed'[a] = m + h + p
<1>1. PICK n \in Nat, w \in Nat, k \in Nat :
        /\ n = Cardinality(Frame)
        /\ w = Cardinality(Waiting(queue', a))
        /\ k = Cardinality(Tellers')
  BY FrameFacts, TellersAreFiniteNext, WaitingIsFinite DEF TypeOK
<1>2. PICK h \in Nat : h = IF pc'[Main] = "assign" /\ req'[Main].act = a THEN n ELSE 0
  OBVIOUS
<1>3. PICK p \in Nat : p = IF processingActivity' = a THEN Cardinality(Tellers') ELSE 0
  BY <1>1
<1>4. PICK m \in Nat : m = Due(w)
  BY <1>1, DueFacts
<1>5. Owed'[a] = m + h + p
  BY <1>1, <1>2, <1>3, <1>4 DEF Owed, Due
<1>6. QED BY <1>1, <1>2, <1>3, <1>4, <1>5

LEMMA OwedType == TypeOK => Owed \in [Activity -> Nat]
<1> SUFFICES ASSUME TypeOK PROVE Owed \in [Activity -> Nat]
  OBVIOUS
<1>1. \A a \in Activity : Owed[a] \in Nat
  BY OwedParts
<1>2. QED BY <1>1 DEF Owed

LEMMA OwedTypeNext == TypeOK' => Owed' \in [Activity -> Nat]
<1> SUFFICES ASSUME TypeOK' PROVE Owed' \in [Activity -> Nat]
  OBVIOUS
<1>1. \A a \in Activity : Owed'[a] \in Nat
  BY OwedPartsNext
<1>2. QED BY <1>1 DEF Owed

(* A step that adds no request and tells nothing is one that may forget.     *)
LEMMA ForgettingStep ==
    ASSUME TypeOK', Contract!NoMoreOwed, reported' = Nothing
    PROVE  Contract!Next
BY OwedTypeNext DEF Contract!Next, Contract!Forget, Contract!Nothing, Nothing

(* Nothing is added to what is owed while the list and the request in hand   *)
(* stay as they are and no frame becomes a teller of the same activity.      *)
NoNewInHand == pc'[Main] = "assign" => /\ pc[Main] = "assign"
                                       /\ req'[Main] = req[Main]

NoNewTellers == \/ processingActivity' = NoActivity
                \/ /\ UNCHANGED processingActivity
                   /\ Tellers' \subseteq Tellers

LEMMA SameOwed ==
    ASSUME TypeOK, TypeOK', UNCHANGED queue, NoNewInHand, NoNewTellers
    PROVE  Contract!NoMoreOwed
<1> SUFFICES ASSUME NEW a \in Activity PROVE Owed'[a] <= Owed[a]
  BY DEF Contract!NoMoreOwed
<1>1. Cardinality(Tellers') <= Cardinality(Tellers) \/ processingActivity' = NoActivity
  BY TellersAreFinite, FS_Subset DEF NoNewTellers
<1>2. PICK n, w, m, h, p \in Nat :
        /\ n = Cardinality(Frame)
        /\ w = Cardinality(Waiting(queue, a))
        /\ h = IF pc[Main] = "assign" /\ req[Main].act = a THEN n ELSE 0
        /\ p = IF processingActivity = a THEN Cardinality(Tellers) ELSE 0
        /\ m = Due(w)
        /\ Owed[a] = m + h + p
  BY OwedParts
<1>3. PICK n2, w2, m2, h2, p2 \in Nat :
        /\ n2 = Cardinality(Frame)
        /\ w2 = Cardinality(Waiting(queue', a))
        /\ h2 = IF pc'[Main] = "assign" /\ req'[Main].act = a THEN n2 ELSE 0
        /\ p2 = IF processingActivity' = a THEN Cardinality(Tellers') ELSE 0
        /\ m2 = Due(w2)
        /\ Owed'[a] = m2 + h2 + p2
  BY OwedPartsNext
<1>4. m2 = m
  BY <1>2, <1>3
<1>5. h2 <= h
  BY <1>2, <1>3 DEF NoNewInHand
<1>6. p2 <= p
  BY <1>1, <1>2, <1>3, NoActivityAssumption DEF NoNewTellers
<1>7. QED BY <1>2, <1>3, <1>4, <1>5, <1>6

LEMMA QuietStep ==
    ASSUME TypeOK, TypeOK', Quiet, UNCHANGED queue, NoNewInHand, NoNewTellers
    PROVE  Contract!Next
BY SameOwed, ForgettingStep DEF Quiet

(* A request joins the list: that is when Sessions takes it to be asked.     *)
LEMMA AppendStep ==
    ASSUME Types, TypeOK', NEW f \in Frame, AppendRequest(f)
    PROVE  Contract!Next
<1> DEFINE r == req[f]
<1>1. /\ r \in Request
      /\ queue \in Seq(Request)
      /\ queue' = Append(queue, r)
      /\ UNCHANGED <<processingActivity, sending>>
      /\ reported' = Nothing
  BY DEF Types, TypeOK, ReqReady, AppendRequest, Goto, At, Quiet, senders
<1>2. r.act \in Activity
  BY <1>1 DEF Request
<1>3. /\ pc[Main] = "assign" <=> pc'[Main] = "assign"
      /\ pc[Main] = "assign" => req'[Main] = req[Main]
  BY FrameFacts DEF AppendRequest, Goto, At, Hold, Types, TypeOK
<1>4. Tellers' = Tellers
  BY <1>1 DEF Tellers
<1>5. \A a \in Activity :
        Owed'[a] = Owed[a] + (IF r.act = a THEN Cardinality(Frame) ELSE 0)
  <2> SUFFICES ASSUME NEW a \in Activity
               PROVE  Owed'[a] = Owed[a] + (IF r.act = a THEN Cardinality(Frame) ELSE 0)
    OBVIOUS
  <2>1. PICK n, w, m, h, p \in Nat :
          /\ n = Cardinality(Frame)
          /\ w = Cardinality(Waiting(queue, a))
          /\ h = IF pc[Main] = "assign" /\ req[Main].act = a THEN n ELSE 0
          /\ p = IF processingActivity = a THEN Cardinality(Tellers) ELSE 0
          /\ m = Due(w)
          /\ Owed[a] = m + h + p
    BY OwedParts DEF Types
  <2>2. PICK n2, w2, m2, h2, p2 \in Nat :
          /\ n2 = Cardinality(Frame)
          /\ w2 = Cardinality(Waiting(queue', a))
          /\ h2 = IF pc'[Main] = "assign" /\ req'[Main].act = a THEN n2 ELSE 0
          /\ p2 = IF processingActivity' = a THEN Cardinality(Tellers') ELSE 0
          /\ m2 = Due(w2)
          /\ Owed'[a] = m2 + h2 + p2
    BY OwedPartsNext
  <2>3. h2 = h /\ p2 = p /\ n2 = n
    BY <1>1, <1>3, <1>4, <2>1, <2>2
  <2>4. w2 = w + (IF r.act = a THEN 1 ELSE 0)
    BY <1>1, <2>1, <2>2, WaitingAfterAppend
  <2>5. CASE r.act = a
    <3>1. m2 = m + n
      BY <2>1, <2>2, <2>4, <2>5, DueFacts
    <3>2. QED BY <2>1, <2>2, <2>3, <2>5, <3>1
  <2>6. CASE r.act # a
    <3>1. m2 = m
      BY <2>1, <2>2, <2>4, <2>6
    <3>2. QED BY <2>1, <2>2, <2>3, <2>6, <3>1
  <2>7. QED BY <2>5, <2>6
<1>6. Owed' = [Owed EXCEPT ![r.act] = @ + Cardinality(Frame)]
  <2>1. \A a \in Activity : Owed[a] \in Nat
    BY OwedType DEF Types
  <2>2. Owed \in [Activity -> Nat] /\ Owed' \in [Activity -> Nat]
    BY OwedType, OwedTypeNext DEF Types
  <2>3. QED BY <1>2, <1>5, <2>1, <2>2, FrameFacts
<1>7. Contract!Ask(r.act)
  BY <1>1, <1>6 DEF Contract!Ask, Contract!Nothing, Nothing
<1>8. QED BY <1>2, <1>7 DEF Contract!Next

(* process() takes a request: what it was owed while it waited it is owed    *)
(* in hand.                                                                  *)
LEMMA TakeStep ==
    ASSUME TypeOK, TypeOK', TakeFirst
    PROVE  Contract!Next
<1> DEFINE b == Head(queue).act
<1>1. /\ queue \in Seq(Request)
      /\ queue # <<>>
      /\ queue' = Tail(queue)
      /\ pc[Main] = "idle"
      /\ pc'[Main] = "assign"
      /\ req'[Main] = Head(queue)
      /\ UNCHANGED <<processingActivity, sending>>
      /\ reported' = Nothing
  BY FrameFacts DEF TypeOK, TakeFirst, Goto, At, Hold, Quiet, senders
<1>2. Tellers' = Tellers
  BY <1>1 DEF Tellers
<1>3. \A a \in Activity : Owed'[a] <= Owed[a]
  <2> SUFFICES ASSUME NEW a \in Activity PROVE Owed'[a] <= Owed[a]
    OBVIOUS
  <2>1. PICK n, w, m, h, p \in Nat :
          /\ n = Cardinality(Frame)
          /\ w = Cardinality(Waiting(queue, a))
          /\ h = IF pc[Main] = "assign" /\ req[Main].act = a THEN n ELSE 0
          /\ p = IF processingActivity = a THEN Cardinality(Tellers) ELSE 0
          /\ m = Due(w)
          /\ Owed[a] = m + h + p
    BY OwedParts
  <2>2. PICK n2, w2, m2, h2, p2 \in Nat :
          /\ n2 = Cardinality(Frame)
          /\ w2 = Cardinality(Waiting(queue', a))
          /\ h2 = IF pc'[Main] = "assign" /\ req'[Main].act = a THEN n2 ELSE 0
          /\ p2 = IF processingActivity' = a THEN Cardinality(Tellers') ELSE 0
          /\ m2 = Due(w2)
          /\ Owed'[a] = m2 + h2 + p2
    BY OwedPartsNext
  <2>3. h = 0 /\ p2 = p /\ n2 = n
    BY <1>1, <1>2, <2>1, <2>2
  <2>4. w2 = w - (IF b = a THEN 1 ELSE 0)
    BY <1>1, <2>1, <2>2, WaitingAfterTail
  <2>5. CASE b = a
    <3>1. w = w2 + 1 /\ h2 = n
      BY <1>1, <2>1, <2>2, <2>3, <2>4, <2>5
    <3>2. m = m2 + n
      BY <2>1, <2>2, <3>1, DueFacts
    <3>3. QED BY <2>1, <2>2, <2>3, <3>1, <3>2
  <2>6. CASE b # a
    <3>1. m2 = m /\ h2 = 0
      BY <1>1, <2>1, <2>2, <2>3, <2>4, <2>6
    <3>2. QED BY <2>1, <2>2, <2>3, <3>1
  <2>7. QED BY <2>5, <2>6
<1>4. QED BY <1>1, <1>3, ForgettingStep DEF Contract!NoMoreOwed

(* The one in hand becomes the one that is processed.                        *)
LEMMA AssignStep ==
    ASSUME TypeOK, TypeOK', AssignActivity
    PROVE  Contract!Next
<1>1. /\ UNCHANGED <<queue, sending>>
      /\ pc[Main] = "assign"
      /\ pc'[Main] = "make"
      /\ processingActivity' = req[Main].act
      /\ reported' = Nothing
  BY FrameFacts DEF TypeOK, AssignActivity, Goto, At, Quiet, senders
<1>2. \A a \in Activity : Owed'[a] <= Owed[a]
  <2> SUFFICES ASSUME NEW a \in Activity PROVE Owed'[a] <= Owed[a]
    OBVIOUS
  <2>1. PICK n, w, m, h, p \in Nat :
          /\ n = Cardinality(Frame)
          /\ w = Cardinality(Waiting(queue, a))
          /\ h = IF pc[Main] = "assign" /\ req[Main].act = a THEN n ELSE 0
          /\ p = IF processingActivity = a THEN Cardinality(Tellers) ELSE 0
          /\ m = Due(w)
          /\ Owed[a] = m + h + p
    BY OwedParts
  <2>2. PICK n2, w2, m2, h2, p2 \in Nat :
          /\ n2 = Cardinality(Frame)
          /\ w2 = Cardinality(Waiting(queue', a))
          /\ h2 = IF pc'[Main] = "assign" /\ req'[Main].act = a THEN n2 ELSE 0
          /\ p2 = IF processingActivity' = a THEN Cardinality(Tellers') ELSE 0
          /\ m2 = Due(w2)
          /\ Owed'[a] = m2 + h2 + p2
    BY OwedPartsNext
  <2>3. m2 = m /\ n2 = n /\ h2 = 0
    BY <1>1, <2>1, <2>2
  <2>4. p2 <= h
    BY <1>1, <2>1, <2>2, TellersAreFiniteNext
  <2>5. QED BY <2>1, <2>2, <2>3, <2>4
<1>3. QED BY <1>1, <1>2, ForgettingStep DEF Contract!NoMoreOwed

(* An outcome is told: its frame is a teller no more.                        *)
LEMMA EmitStep ==
    ASSUME Types, TypeOK', NEW f \in Frame, Emit(f)
    PROVE  Contract!Next
<1>0. TypeOK
  BY DEF Types
<1>1. /\ UNCHANGED <<queue, processingActivity, pc, req>>
      /\ sending[f] = "emit"
      /\ sending'[f] \in {"told", "clear"}
      /\ \A g \in Frame \ {f} : sending'[g] = sending[g]
  BY DEF Types, TypeOK, Emit, callers
<1>2. Tellers' = Tellers \ {f} /\ f \in Tellers
  BY <1>1 DEF Tellers
<1>3. NoNewInHand /\ NoNewTellers
  BY <1>1, <1>2 DEF NoNewInHand, NoNewTellers
<1>4. Contract!NoMoreOwed
  BY <1>0, <1>1, <1>3, SameOwed
<1>5. CASE processingActivity = NoActivity
  <2>1. reported' = Nothing
    BY <1>5 DEF Emit
  <2>2. QED BY <1>4, <2>1, ForgettingStep
<1>6. CASE processingActivity # NoActivity
  <2> DEFINE b == processingActivity
             e == event[f]
  <2>1. b \in Activity /\ e \in Event /\ reported' = [act |-> b, event |-> e]
    BY <1>1, <1>6 DEF Types, TypeOK, EventReady, Emit
  <2>2. Cardinality(Tellers') = Cardinality(Tellers) - 1
    BY <1>2, TellersAreFinite, FS_RemoveElement
  <2>3. Owed'[b] < Owed[b]
    <3>1. PICK n, w, m, h, p \in Nat :
            /\ n = Cardinality(Frame)
            /\ w = Cardinality(Waiting(queue, b))
            /\ h = IF pc[Main] = "assign" /\ req[Main].act = b THEN n ELSE 0
            /\ p = IF processingActivity = b THEN Cardinality(Tellers) ELSE 0
            /\ m = Due(w)
            /\ Owed[b] = m + h + p
      BY <1>0, <2>1, OwedParts
    <3>2. PICK n2, w2, m2, h2, p2 \in Nat :
            /\ n2 = Cardinality(Frame)
            /\ w2 = Cardinality(Waiting(queue', b))
            /\ h2 = IF pc'[Main] = "assign" /\ req'[Main].act = b THEN n2 ELSE 0
            /\ p2 = IF processingActivity' = b THEN Cardinality(Tellers') ELSE 0
            /\ m2 = Due(w2)
            /\ Owed'[b] = m2 + h2 + p2
      <4>1. PICK a \in Activity : a = b
        BY <2>1
      <4>2. QED BY <4>1, OwedPartsNext
    <3>3. m2 = m /\ h2 = h /\ p = Cardinality(Tellers) /\ p2 = Cardinality(Tellers')
      BY <1>1, <3>1, <3>2
    <3>4. QED BY <2>2, <3>1, <3>2, <3>3
  <2>4. Owed' \in [Activity -> Nat]
    BY OwedTypeNext
  <2>5. Contract!Tell(b, e)
    BY <1>4, <2>1, <2>3, <2>4 DEF Contract!Tell
  <2>6. e \in Contract!Event
    BY <2>1 DEF Contract!Event, Event
  <2>7. QED BY <2>1, <2>5, <2>6 DEF Contract!Next
<1>7. QED BY <1>5, <1>6

LEMMA InitImplements == Init => Contract!Init
<1> SUFFICES ASSUME Init PROVE Contract!Init
  OBVIOUS
<1>0. TypeOK
  BY InitTypes DEF Types
<1>1. \A a \in Activity : Cardinality(Waiting(queue, a)) = 0
  <2>1. \A a \in Activity : Waiting(queue, a) = {}
    BY DEF Init, Waiting
  <2>2. QED BY <2>1, FS_EmptySet
<1>2. \A a \in Activity : Owed[a] = 0
  <2> SUFFICES ASSUME NEW a \in Activity PROVE Owed[a] = 0
    OBVIOUS
  <2>1. PICK n, w, m, h, p \in Nat :
          /\ n = Cardinality(Frame)
          /\ w = Cardinality(Waiting(queue, a))
          /\ h = IF pc[Main] = "assign" /\ req[Main].act = a THEN n ELSE 0
          /\ p = IF processingActivity = a THEN Cardinality(Tellers) ELSE 0
          /\ m = Due(w)
          /\ Owed[a] = m + h + p
    BY <1>0, OwedParts
  <2>2. pc[Main] # "assign" /\ processingActivity # a
    BY FrameFacts, NoActivityAssumption DEF Init
  <2>3. w = 0 /\ h = 0 /\ p = 0
    BY <1>1, <2>1, <2>2
  <2>4. m = 0
    BY <2>1, <2>3, DueFacts
  <2>5. QED BY <2>1, <2>3, <2>4
<1>3. Owed = [a \in Activity |-> 0]
  BY <1>0, <1>2, OwedType
<1>4. QED BY <1>3 DEF Init, Contract!Init, Contract!Nothing, Nothing

LEMMA NextImplements == Types /\ Types' /\ [Next]_vars => [Contract!Next]_(Contract!vars)
<1> SUFFICES ASSUME Types, Types', [Next]_vars
             PROVE  Contract!Next \/ UNCHANGED <<Owed, reported>>
  BY DEF Contract!vars
<1>0. TypeOK /\ TypeOK'
  BY DEF Types
<1> DEFINE Implemented == Contract!Next \/ UNCHANGED <<Owed, reported>>
<1>a. ASSUME Quiet, UNCHANGED <<queue, processingActivity, sending>>, NoNewInHand
      PROVE  Implemented
  <2>1. NoNewTellers
    BY <1>a DEF NoNewTellers, Tellers
  <2>2. QED BY <1>0, <1>a, <2>1, QuietStep
<1>b. ASSUME Quiet, UNCHANGED <<queue, processingActivity, pc, req>>, Tellers' \subseteq Tellers
      PROVE  Implemented
  BY <1>0, <1>b, QuietStep DEF NoNewTellers, NoNewInHand
<1>1. ASSUME NEW f \in Frame, NEW r \in Request, AskKWin(f, r) PROVE Implemented
  <2>1. NoNewInHand
    BY <1>1, <1>0, FrameFacts DEF NoNewInHand, AskKWin, Hold, TypeOK
  <2>2. Tellers' \subseteq Tellers
    BY <1>1, <1>0, FrameFacts DEF Tellers, AskKWin, Entered, TypeOK
  <2>3. NoNewTellers
    BY <1>1, <2>2 DEF NoNewTellers, AskKWin
  <2>4. QED BY <1>1, <1>0, <2>1, <2>3, QuietStep DEF AskKWin
<1>2. ASSUME NEW f \in Frame, NEW r \in Request, AskWithoutKWin(f, r) PROVE Implemented
  <2>1. Tellers' \subseteq Tellers
    BY <1>2, <1>0, FrameFacts DEF Tellers, AskWithoutKWin, MayAsk, Entered, TypeOK,
       Types, MainWaits, Free, At
  <2>2. QED BY <1>2, <1>b, <2>1 DEF AskWithoutKWin, callers
<1>3. ASSUME NEW f \in Frame, Scan(f) PROVE Implemented
  <2>1. NoNewInHand
    BY <1>3, <1>0, FrameFacts DEF NoNewInHand, Scan, Goto, At, Hold, TypeOK
  <2>2. QED BY <1>3, <1>a, <2>1 DEF Scan, senders, flags
<1>4. ASSUME NEW f \in Frame, AppendRequest(f) PROVE Implemented
  BY <1>4, <1>0, AppendStep
<1>5. ASSUME NEW f \in Frame, LoseAppend(f) PROVE Implemented
  <2>1. NoNewInHand
    BY <1>5, <1>0, FrameFacts DEF NoNewInHand, LoseAppend, Goto, At, Hold, TypeOK
  <2>2. QED BY <1>5, <1>a, <2>1 DEF LoseAppend, senders, flags
<1>6. ASSUME NEW f \in Frame, TestProcessing(f) PROVE Implemented
  <2>1. NoNewInHand
    BY <1>6, <1>0, FrameFacts DEF NoNewInHand, TestProcessing, Goto, At, Hold, TypeOK
  <2>2. QED BY <1>6, <1>a, <2>1 DEF TestProcessing, senders, flags
<1>7. ASSUME NEW f \in Frame, RaiseProcessing(f) PROVE Implemented
  <2>1. NoNewInHand
    BY <1>7, <1>0, FrameFacts DEF NoNewInHand, RaiseProcessing, Goto, At, Hold, TypeOK
  <2>2. QED BY <1>7, <1>a, <2>1 DEF RaiseProcessing, senders, flags
<1>8. ASSUME NEW f \in Frame, PostProcess(f) PROVE Implemented
  <2>1. NoNewInHand
    BY <1>8, <1>0, FrameFacts DEF NoNewInHand, PostProcess, Goto, At, Hold, TypeOK
  <2>2. QED BY <1>8, <1>a, <2>1 DEF PostProcess, senders, flags
<1>9. ASSUME NEW f \in Frame, TestActivity(f) PROVE Implemented
  <2>1. Tellers' \subseteq Tellers
    BY <1>9, <1>0 DEF Tellers, TestActivity, TypeOK
  <2>2. QED BY <1>9, <1>b, <2>1 DEF TestActivity, callers
<1>10. ASSUME NEW f \in Frame, Emit(f) PROVE Implemented
  BY <1>10, <1>0, EmitStep
<1>11. ASSUME NEW f \in Frame, ClearActivity(f) PROVE Implemented
  <2>1. NoNewInHand /\ NoNewTellers
    BY <1>11 DEF NoNewInHand, NoNewTellers, ClearActivity, callers
  <2>2. QED BY <1>11, <1>0, <2>1, QuietStep DEF ClearActivity
<1>12. ASSUME TakeFirst PROVE Implemented
  BY <1>12, <1>0, TakeStep
<1>13. ASSUME FindEmpty PROVE Implemented
  <2>1. NoNewInHand
    BY <1>13, <1>0, FrameFacts DEF NoNewInHand, FindEmpty, Goto, At, Hold, TypeOK
  <2>2. QED BY <1>13, <1>a, <2>1 DEF FindEmpty, senders, flags
<1>14. ASSUME AssignActivity PROVE Implemented
  BY <1>14, <1>0, AssignStep
<1>15. ASSUME MakeRunning PROVE Implemented
  <2>1. NoNewInHand
    BY <1>15, <1>0, FrameFacts DEF NoNewInHand, MakeRunning, Goto, At, TypeOK
  <2>2. Tellers' \subseteq Tellers
    BY <1>15, <1>0, FrameFacts DEF Tellers, MakeRunning, Goto, At, Send, TypeOK, senders
  <2>3. NoNewTellers
    BY <1>15, <2>2 DEF NoNewTellers, MakeRunning
  <2>4. QED BY <1>15, <1>0, <2>1, <2>3, QuietStep DEF MakeRunning
<1>16. ASSUME CallKWin PROVE Implemented
  <2>1. NoNewInHand
    BY <1>16, <1>0, FrameFacts DEF NoNewInHand, CallKWin, Goto, At, Hold, TypeOK
  <2>2. QED BY <1>16, <1>a, <2>1 DEF CallKWin, senders, flags
<1>17. ASSUME ProcessAgain PROVE Implemented
  <2>1. NoNewInHand
    BY <1>17, <1>0, FrameFacts DEF NoNewInHand, ProcessAgain, Goto, At, Hold, TypeOK
  <2>2. QED BY <1>17, <1>a, <2>1 DEF ProcessAgain, senders, flags
<1>18. ASSUME LowerProcessing PROVE Implemented
  <2>1. NoNewInHand
    BY <1>18, <1>0, FrameFacts DEF NoNewInHand, LowerProcessing, Goto, At, Hold, TypeOK
  <2>2. QED BY <1>18, <1>a, <2>1 DEF LowerProcessing, senders, flags
<1>19. ASSUME NEW c \in Call, CallFinished(c) PROVE Implemented
  <2>1. Tellers' \subseteq Tellers
    BY <1>19, <1>0, FrameFacts DEF Tellers, CallFinished, Free, At, Send, TypeOK
  <2>2. QED BY <1>19, <1>b, <2>1 DEF CallFinished, callers
<1>20. ASSUME KWinComesOrGoes PROVE Implemented
  <2>1. Tellers' = Tellers
    BY <1>20 DEF Tellers, KWinComesOrGoes, senders
  <2>2. QED BY <1>20, <1>b, <2>1 DEF KWinComesOrGoes, callers
<1>21. ASSUME UNCHANGED vars PROVE Implemented
  BY <1>21 DEF vars, Owed, Tellers, callers, senders
<1> HIDE DEF Implemented
<1>22. Implemented
  BY <1>1, <1>2, <1>3, <1>4, <1>5, <1>6, <1>7, <1>8, <1>9, <1>10, <1>11,
     <1>12, <1>13, <1>14, <1>15, <1>16, <1>17, <1>18, <1>19, <1>20, <1>21, NextCases
<1>23. QED BY <1>22 DEF Implemented

(* Whatever KSMServer does with the requests, and whichever threads test,    *)
(* tell and clear at once, what Activities sees of it is a behaviour of      *)
(* Sessions: every outcome it reports was owed to that activity, and a       *)
(* request is answered once by each thread at most, and once more by a call  *)
(* from within an answer (KSMServer.cpp:68-191).                             *)
THEOREM KSMServerImplementsSessions == Spec => ImplementsSessions
BY TypesHold, InitImplements, NextImplements, PTL
   DEF Spec, ImplementsSessions, Contract!Spec

-----------------------------------------------------------------------------
(* The list is bounded though nothing limits it: a frame that has searched   *)
(* it and not yet appended counts as a request that already waits.           *)

Appending(a) == {f \in Frame : pc[f] = "append" /\ req[f].act = a}

Room == \A a \in Activity :
          Cardinality(Waiting(queue, a)) + Cardinality(Appending(a))
            <= Cardinality(Thread)

(* Main and the call from within one of its outcomes are never both at it.   *)
LEMMA AppendingIsFinite ==
    ASSUME Types, NEW a
    PROVE  /\ IsFiniteSet(Appending(a))
           /\ Cardinality(Appending(a)) \in Nat
           /\ Cardinality(Appending(a)) <= Cardinality(Thread)
<1>1. IsFiniteSet(Frame \ {Main}) /\ Cardinality(Frame \ {Main}) = Cardinality(Thread)
  BY FrameFacts, FS_RemoveElement
<1>2. IsFiniteSet(Thread)
  BY ThreadAssumption
<1>3. CASE pc[Inner] = "append"
  <2>1. Appending(a) \subseteq Frame \ {Main}
    BY <1>3 DEF Appending, Types, MainWaits, Free, At
  <2>2. QED BY <1>1, <2>1, FS_Subset, FS_CardinalityType
<1>4. CASE pc[Inner] # "append"
  <2>1. Appending(a) \subseteq Thread
    BY <1>4 DEF Appending, Frame
  <2>2. QED BY <1>2, <2>1, FS_Subset, FS_CardinalityType
<1>5. QED BY <1>3, <1>4

LEMMA AppendingIsFiniteNext ==
    ASSUME Types', NEW a
    PROVE  /\ IsFiniteSet(Appending(a)')
           /\ Cardinality(Appending(a)') \in Nat
           /\ Cardinality(Appending(a)') <= Cardinality(Thread)
<1>1. IsFiniteSet(Frame \ {Main}) /\ Cardinality(Frame \ {Main}) = Cardinality(Thread)
  BY FrameFacts, FS_RemoveElement
<1>2. IsFiniteSet(Thread)
  BY ThreadAssumption
<1>3. CASE pc'[Inner] = "append"
  <2>1. Appending(a)' \subseteq Frame \ {Main}
    BY <1>3 DEF Appending, Types, MainWaits, Free, At
  <2>2. QED BY <1>1, <2>1, FS_Subset, FS_CardinalityType
<1>4. CASE pc'[Inner] # "append"
  <2>1. Appending(a)' \subseteq Thread
    BY <1>4 DEF Appending, Frame
  <2>2. QED BY <1>2, <2>1, FS_Subset, FS_CardinalityType
<1>5. QED BY <1>3, <1>4

LEMMA FewerAppending ==
    ASSUME Types, NEW a, Appending(a)' \subseteq Appending(a)
    PROVE  Cardinality(Appending(a)') <= Cardinality(Appending(a))
BY AppendingIsFinite, FS_Subset

LEMMA KeepsRoom ==
    ASSUME Types, Types', Room,
           \A a \in Activity :
              /\ Cardinality(Waiting(queue', a)) <= Cardinality(Waiting(queue, a))
              /\ Appending(a)' \subseteq Appending(a)
    PROVE  Room'
<1> SUFFICES ASSUME NEW a \in Activity
             PROVE  Cardinality(Waiting(queue', a)) + Cardinality(Appending(a)')
                      <= Cardinality(Thread)
  BY DEF Room
<1>1. /\ Cardinality(Waiting(queue, a)) \in Nat
      /\ Cardinality(Waiting(queue', a)) \in Nat
  BY WaitingIsFinite DEF Types, TypeOK
<1>2. /\ Cardinality(Appending(a)) \in Nat
      /\ Cardinality(Appending(a)') \in Nat
      /\ Cardinality(Thread) \in Nat
  BY AppendingIsFinite, AppendingIsFiniteNext, FrameFacts
<1>3. Cardinality(Appending(a)') <= Cardinality(Appending(a))
  BY FewerAppending
<1>4. Cardinality(Waiting(queue, a)) + Cardinality(Appending(a))
        <= Cardinality(Thread)
  BY DEF Room
<1>5. QED BY <1>1, <1>2, <1>3, <1>4

LEMMA InitRoom == Init => Room
<1> SUFFICES ASSUME Init, NEW a \in Activity
             PROVE  Cardinality(Waiting(queue, a)) + Cardinality(Appending(a))
                      <= Cardinality(Thread)
  BY DEF Room
<1>1. Waiting(queue, a) = {} /\ Appending(a) = {}
  BY DEF Init, Waiting, Appending
<1>2. Cardinality({}) = 0
  BY FS_EmptySet
<1>3. QED BY <1>1, <1>2, FrameFacts

LEMMA ScanRoom ==
    ASSUME Types, Types', Room, NEW f \in Frame, Scan(f)
    PROVE  Room'
<1> SUFFICES ASSUME NEW a \in Activity
             PROVE  Cardinality(Waiting(queue', a)) + Cardinality(Appending(a)')
                      <= Cardinality(Thread)
  BY DEF Room
<1>1. queue' = queue
  BY DEF Scan
<1>2. \A g \in Frame \ {f} : pc'[g] = pc[g] /\ req'[g] = req[g]
  BY DEF Scan, Goto, Hold, Types, TypeOK
<1>3. CASE pc'[f] = "append" /\ req'[f].act = a
  <2>1. req'[f] = req[f] /\ ~Queued(req[f].act)
    BY <1>3 DEF Scan, Goto, Types, TypeOK
  <2>2. Waiting(queue', a) = {}
    BY <1>1, <1>3, <2>1 DEF Queued
  <2>3. Cardinality({}) = 0
    BY FS_EmptySet
  <2>4. QED BY <2>2, <2>3, AppendingIsFiniteNext, FrameFacts
<1>4. CASE ~(pc'[f] = "append" /\ req'[f].act = a)
  <2>1. Appending(a)' \subseteq Appending(a)
    BY <1>2, <1>4 DEF Appending
  <2>2. Cardinality(Appending(a)') <= Cardinality(Appending(a))
    BY <2>1, FewerAppending
  <2>3. Cardinality(Waiting(queue, a)) \in Nat
    BY WaitingIsFinite DEF Types, TypeOK
  <2>4. QED BY <1>1, <2>2, <2>3, AppendingIsFinite, AppendingIsFiniteNext, FrameFacts
        DEF Room
<1>5. QED BY <1>3, <1>4

LEMMA AppendRoom ==
    ASSUME Types, Types', Room, NEW f \in Frame, AppendRequest(f)
    PROVE  Room'
<1> SUFFICES ASSUME NEW a \in Activity
             PROVE  Cardinality(Waiting(queue', a)) + Cardinality(Appending(a)')
                      <= Cardinality(Thread)
  BY DEF Room
<1>1. /\ queue \in Seq(Request)
      /\ req[f] \in Request
      /\ queue' = Append(queue, req[f])
  BY DEF Types, TypeOK, ReqReady, AppendRequest, Goto, At
<1>2. Cardinality(Waiting(queue', a))
        = Cardinality(Waiting(queue, a)) + (IF req[f].act = a THEN 1 ELSE 0)
  BY <1>1, WaitingAfterAppend
<1>3. /\ Cardinality(Waiting(queue, a)) \in Nat
      /\ Cardinality(Appending(a)) \in Nat
      /\ Cardinality(Thread) \in Nat
  BY <1>1, WaitingIsFinite, AppendingIsFinite, FrameFacts
<1>4. Appending(a)' = Appending(a) \ {f}
  BY DEF AppendRequest, Goto, At, Hold, Appending, Types, TypeOK
<1>5. f \in Appending(a) <=> req[f].act = a
  BY DEF AppendRequest, Goto, At, Appending
<1>6. Cardinality(Appending(a)')
        = IF f \in Appending(a) THEN Cardinality(Appending(a)) - 1
                                ELSE Cardinality(Appending(a))
  BY <1>4, AppendingIsFinite, FS_RemoveElement
<1>7. Cardinality(Waiting(queue, a)) + Cardinality(Appending(a))
        <= Cardinality(Thread)
  BY DEF Room
<1>8. QED BY <1>2, <1>3, <1>5, <1>6, <1>7

LEMMA TakeRoom ==
    ASSUME Types, Types', Room, TakeFirst
    PROVE  Room'
<1>1. /\ queue \in Seq(Request)
      /\ queue # <<>>
      /\ queue' = Tail(queue)
  BY DEF TakeFirst, Types, TypeOK
<1>2. \A a \in Activity :
        /\ Cardinality(Waiting(queue, a)) \in Nat
        /\ Cardinality(Waiting(queue', a))
             = Cardinality(Waiting(queue, a)) - (IF Head(queue).act = a THEN 1 ELSE 0)
  BY <1>1, WaitingIsFinite, WaitingAfterTail
<1>3. \A a \in Activity :
        Cardinality(Waiting(queue', a)) <= Cardinality(Waiting(queue, a))
  BY <1>2
<1>4. \A a \in Activity : Appending(a)' \subseteq Appending(a)
  BY DEF Appending, TakeFirst, Goto, Hold, Types, TypeOK
<1>5. QED BY <1>3, <1>4, KeepsRoom

LEMMA NextRoom == Types /\ Types' /\ Room /\ [Next]_vars => Room'
<1> SUFFICES ASSUME Types, Types', Room, [Next]_vars PROVE Room'
  OBVIOUS
<1>a. ASSUME UNCHANGED queue, \A a \in Activity : Appending(a)' \subseteq Appending(a)
      PROVE  Room'
  <2>1. \A a \in Activity : Cardinality(Waiting(queue, a)) \in Nat
    BY WaitingIsFinite DEF Types, TypeOK
  <2>2. \A a \in Activity :
          Cardinality(Waiting(queue', a)) <= Cardinality(Waiting(queue, a))
    BY <1>a, <2>1
  <2>3. QED BY <1>a, <2>2, KeepsRoom
<1>b. ASSUME UNCHANGED <<queue, pc, req>> PROVE Room'
  BY <1>a, <1>b DEF Appending
<1>1. ASSUME NEW f \in Frame, NEW r \in Request, AskKWin(f, r) PROVE Room'
  <2>1. \A a \in Activity : Appending(a)' \subseteq Appending(a)
    BY <1>1, FrameFacts DEF Appending, AskKWin, Goto, At, Hold, Types, TypeOK
  <2>2. QED BY <1>1, <1>a, <2>1 DEF AskKWin
<1>2. ASSUME NEW f \in Frame, NEW r \in Request, AskWithoutKWin(f, r) PROVE Room'
  BY <1>2, <1>b DEF AskWithoutKWin, callers
<1>3. ASSUME NEW f \in Frame, Scan(f) PROVE Room'
  BY <1>3, ScanRoom
<1>4. ASSUME NEW f \in Frame, AppendRequest(f) PROVE Room'
  BY <1>4, AppendRoom
<1>5. ASSUME NEW f \in Frame, LoseAppend(f) PROVE Room'
  <2>1. \A a \in Activity : Appending(a)' \subseteq Appending(a)
    BY <1>5, FrameFacts DEF Appending, LoseAppend, Goto, At, Hold, Types, TypeOK
  <2>2. QED BY <1>5, <1>a, <2>1 DEF LoseAppend
<1>6. ASSUME NEW f \in Frame, TestProcessing(f) PROVE Room'
  <2>1. \A a \in Activity : Appending(a)' \subseteq Appending(a)
    BY <1>6, FrameFacts DEF Appending, TestProcessing, Goto, At, Hold, Types, TypeOK
  <2>2. QED BY <1>6, <1>a, <2>1 DEF TestProcessing
<1>7. ASSUME NEW f \in Frame, RaiseProcessing(f) PROVE Room'
  <2>1. \A a \in Activity : Appending(a)' \subseteq Appending(a)
    BY <1>7, FrameFacts DEF Appending, RaiseProcessing, Goto, At, Hold, Types, TypeOK
  <2>2. QED BY <1>7, <1>a, <2>1 DEF RaiseProcessing
<1>8. ASSUME NEW f \in Frame, PostProcess(f) PROVE Room'
  <2>1. \A a \in Activity : Appending(a)' \subseteq Appending(a)
    BY <1>8, FrameFacts DEF Appending, PostProcess, Goto, At, Hold, Types, TypeOK
  <2>2. QED BY <1>8, <1>a, <2>1 DEF PostProcess
<1>9. ASSUME NEW f \in Frame, TestActivity(f) PROVE Room'
  BY <1>9, <1>b DEF TestActivity, callers
<1>10. ASSUME NEW f \in Frame, Emit(f) PROVE Room'
  BY <1>10, <1>b DEF Emit, callers
<1>11. ASSUME NEW f \in Frame, ClearActivity(f) PROVE Room'
  BY <1>11, <1>b DEF ClearActivity, callers
<1>12. ASSUME TakeFirst PROVE Room'
  BY <1>12, TakeRoom
<1>13. ASSUME FindEmpty PROVE Room'
  <2>1. \A a \in Activity : Appending(a)' \subseteq Appending(a)
    BY <1>13, FrameFacts DEF Appending, FindEmpty, Goto, At, Hold, Types, TypeOK
  <2>2. QED BY <1>13, <1>a, <2>1 DEF FindEmpty
<1>14. ASSUME AssignActivity PROVE Room'
  <2>1. \A a \in Activity : Appending(a)' \subseteq Appending(a)
    BY <1>14, FrameFacts DEF Appending, AssignActivity, Goto, At, Hold, Types, TypeOK
  <2>2. QED BY <1>14, <1>a, <2>1 DEF AssignActivity
<1>15. ASSUME MakeRunning PROVE Room'
  <2>1. \A a \in Activity : Appending(a)' \subseteq Appending(a)
    BY <1>15, FrameFacts DEF Appending, MakeRunning, Goto, At, Hold, Types, TypeOK
  <2>2. QED BY <1>15, <1>a, <2>1 DEF MakeRunning
<1>16. ASSUME CallKWin PROVE Room'
  <2>1. \A a \in Activity : Appending(a)' \subseteq Appending(a)
    BY <1>16, FrameFacts DEF Appending, CallKWin, Goto, At, Hold, Types, TypeOK
  <2>2. QED BY <1>16, <1>a, <2>1 DEF CallKWin
<1>17. ASSUME ProcessAgain PROVE Room'
  <2>1. \A a \in Activity : Appending(a)' \subseteq Appending(a)
    BY <1>17, FrameFacts DEF Appending, ProcessAgain, Goto, At, Hold, Types, TypeOK
  <2>2. QED BY <1>17, <1>a, <2>1 DEF ProcessAgain
<1>18. ASSUME LowerProcessing PROVE Room'
  <2>1. \A a \in Activity : Appending(a)' \subseteq Appending(a)
    BY <1>18, FrameFacts DEF Appending, LowerProcessing, Goto, At, Hold, Types, TypeOK
  <2>2. QED BY <1>18, <1>a, <2>1 DEF LowerProcessing
<1>19. ASSUME NEW c \in Call, CallFinished(c) PROVE Room'
  BY <1>19, <1>b DEF CallFinished, callers
<1>20. ASSUME KWinComesOrGoes PROVE Room'
  BY <1>20, <1>b DEF KWinComesOrGoes, callers
<1>21. ASSUME UNCHANGED vars PROVE Room'
  BY <1>21, <1>b DEF vars, callers
<1>22. QED
  BY <1>1, <1>2, <1>3, <1>4, <1>5, <1>6, <1>7, <1>8, <1>9, <1>10, <1>11,
     <1>12, <1>13, <1>14, <1>15, <1>16, <1>17, <1>18, <1>19, <1>20, <1>21, NextCases

LEMMA RoomBounds == Types /\ Room => QueueBounded
<1> SUFFICES ASSUME Types, Room, NEW a \in Activity
             PROVE  Cardinality(Waiting(queue, a)) <= Cardinality(Thread)
  BY DEF QueueBounded
<1>1. /\ Cardinality(Waiting(queue, a)) \in Nat
      /\ Cardinality(Appending(a)) \in Nat
      /\ Cardinality(Thread) \in Nat
  BY WaitingIsFinite, AppendingIsFinite, FrameFacts DEF Types, TypeOK
<1>2. QED BY <1>1 DEF Room

(* At most as many requests about an activity wait as there are threads,     *)
(* with any interleaving of the unlocked search and append (:71-77).         *)
THEOREM QueueIsBounded == Spec => []QueueBounded
<1>1. Spec => []Room
  BY InitRoom, NextRoom, TypesHold, PTL DEF Spec
<1>2. QED BY <1>1, TypesHold, RoomBounds, PTL
=============================================================================
