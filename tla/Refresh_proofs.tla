--------------------------- MODULE Refresh_proofs ---------------------------
(***************************************************************************)
(* Proofs about the dashboard's page, for every batch of calls, every      *)
(* catalog and any number of tests and ticks.                              *)
(*                                                                         *)
(* The proof has the layers of the model.  QueueInv says where the batch   *)
(* is: the stack is its tail, everything before the front has been         *)
(* answered once, nothing behind it has been called.  PageInv adds that a  *)
(* test is awaited exactly until the page connects, and RefreshInv that    *)
(* the timers bound the age of every answer that may still be drawn.  A    *)
(* step of an outer layer is a step or a stutter of the inner ones.        *)
(***************************************************************************)
EXTENDS Refresh, SequenceTheorems, FiniteSetTheorems, TLAPS

-----------------------------------------------------------------------------
(* The queue. *)

\* The entries of the batch from h on.
From(h) == [k \in 1 .. Items + 1 - h |-> h + k - 1]

Idle ==
  /\ stack = <<>> /\ ~executing /\ ~ready /\ metadata = {} /\ completions = 0
  /\ timer = [i \in 1 .. Items |-> "none"] /\ answered = [i \in 1 .. Items |-> 0]

\* The batch stands at h: it waits for the call h, or it ended before it.
Reached(h) ==
  /\ stack = From(h)
  /\ \A i \in 1 .. h - 1 : timer[i] \in {"cleared", "fired"} /\ answered[i] = 1
  /\ \A i \in h .. Items :
       /\ answered[i] = 0
       /\ timer[i] = IF executing /\ i = h THEN "running" ELSE "none"
  /\ IF executing THEN h <= Items /\ completions = 0 ELSE completions = 1

QueueInv ==
  /\ TypeOK
  /\ ready => Needed \subseteq metadata
  /\ IF handler THEN \E h \in 1 .. Items + 1 : Reached(h) ELSE Idle

LEMMA FromIsSeq ==
  ASSUME NEW h \in 1 .. Items + 1
  PROVE  From(h) \in Seq(1 .. Items) /\ Len(From(h)) = Items + 1 - h
<1> USE QueueAssumption
<1>1. PICK n \in Nat : n = Items + 1 - h
  OBVIOUS
<1>2. From(h) \in [1 .. n -> 1 .. Items]
  BY <1>1 DEF From
<1>3. From(h) \in Seq(1 .. Items)
  BY <1>2, SeqDef
<1>4. Len(From(h)) \in Nat /\ DOMAIN From(h) = 1 .. Len(From(h))
  BY <1>3
<1> QED BY <1>1, <1>2, <1>3, <1>4

LEMMA FromFront ==
  ASSUME NEW h \in 1 .. Items
  PROVE  From(h) # <<>> /\ Head(From(h)) = h /\ Tail(From(h)) = From(h + 1)
<1> USE QueueAssumption
<1>1. From(h) \in Seq(1 .. Items) /\ Len(From(h)) = Items + 1 - h
  BY FromIsSeq
<1>2. From(h) # <<>> /\ Head(From(h)) = h
  BY <1>1 DEF From
<1>3. /\ Tail(From(h)) \in Seq(1 .. Items) /\ Len(Tail(From(h))) = Items - h
      /\ \A k \in 1 .. Items - h : Tail(From(h))[k] = From(h)[k + 1]
  BY <1>1, <1>2, HeadTailProperties
<1>4. From(h + 1) \in Seq(1 .. Items) /\ Len(From(h + 1)) = Items - h
  <2>1. h + 1 \in 1 .. Items + 1 /\ Items + 1 - (h + 1) = Items - h
    OBVIOUS
  <2> QED BY <2>1, FromIsSeq
<1>5. \A k \in 1 .. Items - h : From(h)[k + 1] = h + k /\ From(h + 1)[k] = h + k
  BY DEF From
<1>6. Len(Tail(From(h))) = Len(From(h + 1))
      /\ \A k \in 1 .. Len(Tail(From(h))) : Tail(From(h))[k] = From(h + 1)[k]
  BY <1>3, <1>4, <1>5
<1>7. Tail(From(h)) = From(h + 1)
  BY ONLY <1>3, <1>4, <1>6, SeqEqual
<1> QED BY <1>2, <1>7

LEMMA FromEnd ==
  ASSUME NEW h \in 1 .. Items + 1, From(h) # <<>>
  PROVE  h \in 1 .. Items
BY FromIsSeq, QueueAssumption

LEMMA QueueInitInv == Init => QueueInv
<1> SUFFICES ASSUME Init PROVE QueueInv
  OBVIOUS
<1>1. TypeOK
  <2>1. stack \in Seq(1 .. Items) /\ Len(stack) <= Items
    BY EmptySeq, QueueAssumption DEF Init
  <2>2. {continueOnFailure, executing, success, handler, ready} \subseteq BOOLEAN
    BY DEF Init
  <2> QED BY <2>1, <2>2 DEF Init, TypeOK
<1>2. ~handler /\ ~ready /\ Idle
  BY DEF Init, Idle
<1> QED BY <1>1, <1>2 DEF QueueInv

\* The batch comes to stand at h, everything before h answered and nothing from h on
\* called: the call h is made, or the batch completes.
LEMMA Advance ==
  ASSUME TypeOK, ready => Needed \subseteq metadata, completions = 0,
         NEW h \in 1 .. Items + 1, NEW loaded \in SUBSET (1 .. Items),
         metadata \subseteq loaded,
         NEW asked \in [1 .. Items -> {"none", "open", "over"}],
         NEW timers \in [1 .. Items -> {"none", "running", "cleared", "fired"}],
         \A i \in 1 .. h - 1 : timers[i] \in {"cleared", "fired"},
         \A i \in h .. Items : timers[i] = "none",
         stack' = From(h), success' \in BOOLEAN, metadata' = loaded,
         (h \in 1 .. Items /\ Call(h, asked, timers)) \/ Complete(loaded, asked, timers),
         handler', handler' \in BOOLEAN, continueOnFailure' \in BOOLEAN,
         answered' \in [1 .. Items -> 0 .. 1],
         \A i \in 1 .. h - 1 : answered'[i] = 1,
         \A i \in h .. Items : answered'[i] = 0
  PROVE  QueueInv'
<1> USE QueueAssumption
<1>1. stack' \in Seq(1 .. Items) /\ Len(stack') <= Items /\ ready \in BOOLEAN
  BY FromIsSeq DEF TypeOK
<1>2. CASE h \in 1 .. Items /\ Call(h, asked, timers)
  <2>1. /\ request' = [asked EXCEPT ![h] = "open"]
        /\ timer' = [timers EXCEPT ![h] = "running"]
        /\ executing' = TRUE /\ ready' = ready /\ completions' = 0
    BY <1>2 DEF Call
  <2>2. TypeOK'
    BY <1>1, <1>2, <2>1 DEF TypeOK
  <2>3. Reached(h)'
    BY <1>2, <2>1 DEF Reached
  <2> QED BY <2>1, <2>2, <2>3 DEF QueueInv
<1>3. CASE Complete(loaded, asked, timers)
  <2>1. /\ request' = asked /\ timer' = timers
        /\ executing' = FALSE /\ completions' = 1
        /\ ready' = (ready \/ Needed \subseteq loaded)
    BY <1>3 DEF Complete
  <2>2. {continueOnFailure', executing', success', handler', ready'} \subseteq BOOLEAN
    BY <1>1, <2>1
  <2>3. TypeOK'
    BY <1>1, <2>1, <2>2 DEF TypeOK
  <2>4. Reached(h)'
    BY <2>1 DEF Reached
  <2> QED BY <2>1, <2>3, <2>4 DEF QueueInv
<1> QED BY <1>2, <1>3

\* A connection starts with its first call, whatever there was before.
LEMMA LoadMakesQueueInv ==
  ASSUME LoadConnectionMetadata
  PROVE  QueueInv' /\ handler'
<1> USE QueueAssumption
<1>1. stack' = From(1) /\ 1 \in 1 .. Items + 1
  BY DEF LoadConnectionMetadata, From
<1>2. stack' \in Seq(1 .. Items) /\ Len(stack') <= Items
  <2>1. From(1) \in Seq(1 .. Items) /\ Len(From(1)) = Items
    BY <1>1, FromIsSeq
  <2> QED BY <1>1, <2>1
<1>3. /\ {continueOnFailure', executing', success', handler', ready'} \subseteq BOOLEAN
      /\ metadata' = {} /\ completions' = 0
  BY DEF LoadConnectionMetadata
<1>4. /\ request' \in [1 .. Items -> {"none", "open", "over"}]
      /\ timer' \in [1 .. Items -> {"none", "running", "cleared", "fired"}]
      /\ answered' \in [1 .. Items -> 0 .. 1]
  BY DEF LoadConnectionMetadata
<1>5. TypeOK'
  BY <1>2, <1>3, <1>4 DEF TypeOK
<1>6. Reached(1)'
  BY <1>1 DEF LoadConnectionMetadata, Reached
<1>7. handler' /\ ~ready'
  BY DEF LoadConnectionMetadata
<1> QED BY <1>1, <1>5, <1>6, <1>7 DEF QueueInv

\* A call that is answered is the one the queue waits for.
LEMMA RunningIsFront ==
  ASSUME QueueInv, NEW i \in 1 .. Items, timer[i] = "running"
  PROVE  executing /\ handler /\ Reached(i)
<1> USE QueueAssumption
<1>1. handler
  BY DEF QueueInv, Idle
<1>2. PICK h \in 1 .. Items + 1 : Reached(h)
  BY <1>1 DEF QueueInv
<1>3. executing /\ i = h
  BY <1>2 DEF Reached
<1> QED BY <1>1, <1>2, <1>3

LEMMA CallbackKeepsQueueInv ==
  ASSUME QueueInv, NEW i \in 1 .. Items, timer[i] = "running", NEW ok \in BOOLEAN,
         NEW asked \in [1 .. Items -> {"none", "open", "over"}],
         NEW spoken \in {"cleared", "fired"},
         UserCallback(i, ok, asked, [timer EXCEPT ![i] = spoken])
  PROVE  QueueInv'
<1> USE QueueAssumption
<1> DEFINE timers == [timer EXCEPT ![i] = spoken]
           loaded == IF ok THEN metadata \cup {i} ELSE metadata
<1>1. Reached(i) /\ executing /\ handler /\ TypeOK /\ (ready => Needed \subseteq metadata)
  BY RunningIsFront DEF QueueInv
<1>2. stack = From(i) /\ stack # <<>> /\ Tail(stack) = From(i + 1) /\ completions = 0
  BY <1>1, FromFront DEF Reached
<1>3. /\ timers \in [1 .. Items -> {"none", "running", "cleared", "fired"}]
      /\ \A j \in 1 .. i + 1 - 1 : timers[j] \in {"cleared", "fired"}
      /\ \A j \in i + 1 .. Items : timers[j] = "none"
  BY <1>1 DEF Reached, TypeOK
<1>4. /\ answered' \in [1 .. Items -> 0 .. 1]
      /\ \A j \in 1 .. i + 1 - 1 : answered'[j] = 1
      /\ \A j \in i + 1 .. Items : answered'[j] = 0
  BY <1>1 DEF Reached, TypeOK, UserCallback
<1>5. /\ loaded \in SUBSET (1 .. Items) /\ metadata \subseteq loaded
      /\ (success /\ ok) \in BOOLEAN /\ continueOnFailure \in BOOLEAN
      /\ stack \in Seq(1 .. Items) /\ i + 1 \in 1 .. Items + 1
  BY <1>1 DEF TypeOK
<1>6. handler' /\ handler' \in BOOLEAN /\ continueOnFailure' \in BOOLEAN
  BY <1>1, <1>5 DEF UserCallback
<1>7. EndExecute(stack, success /\ ok, continueOnFailure, loaded, asked, timers)
  BY DEF UserCallback
<1> HIDE DEF timers, loaded
<1>8. /\ stack' = From(i + 1) /\ success' \in BOOLEAN /\ metadata' = loaded
      /\ \/ i + 1 \in 1 .. Items /\ Call(i + 1, asked, timers)
         \/ Complete(loaded, asked, timers)
  <2>1. From(i + 1) # <<>> => i + 1 \in 1 .. Items /\ Head(From(i + 1)) = i + 1
    BY <1>5, FromEnd, FromFront
  <2>2. (success /\ ok) \in BOOLEAN
    OBVIOUS
  <2> QED BY <1>2, <1>7, <2>1, <2>2 DEF EndExecute
<1>9. PICK h \in 1 .. Items + 1 : h = i + 1
  BY <1>5
<1>10. /\ \A j \in 1 .. h - 1 : timers[j] \in {"cleared", "fired"}
       /\ \A j \in h .. Items : timers[j] = "none"
  BY <1>3, <1>9
<1>11. (\A j \in 1 .. h - 1 : answered'[j] = 1) /\ \A j \in h .. Items : answered'[j] = 0
  BY <1>4, <1>9
<1>12. /\ stack' = From(h) /\ success' \in BOOLEAN /\ metadata' = loaded
       /\ (h \in 1 .. Items /\ Call(h, asked, timers)) \/ Complete(loaded, asked, timers)
  BY <1>8, <1>9
<1>13. timers \in [1 .. Items -> {"none", "running", "cleared", "fired"}]
  BY <1>3
<1>14. loaded \in SUBSET (1 .. Items) /\ metadata \subseteq loaded
  BY <1>5
<1>15. /\ answered' \in [1 .. Items -> 0 .. 1] /\ completions = 0 /\ TypeOK
       /\ ready => Needed \subseteq metadata
  BY <1>1, <1>2, <1>4
<1> QED BY <1>6, <1>10, <1>11, <1>12, <1>13, <1>14, <1>15, Advance

LEMMA QueueStutter ==
  ASSUME QueueInv, UNCHANGED vars
  PROVE  QueueInv'
<1>1. /\ UNCHANGED <<stack, executing, handler, timer, metadata, ready, answered, completions>>
      /\ TypeOK'
  BY DEF vars, TypeOK, QueueInv
<1>2. Idle => Idle'
  BY <1>1 DEF Idle
<1>3. ASSUME NEW h \in 1 .. Items + 1, Reached(h) PROVE Reached(h)'
  BY <1>1, <1>3 DEF Reached
<1> QED BY <1>1, <1>2, <1>3 DEF QueueInv

LEMMA TurnKeepsQueueInv ==
  ASSUME QueueInv, Turn
  PROVE  QueueInv'
<1> USE QueueAssumption
<1>1. TypeOK
  BY DEF QueueInv
<1>2. ASSUME NEW i \in 1 .. Items, Timeout(i) PROVE QueueInv'
  <2>1. request \in [1 .. Items -> {"none", "open", "over"}]
    BY <1>1 DEF TypeOK
  <2> QED BY <1>2, <2>1, CallbackKeepsQueueInv DEF Timeout
<1>3. ASSUME NEW i \in 1 .. Items, NEW ok \in BOOLEAN, Answer(i, ok) PROVE QueueInv'
  <2>1. [request EXCEPT ![i] = "over"] \in [1 .. Items -> {"none", "open", "over"}]
    BY <1>1 DEF TypeOK
  <2>2. CASE /\ timer[i] = "running"
             /\ UserCallback(i, ok, [request EXCEPT ![i] = "over"],
                             [timer EXCEPT ![i] = "cleared"])
    BY <2>1, <2>2, CallbackKeepsQueueInv
  <2>3. CASE /\ request' = [request EXCEPT ![i] = "over"]
             /\ UNCHANGED <<stack, continueOnFailure, executing, success, handler, timer,
                            metadata, ready, answered, completions>>
    <3>1. TypeOK'
      BY <1>1, <2>1, <2>3 DEF TypeOK
    <3>2. Idle => Idle'
      BY <2>3 DEF Idle
    <3>3. ASSUME NEW h \in 1 .. Items + 1, Reached(h) PROVE Reached(h)'
      BY <2>3, <3>3 DEF Reached
    <3> QED BY <2>3, <3>1, <3>2, <3>3 DEF QueueInv
  <2> QED BY <1>3, <2>2, <2>3 DEF Answer
<1> QED BY <1>2, <1>3 DEF Turn

LEMMA QueueKeepsInv == QueueInv /\ [Next]_vars => QueueInv'
BY LoadMakesQueueInv, TurnKeepsQueueInv, QueueStutter DEF Next

LEMMA QueueInvImplies == QueueInv => TypeOK /\ AnsweredInOrder
<1> USE QueueAssumption
<1> SUFFICES ASSUME QueueInv PROVE AnsweredInOrder
  BY DEF QueueInv
<1> DEFINE running == {i \in 1 .. Items : timer[i] = "running"}
<1>1. CASE ~handler
  <2>1. Idle
    BY <1>1 DEF QueueInv
  <2>2. running = {} /\ ~executing /\ \A i \in 1 .. Items : answered[i] = 0
    BY <2>1 DEF Idle
  <2> QED BY <2>2 DEF AnsweredInOrder
<1>2. CASE handler
  <2>1. PICK h \in 1 .. Items + 1 : Reached(h)
    BY <1>2 DEF QueueInv
  <2>2. /\ \A i \in 1 .. Items : answered[i] = IF i < h THEN 1 ELSE 0
        /\ running = IF executing THEN {h} ELSE {}
    BY <2>1 DEF Reached
  <2>3. executing => h \in 1 .. Items /\ stack # <<>> /\ Head(stack) = h
    <3>1. executing => h \in 1 .. Items /\ stack = From(h)
      BY <2>1 DEF Reached
    <3> QED BY <3>1, FromFront
  <2>4. \A i \in 1 .. Items : answered[i] <= 1
    BY <2>2
  <2>5. \A i \in 1 .. Items : answered[i] > 0 => \A j \in 1 .. i - 1 : answered[j] > 0
    BY <2>2
  <2> HIDE DEF running
  <2>6. IF executing THEN \E i \in running : running = {i} /\ stack # <<>> /\ Head(stack) = i
                     ELSE running = {}
    BY <2>2, <2>3
  <2> QED BY <2>4, <2>5, <2>6 DEF AnsweredInOrder, running
<1> QED BY <1>1, <1>2

\* The queue alone, under whatever user: every call of a batch is answered at most
\* once and in order, whatever answers come late and whichever timers fire
\* (voltdb.js:130-138, 167-192).
THEOREM QueueAnswersInOrder == Spec => [](TypeOK /\ AnsweredInOrder)
<1>1. Spec => []QueueInv
  BY QueueInitInv, QueueKeepsInv, PTL DEF Spec
<1> QED BY <1>1, QueueInvImplies, PTL
-----------------------------------------------------------------------------
(* The page. *)

Tests == [request : {"open", "over"}, timer : {"running", "cleared", "fired"}]

\* A test is awaited, the last one, exactly until the page connects; the queue has
\* been started exactly since then.
PageInv ==
  /\ QueueInv
  /\ tests \in Seq(Tests) /\ Len(tests) > 0
  /\ connected \in 0 .. 1 /\ statsIntervals = connected
  /\ handler <=> connected = 1
  /\ \A k \in 1 .. Len(tests) :
       tests[k].timer = "running" <=> connected = 0 /\ k = Len(tests)
  /\ intervals = (IF connected = 0 THEN {} ELSE {chartIntervalId}) /\ chartIntervalId \in Nat

LEMMA PageInitInv == DashboardInit => PageInv
<1> SUFFICES ASSUME DashboardInit PROVE PageInv
  OBVIOUS
<1>1. QueueInv /\ handler = FALSE
  BY QueueInitInv DEF DashboardInit, Init
<1>2. NewTest \in Tests /\ NewTest.timer = "running"
  BY DEF NewTest, Tests
<1>3. tests \in Seq(Tests) /\ Len(tests) = 1 /\ tests[1].timer = "running"
  BY <1>2 DEF DashboardInit
<1>4. connected = 0 /\ statsIntervals = 0 /\ intervals = {} /\ chartIntervalId = 0
  BY DEF DashboardInit
<1> QED BY <1>1, <1>3, <1>4 DEF PageInv

\* The test that was awaited has its answer or its time-out.
LEMMA TestedKeepsPageInv ==
  ASSUME PageInv, connected = 0, NEW outcome \in Seq(Tests), Len(outcome) = Len(tests),
         \A k \in 1 .. Len(outcome) : outcome[k].timer # "running",
         NEW ok \in BOOLEAN, OnConnectionTested(ok, outcome)
  PROVE  PageInv'
<1>1. CASE ok /\ ConnectToDatabase /\ tests' = outcome
  <2>1. QueueInv'
    BY <1>1, LoadMakesQueueInv DEF ConnectToDatabase
  <2>2. connected' = 1 /\ statsIntervals' = 1 /\ handler' = TRUE
    BY <1>1 DEF PageInv, ConnectToDatabase, LoadConnectionMetadata
  <2>3. intervals' = {chartIntervalId'} /\ chartIntervalId' \in Nat
    BY <1>1 DEF ConnectToDatabase, SetChartRefreshInterval, PageInv
  <2>4. tests' \in Seq(Tests) /\ Len(tests') > 0
        /\ \A k \in 1 .. Len(tests') : tests'[k].timer # "running"
    BY <1>1 DEF PageInv
  <2> QED BY <2>1, <2>2, <2>3, <2>4 DEF PageInv
<1>2. CASE tests' = Append(outcome, NewTest) /\ Stay
  <2>1. UNCHANGED <<vars, connected, intervals, chartIntervalId, statsIntervals>>
    BY <1>2 DEF Stay
  <2>2. QueueInv' /\ handler' = handler
    BY <2>1, QueueStutter DEF PageInv, vars
  <2>4. NewTest \in Tests /\ NewTest.timer = "running"
    BY DEF NewTest, Tests
  <2>5. /\ tests' \in Seq(Tests) /\ Len(tests') = Len(outcome) + 1
        /\ \A k \in 1 .. Len(outcome) : tests'[k] = outcome[k]
        /\ tests'[Len(outcome) + 1] = NewTest
    BY <1>2, <2>4
  <2>6. \A k \in 1 .. Len(tests') :
          tests'[k].timer = "running" <=> k = Len(tests')
    BY <2>4, <2>5
  <2>7. Len(tests') > 0
    BY <2>5
  <2> QED BY <2>1, <2>2, <2>5, <2>6, <2>7 DEF PageInv
<1> QED BY <1>1, <1>2 DEF OnConnectionTested

\* A test with a running timer is the one that is awaited; its outcome is recorded.
LEMMA TestOutcome ==
  ASSUME PageInv, NEW k \in 1 .. Len(tests), NEW test \in Tests,
         test.timer # "running", tests[k].timer = "running" \/ tests[k].timer = test.timer
  PROVE  /\ [tests EXCEPT ![k] = test] \in Seq(Tests)
         /\ Len([tests EXCEPT ![k] = test]) = Len(tests)
         /\ tests[k].timer = "running" =>
              /\ connected = 0
              /\ \A j \in 1 .. Len(tests) : [tests EXCEPT ![k] = test][j].timer # "running"
         /\ tests[k].timer # "running" =>
              \A j \in 1 .. Len(tests) : [tests EXCEPT ![k] = test][j].timer = tests[j].timer
<1> DEFINE outcome == [tests EXCEPT ![k] = test]
<1>1. /\ outcome \in Seq(Tests) /\ Len(outcome) = Len(tests)
      /\ \A j \in 1 .. Len(tests) : outcome[j] = IF j = k THEN test ELSE tests[j]
  BY ExceptSeq DEF PageInv
<1>2. tests[k].timer = "running" => connected = 0 /\ k = Len(tests)
  BY DEF PageInv
<1> HIDE DEF outcome
<1>3. ASSUME tests[k].timer = "running"
      PROVE  \A j \in 1 .. Len(tests) : outcome[j].timer # "running"
  <2>1. \A j \in 1 .. Len(tests) : j # k => tests[j].timer # "running"
    BY <1>2, <1>3 DEF PageInv
  <2> QED BY <1>1, <2>1
<1>4. ASSUME tests[k].timer # "running"
      PROVE  \A j \in 1 .. Len(tests) : outcome[j].timer = tests[j].timer
  BY <1>1, <1>4
<1> QED BY <1>1, <1>2, <1>3, <1>4 DEF outcome

LEMMA TestTimeoutKeepsPageInv ==
  ASSUME PageInv, NEW k \in 1 .. Len(tests), TestTimeout(k)
  PROVE  PageInv'
<1>1. tests[k].timer = "running" /\ tests[k] \in Tests
  BY DEF TestTimeout, PageInv
<1> DEFINE test == [tests[k] EXCEPT !.timer = "fired"]
<1>2. test \in Tests /\ test.timer # "running"
  BY <1>1 DEF Tests
<1>3. OnConnectionTested(FALSE, [tests EXCEPT ![k] = test])
  BY DEF TestTimeout
<1> HIDE DEF test
<1> QED BY <1>1, <1>2, <1>3, TestOutcome, TestedKeepsPageInv, ZenonT(30)

LEMMA TestAnswerKeepsPageInv ==
  ASSUME PageInv, NEW k \in 1 .. Len(tests), NEW ok \in BOOLEAN, TestAnswer(k, ok)
  PROVE  PageInv'
<1>1. tests[k] \in Tests
  BY DEF PageInv
<1>2. CASE /\ tests[k].timer = "running"
           /\ OnConnectionTested(ok, [tests EXCEPT ![k] = [request |-> "over", timer |-> "cleared"]])
  <2> DEFINE test == [request |-> "over", timer |-> "cleared"]
  <2>1. test \in Tests /\ test.timer # "running"
    BY DEF Tests
  <2>2. OnConnectionTested(ok, [tests EXCEPT ![k] = test])
    BY <1>2
  <2> HIDE DEF test
  <2>3. connected = 0
    BY <1>2, <2>1, TestOutcome
  <2>4. /\ [tests EXCEPT ![k] = test] \in Seq(Tests)
        /\ Len([tests EXCEPT ![k] = test]) = Len(tests)
        /\ \A j \in 1 .. Len(tests) : [tests EXCEPT ![k] = test][j].timer # "running"
    BY <1>2, <2>1, TestOutcome
  <2> QED BY <2>2, <2>3, <2>4, TestedKeepsPageInv
<1>3. CASE /\ tests[k].timer = "fired"
           /\ tests' = [tests EXCEPT ![k].request = "over"] /\ Stay
  <2> DEFINE test == [tests[k] EXCEPT !.request = "over"]
  <2>1. test \in Tests /\ test.timer = tests[k].timer
    BY <1>1 DEF Tests
  <2>2. tests' = [tests EXCEPT ![k] = test]
    BY <1>3
  <2> HIDE DEF test
  <2>3. /\ tests' \in Seq(Tests) /\ Len(tests') = Len(tests)
        /\ \A j \in 1 .. Len(tests) : tests'[j].timer = tests[j].timer
    BY <1>3, <2>1, <2>2, TestOutcome
  <2>4. UNCHANGED <<vars, connected, intervals, chartIntervalId, statsIntervals>>
    BY <1>3 DEF Stay
  <2>5. QueueInv' /\ handler' = handler
    BY <2>4, QueueStutter DEF PageInv, vars
  <2> QED BY <2>3, <2>4, <2>5 DEF PageInv
<1> QED BY <1>2, <1>3 DEF TestAnswer

LEMMA PageStutter ==
  ASSUME PageInv, UNCHANGED page, QueueInv', handler' = handler
  PROVE  PageInv'
BY DEF PageInv, page

LEMMA TurnKeepsHandler ==
  ASSUME Turn
  PROVE  handler' = handler
BY DEF Turn, Timeout, Answer, UserCallback

LEMMA PageKeepsInv == PageInv /\ [DashboardNext]_<<vars, page>> => PageInv'
<1> SUFFICES ASSUME PageInv, [DashboardNext]_<<vars, page>> PROVE PageInv'
  OBVIOUS
<1>1. CASE QueueTurn
  BY <1>1, TurnKeepsQueueInv, TurnKeepsHandler, PageStutter DEF QueueTurn, PageInv
<1>2. CASE UNCHANGED <<vars, page>>
  BY <1>2, QueueStutter, PageStutter DEF PageInv, vars
<1> QED BY <1>1, <1>2, TestTimeoutKeepsPageInv, TestAnswerKeepsPageInv
        DEF DashboardNext

LEMMA PageInvImplies == PageInv => DashboardTypeOK /\ AnsweredInOrder /\ ConnectsOnce
<1> SUFFICES ASSUME PageInv PROVE DashboardTypeOK /\ AnsweredInOrder /\ ConnectsOnce
  OBVIOUS
<1>1. TypeOK /\ AnsweredInOrder
  BY QueueInvImplies DEF PageInv
<1>2. DashboardTypeOK
  <2>1. \A k \in 1 .. Len(tests) :
          tests[k] \in [request : {"open", "over"}, timer : {"running", "cleared", "fired"}]
    <3>1. \A k \in 1 .. Len(tests) : tests[k] \in Tests
      BY ElementOfSeq DEF PageInv
    <3> QED BY <3>1 DEF Tests
  <2>2. intervals \subseteq Nat /\ chartIntervalId \in Nat
    BY DEF PageInv
  <2> QED BY <1>1, <2>1, <2>2 DEF PageInv, DashboardTypeOK
<1>3. ConnectsOnce
  <2> DEFINE awaited == {k \in 1 .. Len(tests) : tests[k].timer = "running"}
  <2>1. Len(tests) \in Nat \ {0}
    BY DEF PageInv
  <2>2. awaited = IF connected = 0 THEN {Len(tests)} ELSE {}
    BY <2>1 DEF PageInv
  <2>3. Cardinality({Len(tests)}) = 1 /\ Cardinality({}) = 0
    BY FS_Singleton, FS_EmptySet
  <2> HIDE DEF awaited
  <2>4. Cardinality(awaited) = 1 - connected
    BY <2>2, <2>3 DEF PageInv
  <2> QED BY <2>4 DEF awaited, PageInv, ConnectsOnce
<1> QED BY <1>1, <1>2, <1>3

\* The page as a whole, without its tables: it connects once, however late its tests
\* are answered (voltdb-dashboard.js:30-54).
THEOREM PageConnectsOnce == DashboardSpec => []ConnectsOnce
<1>1. DashboardSpec => []PageInv
  BY PageInitInv, PageKeepsInv, PTL DEF DashboardSpec
<1> QED BY <1>1, PageInvImplies, PTL
-----------------------------------------------------------------------------
(* The tables and the chart. *)

Requests(ticks) == [call : 1 .. Len(Calls), round : 1 .. ticks, late : BOOLEAN]

ViewTypeOK ==
  /\ round \in 0 .. MaxRefreshes /\ requests \subseteq Requests(round)
  /\ shown \in [1 .. Len(Calls) -> 0 .. round] /\ newest \in [1 .. Len(Calls) -> 0 .. round]

\* An answer that may still be drawn is no older than the timers allow, and a call
\* was only made over a connection that is ready.
RefreshInv ==
  /\ PageInv /\ ViewTypeOK /\ OvertakenWithinTimeout
  /\ \A r \in requests : ~r.late => r.round + Patience > round
  /\ requests # {} => ready
  /\ \A c \in 1 .. Len(Calls) : shown[c] # 0 => ready

LEMMA CallsFinite == Len(Calls) \in Nat
BY RefreshAssumption

LEMMA ReadyStays ==
  ASSUME TypeOK, ready, Turn
  PROVE  ready'
<1>1. ASSUME NEW entries, NEW ok, NEW go, NEW loaded, NEW asked, NEW timers,
             EndExecute(entries, ok, go, loaded, asked, timers)
      PROVE  ready'
  BY <1>1 DEF EndExecute, Call, Complete
<1> QED BY <1>1 DEF Turn, Timeout, Answer, UserCallback

LEMMA RefreshInitInv == RefreshInit => RefreshInv
<1> SUFFICES ASSUME RefreshInit PROVE RefreshInv
  OBVIOUS
<1>1. PageInv
  BY PageInitInv DEF RefreshInit
<1>2. \A c \in 1 .. Len(Calls) : shown[c] = 0 /\ newest[c] = 0
  BY DEF RefreshInit
<1>3. ViewTypeOK
  BY RefreshAssumption DEF RefreshInit, ViewTypeOK
<1>4. OvertakenWithinTimeout
  BY <1>2, RefreshAssumption DEF OvertakenWithinTimeout
<1> QED BY <1>1, <1>2, <1>3, <1>4 DEF RefreshInit, RefreshInv

\* A step of the page leaves the view alone.
LEMMA ViewStutter ==
  ASSUME RefreshInv, UNCHANGED view, PageInv', ready => ready'
  PROVE  RefreshInv'
<1>1. UNCHANGED <<round, requests, shown, newest>>
  BY DEF view
<1>2. ViewTypeOK' /\ OvertakenWithinTimeout'
  BY <1>1 DEF RefreshInv, ViewTypeOK, OvertakenWithinTimeout
<1> QED BY <1>1, <1>2 DEF RefreshInv

LEMMA PageStepKeepsRefreshInv ==
  ASSUME RefreshInv, [DashboardNext]_<<vars, page>>, UNCHANGED view
  PROVE  RefreshInv'
<1>1. PageInv' /\ TypeOK
  BY PageKeepsInv DEF RefreshInv, PageInv, QueueInv
<1>2. ASSUME ready PROVE ready'
  <2>1. CASE QueueTurn
    BY <1>1, <1>2, <2>1, ReadyStays DEF QueueTurn
  <2>2. CASE UNCHANGED vars
    BY <1>2, <2>2 DEF vars
  <2>3. ~\E k \in 1 .. Len(tests) : tests[k].timer = "running"
    BY <1>2 DEF RefreshInv, PageInv, QueueInv, Idle
  <2>4. ASSUME NEW k \in 1 .. Len(tests), NEW good \in BOOLEAN,
               TestTimeout(k) \/ TestAnswer(k, good)
        PROVE  UNCHANGED vars
    BY <2>3, <2>4 DEF TestTimeout, TestAnswer, Stay
  <2> QED BY <2>1, <2>2, <2>4 DEF DashboardNext
<1> QED BY <1>1, <1>2, ViewStutter

LEMMA PageUntouched ==
  ASSUME RefreshInv, UNCHANGED <<vars, page>>
  PROVE  PageInv' /\ ready' = ready
BY QueueStutter, PageStutter DEF RefreshInv, PageInv, vars

LEMMA RefreshDataKeepsInv ==
  ASSUME RefreshInv, RefreshData
  PROVE  RefreshInv'
<1> USE RefreshAssumption, CallsFinite
<1> DEFINE asked == {[call |-> c, round |-> round + 1, late |-> FALSE] : c \in Made}
<1>1. /\ PageInv' /\ ready' = ready
      /\ round' = round + 1 /\ round' \in 0 .. MaxRefreshes
      /\ requests' = requests \cup asked /\ UNCHANGED <<shown, newest>>
      /\ round \in Nat
  BY PageUntouched DEF RefreshData, RefreshInv, ViewTypeOK
<1>2. Made \subseteq 1 .. Len(Calls) /\ (Made # {} => ready)
  BY DEF Made, Callable
<1>3. asked \subseteq Requests(round') /\ \A r \in asked : r.round = round'
  <2>1. ASSUME NEW c \in Made
        PROVE  [call |-> c, round |-> round + 1, late |-> FALSE] \in Requests(round')
    BY <1>1, <1>2, <2>1 DEF Requests
  <2> QED BY <1>1, <2>1
<1>4. requests \subseteq Requests(round')
  BY <1>1 DEF RefreshInv, ViewTypeOK, Requests
<1>5. ViewTypeOK'
  BY <1>1, <1>3, <1>4 DEF RefreshInv, ViewTypeOK
<1>6. \A r \in requests' : ~r.late => r.round + Patience > round'
  BY <1>1, <1>3 DEF RefreshData
<1>7. requests' # {} => ready'
  BY <1>1, <1>2 DEF RefreshInv
<1>8. OvertakenWithinTimeout' /\ \A c \in 1 .. Len(Calls) : shown'[c] # 0 => ready'
  BY <1>1 DEF RefreshInv, OvertakenWithinTimeout
<1> QED BY <1>1, <1>5, <1>6, <1>7, <1>8 DEF RefreshInv

LEMMA GiveUpKeepsRefreshInv ==
  ASSUME RefreshInv, NEW r \in requests, GiveUp(r)
  PROVE  RefreshInv'
<1> DEFINE late == [r EXCEPT !.late = TRUE]
<1>1. /\ PageInv' /\ ready' = ready
      /\ requests' = (requests \ {r}) \cup {late} /\ UNCHANGED <<round, shown, newest>>
  BY PageUntouched DEF GiveUp
<1>2. late \in Requests(round) /\ late.late
  BY DEF RefreshInv, ViewTypeOK, Requests
<1> HIDE DEF late
<1>3. ViewTypeOK' /\ OvertakenWithinTimeout'
  BY <1>1, <1>2 DEF RefreshInv, ViewTypeOK, OvertakenWithinTimeout
<1> QED BY <1>1, <1>2, <1>3 DEF RefreshInv

\* What is drawn is in time: everything newer was asked for within its timer.
LEMMA ArriveKeepsRefreshInv ==
  ASSUME RefreshInv, NEW r \in requests, NEW answer, Arrive(r, answer)
  PROVE  RefreshInv'
<1> USE RefreshAssumption, CallsFinite
<1>1. /\ PageInv' /\ ready' = ready /\ ready
      /\ requests' = requests \ {r} /\ round' = round
  BY PageUntouched DEF Arrive, RefreshInv
<1>2. r \in Requests(round) /\ round \in 0 .. MaxRefreshes
  BY DEF RefreshInv, ViewTypeOK
<1>3. CASE UNCHANGED <<shown, newest>>
  <2>1. ViewTypeOK' /\ OvertakenWithinTimeout'
    BY <1>1, <1>3 DEF RefreshInv, ViewTypeOK, OvertakenWithinTimeout
  <2> QED BY <1>1, <1>3, <2>1 DEF RefreshInv
<1>4. CASE ~r.late /\ Draw(r)
  <2>1. /\ r.call \in 1 .. Len(Calls) /\ r.round \in 1 .. round
        /\ r.round + Patience > round
    BY <1>2, <1>4 DEF Requests, RefreshInv
  <2>2. /\ shown \in [1 .. Len(Calls) -> 0 .. round]
        /\ newest \in [1 .. Len(Calls) -> 0 .. round]
    BY DEF RefreshInv, ViewTypeOK
  <2>3. /\ shown' = [shown EXCEPT ![r.call] = r.round]
        /\ newest' = [newest EXCEPT ![r.call] =
                        IF r.round > newest[r.call] THEN r.round ELSE newest[r.call]]
    BY <1>4 DEF Draw
  <2>4. /\ shown' \in [1 .. Len(Calls) -> 0 .. round]
        /\ newest' \in [1 .. Len(Calls) -> 0 .. round]
    BY <2>1, <2>2, <2>3
  <2>5. ViewTypeOK'
    BY <1>1, <2>4 DEF RefreshInv, ViewTypeOK
  <2>6. ASSUME NEW c \in 1 .. Len(Calls) PROVE newest'[c] - shown'[c] < Patience
    <3>1. CASE c = r.call
      <4>1. newest'[c] <= round /\ shown'[c] = r.round
        BY <1>2, <2>1, <2>2, <2>3, <3>1
      <4> QED BY <1>2, <2>1, <2>4, <4>1, SMTT(30)
    <3>2. CASE c # r.call
      BY <2>2, <2>3, <3>2 DEF RefreshInv, OvertakenWithinTimeout
    <3> QED BY <3>1, <3>2
  <2>7. OvertakenWithinTimeout'
    BY <2>6 DEF OvertakenWithinTimeout
  <2> QED BY <1>1, <2>5, <2>7 DEF RefreshInv
<1> QED BY <1>3, <1>4 DEF Arrive, Drawn

LEMMA RefreshKeepsInv == RefreshInv /\ [RefreshNext]_refreshVars => RefreshInv'
<1> SUFFICES ASSUME RefreshInv, [RefreshNext]_refreshVars PROVE RefreshInv'
  OBVIOUS
<1>1. CASE DashboardNext /\ UNCHANGED view
  BY <1>1, PageStepKeepsRefreshInv
<1>2. CASE UNCHANGED refreshVars
  BY <1>2, PageStepKeepsRefreshInv DEF refreshVars
<1> QED BY <1>1, <1>2, RefreshDataKeepsInv, GiveUpKeepsRefreshInv, ArriveKeepsRefreshInv
        DEF RefreshNext

LEMMA RefreshInvHolds == RefreshSpec => []RefreshInv
BY RefreshInitInv, RefreshKeepsInv, PTL DEF RefreshSpec

\* The whole page keeps its types.
THEOREM RefreshTypeCorrect == RefreshSpec => []RefreshTypeOK
<1>1. RefreshInv => RefreshTypeOK
  BY PageInvImplies DEF RefreshInv, ViewTypeOK, Requests, RefreshTypeOK
<1> QED BY <1>1, RefreshInvHolds, PTL

\* Beside the ticks of the page, too, the queue answers every call at most
\* once and in order (voltdb.js:130-138, 167-192).
THEOREM RefreshAnswersInOrder == RefreshSpec => []AnsweredInOrder
<1>1. RefreshInv => AnsweredInOrder
  BY PageInvImplies DEF RefreshInv
<1> QED BY <1>1, RefreshInvHolds, PTL

\* The page connects at most once and awaits one test until it does, whatever is
\* answered late (voltdb-dashboard.js:30-54).
THEOREM RefreshConnectsOnce == RefreshSpec => []ConnectsOnce
<1>1. RefreshInv => ConnectsOnce
  BY PageInvImplies DEF RefreshInv
<1> QED BY <1>1, RefreshInvHolds, PTL

\* What is on the screen came over a connection with all of its metadata
\* (voltdb.js:46-60, 278-394).
THEOREM RefreshDrawnMeansLoaded == RefreshSpec => []DrawnMeansLoaded
<1>1. RefreshInv => DrawnMeansLoaded
  BY DEF RefreshInv, PageInv, QueueInv, DrawnMeansLoaded
<1> QED BY <1>1, RefreshInvHolds, PTL

\* An answer on the screen is overtaken by fewer ticks than a timer waits
\* (demo.js:2-35, voltdb.js:130-138).
THEOREM RefreshOvertaken == RefreshSpec => []OvertakenWithinTimeout
<1>1. RefreshInv => OvertakenWithinTimeout
  BY DEF RefreshInv
<1> QED BY <1>1, RefreshInvHolds, PTL
=============================================================================
