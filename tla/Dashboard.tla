----------------------------- MODULE Dashboard ------------------------------
(***************************************************************************)
(* How the dashboard connects: the page tests the connection until the     *)
(* database answers (checkConnection), then adds a connection, whose       *)
(* metadata a queue loads (CommandQueue), and starts its two refresh       *)
(* intervals.  Tests go through the same wrapper as every call: answers    *)
(* may come late, after the timer has spoken and the next test is under    *)
(* way, or never.                                                          *)
(***************************************************************************)
EXTENDS CommandQueue, FiniteSets

CONSTANT MaxTests     \* bound: how many tests the page makes

ASSUME DashboardAssumption == MaxTests \in Nat \ {0}

VARIABLES
  tests,            \* the tests made: [request, timer], as in the queue
  connected,        \* how often connectToDatabase has run
  intervals,        \* the browser's live chart intervals, their ids
  chartIntervalId,  \* the page's variable: 0 is null
  statsIntervals    \* how many stats intervals live

page == <<tests, connected, intervals, chartIntervalId, statsIntervals>>

NewTest == [request |-> "open", timer |-> "running"]

\* The page is ready: checkConnection has been called once.
DashboardInit ==
  /\ Init
  /\ tests = <<NewTest>> /\ connected = 0
  /\ intervals = {} /\ chartIntervalId = 0 /\ statsIntervals = 0

\* The interval that lives goes, and with a period above zero another comes; ids are
\* fresh, for the browser numbers its intervals.
SetChartRefreshInterval(seconds) ==
  LET id   == 1 + connected
      live == intervals \ {chartIntervalId}
  IN  /\ chartIntervalId' = IF seconds > 0 THEN id ELSE 0
      /\ intervals' = IF seconds > 0 THEN live \cup {id} ELSE live

\* connectToDatabase: LoadConnectionMetadata runs up to its first call.
ConnectToDatabase ==
  /\ connected' = connected + 1
  /\ LoadConnectionMetadata
  /\ SetChartRefreshInterval(1)
  /\ statsIntervals' = statsIntervals + 1

Stay == UNCHANGED <<vars, connected, intervals, chartIntervalId, statsIntervals>>

\* onConnectionTested: connect, or test again.
OnConnectionTested(ok, outcome) ==
  \/ ok /\ ConnectToDatabase /\ tests' = outcome
  \/ ~ok /\ Len(tests) < MaxTests /\ tests' = Append(outcome, NewTest) /\ Stay

\* Fault the run must notice: an answer counts although the timer spoke for it.
TestAnswerLate(k, ok) ==
  /\ tests[k].request = "open"
  /\ OnConnectionTested(ok, [tests EXCEPT ![k] = [request |-> "over", timer |-> "cleared"]])

\* An answer, with a good status or not, to test k.
TestAnswer(k, ok) ==
  /\ tests[k].request = "open"
  /\ \/ /\ tests[k].timer = "running"
        /\ OnConnectionTested(ok, [tests EXCEPT ![k] = [request |-> "over", timer |-> "cleared"]])
     \/ /\ tests[k].timer = "fired"
        /\ tests' = [tests EXCEPT ![k].request = "over"]
        /\ Stay

TestTimeout(k) ==
  /\ tests[k].timer = "running"
  /\ OnConnectionTested(FALSE, [tests EXCEPT ![k].timer = "fired"])

\* The turns of the connection's queue.
QueueTurn == Turn /\ UNCHANGED page

DashboardNext ==
  \/ QueueTurn
  \/ \E k \in 1 .. Len(tests) : TestTimeout(k) \/ \E ok \in BOOLEAN : TestAnswer(k, ok)

\* The browser fires every timer.
DashboardSpec ==
  /\ DashboardInit /\ [][DashboardNext]_<<vars, page>>
  /\ \A i \in 1 .. Items : WF_<<vars, page>>(Timeout(i) /\ UNCHANGED page)
-----------------------------------------------------------------------------
(* Properties. *)

\* The type invariant.
DashboardTypeOK ==
  /\ TypeOK
  /\ \A k \in 1 .. Len(tests) :
       tests[k] \in [request : {"open", "over"}, timer : {"running", "cleared", "fired"}]
  /\ intervals \subseteq Nat /\ chartIntervalId \in Nat

\* The page connects at most once, whichever tests are answered late: a second time
\* would make another connection, load the metadata again and leave a stats interval
\* that nothing can clear.  Until then it is always waiting for exactly one test,
\* which its timer bounds: it neither gives up nor tests twice at a time
\* (voltdb-dashboard.js:30-54).
ConnectsOnce ==
  /\ connected <= 1 /\ statsIntervals = connected
  /\ intervals = IF connected = 0 THEN {} ELSE {chartIntervalId}
  /\ Cardinality({k \in 1 .. Len(tests) : tests[k].timer = "running"}) = 1 - connected

\* A page that has connected has made its connection ready or missed a piece of
\* the metadata, in the end: the queue does not hang on the database.
ConnectedLoads == (connected > 0) ~> (completions = 1)
=============================================================================
