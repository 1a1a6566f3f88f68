------------------------------ MODULE TpsChart -------------------------------
(***************************************************************************)
(* The throughput chart of the dashboard: RefreshStats asks the database   *)
(* for its statistics every second, over independent requests, and         *)
(* DrawTPSChart turns the difference of two answers into a rate and keeps  *)
(* a window of them.  A request that is slow does not hold the next one    *)
(* back: the database may execute several of them at once, and answers     *)
(* arrive in any order, until the timer of their call gives them up.  A    *)
(* tick of the model is a millisecond of the code, the resolution of its   *)
(* time stamps; a refresh period is any number of ticks.                   *)
(***************************************************************************)
EXTENDS Integers, Sequences

CONSTANTS
  Period,       \* ticks between two refreshes: 1000
  Kept,         \* refreshes in the minute that the chart keeps: 60
  Timeout,      \* ticks after which a call is given up: 20000
  CacheAge,     \* how old an answer of the database's cache may be
  Aheads,       \* how far the browser's clock may be ahead of the database's
  MaxTime, MaxRate  \* bounds: clock, calls executed per tick

ASSUME ChartAssumption ==
  /\ Period \in Nat \ {0} /\ Kept \in Nat \ {0} /\ Timeout \in Nat /\ CacheAge \in Nat
  /\ Aheads \subseteq Int /\ MaxTime \in Nat \ {0} /\ MaxRate \in Nat

Null == -1      \* a JavaScript variable that is null; no clock shows it

\* The minute that the chart keeps.
Window == Kept * Period

VARIABLES
  clock, count,   \* of the database: its time, and the calls it has executed
  cache,          \* the statistics that it answers with
  inFlight,       \* calls under way: [sent, ts, count], the last two Null until
                  \* the database has executed the call
  lastSent,       \* when the interval last fired
  prevTsMs, tcount0,  \* the last answer drawn
  tpsVals,        \* the points of the chart: [ts, calls, duration], and as history
                  \* sent, when the point was asked for
  ahead           \* how far the browser's clock is ahead

server == <<clock, count, cache>>
calls == <<inFlight, lastSent>>
chart == <<prevTsMs, tcount0, tpsVals, ahead>>
vars == <<server, calls, chart>>

\* initTpsVals: a minute of zeros that ends now, by the browser's clock.
InitTpsVals(now, lead) ==
  [i \in 1 .. Kept |-> LET t == now - (Kept - i + 1) * Period IN
     [ts |-> t + lead, calls |-> 0, duration |-> 1, sent |-> t]]

Init ==
  /\ clock = 1 /\ count = 0 /\ cache = [ts |-> 1, count |-> 0]
  /\ inFlight = {} /\ lastSent = clock
  /\ prevTsMs = Null /\ tcount0 = Null
  /\ ahead \in Aheads
  /\ tpsVals = InitTpsVals(clock, ahead)

Now == [ts |-> clock, count |-> count]

\* External: time passes and the database executes calls, some of which may be for
\* its statistics.  The timers of the browser are punctual: no call is under way
\* longer than its time-out.
Work ==
  /\ clock < MaxTime /\ \A r \in inFlight : clock < r.sent + Timeout
  /\ clock' = clock + 1
  /\ \E n \in 0 .. MaxRate : count' = count + n
  /\ cache' \in {cache, Now'}
  /\ UNCHANGED <<calls, chart>>

\* RefreshStats: the interval fires at most once in a period.
RefreshStats ==
  /\ clock >= lastSent + Period
  /\ inFlight' = inFlight \cup {[sent |-> clock, ts |-> Null, count |-> Null]}
  /\ lastSent' = clock
  /\ UNCHANGED <<server, chart>>

\* External: the database executes a call, and answers from its cache or anew.
Execute(r) ==
  /\ r.ts = Null
  /\ cache' \in {Now} \cup (IF clock - cache.ts <= CacheAge THEN {cache} ELSE {})
  /\ inFlight' = (inFlight \ {r})
       \cup {[sent |-> r.sent, ts |-> cache'.ts, count |-> cache'.count]}
  /\ UNCHANGED <<clock, count, lastSent, chart>>

\* The timer, or an answer that failed, has no results: DrawTPSChart throws on it.
Drop(r) ==
  /\ inFlight' = inFlight \ {r}
  /\ UNCHANGED <<server, lastSent, chart>>

\* Fault the run must notice: the new point is compared with the one before it.
ShiftedGap(vals) ==
  IF Len(vals) > 1 /\ vals[Len(vals)].ts - vals[Len(vals) - 1].ts > Window
  THEN Tail(vals) ELSE vals

\* The first point leaves when the window is full.
Shifted(vals) ==
  IF vals[Len(vals)].ts - vals[1].ts > Window THEN Tail(vals) ELSE vals

\* The rate of an answer: calls in a duration.  The first has no calls, and
\* null counts as zero in its duration.
Point(r) ==
  [ts |-> r.ts, calls |-> IF tcount0 = Null THEN 0 ELSE r.count - tcount0,
   duration |-> r.ts - (IF prevTsMs = Null THEN 0 ELSE prevTsMs), sent |-> r.sent]

\* Faults the run must notice: an answer equal to the last is drawn; the counter of
\* an answer is not kept for the next.
DrawCached(r) ==
  /\ r.ts # Null
  /\ inFlight' = inFlight \ {r}
  /\ prevTsMs' = r.ts /\ tcount0' = r.count
  /\ tpsVals' = Shifted(Append(tpsVals, Point(r)))
  /\ UNCHANGED <<server, lastSent, ahead>>

DrawNoBase(r) ==
  /\ r.ts # Null
  /\ inFlight' = inFlight \ {r}
  /\ \/ r.ts = prevTsMs /\ UNCHANGED chart
     \/ /\ r.ts # prevTsMs
        /\ prevTsMs' = r.ts
        /\ tpsVals' = Shifted(Append(tpsVals, Point(r)))
        /\ UNCHANGED <<tcount0, ahead>>
  /\ UNCHANGED <<server, lastSent>>

\* DrawTPSChart.
DrawTPSChart(r) ==
  /\ r.ts # Null
  /\ inFlight' = inFlight \ {r}
  /\ \/ r.ts = prevTsMs /\ UNCHANGED chart
     \/ /\ r.ts # prevTsMs
        /\ prevTsMs' = r.ts /\ tcount0' = r.count
        /\ tpsVals' = Shifted(Append(tpsVals, Point(r)))
        /\ UNCHANGED ahead
  /\ UNCHANGED <<server, lastSent>>

Next ==
  \/ Work \/ RefreshStats
  \/ \E r \in inFlight : Execute(r) \/ Drop(r) \/ DrawTPSChart(r)

Spec == Init /\ [][Next]_vars
-----------------------------------------------------------------------------
(* Properties. *)

\* The type invariant: the counter and the time that the next rate is computed
\* from are those of one answer, or both are null.
TypeOK ==
  /\ clock \in 1 .. MaxTime /\ lastSent \in 1 .. clock
  /\ cache.ts \in 1 .. clock /\ cache.count \in 0 .. count
  /\ \A r \in inFlight :
       r.sent \in 1 .. clock /\ (r.ts # Null => r.ts \in 1 .. clock /\ r.count \in 0 .. count)
  /\ (prevTsMs = Null) = (tcount0 = Null)
  /\ prevTsMs # Null => prevTsMs \in 1 .. clock /\ tcount0 \in 0 .. count
  /\ tpsVals # <<>>

\* Every rate drawn is a number, and none is negative, even when the answers come
\* out of order or from the cache (voltdb-dashboard.js:119-137).  The database's
\* counter is taken never to fall: one that restarts would give a negative rate.
RatesMakeSense ==
  \A i \in 1 .. Len(tpsVals) :
    tpsVals[i].duration # 0 /\ tpsVals[i].calls * tpsVals[i].duration >= 0

\* One shift for each point bounds the memory of the chart, whatever comes late, in a
\* burst, out of order or not at all (voltdb-dashboard.js:141-144): every point was
\* asked for within a minute, twice a call's time-out, the age of the cache and the
\* lead of the browser's clock.  It is not "the last minute's data" (:141) alone: with the
\* code's numbers, a fresh cache and clocks that agree the bound is 101 points, where a
\* minute has 61.
MemoryBounded ==
  (Len(tpsVals) - 1) * Period
    <= Window + 2 * Timeout + CacheAge + (IF ahead > 0 THEN ahead ELSE 0)
=============================================================================
