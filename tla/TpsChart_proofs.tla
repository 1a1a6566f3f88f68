-------------------------- MODULE TpsChart_proofs ---------------------------
(***************************************************************************)
(* Proofs about the throughput chart, for every window, period, time-out,  *)
(* age of the cache and difference of the clocks.                          *)
(*                                                                         *)
(* The rates rest on Consistent: of any two answers that exist, on their   *)
(* way, cached or drawn, the later one counts at least as many calls.  The *)
(* bound of the memory rests on Spread and Reach: the points of the chart  *)
(* were asked for a period apart from each other, and all of them within a *)
(* span that starts a time-out before the first point and ends, when the   *)
(* chart grows, a time-out after the last.  FewApart counts them.          *)
(***************************************************************************)
EXTENDS TpsChart, SequenceTheorems, FiniteSetTheorems, TLAPS

Answer == [ts : 1 .. clock, count : 0 .. count]
CallSet == [sent : Int, ts : Int, count : Int]

\* a is no later than b and counts no more calls, if it is no later.
Agree(a, b) == a.ts <= b.ts => a.count <= b.count

\* What an executed call has been answered with.
AnswerOf(r) == [ts |-> r.ts, count |-> r.count]
Drawn == [ts |-> prevTsMs, count |-> tcount0]

\* The answers that exist, and the one that the database would give now.
Answers ==
  {Now, cache} \cup {AnswerOf(r) : r \in {q \in inFlight : q.ts # Null}}
    \cup (IF prevTsMs = Null THEN {} ELSE {Drawn})

Consistent == \A a, b \in Answers : Agree(a, b)

Points == [ts : Int, calls : Int, duration : Int, sent : Int]

\* A rate that is a number, and not negative.
Sensible(p) == p.duration # 0 /\ p.calls * p.duration >= 0

Types ==
  /\ clock \in 1 .. MaxTime /\ count \in Nat /\ lastSent \in 1 .. clock
  /\ Answers \subseteq Answer /\ inFlight \subseteq CallSet
  /\ cache \in Answer
  /\ IF prevTsMs = Null THEN tcount0 = Null ELSE tcount0 \in Nat /\ prevTsMs \in Nat
  /\ ahead \in Int
  /\ tpsVals \in Seq(Points) /\ tpsVals # <<>>

Ahead == IF ahead > 0 THEN ahead ELSE 0

\* No call is under way longer than its time-out, and its answer is no older than
\* the cache allows.
Timed ==
  \A r \in inFlight :
    /\ r.sent \in 1 .. lastSent /\ clock <= r.sent + Timeout
    /\ r.ts # Null => r.sent <= r.ts + CacheAge

\* Two moments a period apart.
Apart(a, b) == a + Period <= b \/ b + Period <= a

\* Calls, and the points that they become, are asked for a period apart.
Spread ==
  /\ \A r, q \in inFlight : r # q => Apart(r.sent, q.sent)
  /\ \A i \in 1 .. Len(tpsVals) :
       /\ tpsVals[i].sent <= lastSent
       /\ \A r \in inFlight : Apart(tpsVals[i].sent, r.sent)
       /\ \A j \in 1 .. Len(tpsVals) : i # j => Apart(tpsVals[i].sent, tpsVals[j].sent)

\* No point is later than the clocks say, nor than the call of one behind it.
Reach ==
  \A i \in 1 .. Len(tpsVals) :
    /\ tpsVals[i].ts <= clock + Ahead
    /\ \A j \in i .. Len(tpsVals) : tpsVals[i].ts <= tpsVals[j].sent + Timeout + Ahead

Rated == Types /\ Consistent /\ RatesMakeSense
Bounded == Timed /\ Spread /\ Reach /\ MemoryBounded
IInv == Rated /\ Bounded

-----------------------------------------------------------------------------
(* Arithmetic. *)

\* Of two naturals the greater has the greater product with a third.
LEMMA ProductMonotonic ==
  ASSUME NEW a \in Nat, NEW b \in Nat, a <= b, NEW p \in Nat
  PROVE  a * p <= b * p
<1>1. PICK d \in Nat : b = a + d
  <2>1. b - a \in Nat /\ b = a + (b - a)
    OBVIOUS
  <2> QED BY <2>1
<1>2. b * p = a * p + d * p /\ d * p >= 0
  BY <1>1
<1> QED BY <1>2

\* What a quotient is.
LEMMA Quotient ==
  ASSUME NEW x \in Nat
  PROVE  LET q == x \div Period IN
         q \in Nat /\ q * Period <= x /\ x < q * Period + Period
BY ChartAssumption

LEMMA QuotientMonotonic ==
  ASSUME NEW x \in Nat, NEW y \in Nat, x <= y
  PROVE  x \div Period \in Nat /\ x \div Period <= y \div Period
<1> DEFINE q == x \div Period
           r == y \div Period
<1>1. /\ q \in Nat /\ q * Period <= x /\ x < q * Period + Period
      /\ r \in Nat /\ r * Period <= y /\ y < r * Period + Period
  BY Quotient
<1> HIDE DEF q, r
<1>2. CASE r + 1 <= q
  <2>1. (r + 1) * Period <= q * Period
    BY <1>1, <1>2, ChartAssumption, ProductMonotonic
  <2>2. (r + 1) * Period = r * Period + Period
    BY <1>1, ChartAssumption
  <2> QED BY <1>1, <2>1, <2>2, ChartAssumption
<1> QED BY <1>1, <1>2 DEF q, r

LEMMA QuotientApart ==
  ASSUME NEW x \in Nat, NEW y \in Nat, x + Period <= y
  PROVE  x \div Period # y \div Period
<1> DEFINE q == x \div Period
           r == y \div Period
<1>1. /\ q \in Nat /\ q * Period <= x
      /\ r \in Nat /\ y < r * Period + Period
  BY Quotient
<1> HIDE DEF q, r
<1>2. CASE q = r
  BY <1>1, <1>2, ChartAssumption
<1> QED BY <1>2 DEF q, r

\* Of moments that are a period apart from each other, few fit into a span: each has
\* a period of the span to itself.
LEMMA FewApart ==
  ASSUME NEW n \in Nat \ {0}, NEW s \in [1 .. n -> Int], NEW lo \in Int, NEW span \in Nat,
         \A i \in 1 .. n : lo <= s[i] /\ s[i] <= lo + span,
         \A i, j \in 1 .. n : i # j => Apart(s[i], s[j])
  PROVE  (n - 1) * Period <= span
<1> Period \in Nat \ {0}
  BY ChartAssumption
<1> DEFINE K == span \div Period
           slot == [i \in 1 .. n |-> (s[i] - lo) \div Period]
<1>1. K \in Nat /\ K * Period <= span
  BY Quotient
<1>2. \A i \in 1 .. n : slot[i] \in 0 .. K
  <2> SUFFICES ASSUME NEW i \in 1 .. n PROVE slot[i] \in 0 .. K
    OBVIOUS
  <2>1. s[i] - lo \in Nat /\ s[i] - lo <= span
    OBVIOUS
  <2>2. (s[i] - lo) \div Period \in Nat /\ (s[i] - lo) \div Period <= span \div Period
    BY <2>1, QuotientMonotonic
  <2> QED BY <1>1, <2>2
<1>3. slot \in [1 .. n -> 0 .. K]
  BY <1>2
<1>4. \A i, j \in 1 .. n : i # j => slot[i] # slot[j]
  <2> SUFFICES ASSUME NEW i \in 1 .. n, NEW j \in 1 .. n, s[i] + Period <= s[j]
               PROVE  slot[i] # slot[j]
    BY DEF Apart
  <2>1. \A a, b, c \in Int : a - c \in Int /\ (c <= a => a - c \in Nat)
                             /\ (a + Period <= b => (a - c) + Period <= b - c)
    OBVIOUS
  <2>2. s[i] \in Int /\ s[j] \in Int /\ lo <= s[i] /\ lo <= s[j]
    OBVIOUS
  <2>3. s[i] - lo \in Nat /\ s[j] - lo \in Nat /\ (s[i] - lo) + Period <= s[j] - lo
    BY <2>1, <2>2
  <2> QED BY <2>3, QuotientApart
<1> HIDE DEF K, slot
<1>5. n <= K + 1
  <2> DEFINE D == 1 .. n
             R == 0 .. K
  <2>1. IsFiniteSet(D) /\ Cardinality(D) = n
    BY FS_Interval
  <2>2. IsFiniteSet(R) /\ Cardinality(R) = K + 1
    BY <1>1, FS_Interval
  <2>3. slot \in [D -> R] /\ \A i, j \in D : i # j => slot[i] # slot[j]
    BY <1>3, <1>4
  <2>4. CASE K + 1 < n
    <3> HIDE DEF D, R
    <3>1. Cardinality(R) < Cardinality(D)
      BY <2>1, <2>2, <2>4
    <3>2. \E i, j \in D : i # j /\ slot[i] = slot[j]
      BY <2>1, <2>2, <2>3, <3>1, FS_PigeonHole
    <3> QED BY <2>3, <3>2
  <2> QED BY <1>1, <2>4
<1>6. (n - 1) * Period <= K * Period
  BY <1>1, <1>5, ProductMonotonic
<1>7. (n - 1) * Period \in Int /\ K * Period \in Int
  BY <1>1
<1> QED BY <1>1, <1>6, <1>7

\* Two numbers of the same sign.
LEMMA SameSign ==
  ASSUME NEW x \in Int, NEW y \in Int, (x >= 0 /\ y >= 0) \/ (x <= 0 /\ y <= 0)
  PROVE  x * y >= 0
<1>1. CASE x >= 0 /\ y >= 0
  BY <1>1
<1>2. CASE x <= 0 /\ y <= 0
  <2>1. (-x) * (-y) >= 0 /\ (-x) * (-y) = x * y
    BY <1>2
  <2> QED BY <2>1
<1> QED BY <1>1, <1>2

-----------------------------------------------------------------------------
LEMMA InitIInv == Init => IInv
<1> SUFFICES ASSUME Init PROVE IInv
  OBVIOUS
<1> USE DEF Null
<1>0. /\ Kept \in Nat \ {0} /\ Period \in Nat \ {0} /\ Timeout \in Nat /\ CacheAge \in Nat
      /\ Aheads \subseteq Int /\ MaxTime \in Nat \ {0}
  BY ChartAssumption
<1>1. /\ clock = 1 /\ count = 0 /\ cache = [ts |-> 1, count |-> 0] /\ lastSent = 1
      /\ prevTsMs = Null /\ tcount0 = Null /\ inFlight = {}
      /\ ahead \in Int /\ tpsVals = InitTpsVals(1, ahead)
  BY <1>0 DEF Init
<1>2. Answers = {[ts |-> 1, count |-> 0]}
  BY <1>1 DEF Answers, Now
<1> DEFINE t(i) == 1 - (Kept - i + 1) * Period
           point(i) == [ts |-> t(i) + ahead, calls |-> 0, duration |-> 1, sent |-> t(i)]
<1>3. \A i \in 1 .. Kept : t(i) \in Int /\ point(i) \in Points
  BY <1>0, <1>1 DEF Points
<1>4. /\ tpsVals \in Seq(Points) /\ Len(tpsVals) = Kept
      /\ \A i \in 1 .. Kept : tpsVals[i] = point(i)
  <2>1. tpsVals = [i \in 1 .. Kept |-> point(i)]
    BY <1>1 DEF InitTpsVals
  <2> HIDE DEF point
  <2>2. tpsVals \in [1 .. Kept -> Points]
    BY <1>3, <2>1
  <2>3. tpsVals \in Seq(Points)
    BY <1>0, <2>2, SeqDef
  <2>4. Len(tpsVals) = Kept
    BY <1>0, <2>2, <2>3
  <2> QED BY <2>1, <2>3, <2>4
<1>5. \A i \in 1 .. Kept : tpsVals[i].ts = t(i) + ahead /\ tpsVals[i].sent = t(i)
                          /\ tpsVals[i].calls = 0 /\ tpsVals[i].duration = 1
  BY <1>4
<1>6. \A i, j \in 1 .. Kept : i < j => t(i) + Period <= t(j)
  <2> SUFFICES ASSUME NEW i \in 1 .. Kept, NEW j \in 1 .. Kept, i < j PROVE t(i) + Period <= t(j)
    OBVIOUS
  <2>1. (Kept - j + 1) + 1 <= Kept - i + 1 /\ Kept - j + 1 \in Nat /\ Kept - i + 1 \in Nat
    BY <1>0
  <2>2. ((Kept - j + 1) + 1) * Period <= (Kept - i + 1) * Period
    BY <1>0, <2>1, ProductMonotonic
  <2>3. ((Kept - j + 1) + 1) * Period = (Kept - j + 1) * Period + Period
    BY <1>0, <2>1
  <2> DEFINE a == (Kept - j + 1) * Period
             b == (Kept - i + 1) * Period
  <2>4. a \in Int /\ b \in Int /\ a + Period <= b
    BY <1>0, <2>1, <2>2, <2>3
  <2> HIDE DEF a, b
  <2>5. 1 - b + Period <= 1 - a
    BY <1>0, <2>4
  <2> QED BY <2>5 DEF a, b
<1>7. \A i \in 1 .. Kept : t(i) <= 1
  <2> SUFFICES ASSUME NEW i \in 1 .. Kept PROVE t(i) <= 1
    OBVIOUS
  <2>1. (Kept - i + 1) * Period \in Nat
    BY <1>0
  <2> QED BY <2>1
<1> HIDE DEF t, point
<1>8. Rated
  <2>1. Answers \subseteq Answer /\ cache \in Answer
    BY <1>1, <1>2 DEF Answer
  <2>2. tpsVals # <<>> /\ tpsVals \in Seq(Points)
    BY <1>0, <1>4
  <2>3. Types
    BY <1>0, <1>1, <2>1, <2>2 DEF Types
  <2>4. Consistent
    BY <1>2 DEF Consistent, Agree
  <2>5. RatesMakeSense
    BY <1>4, <1>5 DEF RatesMakeSense
  <2> QED BY <2>3, <2>4, <2>5 DEF Rated
<1>9. Bounded
  <2>1. Timed
    BY <1>1 DEF Timed
  <2>2. Spread
    <3>1. \A i, j \in 1 .. Kept : i # j => Apart(t(i), t(j))
      BY <1>0, <1>6 DEF Apart
    <3> QED BY <1>1, <1>4, <1>5, <1>7, <3>1 DEF Spread
  <2>3. Ahead \in Nat /\ ahead <= Ahead
    BY <1>1 DEF Ahead
  <2>4. Reach
    <3> SUFFICES ASSUME NEW i \in 1 .. Kept
                 PROVE  /\ tpsVals[i].ts <= clock + Ahead
                        /\ \A j \in i .. Kept : tpsVals[i].ts <= tpsVals[j].sent + Timeout + Ahead
      BY <1>4 DEF Reach
    <3>1. tpsVals[i].ts = t(i) + ahead /\ t(i) <= 1 /\ t(i) \in Int
      BY <1>3, <1>5, <1>7
    <3>2. ASSUME NEW j \in i .. Kept PROVE tpsVals[i].ts <= tpsVals[j].sent + Timeout + Ahead
      <4>1. j \in 1 .. Kept
        BY <1>0
      <4>2. tpsVals[j].sent = t(j) /\ t(j) \in Int /\ t(i) <= t(j)
        BY <1>0, <1>3, <1>5, <1>6, <4>1, <3>1
      <4> QED BY <1>0, <1>1, <2>3, <3>1, <4>2
    <3> QED BY <1>1, <2>3, <3>1, <3>2
  <2>5. MemoryBounded
    <3>1. (Kept - 1) * Period <= Kept * Period
      BY <1>0, ProductMonotonic
    <3>2. (Kept - 1) * Period \in Int /\ Window \in Int /\ Window = Kept * Period
      BY <1>0 DEF Window
    <3>3. (Len(tpsVals) - 1) * Period = (Kept - 1) * Period
      BY <1>4
    <3> QED BY <1>0, <2>3, <3>1, <3>2, <3>3 DEF MemoryBounded, Ahead
  <2> QED BY <2>1, <2>2, <2>4, <2>5 DEF Bounded
<1> QED BY <1>8, <1>9 DEF IInv

LEMMA PointsAreNumbers ==
  ASSUME IInv
  PROVE  \A i \in 1 .. Len(tpsVals) : tpsVals[i].ts \in Int /\ tpsVals[i].sent \in Int
<1>1. tpsVals \in Seq(Points)
  BY DEF IInv, Rated, Types
<1>2. \A i \in 1 .. Len(tpsVals) : tpsVals[i] \in Points
  BY <1>1, ElementOfSeq
<1> QED BY <1>2 DEF Points

\* A step that leaves the chart alone, and the calls as they should be.
LEMMA ChartUntouched ==
  ASSUME IInv, UNCHANGED chart, clock' \in 1 .. MaxTime, clock' >= clock, count' \in Nat,
         lastSent' \in 1 .. clock', lastSent' >= lastSent,
         Answers' \subseteq Answer', cache' \in Answer', inFlight' \subseteq CallSet,
         Consistent', Timed',
         \A r, q \in inFlight' : r # q => Apart(r.sent, q.sent),
         \A i \in 1 .. Len(tpsVals), r \in inFlight' : Apart(tpsVals[i].sent, r.sent)
  PROVE  IInv'
<1> USE ChartAssumption DEF Null
<1>1. UNCHANGED <<prevTsMs, tcount0, tpsVals, ahead>>
  BY DEF chart
<1>2. Types /\ RatesMakeSense /\ Spread /\ Reach /\ MemoryBounded
  BY DEF IInv, Rated, Bounded
<1>3. RatesMakeSense' /\ MemoryBounded'
  BY <1>1, <1>2 DEF RatesMakeSense, MemoryBounded
<1>4. Types'
  BY <1>1, <1>2 DEF Types, CallSet
<1>5. \A i \in 1 .. Len(tpsVals) : tpsVals[i].ts \in Int /\ tpsVals[i].sent \in Int
  BY PointsAreNumbers
<1>6. Spread'
  <2>1. lastSent \in Int /\ lastSent' \in Int
    BY <1>2 DEF Types
  <2>2. \A i \in 1 .. Len(tpsVals) : tpsVals[i].sent <= lastSent'
    BY <1>2, <1>5, <2>1 DEF Spread
  <2> QED BY <1>1, <1>2, <2>2 DEF Spread, Apart
<1>7. Reach'
  <2>1. clock \in Int /\ clock' \in Int /\ Ahead \in Int /\ Ahead' = Ahead
    BY <1>1, <1>2 DEF Types, Ahead
  <2>2. \A i \in 1 .. Len(tpsVals) : tpsVals[i].ts <= clock' + Ahead
    BY <1>2, <1>5, <2>1 DEF Reach
  <2> QED BY <1>1, <1>2, <2>1, <2>2 DEF Reach
<1> QED BY <1>3, <1>4, <1>6, <1>7 DEF IInv, Rated, Bounded

\* The calls under way, when none is new.
LEMMA CallsSpread ==
  ASSUME IInv, inFlight' \subseteq inFlight
  PROVE  /\ inFlight' \subseteq CallSet
         /\ \A r, q \in inFlight' : r # q => Apart(r.sent, q.sent)
         /\ \A i \in 1 .. Len(tpsVals), r \in inFlight' : Apart(tpsVals[i].sent, r.sent)
BY DEF IInv, Rated, Types, Bounded, Spread

LEMMA WorkKeepsIInv ==
  ASSUME IInv, Work
  PROVE  IInv'
<1> USE ChartAssumption
<1>1. PICK n \in 0 .. MaxRate : count' = count + n
  BY DEF Work
<1>2. /\ clock' = clock + 1 /\ clock \in 1 .. MaxTime /\ clock' \in 1 .. MaxTime
      /\ count \in Nat /\ count' \in Nat /\ count <= count' /\ lastSent \in 1 .. clock
      /\ cache' \in {cache, Now'} /\ UNCHANGED <<inFlight, lastSent, chart>>
      /\ \A r \in inFlight : clock < r.sent + Timeout
  BY <1>1 DEF Work, IInv, Rated, Types, calls
<1>3. Answer \subseteq Answer'
  BY <1>2 DEF Answer
<1>4. Now' \in Answer' /\ cache' \in Answer' /\ Answers \subseteq Answer
  BY <1>2, <1>3 DEF Answer, Now, IInv, Rated, Types
<1>5. Answers' \subseteq Answers \cup {Now'}
  BY <1>2 DEF Answers, AnswerOf, Drawn, chart
<1>6. \A a \in Answers : Agree(a, Now') /\ Agree(Now', a)
  <2>1. \A a \in Answers : a.ts <= clock /\ a.count <= count /\ a.ts \in Int /\ a.count \in Int
    BY <1>4, <1>2 DEF Answer
  <2>2. Now'.ts = clock + 1 /\ Now'.count = count'
    BY <1>2 DEF Now
  <2> QED BY <1>2, <2>1, <2>2 DEF Agree
<1>7. Agree(Now', Now')
  BY <1>2 DEF Agree, Now
<1>8. Consistent'
  BY <1>5, <1>6, <1>7 DEF IInv, Rated, Consistent, Agree
<1>9. Timed'
  <2>1. \A r \in inFlight : r.sent \in Int
    BY DEF IInv, Rated, Types, CallSet
  <2> QED BY <1>2, <2>1 DEF IInv, Bounded, Timed
<1> QED BY <1>2, <1>3, <1>4, <1>5, <1>8, <1>9, CallsSpread, ChartUntouched

LEMMA RefreshKeepsIInv ==
  ASSUME IInv, RefreshStats
  PROVE  IInv'
<1> USE ChartAssumption
<1> DEFINE new == [sent |-> clock, ts |-> Null, count |-> Null]
<1>1. /\ clock >= lastSent + Period /\ inFlight' = inFlight \cup {new} /\ lastSent' = clock
      /\ UNCHANGED <<clock, count, cache, chart>>
  BY DEF RefreshStats, server
<1>2. /\ clock \in 1 .. MaxTime /\ count \in Nat /\ lastSent \in 1 .. clock
      /\ Answers \subseteq Answer /\ cache \in Answer /\ inFlight \subseteq CallSet
      /\ tpsVals \in Seq(Points)
  BY DEF IInv, Rated, Types
<1>3. new \in CallSet /\ new.ts = Null /\ new.sent = clock
  BY <1>2 DEF CallSet, Null
<1> HIDE DEF new
<1>4. {q \in inFlight' : q.ts # Null} = {q \in inFlight : q.ts # Null}
  BY <1>1, <1>3
<1>5. Answers' = Answers /\ Answer' = Answer
  BY <1>1, <1>4 DEF Answers, AnswerOf, Now, Drawn, chart, Answer
<1>6. Consistent'
  BY <1>5 DEF IInv, Rated, Consistent, Agree
<1>7. Timed /\ Spread
  BY DEF IInv, Bounded
<1>8. Timed'
  <2>1. \A r \in inFlight : r.sent \in 1 .. clock /\ clock <= r.sent + Timeout
    BY <1>2, <1>7 DEF Timed
  <2> QED BY <1>1, <1>2, <1>3, <1>7, <2>1 DEF Timed
<1>9. \A r \in inFlight : Apart(r.sent, new.sent) /\ Apart(new.sent, r.sent)
  BY <1>1, <1>2, <1>3, <1>7 DEF Timed, Apart
<1>10. \A i \in 1 .. Len(tpsVals) : Apart(tpsVals[i].sent, new.sent)
  <2>1. \A i \in 1 .. Len(tpsVals) : tpsVals[i].sent \in Int /\ tpsVals[i].sent <= lastSent
    BY <1>7, PointsAreNumbers DEF Spread
  <2> QED BY <1>1, <1>2, <1>3, <2>1 DEF Apart
<1>11. /\ inFlight' \subseteq CallSet
       /\ \A r, q \in inFlight' : r # q => Apart(r.sent, q.sent)
       /\ \A i \in 1 .. Len(tpsVals), r \in inFlight' : Apart(tpsVals[i].sent, r.sent)
  BY <1>1, <1>2, <1>3, <1>7, <1>9, <1>10 DEF Spread
<1>12. lastSent' \in 1 .. clock' /\ lastSent' >= lastSent /\ clock' >= clock
  BY <1>1, <1>2
<1> QED BY <1>1, <1>2, <1>5, <1>6, <1>8, <1>11, <1>12, ChartUntouched

LEMMA ExecuteKeepsIInv ==
  ASSUME IInv, NEW r \in inFlight, Execute(r)
  PROVE  IInv'
<1> USE ChartAssumption
<1> DEFINE new == [sent |-> r.sent, ts |-> cache'.ts, count |-> cache'.count]
<1>1. /\ cache' \in {cache, Now} /\ (cache' = cache => cache = Now \/ clock - cache.ts <= CacheAge)
      /\ inFlight' = (inFlight \ {r}) \cup {new}
      /\ UNCHANGED <<clock, count, lastSent, chart>>
  BY DEF Execute
<1>2. /\ clock \in 1 .. MaxTime /\ count \in Nat /\ lastSent \in 1 .. clock
      /\ Answers \subseteq Answer /\ cache \in Answer /\ inFlight \subseteq CallSet
  BY DEF IInv, Rated, Types
<1>3. cache' \in Answers /\ cache' \in Answer /\ cache'.ts \in 1 .. clock
  BY <1>1, <1>2 DEF Answers, Answer
<1>4. AnswerOf(new) = cache' /\ new \in CallSet /\ new.sent = r.sent /\ new.ts = cache'.ts
  BY <1>2, <1>3 DEF Answer, AnswerOf, CallSet
<1>5. clock <= cache'.ts + CacheAge
  BY <1>1, <1>2 DEF Now, Answer
<1> HIDE DEF new
<1>6. Answers' \subseteq Answers /\ Answer' = Answer
  BY <1>1, <1>3, <1>4 DEF Answers, AnswerOf, Now, Drawn, chart, Answer
<1>7. Consistent'
  BY <1>6 DEF IInv, Rated, Consistent, Agree
<1>8. Timed /\ Spread
  BY DEF IInv, Bounded
<1>9. Timed'
  <2>1. r.sent \in 1 .. lastSent /\ clock <= r.sent + Timeout
    BY <1>8 DEF Timed
  <2>2. new.sent <= new.ts + CacheAge
    BY <1>2, <1>3, <1>4, <1>5, <2>1
  <2> QED BY <1>1, <1>2, <1>4, <1>8, <2>1, <2>2 DEF Timed
<1>10. /\ inFlight' \subseteq CallSet
       /\ \A p, q \in inFlight' : p # q => Apart(p.sent, q.sent)
       /\ \A i \in 1 .. Len(tpsVals), q \in inFlight' : Apart(tpsVals[i].sent, q.sent)
  BY <1>1, <1>2, <1>4, <1>8 DEF Spread
<1> QED BY <1>1, <1>2, <1>3, <1>6, <1>7, <1>9, <1>10, ChartUntouched

LEMMA DropKeepsIInv ==
  ASSUME IInv, inFlight' \subseteq inFlight, UNCHANGED <<server, lastSent, chart>>
  PROVE  IInv'
<1>1. /\ clock \in 1 .. MaxTime /\ count \in Nat /\ lastSent \in 1 .. clock
      /\ Answers \subseteq Answer /\ cache \in Answer /\ UNCHANGED <<clock, count, cache>>
  BY DEF IInv, Rated, Types, server
<1>2. Answers' \subseteq Answers /\ Answer' = Answer
  BY <1>1 DEF Answers, AnswerOf, Now, Drawn, chart, Answer
<1>3. Consistent'
  BY <1>2 DEF IInv, Rated, Consistent, Agree
<1>4. Timed'
  BY <1>1 DEF IInv, Bounded, Timed
<1> QED BY <1>1, <1>2, <1>3, <1>4, ChartAssumption, CallsSpread, ChartUntouched

\* The rate of an answer is a number, and not negative.
LEMMA PointMakesSense ==
  ASSUME IInv, NEW r \in inFlight, r.ts # Null, r.ts # prevTsMs
  PROVE  /\ Point(r) \in Points /\ r.ts \in 1 .. clock
         /\ Point(r).ts = r.ts /\ Point(r).sent = r.sent /\ r.sent \in Int
         /\ Sensible(Point(r))
<1> USE ChartAssumption DEF Null, Sensible
<1> DEFINE a == AnswerOf(r)
<1>1. a \in Answers /\ r.ts \in 1 .. clock /\ r.count \in Nat
  <2>1. a \in Answers
    BY DEF Answers
  <2>2. a \in Answer /\ a.ts = r.ts /\ a.count = r.count
    BY <2>1 DEF IInv, Rated, Types, AnswerOf
  <2> QED BY <2>1, <2>2 DEF Answer, IInv, Rated, Types
<1>2. clock \in Nat
  BY DEF IInv, Rated, Types
<1>5. r.sent \in Int
  BY DEF IInv, Rated, Types, CallSet
<1>3. CASE prevTsMs = Null
  <2>1. tcount0 = Null
    BY <1>3 DEF IInv, Rated, Types
  <2>2. Point(r) = [ts |-> r.ts, calls |-> 0, duration |-> r.ts, sent |-> r.sent]
    BY <1>1, <1>2, <1>3, <2>1 DEF Point
  <2> QED BY <1>1, <1>2, <1>5, <2>2 DEF Points
<1>4. CASE prevTsMs # Null
  <2>1. prevTsMs \in Nat /\ tcount0 \in Nat
    BY <1>4 DEF IInv, Rated, Types
  <2>2. Point(r) = [ts |-> r.ts, calls |-> r.count - tcount0, duration |-> r.ts - prevTsMs,
                   sent |-> r.sent]
    BY <1>4, <2>1 DEF Point
  <2>3. Drawn \in Answers
    BY <1>4 DEF Answers
  <2>4. Agree(a, Drawn) /\ Agree(Drawn, a)
    BY <1>1, <2>3 DEF IInv, Rated, Consistent
  <2>5. /\ r.ts <= prevTsMs => r.count <= tcount0
        /\ prevTsMs <= r.ts => tcount0 <= r.count
    BY <2>4 DEF Agree, AnswerOf, Drawn
  <2>6. PICK x \in Int, y \in Int : x = r.count - tcount0 /\ y = r.ts - prevTsMs
    BY <1>1, <1>2, <2>1
  <2>7. y # 0 /\ ((x >= 0 /\ y >= 0) \/ (x <= 0 /\ y <= 0))
    BY <1>1, <1>2, <2>1, <2>5, <2>6
  <2>8. x * y >= 0
    BY <2>7, SameSign
  <2>9. Point(r).ts = r.ts /\ Point(r).calls = x /\ Point(r).duration = y
    BY <2>2, <2>6
  <2>10. Point(r) \in Points /\ Point(r).sent = r.sent
    BY <1>1, <1>2, <1>5, <2>2, <2>6 DEF Points
  <2> QED BY <1>1, <1>5, <2>7, <2>8, <2>9, <2>10
<1> QED BY <1>3, <1>4

\* A point is added, and the first leaves when the window is full.
LEMMA ShiftedAppend ==
  ASSUME NEW vals \in Seq(Points), vals # <<>>, NEW p \in Points
  PROVE  LET new == Shifted(Append(vals, p)) IN
         /\ new \in Seq(Points) /\ new # <<>>
         /\ \/ /\ Len(new) = Len(vals) + 1 /\ p.ts - vals[1].ts <= Window
               /\ \A i \in 1 .. Len(vals) : new[i] = vals[i]
               /\ new[Len(new)] = p
            \/ /\ Len(new) = Len(vals)
               /\ \A i \in 1 .. Len(vals) - 1 : new[i] = vals[i + 1]
               /\ new[Len(new)] = p
<1>0. Window \in Int
  BY ChartAssumption DEF Window
<1> DEFINE all == Append(vals, p)
           new == Shifted(all)
<1>1. /\ all \in Seq(Points) /\ Len(all) = Len(vals) + 1 /\ Len(vals) \in Nat \ {0}
      /\ \A i \in 1 .. Len(vals) : all[i] = vals[i]
      /\ all[Len(vals) + 1] = p
  BY AppendProperties, EmptySeq
<1>2. all[Len(all)].ts = p.ts /\ all[1] = vals[1] /\ vals[1] \in Points
  BY <1>1, ElementOfSeq
<1>3. p.ts \in Int /\ vals[1].ts \in Int
  BY <1>2 DEF Points
<1> HIDE DEF all
<1>4. CASE p.ts - vals[1].ts > Window
  <2>1. new = Tail(all)
    BY <1>2, <1>4 DEF Shifted
  <2>2. /\ new \in Seq(Points) /\ Len(new) = Len(vals)
        /\ \A i \in 1 .. Len(vals) : new[i] = all[i + 1]
    BY <1>1, <2>1, HeadTailProperties, EmptySeq
  <2> HIDE DEF new
  <2>3. new # <<>> /\ new[Len(new)] = p /\ \A i \in 1 .. Len(vals) - 1 : new[i] = vals[i + 1]
    BY <1>1, <2>2
  <2> QED BY <2>2, <2>3 DEF new, all
<1>5. CASE ~(p.ts - vals[1].ts > Window)
  <2>1. new = all
    BY <1>2, <1>5 DEF Shifted
  <2>2. p.ts - vals[1].ts <= Window
    BY <1>0, <1>3, <1>5
  <2>3. new # <<>>
    BY <1>1, <2>1
  <2> HIDE DEF new
  <2> QED BY <1>1, <2>1, <2>2, <2>3 DEF new, all
<1> QED BY <1>4, <1>5

LEMMA DrawKeepsIInv ==
  ASSUME IInv, NEW r \in inFlight, DrawTPSChart(r)
  PROVE  IInv'
<1>0. /\ Window \in Nat /\ Period \in Nat \ {0} /\ Timeout \in Nat /\ CacheAge \in Nat
      /\ MaxTime \in Nat
  BY ChartAssumption DEF Window
<1>1. CASE UNCHANGED chart
  <2>1. inFlight' \subseteq inFlight /\ UNCHANGED <<server, lastSent, chart>>
    BY <1>1 DEF DrawTPSChart
  <2> QED BY <2>1, DropKeepsIInv
<1>2. CASE /\ r.ts # prevTsMs /\ prevTsMs' = r.ts /\ tcount0' = r.count /\ ahead' = ahead
           /\ tpsVals' = Shifted(Append(tpsVals, Point(r)))
  <2> DEFINE p == Point(r)
             n == Len(tpsVals')
  <2>1. /\ r.ts # Null /\ inFlight' = inFlight \ {r}
        /\ UNCHANGED <<clock, count, cache, lastSent, ahead>>
        /\ clock \in 1 .. MaxTime /\ count \in Nat /\ ahead \in Int /\ lastSent \in 1 .. clock
        /\ inFlight \subseteq CallSet
        /\ tpsVals \in Seq(Points) /\ tpsVals # <<>> /\ Len(tpsVals) \in Nat \ {0}
    BY <1>2, EmptySeq DEF DrawTPSChart, IInv, Rated, Types, server
  <2>2. /\ p \in Points /\ p.ts = r.ts /\ r.ts \in 1 .. clock
        /\ p.sent = r.sent /\ r.sent \in Int /\ Sensible(p)
    BY <1>2, <2>1, PointMakesSense
  <2>3. r.count \in Nat /\ AnswerOf(r) \in Answers
    <3>1. AnswerOf(r) \in Answers
      BY <2>1 DEF Answers
    <3> QED BY <3>1, <2>1 DEF IInv, Rated, Types, Answer, AnswerOf
  <2>4. Answers' \subseteq Answers /\ Answer' = Answer
    BY <1>2, <2>1, <2>3 DEF Answers, AnswerOf, Now, Drawn, Answer
  <2>5. Consistent'
    BY <2>4 DEF IInv, Rated, Consistent, Agree
  <2> HIDE DEF p
  <2>6. \/ /\ n = Len(tpsVals) + 1 /\ p.ts - tpsVals[1].ts <= Window
           /\ \A i \in 1 .. Len(tpsVals) : tpsVals'[i] = tpsVals[i]
           /\ tpsVals'[n] = p
        \/ /\ n = Len(tpsVals)
           /\ \A i \in 1 .. Len(tpsVals) - 1 : tpsVals'[i] = tpsVals[i + 1]
           /\ tpsVals'[n] = p
    BY <1>2, <2>1, <2>2, ShiftedAppend DEF p
  <2>7. tpsVals' \in Seq(Points) /\ tpsVals' # <<>> /\ n \in Nat \ {0}
    BY <1>2, <2>1, <2>2, <2>6, ShiftedAppend DEF p
  <2>8. \A i \in 1 .. Len(tpsVals) : tpsVals[i].ts \in Int /\ tpsVals[i].sent \in Int
    BY PointsAreNumbers
  <2>9. Types'
    <3>1. inFlight' \subseteq CallSet
      BY <2>1 DEF CallSet
    <3> QED BY <1>2, <2>1, <2>2, <2>3, <2>4, <2>7, <3>1 DEF Types, IInv, Rated, Null
  <2> HIDE DEF n
  <2>10. tpsVals'[n] = p
    BY <2>6
  \* The other points are old ones, in their order.
  <2>11. \E k \in {0, 1} : \A i \in 1 .. n - 1 :
           i + k \in 1 .. Len(tpsVals) /\ tpsVals'[i] = tpsVals[i + k]
    <3>1. CASE n = Len(tpsVals) + 1 /\ \A i \in 1 .. Len(tpsVals) : tpsVals'[i] = tpsVals[i]
      <4>1. \A i \in 1 .. n - 1 : i + 0 \in 1 .. Len(tpsVals) /\ tpsVals'[i] = tpsVals[i + 0]
        BY <2>1, <3>1
      <4> QED BY <4>1
    <3>2. CASE n = Len(tpsVals) /\ \A i \in 1 .. Len(tpsVals) - 1 : tpsVals'[i] = tpsVals[i + 1]
      <4>1. \A i \in 1 .. n - 1 : i + 1 \in 1 .. Len(tpsVals) /\ tpsVals'[i] = tpsVals[i + 1]
        BY <2>1, <3>2
      <4> QED BY <4>1
    <3> QED BY <2>6, <3>1, <3>2
  <2>12. PICK k \in {0, 1} : \A i \in 1 .. n - 1 :
           i + k \in 1 .. Len(tpsVals) /\ tpsVals'[i] = tpsVals[i + k]
    BY <2>11
  <2>13. RatesMakeSense'
    <3>1. \A i \in 1 .. Len(tpsVals) : Sensible(tpsVals[i])
      BY DEF IInv, Rated, RatesMakeSense, Sensible
    <3>2. \A i \in 1 .. n : Sensible(tpsVals'[i])
      <4>1. \A i \in 1 .. n - 1 : Sensible(tpsVals'[i])
        BY <2>12, <3>1
      <4>2. Sensible(tpsVals'[n])
        BY <2>2, <2>10
      <4> QED BY <2>7, <4>1, <4>2
    <3> QED BY <3>2 DEF RatesMakeSense, Sensible, n
  <2>14. Timed /\ Spread /\ Reach /\ MemoryBounded
    BY DEF IInv, Bounded
  <2>15. Timed'
    BY <2>1, <2>14 DEF Timed
  <2>16. r.sent \in 1 .. lastSent /\ clock <= r.sent + Timeout /\ r.sent <= r.ts + CacheAge
    BY <2>1, <2>14 DEF Timed
  <2>17. Spread'
    <3>1. \A a, b \in Int : Apart(a, b) => Apart(b, a)
      BY <1>0 DEF Apart
    <3>2. \A i \in 1 .. n, q \in inFlight' : Apart(tpsVals'[i].sent, q.sent)
      <4>1. \A i \in 1 .. n - 1, q \in inFlight' : Apart(tpsVals'[i].sent, q.sent)
        BY <2>1, <2>12, <2>14 DEF Spread
      <4>2. \A q \in inFlight' : Apart(tpsVals'[n].sent, q.sent)
        BY <2>1, <2>2, <2>10, <2>14 DEF Spread
      <4> QED BY <2>7, <4>1, <4>2
    <3>3. \A i \in 1 .. n : tpsVals'[i].sent <= lastSent
      <4>1. \A i \in 1 .. n - 1 : tpsVals'[i].sent <= lastSent
        BY <2>12, <2>14 DEF Spread
      <4>2. tpsVals'[n].sent <= lastSent
        BY <2>1, <2>2, <2>10, <2>16
      <4> QED BY <2>7, <4>1, <4>2
    <3>4. \A i \in 1 .. n - 1 : /\ Apart(tpsVals'[i].sent, tpsVals'[n].sent)
                                /\ Apart(tpsVals'[n].sent, tpsVals'[i].sent)
      BY <2>2, <2>8, <2>12, <2>10, <2>14, <3>1 DEF Spread
    <3>5. \A i, j \in 1 .. n - 1 : i # j => Apart(tpsVals'[i].sent, tpsVals'[j].sent)
      <4> SUFFICES ASSUME NEW i \in 1 .. n - 1, NEW j \in 1 .. n - 1, i # j
                   PROVE  Apart(tpsVals'[i].sent, tpsVals'[j].sent)
        OBVIOUS
      <4>1. i + k # j + k
        BY <2>7
      <4> QED BY <2>12, <2>14, <4>1 DEF Spread
    <3>6. \A i, j \in 1 .. n : i # j => Apart(tpsVals'[i].sent, tpsVals'[j].sent)
      BY <2>7, <3>4, <3>5
    <3>7. \A q, s \in inFlight' : q # s => Apart(q.sent, s.sent)
      BY <2>1, <2>14 DEF Spread
    <3> QED BY <2>1, <3>2, <3>3, <3>6, <3>7 DEF Spread, Apart, n
  <2>18. Ahead \in Nat /\ Ahead' = Ahead
    BY <2>1 DEF Ahead
  <2>19. Reach'
    <3>1. \A i \in 1 .. n - 1 : tpsVals'[i].ts <= clock + Ahead /\ tpsVals'[i].ts \in Int
      BY <2>8, <2>12, <2>14 DEF Reach
    <3>2. tpsVals'[n].ts <= clock + Ahead /\ tpsVals'[n].ts \in Int
      BY <2>1, <2>2, <2>10, <2>18
    <3>3. \A i \in 1 .. n : tpsVals'[i].ts <= clock + Ahead /\ tpsVals'[i].ts \in Int
      BY <2>7, <3>1, <3>2
    <3>4. \A i \in 1 .. n : tpsVals'[i].ts <= tpsVals'[n].sent + Timeout + Ahead
      <4>1. \A a, c, q, t, h \in Int : a <= c + h /\ c <= q + t => a <= q + t + h
        OBVIOUS
      <4>2. clock <= tpsVals'[n].sent + Timeout /\ tpsVals'[n].sent \in Int
        BY <2>2, <2>10, <2>16
      <4>3. clock \in Int /\ Timeout \in Int /\ Ahead \in Int
        BY <1>0, <2>1, <2>18
      <4> QED BY <3>3, <4>1, <4>2, <4>3
    <3>5. \A i \in 1 .. n - 1, j \in 1 .. n - 1 :
            i <= j => tpsVals'[i].ts <= tpsVals'[j].sent + Timeout + Ahead
      <4> SUFFICES ASSUME NEW i \in 1 .. n - 1, NEW j \in 1 .. n - 1, i <= j
                   PROVE  tpsVals'[i].ts <= tpsVals'[j].sent + Timeout + Ahead
        OBVIOUS
      <4>1. j + k \in (i + k) .. Len(tpsVals)
        BY <2>7, <2>12
      <4> QED BY <2>12, <2>14, <4>1 DEF Reach
    <3>6. \A i \in 1 .. n : \A j \in i .. n :
            tpsVals'[i].ts <= tpsVals'[j].sent + Timeout + Ahead
      BY <2>7, <3>4, <3>5
    <3> QED BY <2>1, <2>18, <3>3, <3>6 DEF Reach, n
  <2>20. MemoryBounded'
    <3> DEFINE span == Window + 2 * Timeout + CacheAge + Ahead
    <3>1. span \in Nat
      BY <1>0, <2>18
    <3>2. (n - 1) * Period <= span
      <4>1. CASE n = Len(tpsVals)
        BY <2>14, <4>1 DEF MemoryBounded, Ahead
      <4>2. CASE n = Len(tpsVals) + 1 /\ p.ts - tpsVals[1].ts <= Window /\ tpsVals'[1] = tpsVals[1]
        <5> DEFINE lo == tpsVals[1].ts - Timeout - Ahead
                   s == [i \in 1 .. n |-> tpsVals'[i].sent]
        <5>1. lo \in Int
          BY <1>0, <2>1, <2>8, <2>18
        <5>2. \A i \in 1 .. n : tpsVals'[i].sent \in Int
          <6>1. \A i \in 1 .. n - 1 : tpsVals'[i].sent \in Int
            BY <2>8, <2>12
          <6>2. tpsVals'[n].sent \in Int
            BY <2>2, <2>10
          <6> QED BY <2>7, <6>1, <6>2
        <5>3. \A i \in 1 .. n : lo <= tpsVals'[i].sent
          <6>1. \A i \in 1 .. n : tpsVals'[1].ts <= tpsVals'[i].sent + Timeout + Ahead
            BY <2>7, <2>18, <2>19 DEF Reach, n
          <6>2. \A a, q, t, h \in Int : a <= q + t + h => a - t - h <= q
            OBVIOUS
          <6>3. /\ tpsVals'[1].ts = tpsVals[1].ts /\ tpsVals[1].ts \in Int
                /\ Timeout \in Int /\ Ahead \in Int
            BY <1>0, <2>1, <2>8, <2>18, <4>2
          <6> QED BY <5>2, <6>1, <6>2, <6>3
        <5>4. \A i \in 1 .. n : tpsVals'[i].sent <= lo + span
          <6>1. \A i \in 1 .. n : tpsVals'[i].sent <= lastSent
            BY <2>1, <2>17 DEF Spread, n
          <6>2. clock <= tpsVals[1].ts + Window + CacheAge + Timeout
            <7>1. tpsVals[1].ts \in Int /\ r.ts \in Int /\ r.ts - tpsVals[1].ts <= Window
              BY <2>1, <2>2, <2>8, <4>2
            <7>2. clock <= (r.ts + CacheAge) + Timeout
              BY <1>0, <2>1, <2>2, <2>16, <7>1
            <7>3. \A c, a, v, w, g, t \in Int :
                    c <= (a + g) + t /\ a - v <= w => c <= v + w + g + t
              OBVIOUS
            <7>4. clock \in Int /\ Window \in Int /\ CacheAge \in Int /\ Timeout \in Int
              BY <1>0, <2>1
            <7> QED BY <7>1, <7>2, <7>3, <7>4
          <6>3. lo + span = tpsVals[1].ts + Window + CacheAge + Timeout
            <7>1. \A a, w, t, c, h \in Int : (a - t - h) + (w + 2 * t + c + h) = a + w + c + t
              OBVIOUS
            <7>2. /\ tpsVals[1].ts \in Int /\ Window \in Int /\ Timeout \in Int
                  /\ CacheAge \in Int /\ Ahead \in Int
              BY <1>0, <2>1, <2>2, <2>8, <2>18, <4>2
            <7> QED BY <7>1, <7>2
          <6> QED BY <2>1, <5>1, <5>2, <3>1, <6>1, <6>2, <6>3
        <5>5. \A i, j \in 1 .. n : i # j => Apart(tpsVals'[i].sent, tpsVals'[j].sent)
          BY <2>17 DEF Spread, Apart, n
        <5>6. s \in [1 .. n -> Int] /\ \A i \in 1 .. n : s[i] = tpsVals'[i].sent
          BY <5>2
        <5> HIDE DEF lo, s, span
        <5>7. /\ \A i \in 1 .. n : lo <= s[i] /\ s[i] <= lo + span
              /\ \A i, j \in 1 .. n : i # j => Apart(s[i], s[j])
          BY <5>3, <5>4, <5>5, <5>6
        <5> QED BY <2>7, <3>1, <5>1, <5>6, <5>7, FewApart
      <4> QED BY <2>1, <2>6, <4>1, <4>2 DEF n
    <3> QED BY <2>1, <3>2 DEF MemoryBounded, Ahead, n
  <2> QED BY <2>5, <2>9, <2>13, <2>15, <2>17, <2>19, <2>20 DEF IInv, Rated, Bounded
<1> QED BY <1>1, <1>2 DEF DrawTPSChart, chart

LEMMA NextKeepsIInv == IInv /\ [Next]_vars => IInv'
<1> SUFFICES ASSUME IInv, [Next]_vars PROVE IInv'
  OBVIOUS
<1>1. CASE UNCHANGED vars
  BY <1>1, DropKeepsIInv DEF vars, calls
<1>2. ASSUME NEW r \in inFlight, Drop(r) PROVE IInv'
  BY <1>2, DropKeepsIInv DEF Drop
<1> QED BY <1>1, <1>2, WorkKeepsIInv, RefreshKeepsIInv, ExecuteKeepsIInv, DrawKeepsIInv DEF Next

LEMMA IInvHolds == Spec => []IInv
BY InitIInv, NextKeepsIInv, PTL DEF Spec

-----------------------------------------------------------------------------
\* The counter and the time that the next rate is computed from are those of one
\* answer, or both are null (voltdb-dashboard.js:119-137).
THEOREM ChartTypeCorrect == Spec => []TypeOK
<1>1. IInv => TypeOK
  <2> SUFFICES ASSUME IInv PROVE TypeOK
    OBVIOUS
  <2>1. Types /\ Timed
    BY DEF IInv, Rated, Bounded
  <2>2. clock \in 1 .. MaxTime /\ lastSent \in 1 .. clock /\ MaxTime \in Nat /\ tpsVals # <<>>
    BY <2>1, ChartAssumption DEF Types
  <2>3. cache.ts \in 1 .. clock /\ cache.count \in 0 .. count
    BY <2>1 DEF Types, Answer
  <2>4. ASSUME NEW r \in inFlight
        PROVE  r.sent \in 1 .. clock
               /\ (r.ts # Null => r.ts \in 1 .. clock /\ r.count \in 0 .. count)
    <3>1. r.sent \in 1 .. clock
      BY <2>1, <2>2 DEF Timed
    <3>2. r.ts # Null => AnswerOf(r) \in Answer
      BY <2>1 DEF Types, Answers
    <3> QED BY <3>1, <3>2 DEF Answer, AnswerOf
  <2>5. prevTsMs # Null => prevTsMs \in 1 .. clock /\ tcount0 \in 0 .. count
    <3>1. prevTsMs # Null => Drawn \in Answer
      BY <2>1 DEF Types, Answers
    <3> QED BY <3>1 DEF Answer, Drawn
  <2>6. (prevTsMs = Null) = (tcount0 = Null)
    BY <2>1 DEF Types, Null
  <2> QED BY <2>2, <2>3, <2>4, <2>5, <2>6 DEF TypeOK
<1> QED BY <1>1, IInvHolds, PTL

\* No rate is negative or divided by zero, in whatever order the answers arrive and
\* however often the database answers from its cache (voltdb-dashboard.js:119-137).
THEOREM ChartRatesMakeSense == Spec => []RatesMakeSense
<1>1. IInv => RatesMakeSense
  BY DEF IInv, Rated
<1> QED BY <1>1, IInvHolds, PTL

\* One shift for each point bounds the chart's memory, by a constant, whatever comes
\* late, in a burst, out of order or not at all (voltdb-dashboard.js:141-144).
THEOREM ChartMemoryBounded == Spec => []MemoryBounded
<1>1. IInv => MemoryBounded
  BY DEF IInv, Bounded
<1> QED BY <1>1, IInvHolds, PTL
=============================================================================
