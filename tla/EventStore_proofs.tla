------------------------- MODULE EventStore_proofs --------------------------
(***************************************************************************)
(* Proofs about the event store, for every value of its constants.         *)
(*                                                                         *)
(* The inductive invariant is IInv: what was inserted is well typed and    *)
(* finite, what has left the table is old, and the stream holds the starts *)
(* of the sessions and nothing else.  The last two need each other: that a *)
(* view of a shrinking table still answers for all history rests on what   *)
(* has left it being too old to matter.                                    *)
(***************************************************************************)
EXTENDS EventStore, EventsTable_proofs

IInv == TypeOK /\ AgedOutOnly /\ EverySessionExported /\ SessionExact

-----------------------------------------------------------------------------
(* Seconds and the session view. *)

LEMMA SecondsBeforeBounds ==
  ASSUME NEW ts \in Int, NEW seconds \in Nat
  PROVE  /\ TruncateToSecond(ts) \in Int
         /\ ts - TicksPerSecond < TruncateToSecond(ts)
         /\ TruncateToSecond(ts) <= ts
         /\ SecondsBefore(ts, seconds) = TruncateToSecond(ts) - seconds * TicksPerSecond
         /\ SecondsBefore(ts, seconds) \in Int
BY ClockAssumption DEF TruncateToSecond, SecondsBefore

LEMMA TruncateMonotone ==
  ASSUME NEW a \in Int, NEW b \in Int, a <= b
  PROVE  TruncateToSecond(a) <= TruncateToSecond(b)
<1>1. a \div TicksPerSecond \in Int /\ b \div TicksPerSecond \in Int
  BY ClockAssumption
<1>2. a \div TicksPerSecond <= b \div TicksPerSecond
  BY ClockAssumption
<1> QED BY <1>1, <1>2, ClockAssumption DEF TruncateToSecond

\* checkSession finds a row exactly when some row of the pair is recent enough:
\* asking the view's MAX(ts) is as good as asking every row.
LEMMA HasExportedIff ==
  ASSUME NEW rows, Dated(rows), NEW src, NEW dest, NEW ts \in Int
  PROVE  HasExported(rows, src, dest, ts) <=>
           \E r \in rows : /\ r.src = src /\ r.dest = dest
                           /\ SecondsBefore(ts, SessionSeconds) <= r.ts
<1> DEFINE bound == SecondsBefore(ts, SessionSeconds)
<1>0. bound \in Int
  BY SecondsBeforeBounds, ClockAssumption
<1>1. ASSUME HasExported(rows, src, dest, ts)
      PROVE  \E r \in rows : r.src = src /\ r.dest = dest /\ bound <= r.ts
  BY <1>1 DEF HasExported, EventsSessions
<1>2. ASSUME NEW r \in rows, r.src = src, r.dest = dest, bound <= r.ts
      PROVE  HasExported(rows, src, dest, ts)
  <2> DEFINE pair == {x \in rows : SamePair(r, x)}
  <2>1. Dated(pair) /\ pair # {}
    <3>1. pair \subseteq rows /\ r \in pair
      BY DEF SamePair
    <3> QED BY <3>1, FS_Subset DEF Dated
  <2>2. PICK x \in pair : \A y \in pair : y.ts <= x.ts
    BY <2>1, NewestExists
  <2>3. x \in rows /\ x.src = src /\ x.dest = dest
    BY <1>2 DEF SamePair
  <2>4. \A y \in rows : SamePair(x, y) => y.ts <= x.ts
    BY <2>2 DEF SamePair
  <2>5. r \in pair
    BY DEF SamePair
  <2>6. bound <= x.ts
    BY <1>0, <1>2, <2>2, <2>3, <2>5 DEF Dated
  <2>7. [src |-> x.src, dest |-> x.dest, last_ts |-> x.ts] \in EventsSessions(rows)
    BY <2>3, <2>4 DEF EventsSessions
  <2> QED BY <2>3, <2>6, <2>7 DEF HasExported
<1> QED BY <1>1, <1>2
-----------------------------------------------------------------------------
(* The steps. *)

LEMMA InitIInv == Init => IInv
<1> SUFFICES ASSUME Init PROVE IInv
  OBVIOUS
<1>1. IsFiniteSet({}) /\ Cardinality({}) = 0
  BY FS_EmptySet
<1>2. TypeOK
  BY <1>1 DEF Init, TypeOK
<1> QED BY <1>2 DEF Init, IInv, AgedOutOnly, EverySessionExported, SessionExact

\* A step that inserts nothing, writes nothing to the stream and lets rows go
\* only when they are old keeps the invariant.
LEMMA NoInsert ==
  ASSUME IInv, UNCHANGED <<inserted, exported>>, events' \subseteq events,
         now' \in Nat, now' >= now,
         dests' \subseteq DestRows, agents' \subseteq AgentRows,
         clusters' \in Models \cup {{}}, persisted' \subseteq exported,
         HistorySeconds > 0 =>
           \A r \in events \ events' : r.ts <= now - HistorySeconds * TicksPerSecond
  PROVE  IInv'
<1>1. TypeOK'
  BY DEF IInv, TypeOK
<1>2. AgedOutOnly'
  <2> SUFFICES ASSUME HistorySeconds > 0, NEW r \in inserted \ events'
               PROVE  r.ts <= now' - HistorySeconds * TicksPerSecond
    BY DEF AgedOutOnly
  <2>1. r.ts <= now - HistorySeconds * TicksPerSecond
    BY DEF IInv, AgedOutOnly
  <2>2. r.ts \in Int /\ now \in Nat /\ HistorySeconds * TicksPerSecond \in Int
    BY ClockAssumption DEF IInv, TypeOK, Row
  <2> QED BY <2>1, <2>2
<1>3. EverySessionExported'
  BY DEF IInv, EverySessionExported
<1>4. SessionExact'
  BY DEF IInv, SessionExact
<1> QED BY <1>1, <1>2, <1>3, <1>4 DEF IInv

\* A deletion transaction of partition p, whatever procedure it runs.
LEMMA ReplaceKeeps ==
  ASSUME IInv, NEW p, NEW result, Replace(p, result), result.rows \subseteq RowsOf(p),
         HistorySeconds > 0 =>
           \A r \in RowsOf(p) \ result.rows :
             r.ts <= now - HistorySeconds * TicksPerSecond
  PROVE  IInv'
<1>1. events' \subseteq events
  BY DEF Replace, RowsOf
<1>2. \A r \in events \ events' : r \in RowsOf(p) \ result.rows
  BY DEF Replace
<1>3. now' = now /\ UNCHANGED <<dests, agents, clusters, persisted>>
  BY DEF Replace, tables, streams
<1>4. UNCHANGED <<inserted, exported>>
  BY DEF Replace, streams
<1>5. now \in Nat
  BY DEF IInv, TypeOK
<1> QED BY <1>1, <1>2, <1>3, <1>4, <1>5, NoInsert DEF IInv, TypeOK

LEMMA RowsOfDated ==
  ASSUME TypeOK, NEW p
  PROVE  Dated(RowsOf(p)) /\ Dated(events)
<1>1. RowsOf(p) \subseteq inserted /\ events \subseteq inserted
  BY DEF TypeOK, RowsOf
<1>2. \A r \in inserted : r.ts \in Int
  BY DEF TypeOK, Row
<1> QED BY <1>1, <1>2, FS_Subset DEF TypeOK, Dated

LEMMA DeleteByDateKeeps ==
  ASSUME IInv, NEW p \in Partition, NEW date \in TargetDates, DeleteByDate(p, date)
  PROVE  IInv'
<1> DEFINE result == DeleteAfterDate(RowsOf(p), date, ChunkSize)
<1>1. Dated(RowsOf(p))
  BY RowsOfDated DEF IInv
<1>2. date \in Int /\ date <= now - HistorySeconds * TicksPerSecond
  BY DEF TargetDates
<1>3. ASSUME NEW r \in RowsOf(p) \ result.rows
      PROVE  r.ts <= now - HistorySeconds * TicksPerSecond
  <2>1. r.ts <= date
    BY <1>1, <1>2, NibblerAssumption, DeleteAfterDateWithin
  <2>2. r.ts \in Int /\ now - HistorySeconds * TicksPerSecond \in Int
    BY <1>1, ClockAssumption DEF Dated, IInv, TypeOK
  <2> QED BY <1>2, <2>1, <2>2
<1>4. result.rows \subseteq RowsOf(p)
  BY DeletesOnly
<1> QED BY <1>3, <1>4, ReplaceKeeps DEF DeleteByDate

LEMMA DeleteByCountKeeps ==
  ASSUME IInv, NEW p \in Partition, DeleteByCount(p)
  PROVE  IInv'
<1>1. DeleteOldestToTarget(RowsOf(p), MaxRows, ChunkSize).rows \subseteq RowsOf(p)
  BY DeletesOnly
<1>2. ~(HistorySeconds > 0)
  BY DEF DeleteByCount
<1> QED BY <1>1, <1>2, ReplaceKeeps DEF DeleteByCount

\* What has left the table is too old to be in the session of a new click.
LEMMA SessionBeforeHistory ==
  ASSUME RetentionCoversSession, IInv, NEW ts \in Int, ts >= now - MaxDelay,
         NEW s \in inserted \ events
  PROVE  s.ts < SecondsBefore(ts, SessionSeconds)
<1> DEFINE T == TicksPerSecond
<1>1. /\ T \in Nat /\ T > 0 /\ SessionSeconds \in Nat /\ HistorySeconds \in Nat
      /\ MaxDelay \in Nat /\ now \in Int /\ s.ts \in Int
  BY ClockAssumption DEF IInv, TypeOK, Row
<1>2. /\ HistorySeconds * T \in Int /\ SessionSeconds * T \in Nat
      /\ (SessionSeconds + 1) * T = SessionSeconds * T + T
  BY <1>1
<1>3. HistorySeconds * T >= SessionSeconds * T + T + MaxDelay
  BY <1>2 DEF RetentionCoversSession
<1>4. HistorySeconds > 0
  BY <1>1, <1>2, <1>3
<1>5. s.ts <= now - HistorySeconds * T
  BY <1>4 DEF IInv, AgedOutOnly
<1>6. /\ SecondsBefore(ts, SessionSeconds) = TruncateToSecond(ts) - SessionSeconds * T
      /\ TruncateToSecond(ts) \in Int /\ ts - T < TruncateToSecond(ts)
  BY <1>1, SecondsBeforeBounds
<1> QED BY <1>1, <1>2, <1>3, <1>5, <1>6

LEMMA NewEventKeeps ==
  ASSUME IInv, NEW click \in Clicks, NEW ts \in Int, ts <= now, ts >= now - MaxDelay,
         NewEvent(click, ts)
  PROVE  IInv'
<1> DEFINE n == Cardinality(inserted)
<1>1. PICK dest \in GetUrlId(click.dest), referral \in GetUrlId(click.referral),
           agent \in GetAgentId(click.agent) :
        \E cluster \in GetCluster(click.src, dest, referral, agent) :
          LET row == [id |-> n + 1, src |-> click.src, dest |-> dest, ts |-> ts,
                      cluster |-> cluster]
          IN  /\ events' = events \cup {row}
              /\ inserted' = inserted \cup {row}
              /\ exported' = IF HasExported(events, click.src, dest, ts)
                             THEN exported ELSE exported \cup {row}
  BY DEF NewEvent
<1>2. PICK cluster \in GetCluster(click.src, dest, referral, agent) :
        LET row == [id |-> n + 1, src |-> click.src, dest |-> dest, ts |-> ts,
                    cluster |-> cluster]
        IN  /\ events' = events \cup {row}
            /\ inserted' = inserted \cup {row}
            /\ exported' = IF HasExported(events, click.src, dest, ts)
                           THEN exported ELSE exported \cup {row}
  BY <1>1
<1> DEFINE row == [id |-> n + 1, src |-> click.src, dest |-> dest, ts |-> ts,
                   cluster |-> cluster]
           found == HasExported(events, click.src, dest, ts)
<1>3. /\ events' = events \cup {row} /\ inserted' = inserted \cup {row}
      /\ exported' = IF found THEN exported ELSE exported \cup {row}
      /\ UNCHANGED <<now, dests, agents, clusters, persisted>>
  BY <1>2 DEF NewEvent, tables
<1>4. /\ n \in Nat /\ now \in Nat
      /\ \A r \in inserted : r \in Row /\ r.id \in Nat /\ r.id <= n /\ r.ts \in Int
  BY FS_CardinalityType DEF IInv, TypeOK, Row
<1>5. row \notin inserted
  BY <1>4
<1>6. row \in Row
  <2>1. click.src \in Src
    BY DataAssumption
  <2>2. dest \in Int
    BY DataAssumption DEF GetUrlId, IInv, TypeOK
  <2>3. cluster \in Int \cup {NoCluster}
    BY DataAssumption DEF GetCluster, IInv, TypeOK
  <2> QED BY <1>4, <2>1, <2>2, <2>3 DEF Row
<1> HIDE DEF row, found
<1>r. row.id = n + 1 /\ row.src = click.src /\ row.dest = dest /\ row.ts = ts
  BY DEF row
<1>7. TypeOK'
  <2>1. IsFiniteSet(inserted') /\ Cardinality(inserted') = n + 1
    BY <1>3, <1>5, FS_AddElement DEF IInv, TypeOK
  <2>2. inserted' \subseteq Row
    BY <1>3, <1>6 DEF IInv, TypeOK
  <2>3. \A r \in inserted' : r.id <= Cardinality(inserted')
    BY <1>3, <1>4, <1>r, <2>1
  <2>4. \A r, s \in inserted' : r.id = s.id => r = s
    BY <1>3, <1>4, <1>r DEF IInv, TypeOK
  <2>5. events' \subseteq inserted' /\ exported' \subseteq inserted'
        /\ persisted' \subseteq exported'
    BY <1>3 DEF IInv, TypeOK
  <2> QED BY <1>3, <2>1, <2>2, <2>3, <2>4, <2>5 DEF IInv, TypeOK
<1>8. AgedOutOnly'
  BY <1>3 DEF IInv, AgedOutOnly
<1>9. found <=> \E s \in events : /\ SamePair(row, s)
                                  /\ SecondsBefore(ts, SessionSeconds) <= s.ts
  <2>1. Dated(events)
    BY RowsOfDated DEF IInv
  <2>2. found <=> \E s \in events : /\ s.src = click.src /\ s.dest = dest
                                    /\ SecondsBefore(ts, SessionSeconds) <= s.ts
    BY <2>1, HasExportedIff DEF found
  <2> QED BY <2>2, <1>r DEF SamePair
<1>10. EverySessionExported'
  <2> SUFFICES ASSUME NEW r \in inserted'
               PROVE  \E x \in exported' : SamePair(r, x) /\ x.id <= r.id
    BY DEF EverySessionExported
  <2>1. CASE r \in inserted
    BY <2>1, <1>3 DEF IInv, EverySessionExported
  <2>2. CASE r = row /\ ~found
    BY <2>2, <1>3, <1>4, <1>r DEF SamePair
  <2>3. CASE r = row /\ found
    <3>1. PICK s \in events : SamePair(row, s)
      BY <2>3, <1>9
    <3>2. s \in inserted
      BY DEF IInv, TypeOK
    <3>3. PICK x \in exported : SamePair(s, x) /\ x.id <= s.id
      BY <3>2 DEF IInv, EverySessionExported
    <3>4. x \in inserted
      BY DEF IInv, TypeOK
    <3>5. SamePair(row, x) /\ x.id <= row.id
      BY <1>4, <1>r, <3>1, <3>2, <3>3, <3>4 DEF SamePair
    <3> QED BY <1>3, <2>3, <3>5
  <2> QED BY <1>3, <2>1, <2>2, <2>3
<1>11. SessionExact'
  <2> SUFFICES ASSUME RetentionCoversSession, NEW r \in inserted'
               PROVE  r \in exported' <=>
                        \A s \in inserted' : SamePair(r, s) /\ s.id < r.id =>
                          s.ts < SecondsBefore(r.ts, SessionSeconds)
    BY DEF SessionExact, RetentionCoversSession
  <2>1. CASE r \in inserted
    <3>1. r \in exported' <=> r \in exported
      BY <1>3, <1>5, <2>1
    <3>2. ~(row.id < r.id)
      BY <1>4, <1>r, <2>1
    <3>3. r \in exported <=>
            \A s \in inserted : SamePair(r, s) /\ s.id < r.id =>
              s.ts < SecondsBefore(r.ts, SessionSeconds)
      BY <2>1 DEF IInv, SessionExact
    <3> QED BY <1>3, <3>1, <3>2, <3>3
  <2>2. CASE r = row
    <3>1. row \in exported' <=> ~found
      BY <1>3, <1>5 DEF IInv, TypeOK
    <3>2. \A s \in inserted \ events : s.ts < SecondsBefore(ts, SessionSeconds)
      BY SessionBeforeHistory
    <3>3. SecondsBefore(ts, SessionSeconds) \in Int
      BY SecondsBeforeBounds, ClockAssumption
    <3>4. found <=> \E s \in inserted : /\ SamePair(row, s)
                                        /\ SecondsBefore(ts, SessionSeconds) <= s.ts
      BY <1>4, <1>9, <3>2, <3>3 DEF IInv, TypeOK
    <3>5. \A s \in inserted : s.id < row.id
      BY <1>4, <1>r
    <3> QED BY <1>3, <1>4, <1>r, <2>2, <3>1, <3>3, <3>4, <3>5
  <2> QED BY <1>3, <2>1, <2>2
<1> QED BY <1>7, <1>8, <1>10, <1>11 DEF IInv
-----------------------------------------------------------------------------
(* The theorems. *)

LEMMA NextIInv == IInv /\ [Next]_vars => IInv'
<1> SUFFICES ASSUME IInv, [Next]_vars PROVE IInv'
  OBVIOUS
<1> USE DEF tables, streams
<1>t. TypeOK /\ now \in Nat
  BY DEF IInv, TypeOK
<1>1. CASE Tick
  BY <1>1, <1>t, NoInsert DEF Tick, TypeOK
<1>2. ASSUME NEW d \in DestRows, DestsInsert(d) PROVE IInv'
  BY <1>2, <1>t, NoInsert DEF DestsInsert, TypeOK
<1>3. ASSUME NEW a \in AgentRows, AgentsInsert(a) PROVE IInv'
  BY <1>3, <1>t, NoInsert DEF AgentsInsert, TypeOK
<1>4. ASSUME NEW click \in Clicks, NEW ts \in (now - MaxDelay .. now) \cap Nat,
             NewEvent(click, ts)
      PROVE  IInv'
  BY <1>4, <1>t, NewEventKeeps, ClockAssumption
<1>5. ASSUME NEW p \in Partition, NEW date \in TargetDates, DeleteByDate(p, date)
      PROVE  IInv'
  BY <1>5, DeleteByDateKeeps
<1>6. ASSUME NEW p \in Partition, DeleteByCount(p) PROVE IInv'
  BY <1>6, DeleteByCountKeeps
<1>7. ASSUME NEW model \in Models, LoadDsa(model) PROVE IInv'
  BY <1>7, <1>t, NoInsert DEF LoadDsa, TypeOK
<1>8. ASSUME NEW x \in exported \ persisted, Persist(x) PROVE IInv'
  BY <1>8, <1>t, NoInsert DEF Persist, TypeOK
<1>9. CASE UNCHANGED vars
  BY <1>9, <1>t, NoInsert DEF vars, TypeOK
<1> QED BY <1>1, <1>2, <1>3, <1>4, <1>5, <1>6, <1>7, <1>8, <1>9 DEF Next

LEMMA Invariance == Spec => []IInv
BY InitIInv, NextIInv, PTL DEF Spec

\* The tables keep the types of their columns, and the history of inserts is
\* finite and numbered without repetition (the type invariant).
THEOREM TypeCorrect == Spec => []TypeOK
<1>1. IInv => TypeOK
  BY DEF IInv
<1> QED BY <1>1, Invariance, PTL

\* With a history target no delete, chunked or late, takes a row that is not
\* older than the target (DeleteAfterDate.java:65-95).
THEOREM AgedOutOnlyHolds == Spec => []AgedOutOnly
<1>1. IInv => AgedOutOnly
  BY DEF IInv
<1> QED BY <1>1, Invariance, PTL

\* Every event is represented in the stream by an event of its pair committed
\* no later, whatever is deleted (NewEvent.java:63-75).
THEOREM EverySessionExportedHolds == Spec => []EverySessionExported
<1>1. IInv => EverySessionExported
  BY DEF IInv
<1> QED BY <1>1, Invariance, PTL

\* The stream holds exactly the starts of the sessions, when the nibbler keeps
\* a second more than a session and a click's delay (NewEvent.java:40-75).
THEOREM SessionExactHolds == Spec => []SessionExact
<1>1. IInv => SessionExact
  BY DEF IInv
<1> QED BY <1>1, Invariance, PTL

LEMMA WindowComplete ==
  ASSUME IInv, HistorySeconds > QuerySeconds
  PROVE  Window(events) = Window(inserted)
<1> DEFINE T == TicksPerSecond
<1>1. events \subseteq inserted
  BY DEF IInv, TypeOK
<1>2. ASSUME NEW r \in inserted \ events
      PROVE  ~(SecondsBefore(now, QuerySeconds) <= TruncateToSecond(r.ts))
  <2>1. /\ T \in Nat /\ T > 0 /\ QuerySeconds \in Nat /\ HistorySeconds \in Nat
        /\ now \in Int /\ r.ts \in Int /\ HistorySeconds > 0
    BY ClockAssumption DEF IInv, TypeOK, Row
  <2>2. r.ts <= now - HistorySeconds * T
    BY <2>1 DEF IInv, AgedOutOnly
  <2>3. HistorySeconds * T >= (QuerySeconds + 1) * T /\ HistorySeconds * T \in Int
        /\ (QuerySeconds + 1) * T = QuerySeconds * T + T /\ QuerySeconds * T \in Int
    BY <2>1
  <2>4. TruncateToSecond(r.ts) \in Int /\ TruncateToSecond(r.ts) <= r.ts
    BY <2>1, SecondsBeforeBounds
  <2>5. /\ SecondsBefore(now, QuerySeconds) = TruncateToSecond(now) - QuerySeconds * T
        /\ TruncateToSecond(now) \in Int /\ now - T < TruncateToSecond(now)
    BY <2>1, SecondsBeforeBounds
  <2> QED BY <2>1, <2>2, <2>3, <2>4, <2>5
<1> QED BY <1>1, <1>2 DEF Window

\* The moving-window queries of the dashboard answer as if nothing had been
\* deleted, when the nibbler keeps more seconds than they look back.
THEOREM DashboardExactHolds == Spec => []DashboardExact
<1>1. IInv => DashboardExact
  BY WindowComplete DEF DashboardExact, GetTopUsers, GetTopDests, GetEventsByCluster
<1> QED BY <1>1, Invariance, PTL

\* Every delete takes the oldest rows of its partition, so that replicas which
\* run the same calls agree (DeleteAfterDate.java:34-39).
THEOREM OldestFirstHolds == Spec => OldestFirst
<1> DEFINE Taken == \A r \in events \ events', s \in events' :
                      PartitionOf[r.src] = PartitionOf[s.src] => r.ts < s.ts
<1>1. IInv /\ [Next]_vars => [Taken]_vars
  <2> SUFFICES ASSUME IInv, [Next]_vars, ~(events \subseteq events')
               PROVE  Taken
    BY DEF vars
  <2>1. PICK p \in Partition : \/ DeleteByCount(p)
                               \/ \E date \in TargetDates : DeleteByDate(p, date)
    BY DEF Next, Tick, DestsInsert, AgentsInsert, NewEvent, LoadDsa, Persist, vars
  <2>2. Dated(RowsOf(p)) /\ MaxRows \in Int /\ ChunkSize \in Int
    BY RowsOfDated, NibblerAssumption DEF IInv
  <2>3. ASSUME NEW result, Replace(p, result), result.rows \subseteq RowsOf(p),
               \A r \in RowsOf(p) \ result.rows, s \in result.rows : r.ts < s.ts
        PROVE  Taken
    BY <2>3 DEF Replace, RowsOf
  <2>4. CASE DeleteByCount(p)
    BY <2>2, <2>3, <2>4, DeletesOnly, DeleteOldestToTargetOldest DEF DeleteByCount
  <2>5. ASSUME NEW date \in TargetDates, DeleteByDate(p, date) PROVE Taken
    <3>1. date \in Int
      BY DEF TargetDates
    <3> QED BY <2>2, <2>3, <2>5, <3>1, DeletesOnly, DeleteAfterDateOldest DEF DeleteByDate
  <2> QED BY <2>1, <2>4, <2>5
<1> QED BY <1>1, Invariance, PTL DEF Spec, OldestFirst

\* A call that has rows to delete deletes some: with a history target always, and in row
\* count mode for a share above zero (DeleteAfterDate.java:85-89,
\* DeleteOldestToTarget.java:104-110).
THEOREM DeleteMakesProgressHolds ==
  HistorySeconds > 0 \/ MaxRows > 0 => (Spec => []DeleteMakesProgress)
<1> SUFFICES ASSUME HistorySeconds > 0 \/ MaxRows > 0
             PROVE  Spec => []DeleteMakesProgress
  OBVIOUS
<1>1. IInv => DeleteMakesProgress
  <2> SUFFICES ASSUME IInv, NEW p \in Partition
               PROVE  IF HistorySeconds > 0
                      THEN \A date \in TargetDates :
                             UpTo(RowsOf(p), date) # {} =>
                               DeleteAfterDate(RowsOf(p), date, ChunkSize).deleted > 0
                      ELSE Cardinality(RowsOf(p)) > MaxRows =>
                             DeleteOldestToTarget(RowsOf(p), MaxRows, ChunkSize).deleted > 0
    BY DEF DeleteMakesProgress
  <2>1. Dated(RowsOf(p)) /\ ChunkSize \in Nat \ {0}
    BY RowsOfDated, NibblerAssumption DEF IInv
  <2>2. \A date \in TargetDates : date \in Int
    BY DEF TargetDates
  <2>3. CASE HistorySeconds > 0
    BY <2>1, <2>2, <2>3, DeleteAfterDateProgress
  <2>4. CASE ~(HistorySeconds > 0)
    <3>1. MaxRows \in Nat \ {0}
      BY <2>4, NibblerAssumption
    <3> QED BY <2>1, <2>4, <3>1, DeleteOldestProgress
  <2> QED BY <2>3, <2>4
<1> QED BY <1>1, Invariance, PTL

-----------------------------------------------------------------------------
(* How much a delete takes. *)

\* A step that takes rows is a call to one partition that commits.
LEMMA TakenByACall ==
  ASSUME IInv, [Next]_vars, NEW q \in Partition, Gone(q) # {}
  PROVE  \E result :
           /\ Gone(q) = RowsOf(q) \ result.rows /\ result.rows \subseteq RowsOf(q)
           /\ result.ok
           /\ \/ /\ HistorySeconds > 0
                 /\ \E date \in Int : result = DeleteAfterDate(RowsOf(q), date, ChunkSize)
              \/ /\ HistorySeconds = 0
                 /\ result = DeleteOldestToTarget(RowsOf(q), MaxRows, ChunkSize)
<1>1. ~(events \subseteq events')
  BY DEF Gone
<1>2. PICK p \in Partition : \/ DeleteByCount(p)
                             \/ \E date \in TargetDates : DeleteByDate(p, date)
  BY <1>1 DEF Next, Tick, DestsInsert, AgentsInsert, NewEvent, LoadDsa, Persist, vars
<1>3. ASSUME NEW result, Replace(p, result), result.rows \subseteq RowsOf(p)
      PROVE  p = q /\ Gone(q) = RowsOf(q) \ result.rows /\ result.ok
  BY <1>3 DEF Replace, RowsOf, Gone
<1>4. CASE DeleteByCount(p)
  <2> DEFINE result == DeleteOldestToTarget(RowsOf(p), MaxRows, ChunkSize)
  <2>1. result.rows \subseteq RowsOf(p) /\ Replace(p, result) /\ HistorySeconds = 0
    BY <1>4, DeletesOnly DEF DeleteByCount
  <2> HIDE DEF result
  <2>2. p = q /\ Gone(q) = RowsOf(q) \ result.rows /\ result.ok
    BY <1>3, <2>1
  <2> QED BY <2>1, <2>2 DEF result
<1>5. ASSUME NEW date \in TargetDates, DeleteByDate(p, date)
      PROVE  \E result :
               /\ Gone(q) = RowsOf(q) \ result.rows /\ result.rows \subseteq RowsOf(q)
               /\ result.ok /\ HistorySeconds > 0
               /\ \E d \in Int : result = DeleteAfterDate(RowsOf(q), d, ChunkSize)
  <2> DEFINE result == DeleteAfterDate(RowsOf(p), date, ChunkSize)
  <2>1. result.rows \subseteq RowsOf(p) /\ Replace(p, result) /\ HistorySeconds > 0
    BY <1>5, DeletesOnly DEF DeleteByDate
  <2>2. date \in Int
    BY DEF TargetDates
  <2> HIDE DEF result
  <2>3. p = q /\ Gone(q) = RowsOf(q) \ result.rows /\ result.ok
    BY <1>3, <2>1
  <2> QED BY <2>1, <2>2, <2>3 DEF result
<1> QED BY <1>2, <1>4, <1>5

\* No more than the rows that tie with the newest of them, and a chunk, go in one call,
\* in both modes (DeleteAfterDate.java:85-89).
THEOREM BoundedOvershootHolds == Spec => BoundedOvershoot
<1> DEFINE Older(p) == {r \in Gone(p) : \E s \in Gone(p) : r.ts < s.ts}
           Few == \A p \in Partition : Cardinality(Older(p)) <= ChunkSize
<1>1. IInv /\ [Next]_vars => Few
  <2> SUFFICES ASSUME IInv, [Next]_vars, NEW p \in Partition
               PROVE  Cardinality(Older(p)) <= ChunkSize
    OBVIOUS
  <2>1. ChunkSize \in Nat \ {0} /\ MaxRows \in Int /\ Dated(RowsOf(p))
    BY NibblerAssumption, RowsOfDated DEF IInv
  <2>2. CASE Gone(p) = {}
    <3>1. Older(p) = {}
      BY <2>2
    <3> QED BY <2>1, <3>1, FS_EmptySet
  <2>3. CASE Gone(p) # {}
    <3>1. PICK result :
            /\ Gone(p) = RowsOf(p) \ result.rows
            /\ result.ok
            /\ \/ \E date \in Int : result = DeleteAfterDate(RowsOf(p), date, ChunkSize)
               \/ result = DeleteOldestToTarget(RowsOf(p), MaxRows, ChunkSize)
      BY <2>3, TakenByACall
    <3>2. \/ /\ Cardinality(RowsOf(p)) < ChunkSize
             /\ result = Delete(RowsOf(p), RowsOf(p))
          \/ \E t \in Int : /\ result = Delete(RowsOf(p), UpTo(RowsOf(p), t))
                            /\ Cardinality(Before(RowsOf(p), t)) <= ChunkSize
      <4>1. result # Delete(RowsOf(p), {})
        BY <2>3, <3>1 DEF Delete
      <4>2. CASE result = DeleteOldestToTarget(RowsOf(p), MaxRows, ChunkSize)
        BY <2>1, <3>1, <4>1, <4>2, DeleteOldestEffect
      <4>3. ASSUME NEW date \in Int, result = DeleteAfterDate(RowsOf(p), date, ChunkSize)
            PROVE  \E t \in Int : /\ result = Delete(RowsOf(p), UpTo(RowsOf(p), t))
                                  /\ Cardinality(Before(RowsOf(p), t)) <= ChunkSize
        BY <2>1, <3>1, <4>3, DeleteAfterDateEffect
      <4> QED BY <3>1, <4>2, <4>3
    <3>3. \E few \in SUBSET RowsOf(p) : Older(p) \subseteq few /\ Cardinality(few) <= ChunkSize
      <4>1. CASE Cardinality(RowsOf(p)) < ChunkSize
        <5>1. Cardinality(RowsOf(p)) \in Nat
          BY <2>1, FS_CardinalityType DEF Dated
        <5>2. Older(p) \subseteq RowsOf(p)
          BY <3>1
        <5>3. Cardinality(RowsOf(p)) <= ChunkSize
          BY <2>1, <4>1, <5>1
        <5> QED BY <5>2, <5>3
      <4>2. ASSUME NEW t \in Int, result = Delete(RowsOf(p), UpTo(RowsOf(p), t)),
                   Cardinality(Before(RowsOf(p), t)) <= ChunkSize
            PROVE  \E few \in SUBSET RowsOf(p) :
                     Older(p) \subseteq few /\ Cardinality(few) <= ChunkSize
        <5>1. Gone(p) = UpTo(RowsOf(p), t)
          BY <3>1, <4>2 DEF Delete, UpTo
        <5>2. Older(p) \subseteq Before(RowsOf(p), t) /\ Before(RowsOf(p), t) \subseteq RowsOf(p)
          BY <2>1, <5>1 DEF UpTo, Before, Dated
        <5> QED BY <4>2, <5>2
      <4> QED BY <3>2, <4>1, <4>2
    <3>4. PICK few \in SUBSET RowsOf(p) : Older(p) \subseteq few /\ Cardinality(few) <= ChunkSize
      BY <3>3
    <3>5. IsFiniteSet(few) /\ IsFiniteSet(Older(p)) /\ Cardinality(Older(p)) <= Cardinality(few)
      BY <2>1, <3>4, FS_Subset DEF Dated
    <3>6. Cardinality(few) \in Nat /\ Cardinality(Older(p)) \in Nat
      BY <3>5, FS_CardinalityType
    <3> HIDE DEF Older
    <3> QED BY <2>1, <3>4, <3>5, <3>6
  <2> QED BY <2>2, <2>3
<1>2. IInv /\ [Next]_vars => [Few]_vars
  BY <1>1
<1> QED BY <1>2, Invariance, PTL DEF Spec, BoundedOvershoot

\* In row count mode a trim takes the surplus and one row more, with its ties: its victims
\* but for the newest are no more than the surplus, and all together, unless the chunk
\* stops it, they are more (DeleteOldestToTarget.java:98-112).
THEOREM TrimTakesSurplusAndOneHolds == Spec => TrimTakesSurplusAndOne
<1> DEFINE Excess(p) == Cardinality(RowsOf(p)) - MaxRows
           Older(p) == {r \in Gone(p) : \E s \in Gone(p) : r.ts < s.ts}
           Exact == \A p \in Partition :
                      HistorySeconds = 0 /\ MaxRows > 0 /\ Gone(p) # {} =>
                        /\ Cardinality(Older(p)) <= Excess(p)
                        /\ \/ Excess(p) < Cardinality(Gone(p))
                           \/ ChunkSize < Cardinality(Gone(p))
<1>1. IInv /\ [Next]_vars => Exact
  <2> SUFFICES ASSUME IInv, [Next]_vars, NEW p \in Partition,
                      HistorySeconds = 0, MaxRows > 0, Gone(p) # {}
               PROVE  /\ Cardinality(Older(p)) <= Excess(p)
                      /\ \/ Excess(p) < Cardinality(Gone(p))
                         \/ ChunkSize < Cardinality(Gone(p))
    OBVIOUS
  <2>1. ChunkSize \in Nat \ {0} /\ MaxRows \in Nat /\ Dated(RowsOf(p)) /\ IsFiniteSet(RowsOf(p))
    BY NibblerAssumption, RowsOfDated DEF IInv, Dated
  <2>2. PICK result : /\ Gone(p) = RowsOf(p) \ result.rows /\ result.ok
                      /\ result = DeleteOldestToTarget(RowsOf(p), MaxRows, ChunkSize)
    BY TakenByACall
  <2>3. result # Delete(RowsOf(p), {})
    BY <2>2 DEF Delete
  <2>4. PICK t \in Int :
          /\ result = Delete(RowsOf(p), UpTo(RowsOf(p), t))
          /\ Cardinality(Before(RowsOf(p), t)) <= Excess(p)
          /\ \/ Excess(p) < Cardinality(UpTo(RowsOf(p), t))
             \/ ChunkSize < Cardinality(UpTo(RowsOf(p), t))
    BY <2>1, <2>2, <2>3, DeleteOldestEffect
  <2>5. Gone(p) = UpTo(RowsOf(p), t)
    BY <2>2, <2>4 DEF Delete, UpTo
  <2>6. Older(p) \subseteq Before(RowsOf(p), t)
    BY <2>1, <2>5 DEF UpTo, Before, Dated
  <2>7. IsFiniteSet(Before(RowsOf(p), t)) /\ IsFiniteSet(RowsOf(p)) /\ IsFiniteSet(Older(p))
    BY <2>1, <2>6, FS_Subset DEF Before
  <2>8. Cardinality(Older(p)) <= Cardinality(Before(RowsOf(p), t))
    BY <2>6, <2>7, FS_Subset
  <2>9. /\ Cardinality(Older(p)) \in Nat /\ Cardinality(Before(RowsOf(p), t)) \in Nat
        /\ Excess(p) \in Int
    BY <2>1, <2>7, FS_CardinalityType
  <2>10. Cardinality(Older(p)) <= Excess(p)
    <3> HIDE DEF Older, Excess
    <3> QED BY <2>4, <2>8, <2>9
  <2> QED BY <2>4, <2>5, <2>10
<1>2. IInv /\ [Next]_vars => [Exact]_vars
  BY <1>1
<1> QED BY <1>2, Invariance, PTL DEF Spec, TrimTakesSurplusAndOne
=============================================================================
