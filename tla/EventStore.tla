----------------------------- MODULE EventStore -----------------------------
(***************************************************************************)
(* The VoltDB database of the application: the tables of db/ddl.sql and    *)
(* the stored procedures that change or query them.  Every action is one   *)
(* transaction; VoltDB runs the transactions of a partition one at a time, *)
(* and a transaction that aborts changes nothing, so it is no step here.   *)
(*                                                                         *)
(* Time is counted in ticks of a clock shared by the event generator, the  *)
(* nibbler and the database (run.sh starts the first two on one host).     *)
(***************************************************************************)
EXTENDS EventsTable

CONSTANTS
  Src, Partition, PartitionOf,   \* source addresses, and where each is hashed
  Url, AgentName,                \* the strings of a click
  Clicks,              \* what a click carries: [src, dest, referral, agent]
  DestRows, AgentRows, \* the rows the generator loads: [id, url], [id, name]
  Models,              \* cluster models: sets of [id, src, dest, referral, agent]
  NoCluster,           \* the NULL of the column events.cluster
  TicksPerSecond,      \* the resolution of timestamps
  SessionSeconds,      \* the 30 of NewEvent.checkSession
  QuerySeconds,        \* the window the dashboard asks for
  HistorySeconds,      \* the nibbler's historyseconds, 0 in row count mode
  MaxRows,             \* the nibbler's row target per partition
  ChunkSize,           \* the nibbler's deletechunksize
  MaxDelay,            \* bound: ticks from the stamping of a click to its commit
  MaxTime, MaxEvents   \* bounds: of the clock, of the events inserted

ASSUME ClockAssumption ==
  /\ TicksPerSecond \in Nat \ {0}
  /\ SessionSeconds \in Nat /\ QuerySeconds \in Nat /\ HistorySeconds \in Nat
  /\ MaxDelay \in Nat /\ MaxTime \in Nat /\ MaxEvents \in Nat

ASSUME NibblerAssumption == MaxRows \in Nat /\ ChunkSize \in Nat \ {0}

ASSUME DataAssumption ==
  /\ Src \subseteq Int
  /\ PartitionOf \in [Src -> Partition]
  /\ Clicks \subseteq [src : Src, dest : Url, referral : Url, agent : AgentName]
  /\ DestRows \subseteq [id : Int, url : Url]
  /\ AgentRows \subseteq [id : Int, name : AgentName]
  /\ \A model \in Models :
       model \subseteq [id : Int, src : Int, dest : Int, referral : Int, agent : Int]

VARIABLES
  now,        \* the clock
  dests, agents, clusters,       \* the replicated tables
  events,     \* the table events, of all partitions
  exported,   \* everything written to the stream events_export
  persisted,  \* what the export target has made durable in the warehouse
  inserted    \* history: every event ever inserted, in events or aged out

tables == <<dests, agents, clusters>>
streams == <<exported, persisted>>
vars == <<now, dests, agents, clusters, events, exported, persisted, inserted>>

\* A row of events, cut to the columns that the procedures select by.  The
\* field id numbers the inserts in commit order; the table has no such column.
Row == [id : Nat \ {0}, src : Src, dest : Int, ts : Int,
        cluster : Int \cup {NoCluster}]

RowsOf(p) == {r \in events : PartitionOf[r.src] = p}

-----------------------------------------------------------------------------
(* The SQL of NewEvent. *)

SamePair(r, s) == r.src = s.src /\ r.dest = s.dest

\* TRUNCATE(SECOND, ts)
TruncateToSecond(ts) == (ts \div TicksPerSecond) * TicksPerSecond

\* TO_TIMESTAMP(SECOND, SINCE_EPOCH(SECOND, ts) - seconds)
SecondsBefore(ts, seconds) == TruncateToSecond(ts) - seconds * TicksPerSecond

\* The view events_sessions: MAX(ts) for every pair of src and dest.
EventsSessions(rows) ==
  {[src |-> r.src, dest |-> r.dest, last_ts |-> r.ts] :
     r \in {x \in rows : \A y \in rows : SamePair(x, y) => y.ts <= x.ts}}

\* Faults: any page of the user counts as the session; the window is compared
\* strictly.
HasExportedAnyDest(rows, src, dest, ts) ==
  \E s \in EventsSessions(rows) :
    s.src = src /\ SecondsBefore(ts, SessionSeconds) <= s.last_ts

HasExportedStrict(rows, src, dest, ts) ==
  \E s \in EventsSessions(rows) :
    s.src = src /\ s.dest = dest /\ SecondsBefore(ts, SessionSeconds) < s.last_ts

\* checkSession found a row.
HasExported(rows, src, dest, ts) ==
  \E s \in EventsSessions(rows) :
    s.src = src /\ s.dest = dest /\ SecondsBefore(ts, SessionSeconds) <= s.last_ts

Square(x) == x * x

Score(c, src, dest, referral, agent) ==
  Square(src - c.src) + Square(dest - c.dest)
    + Square(referral - c.referral) + Square(agent - c.agent)

\* The ids getCluster may find: ORDER BY score LIMIT 1, ties in no given order.
GetCluster(src, dest, referral, agent) ==
  IF clusters = {} THEN {NoCluster}
  ELSE {c.id : c \in {c \in clusters : \A d \in clusters :
          Score(c, src, dest, referral, agent) <= Score(d, src, dest, referral, agent)}}

GetUrlId(url) == {d.id : d \in {d \in dests : d.url = url}}
GetAgentId(name) == {a.id : a \in {a \in agents : a.name = name}}

-----------------------------------------------------------------------------
Init ==
  /\ now = 0
  /\ dests = {} /\ agents = {} /\ clusters = {}
  /\ events = {} /\ exported = {} /\ persisted = {} /\ inserted = {}

Tick ==
  /\ now < MaxTime
  /\ now' = now + 1
  /\ UNCHANGED <<tables, events, streams, inserted>>

\* DESTS.insert and AGENTS.insert; both columns of both tables are unique.
DestsInsert(d) ==
  /\ \A x \in dests : x.id # d.id /\ x.url # d.url
  /\ dests' = dests \cup {d}
  /\ UNCHANGED <<now, agents, clusters, events, streams, inserted>>

AgentsInsert(a) ==
  /\ \A x \in agents : x.id # a.id /\ x.name # a.name
  /\ agents' = agents \cup {a}
  /\ UNCHANGED <<now, dests, clusters, events, streams, inserted>>

\* NewEvent, for a click stamped ts by the client.  With an unknown url or
\* agent asScalarLong throws and the transaction aborts.
NewEvent(click, ts) ==
  /\ Cardinality(inserted) < MaxEvents
  /\ \E dest \in GetUrlId(click.dest), referral \in GetUrlId(click.referral),
        agent \in GetAgentId(click.agent) :
     \E cluster \in GetCluster(click.src, dest, referral, agent) :
       LET row == [id |-> Cardinality(inserted) + 1, src |-> click.src,
                   dest |-> dest, ts |-> ts, cluster |-> cluster]
       IN  /\ events' = events \cup {row}
           /\ inserted' = inserted \cup {row}
           /\ exported' = IF HasExported(events, click.src, dest, ts)
                          THEN exported ELSE exported \cup {row}
  /\ UNCHANGED <<now, tables, persisted>>

\* Fault: seconds taken for ticks.
TargetDatesWrongUnit == {d \in 0 .. now : d <= now - HistorySeconds}

\* The date the nibbler asks to delete up to is computed on its side of the
\* call, so it may be older than historyseconds before the transaction.
TargetDates == {d \in 0 .. now : d <= now - HistorySeconds * TicksPerSecond}

\* A transaction of a deletion procedure replaces the rows of its partition.
Replace(p, result) ==
  /\ result.ok
  /\ events' = (events \ RowsOf(p)) \cup result.rows
  /\ UNCHANGED <<now, tables, streams, inserted>>

\* ContinuousDeleter sends DeleteAfterDate when historyseconds > 0 ...
DeleteByDate(p, date) ==
  /\ HistorySeconds > 0
  /\ Replace(p, DeleteAfterDate(RowsOf(p), date, ChunkSize))

\* ... and DeleteOldestToTarget otherwise.
DeleteByCount(p) ==
  /\ HistorySeconds = 0
  /\ Replace(p, DeleteOldestToTarget(RowsOf(p), MaxRows, ChunkSize))

\* Fault: the rows are copied one by one, not in one transaction.
LoadDsaTorn(model) ==
  /\ \E part \in SUBSET model : clusters' = part
  /\ UNCHANGED <<now, dests, agents, events, streams, inserted>>

\* LoadDsa: DELETE FROM clusters and the INSERT of the new model, one transaction.
LoadDsa(model) ==
  /\ clusters' = model
  /\ UNCHANGED <<now, dests, agents, events, streams, inserted>>

\* External: the export connector drains each partition's stream in order.
Persist(x) ==
  /\ \A y \in exported \ persisted :
       PartitionOf[y.src] = PartitionOf[x.src] => x.id <= y.id
  /\ persisted' = persisted \cup {x}
  /\ UNCHANGED <<now, tables, events, exported, inserted>>

Next ==
  \/ Tick
  \/ \E d \in DestRows : DestsInsert(d)
  \/ \E a \in AgentRows : AgentsInsert(a)
  \/ \E click \in Clicks, ts \in (now - MaxDelay .. now) \cap Nat : NewEvent(click, ts)
  \/ \E p \in Partition, date \in TargetDates : DeleteByDate(p, date)
  \/ \E p \in Partition : DeleteByCount(p)
  \/ \E model \in Models : LoadDsa(model)
  \/ \E x \in exported \ persisted : Persist(x)

Spec == Init /\ [][Next]_vars
-----------------------------------------------------------------------------
(* The queries of the dashboard. *)

\* The rows of the per-second views (events_by_second, dests_by_second,
\* events_by_cluster) that a query over the last QuerySeconds adds up.
Window(rows) == {r \in rows : SecondsBefore(now, QuerySeconds) <= TruncateToSecond(r.ts)}

GetTopUsers(rows) ==
  [src \in {r.src : r \in Window(rows)} |->
     Cardinality({r \in Window(rows) : r.src = src})]

GetTopDests(rows) ==
  [d \in {d \in dests : \E r \in Window(rows) : r.dest = d.id} |->
     Cardinality({r \in Window(rows) : r.dest = d.id})]

GetEventsByCluster(rows) ==
  [c \in {r.cluster : r \in Window(rows)} \ {NoCluster} |->
     Cardinality({r \in Window(rows) : r.cluster = c})]

-----------------------------------------------------------------------------
(* Properties. *)

\* The type invariant: rows have the columns of ddl.sql, the table and the
\* stream hold only what was inserted, and every insert has its own number.
TypeOK ==
  /\ now \in Nat
  /\ dests \subseteq DestRows /\ agents \subseteq AgentRows
  /\ clusters \in Models \cup {{}}
  /\ IsFiniteSet(inserted) /\ inserted \subseteq Row
  /\ \A r \in inserted : r.id <= Cardinality(inserted)
  /\ \A r, s \in inserted : r.id = s.id => r = s
  /\ events \subseteq inserted /\ exported \subseteq inserted
  /\ persisted \subseteq exported

\* With a history target, an event leaves the table only once it is older than
\* the target, however the deletes are chunked and however late they run
\* (DeleteAfterDate.java cuts at the timestamp of an OFFSET row it looked up).
AgedOutOnly ==
  HistorySeconds > 0 =>
    \A r \in inserted \ events : r.ts <= now - HistorySeconds * TicksPerSecond

\* The moving-window queries (GetTopUsers.java, GetTopDests and
\* GetEventsByCluster in ddl.sql) answer as if nothing had ever been deleted,
\* when the nibbler keeps at least one second more than they look back.
DashboardExact ==
  HistorySeconds > QuerySeconds =>
    /\ GetTopUsers(events) = GetTopUsers(inserted)
    /\ GetTopDests(events) = GetTopDests(inserted)
    /\ GetEventsByCluster(events) = GetEventsByCluster(inserted)

RetentionCoversSession ==
  HistorySeconds * TicksPerSecond >= (SessionSeconds + 1) * TicksPerSecond + MaxDelay

\* NewEvent.java exports an event exactly when no event of its pair committed
\* before it lies in its session window.  checkSession reads a view of a table
\* that deletes are shrinking, yet deletion must not start a session anew.
SessionExact ==
  RetentionCoversSession =>
    \A r \in inserted :
      r \in exported <=>
        \A s \in inserted :
          SamePair(r, s) /\ s.id < r.id => s.ts < SecondsBefore(r.ts, SessionSeconds)

\* Nothing a user did is missing from the stream: each event has an exported
\* event of its pair at or before it, whatever is deleted and in whatever
\* order the timestamps arrive (NewEvent.java exports only !hasExported).
EverySessionExported ==
  \A r \in inserted : \E x \in exported : SamePair(r, x) /\ x.id <= r.id

\* A delete takes a partition's oldest rows: none goes that is as new as one
\* that stays.  This is why the replicas of a partition, which run the same
\* call, stay identical (the class comments of both deletion procedures).
OldestFirst ==
  [][\A r \in events \ events', s \in events' :
       PartitionOf[r.src] = PartitionOf[s.src] => r.ts < s.ts]_vars

Gone(p) == {r \in events \ events' : PartitionOf[r.src] = p}

\* Beyond targetMaxRowsToDelete a delete takes only the rows that tie with the
\* newest it takes and one more (DeleteAfterDate.java:85-89).
BoundedOvershoot ==
  [][\A p \in Partition :
       Cardinality({r \in Gone(p) : \E s \in Gone(p) : r.ts < s.ts}) <= ChunkSize]_vars

\* In row count mode a trim takes the surplus of the partition and one row more (the one
\* that OFFSET finds), with the rows that tie with it: the victims older than the newest
\* are no more than the surplus, and, unless the chunk stops it, all together they are
\* more (DeleteOldestToTarget.java:98-112).  So a trim that is not stopped leaves at most
\* MaxRows - 1 rows, ties or not, although the class comment says that it deletes "until
\* it's the right size" (31-32).
TrimTakesSurplusAndOne ==
  [][\A p \in Partition :
       LET surplus == Cardinality(RowsOf(p)) - MaxRows
           older == {r \in Gone(p) : \E s \in Gone(p) : r.ts < s.ts}
       IN  HistorySeconds = 0 /\ MaxRows > 0 /\ Gone(p) # {} =>
             /\ Cardinality(older) <= surplus
             /\ \/ surplus < Cardinality(Gone(p))
                \/ ChunkSize < Cardinality(Gone(p))]_vars

\* "It is guaranteed to make progress" (DeleteAfterDate.java:87-88,
\* DeleteOldestToTarget.java:109-110): a call with rows to delete deletes some.
DeleteMakesProgress ==
  \A p \in Partition :
    IF HistorySeconds > 0
    THEN \A date \in TargetDates :
           UpTo(RowsOf(p), date) # {} =>
             DeleteAfterDate(RowsOf(p), date, ChunkSize).deleted > 0
    ELSE Cardinality(RowsOf(p)) > MaxRows =>
           DeleteOldestToTarget(RowsOf(p), MaxRows, ChunkSize).deleted > 0

\* "Events are aged out of VoltDB after they are persisted in the data
\* warehouse" (README.md:30-31).
PersistedBeforeAgedOut == exported \ events \subseteq persisted
=============================================================================
