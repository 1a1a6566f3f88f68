------------------------------ MODULE Nibbler -------------------------------
(***************************************************************************)
(* The nibbler: a client that keeps the events table small.  Its scheduler *)
(* runs three kinds of tasks on threads of their own: the tracker, which   *)
(* learns the partitions of the database, the deleter, which sends a       *)
(* deletion call to every partition it has heard of and waits for the      *)
(* answers on a latch, and the reporter.  They share two atomic references *)
(* and a counter.  A second deleter may be scheduled beside the first      *)
(* (ContinuousDeleter.java:157-159), so there is a set of them.            *)
(*                                                                         *)
(* The answers come back on the client library's thread, in any order, and *)
(* an answer may be lost after its transaction committed: the library then *)
(* calls the callback with an error status.                                *)
(***************************************************************************)
EXTENDS EventsTable

CONSTANTS
  Partition, FirstPartitions,  \* partitions, and those there from the start
  Deleters,                    \* the scheduled ContinuousDeleters
  Configs,                     \* command lines: [historyTicks, maxRows, chunkSize]
  LongMax,                     \* Long.MAX_VALUE: more rows than there can be
  MaxTime, MaxInserts, MaxFaults  \* bounds: clock, rows inserted, failed calls

ASSUME NibblerAssumption ==
  /\ FirstPartitions \subseteq Partition /\ FirstPartitions # {}
  /\ IsFiniteSet(Partition)
  /\ \A c \in Configs :
       /\ c \in [historyTicks : Nat, maxRows : Nat, chunkSize : Nat \ {0}]
       /\ c.historyTicks = 0 \/ c.maxRows = 0
       /\ c.maxRows <= LongMax
  /\ MaxTime \in Nat /\ MaxInserts \in Nat /\ MaxFaults \in Nat
  /\ LongMax \in Nat /\ LongMax > MaxInserts

VARIABLES
  config,         \* the validated command line
  now,
  cluster,        \* the partitions the database has
  rows,           \* the events of each partition: [id, ts]
  partitionData,  \* the partitions of the published map
  targetRows,     \* targetRowsPerPartition
  deletes,        \* deletesSinceLastChecked
  tracker,        \* where the tracker is, and the partitions of its first reply
  deleter,        \* of each deleter, where it is and its local variables
  calls,          \* deletion calls under way
  faults,         \* how many calls have failed
  inserted, removed, reported,  \* history: counts of rows
  leftover        \* history: what the calls of a deleter's round left behind, rows
                  \* that they should have deleted, or a failure

database == <<config, cluster, rows, inserted, removed>>
vars == <<config, now, cluster, rows, partitionData, targetRows, deletes, tracker, deleter,
          calls, faults, inserted, removed, reported, leftover>>

CallsOf(d) == {c \in calls : c.from = d}

DateMode == config.historyTicks > 0

Init ==
  /\ config \in Configs
  /\ now = 0 /\ cluster = FirstPartitions /\ rows = [p \in Partition |-> {}]
  /\ partitionData = {} /\ targetRows = LongMax /\ deletes = 0
  /\ tracker = [pc |-> "delay", stats |-> {}]
  /\ deleter = [d \in Deleters |->
       [pc |-> "scheduled", todo |-> {}, latch |-> 0, date |-> 0, rowTarget |-> 0,
        unfinished |-> FALSE, pause |-> FALSE]]
  /\ calls = {} /\ faults = 0
  /\ inserted = 0 /\ removed = 0 /\ reported = 0
  /\ leftover = [d \in Deleters |-> {}]

-----------------------------------------------------------------------------
(* The world outside. *)

Tick ==
  /\ now < MaxTime
  /\ now' = now + 1
  /\ UNCHANGED <<database, partitionData, targetRows, deletes, tracker, deleter,
                 calls, faults, reported, leftover>>

Insert(p) ==
  /\ inserted < MaxInserts
  /\ inserted' = inserted + 1
  /\ rows' = [rows EXCEPT ![p] = @ \cup {[id |-> inserted', ts |-> now]}]
  /\ UNCHANGED <<config, now, cluster, removed, partitionData, targetRows, deletes, tracker,
                 deleter, calls, faults, reported, leftover>>

\* The database grows while the nibbler runs.
AddPartition(p) ==
  /\ cluster' = cluster \cup {p}
  /\ UNCHANGED <<config, now, rows, inserted, removed, partitionData, targetRows, deletes,
                 tracker, deleter, calls, faults, reported, leftover>>

-----------------------------------------------------------------------------
(* PartitionDataTracker. *)

trackerOnly == <<now, database, deletes, deleter, calls, reported, leftover>>

Fault == faults < MaxFaults /\ faults' = faults + 1

\* @Statistics lists the table's partitions; one that is on k+1 nodes is listed
\* k+1 times, and counts once.  A failed call ends the run.
TrackerStatistics ==
  /\ tracker.pc = "delay"
  /\ \/ tracker' = [pc |-> "keys", stats |-> cluster] /\ UNCHANGED faults
     \/ Fault /\ UNCHANGED tracker
  /\ UNCHANGED <<trackerOnly, partitionData, targetRows>>

\* Fault: the map is published once, as if partitions never joined.
TrackerKeysOnce ==
  /\ tracker.pc = "keys"
  /\ \/ /\ tracker.stats = cluster
        /\ partitionData' = IF partitionData = {} THEN tracker.stats ELSE partitionData
        /\ tracker' = [tracker EXCEPT !.pc = "target"]
        /\ UNCHANGED faults
     \/ /\ tracker.stats # cluster
        /\ tracker' = [tracker EXCEPT !.pc = "delay"]
        /\ UNCHANGED <<partitionData, faults>>
     \/ /\ Fault
        /\ tracker' = [tracker EXCEPT !.pc = "delay"]
        /\ UNCHANGED partitionData
  /\ UNCHANGED <<trackerOnly, targetRows>>

\* @GetPartitionKeys, and the map is published only when both replies name the
\* same partitions: no key without statistics and no statistics without a key.
TrackerKeys ==
  /\ tracker.pc = "keys"
  /\ \/ /\ tracker.stats = cluster
        /\ partitionData' = tracker.stats
        /\ tracker' = [tracker EXCEPT !.pc = "target"]
        /\ UNCHANGED faults
     \/ /\ tracker.stats # cluster
        /\ tracker' = [tracker EXCEPT !.pc = "delay"]
        /\ UNCHANGED <<partitionData, faults>>
     \/ /\ Fault
        /\ tracker' = [tracker EXCEPT !.pc = "delay"]
        /\ UNCHANGED partitionData
  /\ UNCHANGED <<trackerOnly, targetRows>>

\* Fault: the rows of @Statistics are counted, two for a partition with a replica.
TrackerTargetReplicas ==
  /\ tracker.pc = "target"
  /\ targetRows' = config.maxRows \div (2 * Cardinality(tracker.stats))
  /\ tracker' = [pc |-> "delay", stats |-> {}]
  /\ UNCHANGED <<trackerOnly, partitionData, faults>>

\* updatePartitionInfo sets the second of the two shared references.
TrackerTarget ==
  /\ tracker.pc = "target"
  /\ targetRows' = config.maxRows \div Cardinality(tracker.stats)
  /\ tracker' = [pc |-> "delay", stats |-> {}]
  /\ UNCHANGED <<trackerOnly, partitionData, faults>>

-----------------------------------------------------------------------------
(* ContinuousDeleter. *)

deleterOnly == <<now, database, partitionData, targetRows, deletes, tracker, reported>>

\* History: what a call of a round left behind.
Left(d, what) == leftover' = [leftover EXCEPT ![d] = @ \cup what]

\* run() reads the map and makes a latch for as many calls.
DeleterStart(d) ==
  /\ deleter[d].pc = "scheduled"
  /\ deleter' = [deleter EXCEPT ![d] =
       [@ EXCEPT !.pc = "targets", !.todo = partitionData,
                 !.latch = Cardinality(partitionData), !.unfinished = FALSE]]
  /\ leftover' = [leftover EXCEPT ![d] = {}]
  /\ UNCHANGED <<deleterOnly, calls, faults>>

\* getTargetDate, getTargetRowsPerPartition.
DeleterTargets(d) ==
  /\ deleter[d].pc = "targets"
  /\ deleter' = [deleter EXCEPT ![d] =
       [@ EXCEPT !.pc = "sending", !.date = now - config.historyTicks, !.rowTarget = targetRows]]
  /\ UNCHANGED <<deleterOnly, calls, faults, leftover>>

\* Fault: the latch is not released for a call that throws.
DeleterSendNoRelease(d, p) ==
  /\ deleter[d].pc = "sending" /\ p \in deleter[d].todo
  /\ deleter' = [deleter EXCEPT ![d].todo = @ \ {p}]
  /\ \/ /\ calls' = calls \cup {[from |-> d, p |-> p, status |-> "sent", deleted |-> 0]}
        /\ UNCHANGED <<faults, leftover>>
     \/ /\ Fault /\ Left(d, {"failure"})
        /\ UNCHANGED calls
  /\ UNCHANGED deleterOnly

\* One turn of the loop, in the map's order, which is any: the call is sent, or
\* callProcedure throws and the latch is released for it.
DeleterSend(d, p) ==
  /\ deleter[d].pc = "sending" /\ p \in deleter[d].todo
  /\ \/ /\ calls' = calls \cup {[from |-> d, p |-> p, status |-> "sent", deleted |-> 0]}
        /\ deleter' = [deleter EXCEPT ![d].todo = @ \ {p}]
        /\ UNCHANGED <<faults, leftover>>
     \/ /\ Fault /\ Left(d, {"failure"})
        /\ deleter' = [deleter EXCEPT ![d].todo = @ \ {p}, ![d].latch = @ - 1]
        /\ UNCHANGED calls
  /\ UNCHANGED deleterOnly

\* Fault: the next run is scheduled without waiting for the answers.
DeleterFinishNoAwait(d) ==
  /\ deleter[d].pc = "sending" /\ deleter[d].todo = {}
  /\ deleter' = [deleter EXCEPT ![d] =
       [@ EXCEPT !.pc = "scheduled", !.pause = ~deleter[d].unfinished]]
  /\ UNCHANGED <<deleterOnly, calls, faults, leftover>>

\* latch.await() returns and the finally block schedules the next run, after
\* the configured pause unless the round was unfinished.
DeleterFinish(d) ==
  /\ deleter[d].pc = "sending" /\ deleter[d].todo = {} /\ deleter[d].latch = 0
  /\ deleter' = [deleter EXCEPT ![d] =
       [@ EXCEPT !.pc = "scheduled", !.pause = ~deleter[d].unfinished]]
  /\ UNCHANGED <<deleterOnly, calls, faults, leftover>>

\* External: the database runs a call as a transaction, and the answer is on its
\* way back or is lost.
Execute(c) ==
  LET d      == c.from
      result == IF DateMode THEN DeleteAfterDate(rows[c.p], deleter[d].date, config.chunkSize)
                ELSE DeleteOldestToTarget(rows[c.p], deleter[d].rowTarget, config.chunkSize)
      undone == IF DateMode THEN UpTo(result.rows, deleter[d].date) # {}
                ELSE Cardinality(result.rows) > deleter[d].rowTarget
      remains == IF undone THEN {"rows"} ELSE {}
      answer(status) == calls' = (calls \ {c}) \cup
                          {[c EXCEPT !.status = status, !.deleted = result.deleted]}
  IN  /\ c.status = "sent"
      /\ rows' = [rows EXCEPT ![c.p] = result.rows]
      /\ removed' = removed + result.deleted
      /\ \/ result.ok /\ UNCHANGED faults /\ answer("success") /\ Left(d, remains)
         \/ /\ (~result.ok /\ UNCHANGED faults) \/ Fault
            /\ answer("failure") /\ Left(d, remains \cup {"failure"})
      /\ UNCHANGED <<config, now, cluster, inserted, partitionData, targetRows, deletes,
                     tracker, deleter, reported>>

\* Faults: the last answer alone decides whether the round is unfinished; a failed
\* call returns before it releases the latch.
CallbackLastDecides(c) ==
  /\ c.status \in {"success", "failure"}
  /\ calls' = calls \ {c}
  /\ deletes' = IF c.status = "success" THEN deletes + c.deleted ELSE deletes
  /\ deleter' = [deleter EXCEPT
       ![c.from].unfinished = c.status = "success" /\ c.deleted >= config.chunkSize,
       ![c.from].latch = @ - 1]
  /\ UNCHANGED <<now, database, partitionData, targetRows, tracker, faults, reported,
                 leftover>>

CallbackEarlyReturn(c) ==
  /\ c.status \in {"success", "failure"}
  /\ calls' = calls \ {c}
  /\ IF c.status = "success"
     THEN /\ deletes' = deletes + c.deleted
          /\ deleter' = [deleter EXCEPT
               ![c.from].unfinished = @ \/ c.deleted >= config.chunkSize, ![c.from].latch = @ - 1]
     ELSE UNCHANGED <<deletes, deleter>>
  /\ UNCHANGED <<now, database, partitionData, targetRows, tracker, faults, reported,
                 leftover>>

\* clientCallback.
Callback(c) ==
  /\ c.status \in {"success", "failure"}
  /\ calls' = calls \ {c}
  /\ deletes' = IF c.status = "success" THEN deletes + c.deleted ELSE deletes
  /\ deleter' = [deleter EXCEPT
       ![c.from].unfinished = @ \/ (c.status = "success" /\ c.deleted >= config.chunkSize),
       ![c.from].latch = @ - 1]
  /\ UNCHANGED <<now, database, partitionData, targetRows, tracker, faults, reported,
                 leftover>>

\* Fault: the counter is read and not reset.
ReportNoReset ==
  /\ reported' = reported + deletes
  /\ reported' <= 2 * MaxInserts
  /\ UNCHANGED <<now, database, deletes, partitionData, targetRows, tracker, deleter, calls,
                 faults, leftover>>

\* Reporter: getAndSet(0).
Report ==
  /\ reported' = reported + deletes
  /\ deletes' = 0
  /\ UNCHANGED <<now, database, partitionData, targetRows, tracker, deleter, calls,
                 faults, leftover>>

-----------------------------------------------------------------------------
Tracker == TrackerStatistics \/ TrackerKeys \/ TrackerTarget

Deleter(d) ==
  \/ DeleterStart(d) \/ DeleterTargets(d) \/ DeleterFinish(d)
  \/ \E p \in deleter[d].todo : DeleterSend(d, p)

Respond(d) == \E c \in CallsOf(d) : Execute(c) \/ Callback(c)

Next ==
  \/ Tick \/ Report \/ Tracker
  \/ \E p \in cluster : Insert(p)
  \/ \E p \in Partition \ cluster : AddPartition(p)
  \/ \E d \in Deleters : Deleter(d) \/ Respond(d)

\* The scheduler reruns every task, and a call the database accepted ends in a
\* callback: with the answer, or with an error when the connection is lost or
\* the client's timeout expires.
Fairness ==
  /\ WF_vars(Tracker)
  /\ \A d \in Deleters : WF_vars(Deleter(d)) /\ WF_vars(Respond(d))

Spec == Init /\ [][Next]_vars /\ Fairness

\* What the tasks, the calls and their answers are hidden behind.
Retained == INSTANCE Retention WITH
  config <- config, now <- now, cluster <- cluster, rows <- rows
-----------------------------------------------------------------------------
(* Properties. *)

\* The type invariant; a latch counts exactly the calls still to be sent or to
\* be answered, so await neither returns early nor waits for nobody.
TypeOK ==
  /\ config \in Configs /\ now \in Nat
  /\ cluster \subseteq Partition /\ FirstPartitions \subseteq cluster
  /\ \A p \in Partition : rows[p] \subseteq [id : 1 .. inserted, ts : 0 .. now]
  /\ {targetRows, deletes, faults, inserted, removed, reported} \subseteq Nat
  /\ tracker \in [pc : {"delay", "keys", "target"}, stats : SUBSET Partition]
  /\ \A d \in Deleters :
       /\ deleter[d].pc \in {"scheduled", "targets", "sending"}
       /\ deleter[d].pc # "scheduled" =>
            deleter[d].latch = Cardinality(deleter[d].todo) + Cardinality(CallsOf(d))
       /\ \A c \in CallsOf(d) : c.p \in Partition \ deleter[d].todo

\* Rounds of one deleter never overlap: when it is rescheduled, every callback
\* of its last round has run (ContinuousDeleter.java:151-152, 170).
RoundsDoNotOverlap ==
  \A d \in Deleters : deleter[d].pc = "scheduled" => CallsOf(d) = {}

\* What the reports have shown and the next one will show never exceeds the
\* rows really deleted, whatever the reporter and the callbacks interleave, and
\* nothing is missing once all is answered and no call has failed.
ReportsAddUp ==
  /\ reported + deletes <= removed
  /\ faults = 0 /\ calls = {} => reported + deletes = removed

\* A deleter that pauses for deleteyieldtime has left no row that its round
\* could have deleted (ContinuousDeleter.java:154-162), unless a call of that
\* round threw, aborted or lost its answer, after which it pauses on purpose
\* (88-89): the answers of a round, in any order and from all partitions, are all
\* looked at.
PauseMeansDone ==
  \A d \in Deleters :
    deleter[d].pc = "scheduled" /\ deleter[d].pause /\ "rows" \in leftover[d]
      => "failure" \in leftover[d]

\* The nibbler implements the retention that it is configured for: a row leaves only
\* when it is older than historyseconds, although the date was computed earlier and
\* on another host than the delete; with maxrows, a partition below its share loses
\* nothing, whatever the tracker publishes, in two steps, while the deleters read
\* and the database grows; and the oldest rows leave first.
ImplementsRetention == Retained!RetentionSpec

\* No deleter stays in a round for ever, whichever calls fail or throw
\* (ContinuousDeleter.java:90, 147, 168-171).
DeletersKeepRunning == \A d \in Deleters : []<>(deleter[d].pc = "scheduled")

\* Every row that grows too old is deleted in the end, whether its partition was
\* there from the start or joined while the nibbler ran, and although a call may
\* fail: the tracker publishes the grown map, the deleter reads it and keeps
\* taking rounds.
AgedRowsLeave ==
  \A p \in Partition, i \in 1 .. MaxInserts :
    (DateMode /\ \E r \in rows[p] : r.id = i /\ r.ts <= now - config.historyTicks)
      ~> (\A r \in rows[p] : r.id # i)
=============================================================================
