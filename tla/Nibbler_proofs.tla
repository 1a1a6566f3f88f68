--------------------------- MODULE Nibbler_proofs ---------------------------
(***************************************************************************)
(* Proofs about the nibbler, for any number of partitions, deleters, rows, *)
(* failures and configurations.                                            *)
(*                                                                         *)
(* The inductive invariant has three parts.  Types holds the types.  In a  *)
(* round of a deleter the latch counts its calls (RoundInv), and what the  *)
(* deleter has read, long ago perhaps, asks for no more than the           *)
(* configuration allows (TargetInv): a target published for fewer          *)
(* partitions than there are now is too high, which errs on the safe side. *)
(* On top of it, AccountInv counts the rows that answers under way will    *)
(* report, and PauseInv follows the verdict of a call to the pause.        *)
(***************************************************************************)
EXTENDS Nibbler, EventsTable_proofs

Round == [pc : {"scheduled", "targets", "sending"}, todo : SUBSET Partition, latch : Int,
          date : Int, rowTarget : Nat, unfinished : BOOLEAN, pause : BOOLEAN]

Call == [from : Deleters, p : Partition, status : {"sent", "success", "failure"},
         deleted : Nat]

Types ==
  /\ config \in Configs /\ now \in Nat
  /\ cluster \subseteq Partition /\ FirstPartitions \subseteq cluster
  /\ {deletes, faults, inserted, removed, reported, targetRows} \subseteq Nat
  /\ rows \in [Partition -> SUBSET [id : 1 .. inserted, ts : 0 .. now]]
  /\ \A p \in Partition : IsFiniteSet(rows[p])
  /\ partitionData \subseteq Partition
  /\ tracker \in [pc : {"delay", "keys", "target"}, stats : SUBSET Partition]
  /\ deleter \in [Deleters -> Round]
  /\ leftover \in [Deleters -> SUBSET {"rows", "failure"}]
  /\ calls \subseteq Call /\ IsFiniteSet(calls)

\* A partition's part of maxrows.
Share == config.maxRows \div Cardinality(cluster)

TargetInv ==
  /\ tracker.pc # "delay" => tracker.stats # {} /\ tracker.stats \subseteq cluster
  /\ targetRows >= Share
  /\ \A d \in Deleters : deleter[d].pc = "sending" =>
       /\ deleter[d].date <= now - config.historyTicks
       /\ deleter[d].rowTarget >= Share

RoundInv(d) ==
  /\ deleter[d].pc # "sending" => CallsOf(d) = {}
  /\ deleter[d].pc # "scheduled" =>
       deleter[d].latch = Cardinality(deleter[d].todo) + Cardinality(CallsOf(d))
  /\ \A c \in CallsOf(d) : c.p \notin deleter[d].todo
  /\ \A c, e \in CallsOf(d) : c.p = e.p => c = e

Rounds == \A d \in Deleters : RoundInv(d)

IInv == Types /\ TargetInv /\ Rounds

-----------------------------------------------------------------------------
(* Counting. *)

LEMMA ConfigTypes ==
  ASSUME Types
  PROVE  /\ config.historyTicks \in Nat /\ config.maxRows \in Nat
         /\ config.chunkSize \in Nat \ {0} /\ config.maxRows <= LongMax
BY NibblerAssumption DEF Types

LEMMA PartitionsFinite ==
  ASSUME NEW S \in SUBSET Partition
  PROVE  IsFiniteSet(S) /\ Cardinality(S) \in Nat /\ (S # {} => Cardinality(S) > 0)
<1>1. IsFiniteSet(S)
  BY NibblerAssumption, FS_Subset
<1>2. Cardinality(S) \in Nat /\ (Cardinality(S) = 0 <=> S = {})
  BY <1>1, FS_CardinalityType, FS_EmptySet
<1> QED BY <1>1, <1>2

\* More partitions, smaller shares.
LEMMA DivisionMonotone ==
  ASSUME NEW a \in Nat, NEW m \in Nat \ {0}, NEW n \in Nat \ {0}, m <= n
  PROVE  a \div n \in Nat /\ a \div n <= a \div m /\ a \div n <= a
<1> DEFINE q == a \div n
           r == a \div m
<1>1. q \in Nat /\ n * q <= a
  OBVIOUS
<1>2. r \in Nat /\ a < m * (r + 1)
  OBVIOUS
<1>3. ASSUME q > r PROVE FALSE
  <2>1. m * (r + 1) <= m * q
    BY <1>1, <1>2, <1>3
  <2>2. m * q <= n * q
    BY <1>1
  <2> QED BY <1>1, <1>2, <2>1, <2>2
<1>4. q <= n * q
  BY <1>1
<1> QED BY <1>1, <1>2, <1>3, <1>4

LEMMA ShareShrinks ==
  ASSUME Types, NEW S \in SUBSET Partition, NEW T \in SUBSET Partition,
         S # {}, S \subseteq T
  PROVE  /\ config.maxRows \div Cardinality(T) \in Nat
         /\ config.maxRows \div Cardinality(T) <= config.maxRows \div Cardinality(S)
         /\ config.maxRows \div Cardinality(T) <= config.maxRows
<1>1. Cardinality(S) \in Nat \ {0} /\ Cardinality(T) \in Nat \ {0} /\ IsFiniteSet(T)
  BY PartitionsFinite
<1>2. Cardinality(S) <= Cardinality(T)
  BY <1>1, FS_Subset
<1> QED BY <1>1, <1>2, ConfigTypes, DivisionMonotone

LEMMA ShareType ==
  ASSUME Types
  PROVE  cluster # {} /\ Share \in Nat /\ Share <= config.maxRows
BY ShareShrinks, NibblerAssumption DEF Types, Share

LEMMA CallsOfFinite ==
  ASSUME Types, NEW d \in Deleters
  PROVE  /\ CallsOf(d) \subseteq calls /\ IsFiniteSet(CallsOf(d))
         /\ Cardinality(CallsOf(d)) \in Nat /\ (Cardinality(CallsOf(d)) = 0 => CallsOf(d) = {})
<1>1. CallsOf(d) \subseteq calls /\ IsFiniteSet(CallsOf(d))
  BY FS_Subset DEF Types, CallsOf
<1> QED BY <1>1, FS_CardinalityType, FS_EmptySet

-----------------------------------------------------------------------------
(* Types. *)

LEMMA InitTypes == Init => Types
<1> SUFFICES ASSUME Init PROVE Types
  OBVIOUS
<1>1. IsFiniteSet({})
  BY FS_EmptySet
<1>2. tracker \in [pc : {"delay", "keys", "target"}, stats : SUBSET Partition]
  BY DEF Init
<1>3. deleter \in [Deleters -> Round]
  BY DEF Init, Round
<1> QED BY <1>1, <1>2, <1>3, NibblerAssumption DEF Init, Types

\* The rows of the database, which a transaction may only make fewer.
LEMMA ExecuteTypes ==
  ASSUME Types, NEW c \in calls, Execute(c)
  PROVE  Types'
<1> DEFINE d == c.from
           byDate == DeleteAfterDate(rows[c.p], deleter[d].date, config.chunkSize)
           byCount == DeleteOldestToTarget(rows[c.p], deleter[d].rowTarget, config.chunkSize)
           result == IF DateMode THEN byDate ELSE byCount
<1>1. c \in Call /\ d \in Deleters /\ c.p \in Partition /\ deleter[d] \in Round
  BY DEF Types, Call
<1>2. Dated(rows[c.p])
  BY <1>1 DEF Types, Dated
<1>3. deleter[d].date \in Int /\ deleter[d].rowTarget \in Int /\ config.chunkSize \in Int
  BY <1>1, ConfigTypes DEF Round
<1>4. result.rows \subseteq rows[c.p] /\ result.deleted \in Nat
  BY <1>2, <1>3, DeletesOnly, RepliesACount
<1>5. /\ rows' = [rows EXCEPT ![c.p] = result.rows] /\ removed' = removed + result.deleted
      /\ \E status \in {"success", "failure"} :
           calls' = (calls \ {c}) \cup {[c EXCEPT !.status = status, !.deleted = result.deleted]}
      /\ faults' = faults \/ faults' = faults + 1
      /\ \E what \in SUBSET {"rows", "failure"} : Left(d, what)
      /\ UNCHANGED <<config, now, cluster, inserted, partitionData, targetRows, deletes,
                     tracker, deleter, reported>>
  <2>1. \E what \in SUBSET {"rows", "failure"} : Left(d, what)
    <3> DEFINE undone == IF DateMode THEN UpTo(result.rows, deleter[d].date) # {}
                         ELSE Cardinality(result.rows) > deleter[d].rowTarget
               remains == IF undone THEN {"rows"} ELSE {}
    <3>1. Left(d, remains) \/ Left(d, remains \cup {"failure"})
      BY DEF Execute
    <3>2. {remains, remains \cup {"failure"}} \subseteq SUBSET {"rows", "failure"}
      OBVIOUS
    <3> HIDE DEF remains
    <3> QED BY <3>1, <3>2
  <2> QED BY <2>1 DEF Execute, Fault
<1>6. calls' \subseteq Call /\ IsFiniteSet(calls')
  <2>1. PICK status \in {"success", "failure"} :
          calls' = (calls \ {c}) \cup {[c EXCEPT !.status = status, !.deleted = result.deleted]}
    BY <1>5
  <2>2. [c EXCEPT !.status = status, !.deleted = result.deleted] \in Call
    BY <1>1, <1>4 DEF Call
  <2> DEFINE e == [c EXCEPT !.status = status, !.deleted = result.deleted]
  <2>3. calls' = (calls \ {c}) \cup {e} /\ e \in Call
    BY <2>1, <2>2
  <2> HIDE DEF e
  <2>4. calls \subseteq Call /\ IsFiniteSet(calls)
    BY DEF Types
  <2>5. IsFiniteSet((calls \ {c}) \cup {e})
    BY <2>4, FS_RemoveElement, FS_AddElement
  <2> QED BY <2>3, <2>4, <2>5
<1>7. /\ rows' \in [Partition -> SUBSET [id : 1 .. inserted, ts : 0 .. now]]
      /\ \A p \in Partition : IsFiniteSet(rows'[p])
  <2> HIDE DEF result
  <2>1. IsFiniteSet(result.rows) /\ result.rows \subseteq [id : 1 .. inserted, ts : 0 .. now]
    BY <1>1, <1>4, FS_Subset DEF Types
  <2> QED BY <1>1, <1>5, <2>1 DEF Types
<1>8. leftover' \in [Deleters -> SUBSET {"rows", "failure"}]
  <2>1. PICK what \in SUBSET {"rows", "failure"} : Left(d, what)
    BY <1>5
  <2>2. leftover \in [Deleters -> SUBSET {"rows", "failure"}]
    BY DEF Types
  <2> QED BY <1>1, <2>1, <2>2 DEF Left
<1>9. removed' \in Nat /\ faults' \in Nat
  <2> HIDE DEF result
  <2> QED BY <1>4, <1>5 DEF Types
<1> QED BY <1>5, <1>6, <1>7, <1>8, <1>9 DEF Types

LEMMA NextTypes ==
  ASSUME Types, TargetInv, [Next]_vars
  PROVE  Types'
<1>1. CASE Tick
  BY <1>1 DEF Types, Tick, database
<1>2. CASE Report
  BY <1>2 DEF Types, Report, database
<1>3. CASE TrackerStatistics
  BY <1>3 DEF Types, TrackerStatistics, Fault, trackerOnly, database
<1>4. CASE TrackerKeys
  BY <1>4 DEF Types, TrackerKeys, Fault, trackerOnly, database
<1>5. CASE TrackerTarget
  <2>1. tracker.stats \subseteq Partition /\ tracker.stats # {}
    BY <1>5 DEF TrackerTarget, Types, TargetInv
  <2>2. targetRows' \in Nat
    BY <1>5, <2>1, ShareShrinks DEF TrackerTarget
  <2> QED BY <1>5, <2>2 DEF Types, TrackerTarget, trackerOnly, database
<1>6. ASSUME NEW p \in cluster, Insert(p) PROVE Types'
  <2> DEFINE row == [id |-> inserted', ts |-> now]
  <2>1. /\ p \in Partition /\ inserted' = inserted + 1
        /\ rows' = [rows EXCEPT ![p] = @ \cup {row}]
    BY <1>6 DEF Types, Insert
  <2>2. rows' \in [Partition -> SUBSET [id : 1 .. inserted', ts : 0 .. now]]
    BY <2>1 DEF Types
  <2>3. \A q \in Partition : IsFiniteSet(rows'[q])
    <3> HIDE DEF row
    <3>1. IsFiniteSet(rows[p] \cup {row})
      BY <2>1, FS_AddElement DEF Types
    <3> QED BY <2>1, <3>1 DEF Types
  <2>4. inserted' \in Nat
    BY <2>1 DEF Types
  <2>5. UNCHANGED <<config, now, cluster, removed, partitionData, targetRows, deletes, tracker,
                   deleter, calls, faults, reported, leftover>>
    BY <1>6 DEF Insert
  <2> HIDE DEF row
  <2> QED BY <2>2, <2>3, <2>4, <2>5 DEF Types
<1>7. ASSUME NEW p \in Partition \ cluster, AddPartition(p) PROVE Types'
  BY <1>7 DEF Types, AddPartition
<1>8. ASSUME NEW d \in Deleters, DeleterStart(d) PROVE Types'
  <2>1. Cardinality(partitionData) \in Int
    BY PartitionsFinite DEF Types
  <2>2. deleter' \in [Deleters -> Round]
    <3> DEFINE r == [deleter[d] EXCEPT !.pc = "targets", !.todo = partitionData,
                       !.latch = Cardinality(partitionData), !.unfinished = FALSE]
    <3>1. r \in Round
      BY <2>1, ZenonT(30) DEF Types, Round
    <3>2. deleter' = [deleter EXCEPT ![d] = r]
      BY <1>8 DEF DeleterStart
    <3> HIDE DEF r
    <3> QED BY <3>1, <3>2 DEF Types
  <2> QED BY <1>8, <2>2 DEF Types, DeleterStart, deleterOnly, database
<1>9. ASSUME NEW d \in Deleters, DeleterTargets(d) PROVE Types'
  <2>1. deleter' \in [Deleters -> Round]
    <3> DEFINE r == [deleter[d] EXCEPT !.pc = "sending", !.date = now - config.historyTicks,
                       !.rowTarget = targetRows]
    <3>1. deleter[d] \in Round /\ now - config.historyTicks \in Int /\ targetRows \in Nat
      BY ConfigTypes DEF Types
    <3>2. r \in Round
      BY <3>1 DEF Round
    <3>3. deleter' = [deleter EXCEPT ![d] = r]
      BY <1>9 DEF DeleterTargets
    <3> HIDE DEF r
    <3> QED BY <3>2, <3>3 DEF Types
  <2> QED BY <1>9, <2>1 DEF Types, DeleterTargets, deleterOnly, database
<1>10. ASSUME NEW d \in Deleters, NEW p \in deleter[d].todo, DeleterSend(d, p) PROVE Types'
  <2>1. deleter[d] \in Round /\ p \in Partition
    BY DEF Types, Round
  <2>2. deleter' \in [Deleters -> Round] /\ (faults' = faults \/ faults' = faults + 1)
    BY <1>10, <2>1 DEF DeleterSend, Types, Round, Fault
  <2>3. calls' = calls \/ calls' = calls \cup
          {[from |-> d, p |-> p, status |-> "sent", deleted |-> 0]}
    BY <1>10 DEF DeleterSend
  <2>4. calls' \subseteq Call /\ IsFiniteSet(calls')
    <3> DEFINE c == [from |-> d, p |-> p, status |-> "sent", deleted |-> 0]
    <3>1. c \in Call
      BY <2>1 DEF Call
    <3>2. calls' = calls \/ calls' = calls \cup {c}
      BY <2>3
    <3> HIDE DEF c
    <3>3. calls \subseteq Call /\ IsFiniteSet(calls)
      BY DEF Types
    <3>4. IsFiniteSet(calls \cup {c})
      BY <3>3, FS_AddElement
    <3> QED BY <3>1, <3>2, <3>3, <3>4
  <2>5. leftover' \in [Deleters -> SUBSET {"rows", "failure"}]
    BY <1>10 DEF DeleterSend, Left, Types
  <2> QED BY <1>10, <2>2, <2>4, <2>5 DEF Types, DeleterSend, deleterOnly, database
<1>11. ASSUME NEW d \in Deleters, DeleterFinish(d) PROVE Types'
  <2>1. deleter' \in [Deleters -> Round]
    <3>1. PICK b \in BOOLEAN :
            deleter' = [deleter EXCEPT ![d] = [@ EXCEPT !.pc = "scheduled", !.pause = b]]
      BY <1>11, Zenon DEF DeleterFinish
    <3> DEFINE r == [deleter[d] EXCEPT !.pc = "scheduled", !.pause = b]
    <3>2. r \in Round
      BY ZenonT(30) DEF Types, Round
    <3>3. deleter' = [deleter EXCEPT ![d] = r]
      BY <3>1
    <3> HIDE DEF r
    <3> QED BY <3>2, <3>3 DEF Types
  <2> QED BY <1>11, <2>1 DEF Types, DeleterFinish, deleterOnly, database
<1>12. ASSUME NEW c \in calls, Execute(c) PROVE Types'
  BY <1>12, ExecuteTypes
<1>13. ASSUME NEW c \in calls, Callback(c) PROVE Types'
  <2>1. c \in Call /\ c.from \in Deleters /\ c.deleted \in Nat
    BY DEF Types, Call
  <2>2. deleter' \in [Deleters -> Round] /\ deletes' \in Nat
    BY <1>13, <2>1 DEF Callback, Types, Round
  <2>3. calls' \subseteq Call /\ IsFiniteSet(calls')
    BY <1>13, FS_Subset DEF Callback, Types
  <2> QED BY <1>13, <2>2, <2>3 DEF Types, Callback, database
<1>14. CASE UNCHANGED vars
  BY <1>14 DEF Types, vars
<1> QED BY <1>1, <1>2, <1>3, <1>4, <1>5, <1>6, <1>7, <1>8, <1>9, <1>10, <1>11, <1>12, <1>13,
           <1>14 DEF Next, Tracker, Deleter, Respond, CallsOf

-----------------------------------------------------------------------------
(* Targets. *)

LEMMA InitTargets == Init => TargetInv
<1> SUFFICES ASSUME Init PROVE TargetInv
  OBVIOUS
<1>1. Types
  BY InitTypes
<1>2. Share \in Nat /\ Share <= LongMax
  BY <1>1, ShareType, ConfigTypes, NibblerAssumption
<1> QED BY <1>2 DEF Init, TargetInv

\* Every step keeps the configuration, and shares only shrink.
LEMMA SharesShrink ==
  ASSUME Types, Types', [Next]_vars
  PROVE  /\ config' = config /\ cluster \subseteq cluster' /\ now <= now'
         /\ Share \in Nat /\ Share' \in Nat /\ Share' <= Share
<1>1. config' = config /\ cluster \subseteq cluster' /\ now <= now'
  <2>1. CASE Tick
    BY <2>1 DEF Tick, database, Types
  <2>2. ASSUME NEW p, Insert(p) \/ AddPartition(p)
        PROVE  config' = config /\ cluster \subseteq cluster' /\ now' = now
    BY <2>2 DEF Insert, AddPartition
  <2>3. CASE UNCHANGED <<config, cluster, now>>
    BY <2>3 DEF Types
  <2>4. now \in Nat
    BY DEF Types
  <2>5. ASSUME Report \/ Tracker \/ UNCHANGED vars PROVE UNCHANGED <<config, cluster, now>>
    BY <2>5 DEF vars, database, trackerOnly, Report, Tracker, TrackerStatistics, TrackerKeys,
                TrackerTarget
  <2>6. ASSUME NEW d \in Deleters, Deleter(d) PROVE UNCHANGED <<config, cluster, now>>
    BY <2>6 DEF database, deleterOnly, Deleter, DeleterStart, DeleterTargets, DeleterSend,
                DeleterFinish
  <2>7. ASSUME NEW c, Execute(c) \/ Callback(c) PROVE UNCHANGED <<config, cluster, now>>
    BY <2>7 DEF database, Execute, Callback
  <2> QED BY <2>1, <2>2, <2>3, <2>4, <2>5, <2>6, <2>7 DEF Next, Respond
<1>2. cluster # {} /\ cluster \subseteq Partition /\ cluster' \subseteq Partition
  BY ShareType DEF Types
<1> QED BY <1>1, <1>2, ShareShrinks, ShareType DEF Share

\* What a deleter has read stays good, unless its step reads it anew.
LEMMA TargetsKept ==
  ASSUME Types, Types', TargetInv, [Next]_vars,
         NEW d \in Deleters, deleter'[d].pc = "sending", deleter[d].pc = "sending",
         deleter'[d].date = deleter[d].date, deleter'[d].rowTarget = deleter[d].rowTarget
  PROVE  deleter'[d].date <= now' - config'.historyTicks /\ deleter'[d].rowTarget >= Share'
<1>1. deleter[d] \in Round /\ now \in Nat /\ now' \in Nat
  BY DEF Types
<1>2. deleter[d].date \in Int /\ deleter[d].rowTarget \in Nat
  BY <1>1 DEF Round
<1>3. deleter[d].date <= now - config.historyTicks /\ deleter[d].rowTarget >= Share
  BY DEF TargetInv
<1> QED BY <1>1, <1>2, <1>3, SharesShrink, ConfigTypes

LEMMA NextTargets ==
  ASSUME Types, Types', TargetInv, [Next]_vars
  PROVE  TargetInv'
<1>1. tracker'.pc # "delay" => tracker'.stats # {} /\ tracker'.stats \subseteq cluster'
  <2>1. cluster # {} /\ cluster \subseteq cluster'
    BY ShareType, SharesShrink
  <2>2. CASE UNCHANGED tracker
    BY <2>1, <2>2 DEF TargetInv
  <2>3. CASE Tracker
    BY <2>1, <2>3 DEF Tracker, TrackerStatistics, TrackerKeys, TrackerTarget, TargetInv, Types
  <2> QED BY <2>2, <2>3 DEF Next, vars, deleterOnly, Tick, Report, Insert, AddPartition,
            Deleter, DeleterStart, DeleterTargets, DeleterSend, DeleterFinish, Respond, Execute,
            Callback
<1>2. targetRows' >= Share'
  <2>1. targetRows \in Nat /\ targetRows >= Share
    BY DEF Types, TargetInv
  <2>2. CASE UNCHANGED targetRows
    BY <2>1, <2>2, SharesShrink
  <2>3. CASE TrackerTarget
    <3>1. tracker.stats # {} /\ tracker.stats \subseteq cluster /\ cluster \subseteq Partition
      BY <2>3 DEF TrackerTarget, TargetInv, Types
    <3>2. targetRows' = config.maxRows \div Cardinality(tracker.stats) /\ targetRows' \in Nat
      BY <2>3 DEF TrackerTarget, Types
    <3>3. Share <= targetRows'
      BY <3>1, <3>2, ShareShrinks DEF Share
    <3> QED BY <3>2, <3>3, SharesShrink
  <2> QED BY <2>2, <2>3 DEF Next, vars, deleterOnly, trackerOnly, Tick, Report, Insert,
            AddPartition, Tracker, TrackerStatistics, TrackerKeys, Deleter, DeleterStart,
            DeleterTargets, DeleterSend, DeleterFinish, Respond, Execute, Callback
<1>3. ASSUME NEW d \in Deleters, deleter'[d].pc = "sending"
      PROVE  deleter'[d].date <= now' - config'.historyTicks /\ deleter'[d].rowTarget >= Share'
  <2>1. CASE deleter'[d].pc = deleter[d].pc /\ deleter'[d].date = deleter[d].date
             /\ deleter'[d].rowTarget = deleter[d].rowTarget
    BY <1>3, <2>1, TargetsKept
  <2>2. CASE DeleterTargets(d)
    <3>1. /\ deleter'[d].date = now - config.historyTicks /\ deleter'[d].rowTarget = targetRows
          /\ now' = now /\ config' = config /\ cluster' = cluster
      BY <2>2 DEF DeleterTargets, deleterOnly, database, Types
    <3> QED BY <3>1, ConfigTypes DEF Types, TargetInv, Share
  <2>3. ASSUME NEW e \in Deleters, DeleterStart(e) \/ DeleterFinish(e) \/ DeleterTargets(e)
        PROVE  e = d => DeleterTargets(d)
    <3>1. deleter \in [Deleters -> Round] /\ deleter[d] \in Round
      BY DEF Types
    <3>2. ASSUME DeleterStart(d) PROVE deleter'[d].pc = "targets"
      BY <3>1, <3>2 DEF DeleterStart, Round
    <3>3. ASSUME DeleterFinish(d) PROVE deleter'[d].pc = "scheduled"
      BY <3>1, <3>3 DEF DeleterFinish, Round
    <3> QED BY <1>3, <2>3, <3>2, <3>3
  <2>4. ASSUME NEW e \in Deleters, e # d,
               DeleterStart(e) \/ DeleterFinish(e) \/ DeleterTargets(e)
        PROVE  deleter'[d] = deleter[d]
    BY <2>4 DEF DeleterStart, DeleterFinish, DeleterTargets, Types
  <2>5. ASSUME NEW e \in Deleters, NEW p \in deleter[e].todo, DeleterSend(e, p)
        PROVE  /\ deleter'[d].pc = deleter[d].pc /\ deleter'[d].date = deleter[d].date
               /\ deleter'[d].rowTarget = deleter[d].rowTarget
    BY <2>5 DEF DeleterSend, Types, Round
  <2>6. ASSUME NEW c \in calls, Callback(c)
        PROVE  /\ deleter'[d].pc = deleter[d].pc /\ deleter'[d].date = deleter[d].date
               /\ deleter'[d].rowTarget = deleter[d].rowTarget
    BY <2>6 DEF Callback, Types, Round
  <2>7. CASE UNCHANGED deleter
    BY <2>1, <2>7
  <2> QED BY <2>1, <2>2, <2>3, <2>4, <2>5, <2>6, <2>7 DEF Next, vars, trackerOnly, Tick, Report,
            Insert, AddPartition, Tracker, TrackerStatistics, TrackerKeys, TrackerTarget, Deleter,
            Respond, Execute, CallsOf
<1> QED BY <1>1, <1>2, <1>3 DEF TargetInv

-----------------------------------------------------------------------------
(* Rounds. *)

LEMMA InitRounds == Init => Rounds
BY DEF Init, Rounds, RoundInv, CallsOf

\* A round that a step leaves alone.
LEMMA RoundKept ==
  ASSUME NEW d \in Deleters, RoundInv(d),
         deleter'[d].pc = deleter[d].pc, deleter'[d].todo = deleter[d].todo,
         deleter'[d].latch = deleter[d].latch, CallsOf(d)' = CallsOf(d)
  PROVE  RoundInv(d)'
BY DEF RoundInv

LEMMA SendKeepsRound ==
  ASSUME Types, Types', NEW d \in Deleters, RoundInv(d),
         NEW p \in deleter[d].todo, DeleterSend(d, p)
  PROVE  RoundInv(d)'
<1> DEFINE c == [from |-> d, p |-> p, status |-> "sent", deleted |-> 0]
           todo == deleter[d].todo
<1>1. deleter[d] \in Round /\ deleter[d].pc = "sending" /\ todo \subseteq Partition
  BY DEF DeleterSend, Types, Round
<1>2. deleter[d].latch = Cardinality(todo) + Cardinality(CallsOf(d))
  BY <1>1 DEF RoundInv
<1>3. IsFiniteSet(todo) /\ Cardinality(todo \ {p}) = Cardinality(todo) - 1
  BY <1>1, PartitionsFinite, FS_RemoveElement
<1>4. Cardinality(todo) \in Nat /\ Cardinality(CallsOf(d)) \in Nat /\ IsFiniteSet(CallsOf(d))
  BY <1>1, PartitionsFinite, CallsOfFinite
<1>5. deleter'[d].todo = todo \ {p} /\ deleter'[d].pc = "sending"
  BY <1>1 DEF DeleterSend, Types, Round
<1>6. CASE calls' = calls \cup {c} /\ deleter'[d].latch = deleter[d].latch
  <2>1. c.from = d /\ c.p = p
    OBVIOUS
  <2> HIDE DEF c
  <2>2. CallsOf(d)' = CallsOf(d) \cup {c}
    BY <1>6, <2>1 DEF CallsOf
  <2>3. \A e \in CallsOf(d) : e.p # p
    BY DEF RoundInv
  <2>4. c \notin CallsOf(d)
    BY <2>1, <2>3
  <2>5. Cardinality(CallsOf(d)') = Cardinality(CallsOf(d)) + 1
    BY <1>4, <2>2, <2>4, FS_AddElement
  <2>6. deleter'[d].latch = Cardinality(deleter'[d].todo) + Cardinality(CallsOf(d)')
    BY <1>2, <1>3, <1>4, <1>5, <1>6, <2>5
  <2>7. \A e \in CallsOf(d)' : e.p \notin deleter'[d].todo
    BY <1>5, <2>1, <2>2 DEF RoundInv
  <2>8. \A e, f \in CallsOf(d)' : e.p = f.p => e = f
    BY <2>1, <2>2, <2>3 DEF RoundInv
  <2> QED BY <1>5, <2>6, <2>7, <2>8 DEF RoundInv
<1>7. CASE calls' = calls /\ deleter'[d].latch = deleter[d].latch - 1
  <2>1. CallsOf(d)' = CallsOf(d)
    BY <1>7 DEF CallsOf
  <2>2. deleter'[d].latch = Cardinality(deleter'[d].todo) + Cardinality(CallsOf(d)')
    BY <1>2, <1>3, <1>4, <1>5, <1>7, <2>1
  <2> QED BY <1>5, <2>1, <2>2 DEF RoundInv
<1> QED BY <1>1, <1>6, <1>7 DEF DeleterSend, Types, Round

LEMMA ExecuteCalls ==
  ASSUME Types, NEW c \in calls, Execute(c)
  PROVE  \E e \in Call : e.from = c.from /\ e.p = c.p /\ calls' = (calls \ {c}) \cup {e}
<1> DEFINE d == c.from
           byDate == DeleteAfterDate(rows[c.p], deleter[d].date, config.chunkSize)
           byCount == DeleteOldestToTarget(rows[c.p], deleter[d].rowTarget, config.chunkSize)
           result == IF DateMode THEN byDate ELSE byCount
<1>1. PICK status \in {"success", "failure"} :
        calls' = (calls \ {c}) \cup {[c EXCEPT !.status = status, !.deleted = result.deleted]}
  BY DEF Execute
<1>2. c \in Call
  BY DEF Types
<1> DEFINE e == [c EXCEPT !.status = status, !.deleted = result.deleted]
<1>3. e.from = c.from /\ e.p = c.p
  BY <1>2 DEF Call
<1>4. result.deleted \in Nat
  <2>1. deleter[d] \in Round /\ Dated(rows[c.p])
    BY <1>2 DEF Types, Call, Dated
  <2>2. deleter[d].date \in Int /\ deleter[d].rowTarget \in Int /\ config.chunkSize \in Int
    BY <2>1, ConfigTypes DEF Round
  <2> QED BY <2>1, <2>2, RepliesACount
<1>5. e \in Call
  <2> HIDE DEF result
  <2> QED BY <1>2, <1>4 DEF Call
<1>6. calls' = (calls \ {c}) \cup {e}
  BY <1>1
<1> HIDE DEF e
<1> QED BY <1>3, <1>5, <1>6

LEMMA ExecuteKeepsRound ==
  ASSUME Types, Types', NEW c \in calls, Execute(c), RoundInv(c.from)
  PROVE  RoundInv(c.from)'
<1> DEFINE d == c.from
<1>1. c \in Call /\ d \in Deleters /\ c \in CallsOf(d) /\ deleter' = deleter
  BY DEF Types, Call, CallsOf, Execute
<1>2. PICK e : e.from = d /\ e.p = c.p /\ calls' = (calls \ {c}) \cup {e}
  BY ExecuteCalls
<1>3. CallsOf(d)' = (CallsOf(d) \ {c}) \cup {e}
  BY <1>2 DEF CallsOf
<1>4. IsFiniteSet(CallsOf(d)) /\ IsFiniteSet(CallsOf(d) \ {c})
  BY <1>1, CallsOfFinite, FS_RemoveElement
<1>5. \A x \in CallsOf(d) \ {c} : x.p # e.p
  BY <1>1, <1>2 DEF RoundInv
<1>6. Cardinality(CallsOf(d)') = Cardinality(CallsOf(d))
  <2>1. Cardinality(CallsOf(d) \ {c}) = Cardinality(CallsOf(d)) - 1
    BY <1>1, <1>4, FS_RemoveElement
  <2>2. Cardinality(CallsOf(d)') = Cardinality(CallsOf(d) \ {c}) + 1
    BY <1>3, <1>4, <1>5, FS_AddElement
  <2> QED BY <1>1, <2>1, <2>2, CallsOfFinite
<1>7. deleter[d].pc = "sending"
  BY <1>1 DEF RoundInv
<1>8. \A x \in CallsOf(d)' : x.p \notin deleter[d].todo
  BY <1>1, <1>2, <1>3 DEF RoundInv
<1>9. \A x, y \in CallsOf(d)' : x.p = y.p => x = y
  BY <1>3, <1>5 DEF RoundInv
<1> QED BY <1>1, <1>6, <1>7, <1>8, <1>9 DEF RoundInv

LEMMA CallbackKeepsRound ==
  ASSUME Types, Types', NEW c \in calls, Callback(c), RoundInv(c.from)
  PROVE  RoundInv(c.from)'
<1> DEFINE d == c.from
<1>1. d \in Deleters /\ c \in CallsOf(d) /\ deleter[d] \in Round
  BY DEF Types, Call, CallsOf
<1>2. /\ deleter'[d].pc = deleter[d].pc /\ deleter'[d].todo = deleter[d].todo
      /\ deleter'[d].latch = deleter[d].latch - 1
  BY <1>1 DEF Callback, Types, Round
<1>3. CallsOf(d)' = CallsOf(d) \ {c}
  BY DEF Callback, CallsOf
<1>4. deleter[d].pc = "sending" /\ deleter[d].todo \subseteq Partition
  BY <1>1 DEF RoundInv, Round
<1>5. Cardinality(CallsOf(d)') = Cardinality(CallsOf(d)) - 1 /\ Cardinality(CallsOf(d)) \in Nat
  BY <1>1, <1>3, CallsOfFinite, FS_RemoveElement
<1>6. Cardinality(deleter[d].todo) \in Nat
  BY <1>4, PartitionsFinite
<1>7. deleter[d].latch = Cardinality(deleter[d].todo) + Cardinality(CallsOf(d))
  BY <1>4 DEF RoundInv
<1>8. deleter'[d].latch = Cardinality(deleter'[d].todo) + Cardinality(CallsOf(d)')
  BY <1>2, <1>5, <1>6, <1>7
<1> QED BY <1>2, <1>3, <1>4, <1>8 DEF RoundInv

LEMMA NextRounds ==
  ASSUME Types, Types', Rounds, [Next]_vars
  PROVE  Rounds'
<1> SUFFICES ASSUME NEW d \in Deleters PROVE RoundInv(d)'
  BY DEF Rounds
<1>0. RoundInv(d) /\ deleter[d] \in Round /\ deleter \in [Deleters -> Round]
  BY DEF Rounds, Types
<1>1. CASE UNCHANGED <<deleter, calls>>
  BY <1>0, <1>1, RoundKept DEF CallsOf
<1>2. ASSUME NEW e \in Deleters, e # d, Deleter(e) PROVE RoundInv(d)'
  <2>1. deleter'[d] = deleter[d]
    BY <1>0, <1>2 DEF Deleter, DeleterStart, DeleterTargets, DeleterSend, DeleterFinish
  <2>2. CallsOf(d)' = CallsOf(d)
    <3>1. ASSUME NEW p, DeleterSend(e, p)
          PROVE  calls' = calls \/ \E c : c.from = e /\ calls' = calls \cup {c}
      <4> DEFINE c == [from |-> e, p |-> p, status |-> "sent", deleted |-> 0]
      <4>1. calls' = calls \/ calls' = calls \cup {c}
        BY <3>1 DEF DeleterSend
      <4>2. c.from = e
        OBVIOUS
      <4> HIDE DEF c
      <4> QED BY <4>1, <4>2
    <3>2. ASSUME DeleterStart(e) \/ DeleterTargets(e) \/ DeleterFinish(e) PROVE calls' = calls
      BY <3>2 DEF DeleterStart, DeleterTargets, DeleterFinish
    <3>3. calls' = calls \/ \E c : c.from = e /\ calls' = calls \cup {c}
      BY <1>2, <3>1, <3>2 DEF Deleter
    <3> QED BY <1>2, <3>3 DEF CallsOf
  <2> QED BY <1>0, <2>1, <2>2, RoundKept
<1>3. CASE DeleterStart(d)
  <2>1. /\ deleter[d].pc = "scheduled" /\ deleter'[d].pc = "targets" /\ calls' = calls
        /\ deleter'[d].todo = partitionData /\ deleter'[d].latch = Cardinality(partitionData)
    BY <1>0, <1>3 DEF DeleterStart, Round
  <2>2. CallsOf(d)' = {} /\ Cardinality({}) = 0 /\ Cardinality(partitionData) \in Nat
    BY <1>0, <2>1, FS_EmptySet, PartitionsFinite DEF RoundInv, CallsOf, Types
  <2> QED BY <2>1, <2>2 DEF RoundInv
<1>4. CASE DeleterTargets(d)
  <2>1. /\ deleter[d].pc = "targets" /\ deleter'[d].pc = "sending" /\ calls' = calls
        /\ deleter'[d].todo = deleter[d].todo /\ deleter'[d].latch = deleter[d].latch
    BY <1>0, <1>4 DEF DeleterTargets, Round
  <2> QED BY <1>0, <2>1 DEF RoundInv, CallsOf
<1>5. ASSUME NEW p \in deleter[d].todo, DeleterSend(d, p) PROVE RoundInv(d)'
  BY <1>0, <1>5, SendKeepsRound
<1>6. CASE DeleterFinish(d)
  <2>1. /\ deleter[d].pc = "sending" /\ deleter[d].todo = {} /\ deleter[d].latch = 0
        /\ deleter'[d].pc = "scheduled" /\ deleter'[d].todo = {} /\ calls' = calls
    BY <1>0, <1>6 DEF DeleterFinish, Round
  <2>2. Cardinality(CallsOf(d)) = 0
    BY <1>0, <2>1, CallsOfFinite, FS_EmptySet DEF RoundInv
  <2>3. CallsOf(d) = {} /\ CallsOf(d)' = {}
    BY <2>1, <2>2, CallsOfFinite DEF CallsOf
  <2> QED BY <2>1, <2>3 DEF RoundInv
<1>7. ASSUME NEW c \in calls, Execute(c) \/ Callback(c) PROVE RoundInv(d)'
  <2>1. CASE c.from = d
    BY <1>0, <1>7, <2>1, ExecuteKeepsRound, CallbackKeepsRound
  <2>2. CASE c.from # d
    <3>1. c \in Call /\ c.from \in Deleters
      BY DEF Types, Call
    <3>2. deleter'[d] = deleter[d]
      BY <1>0, <1>7, <2>2, <3>1 DEF Execute, Callback
    <3>3. calls' = calls \ {c} \/ \E e : e.from = c.from /\ calls' = (calls \ {c}) \cup {e}
      BY <1>7, ExecuteCalls DEF Callback
    <3>4. CallsOf(d)' = CallsOf(d)
      BY <2>2, <3>3 DEF CallsOf
    <3> QED BY <1>0, <3>2, <3>4, RoundKept
  <2> QED BY <2>1, <2>2
<1>8. CASE Tick \/ Report \/ Tracker \/ UNCHANGED vars
  BY <1>1, <1>8 DEF Tick, Report, Tracker, TrackerStatistics, TrackerKeys, TrackerTarget,
                    trackerOnly, vars
<1>9. ASSUME NEW p, Insert(p) \/ AddPartition(p) PROVE RoundInv(d)'
  BY <1>1, <1>9 DEF Insert, AddPartition
<1> QED BY <1>2, <1>3, <1>4, <1>5, <1>6, <1>7, <1>8, <1>9 DEF Next, Deleter, Respond, CallsOf

-----------------------------------------------------------------------------
(* Theorems. *)

\* The latch counts the calls of a round, and no target is below the share or date later
\* than the cut, in every state (Nibbler.java:130-165, ContinuousDeleter.java:119-176).
THEOREM Invariance == Spec => []IInv
<1>1. Init => IInv
  BY InitTypes, InitTargets, InitRounds DEF IInv
<1>2. IInv /\ [Next]_vars => IInv'
  BY NextTypes, NextTargets, NextRounds DEF IInv
<1> QED BY <1>1, <1>2, PTL DEF Spec

\* The latch of a round counts the calls that are still to be sent or answered
\* (ContinuousDeleter.java:110), and every variable has its type.
THEOREM TypeCorrect == Spec => []TypeOK
<1>1. IInv => TypeOK
  <2> SUFFICES ASSUME IInv PROVE TypeOK
    OBVIOUS
  <2>1. \A p \in Partition : rows[p] \subseteq [id : 1 .. inserted, ts : 0 .. now]
    BY DEF IInv, Types
  <2>2. ASSUME NEW d \in Deleters
        PROVE  /\ deleter[d].pc \in {"scheduled", "targets", "sending"}
               /\ deleter[d].pc # "scheduled" =>
                    deleter[d].latch = Cardinality(deleter[d].todo) + Cardinality(CallsOf(d))
               /\ \A c \in CallsOf(d) : c.p \in Partition \ deleter[d].todo
    BY DEF IInv, Types, Rounds, RoundInv, Round, Call, CallsOf
  <2> QED BY <2>1, <2>2 DEF IInv, Types, TypeOK
<1> QED BY <1>1, Invariance, PTL

\* The rounds of a deleter never overlap, however many partitions and deleters there
\* are and whichever calls fail or throw (ContinuousDeleter.java:151-152).
THEOREM RoundsDoNotOverlapHolds == Spec => []RoundsDoNotOverlap
<1>1. IInv => RoundsDoNotOverlap
  BY DEF IInv, Rounds, RoundInv, RoundsDoNotOverlap
<1> QED BY <1>1, Invariance, PTL

\* An instance has its own copy of the operators that it extends.
LEMMA SameCardinality == \A S : Retained!Cardinality(S) = Cardinality(S)
BY DEF Retained!Cardinality, Cardinality

\* What one deletion call takes is discardable at that moment.
LEMMA ExecuteDiscards ==
  ASSUME IInv, NEW c \in calls, Execute(c)
  PROVE  c.p \in Partition /\ Retained!Discard(c.p)
<1> DEFINE p == c.p
           d == c.from
           byDate == DeleteAfterDate(rows[p], deleter[d].date, config.chunkSize)
           byCount == DeleteOldestToTarget(rows[p], deleter[d].rowTarget, config.chunkSize)
           result == IF DateMode THEN byDate ELSE byCount
           gone == rows[p] \ result.rows
<1>1. c \in Call /\ d \in Deleters /\ p \in Partition /\ deleter[d] \in Round
  BY DEF IInv, Types, Call
<1>2. Dated(rows[p])
  BY <1>1 DEF IInv, Types, Dated
<1>3. /\ deleter[d].date \in Int /\ deleter[d].rowTarget \in Nat /\ config.chunkSize \in Int
      /\ config.historyTicks \in Nat
  BY <1>1, ConfigTypes DEF Round, IInv
<1>4. deleter[d].date <= now - config.historyTicks /\ deleter[d].rowTarget >= Share
  <2>1. deleter[d].pc = "sending"
    BY <1>1 DEF IInv, Rounds, RoundInv, CallsOf
  <2> QED BY <1>1, <2>1 DEF IInv, TargetInv
<1>5. result.rows \subseteq rows[p]
  BY DeletesOnly
<1>6. \A r \in gone, kept \in rows[p] \ gone : r.ts < kept.ts
  <2>1. \A r \in rows[p] \ byDate.rows, kept \in byDate.rows : r.ts < kept.ts
    BY <1>2, <1>3, DeleteAfterDateOldest
  <2>2. \A r \in rows[p] \ byCount.rows, kept \in byCount.rows : r.ts < kept.ts
    BY <1>2, <1>3, DeleteOldestToTargetOldest
  <2> QED BY <2>1, <2>2
<1>7. gone \subseteq Retained!Discardable(p)
  <2>1. CASE DateMode
    <3>1. \A r \in gone : r.ts <= deleter[d].date /\ r.ts \in Int
      BY <1>2, <1>3, <2>1, DeleteAfterDateWithin DEF Dated
    <3>2. now \in Nat
      BY DEF IInv, Types
    <3>3. \A r \in gone : r \in rows[p] /\ r.ts <= now - config.historyTicks
      BY <1>3, <1>4, <3>1, <3>2
    <3> QED BY <2>1, <3>3 DEF Retained!Discardable, DateMode
  <2>2. CASE ~DateMode /\ gone # {}
    <3>1. ~(Cardinality(rows[p]) < deleter[d].rowTarget)
      BY <1>3, <2>2, SmallTableKept
    <3>2. Cardinality(rows[p]) \in Nat /\ Share \in Nat
      BY <1>2, FS_CardinalityType, ShareType DEF Dated, IInv
    <3>3. Cardinality(rows[p]) >= Share
      BY <1>3, <1>4, <3>1, <3>2
    <3>4. ~(config.historyTicks > 0)
      BY <2>2 DEF DateMode
    <3>5. Cardinality(rows[p]) >= config.maxRows \div Cardinality(cluster)
      BY <3>3 DEF Share
    <3>6. Retained!Discardable(p) = rows[p]
      BY <3>4, <3>5, SameCardinality DEF Retained!Discardable
    <3> QED BY <3>6
  <2> QED BY <2>1, <2>2
<1>8. /\ rows' = [rows EXCEPT ![p] = result.rows]
      /\ UNCHANGED <<config, now, cluster>>
  BY DEF Execute
<1>9. result.rows = rows[p] \ gone
  BY <1>5
<1> HIDE DEF result
<1>10. rows' = [rows EXCEPT ![p] = @ \ gone]
  BY <1>8, <1>9
<1> QED BY <1>1, <1>6, <1>7, <1>8, <1>10 DEF Retained!Discard

LEMMA StepRefines ==
  ASSUME IInv, [Next]_vars
  PROVE  [Retained!RetentionNext]_<<config, now, cluster, rows>>
<1>1. CASE Tick
  BY <1>1 DEF Tick, database, Retained!RetentionNext, Retained!Pass
<1>2. ASSUME NEW p \in cluster, Insert(p) PROVE Retained!RetentionNext
  <2> DEFINE r == [id |-> inserted', ts |-> now]
  <2>1. rows' = [rows EXCEPT ![p] = @ \cup {r}] /\ UNCHANGED <<config, now, cluster>>
    BY <1>2 DEF Insert
  <2>2. r.ts = now
    OBVIOUS
  <2>3. p \in Partition
    BY DEF IInv, Types
  <2> HIDE DEF r
  <2>4. r \in rows'[p]
    BY <2>1, <2>3 DEF IInv, Types
  <2> QED BY <2>1, <2>2, <2>3, <2>4 DEF Retained!RetentionNext, Retained!Add
<1>3. ASSUME NEW p \in Partition \ cluster, AddPartition(p) PROVE Retained!RetentionNext
  BY <1>3 DEF AddPartition, Retained!RetentionNext, Retained!Join
<1>4. ASSUME NEW c \in calls, Execute(c) PROVE Retained!RetentionNext
  BY <1>4, ExecuteDiscards DEF Retained!RetentionNext
<1>5. CASE Report \/ Tracker \/ UNCHANGED vars
  BY <1>5 DEF vars, database, trackerOnly, Report, Tracker, TrackerStatistics, TrackerKeys,
              TrackerTarget
<1>6. ASSUME NEW d \in Deleters, Deleter(d) PROVE UNCHANGED <<config, now, cluster, rows>>
  BY <1>6 DEF database, deleterOnly, Deleter, DeleterStart, DeleterTargets, DeleterSend,
              DeleterFinish
<1>7. ASSUME NEW c \in calls, Callback(c) PROVE UNCHANGED <<config, now, cluster, rows>>
  BY <1>7 DEF database, Callback
<1> QED BY <1>1, <1>2, <1>3, <1>4, <1>5, <1>6, <1>7 DEF Next, Respond, CallsOf

\* The nibbler implements Retention: rows leave only when they are old enough or
\* their partition has its share, and the oldest first, whatever tasks, answers
\* and failures interleave.
THEOREM ImplementsRetentionHolds == Spec => ImplementsRetention
<1>1. Init => Retained!RetentionInit
  BY DEF Init, Retained!RetentionInit
<1>2. IInv /\ [Next]_vars => [Retained!RetentionNext]_<<config, now, cluster, rows>>
  BY StepRefines
<1> QED BY <1>1, <1>2, Invariance, PTL DEF Spec, ImplementsRetention, Retained!RetentionSpec

-----------------------------------------------------------------------------
(* What the answers on their way tell the deleter and the reporter.  The     *)
(* sum over a set of calls needs no recursion: the rows that the answers     *)
(* count are pairs of a call and a number, and the pairs are counted.        *)

\* The rows that an answer counts, once it is there.
Worth(c) == IF c.status = "success" THEN c.deleted ELSE 0

Pending(S) == {x \in S \X Nat : x[2] \in 1 .. Worth(x[1])}

\* Every row removed is reported, in the counter, or in an answer under way.
AccountInv ==
  /\ IsFiniteSet(Pending(calls))
  /\ reported + deletes + Cardinality(Pending(calls)) <= removed
  /\ faults = 0 => reported + deletes + Cardinality(Pending(calls)) = removed

\* Calls that have all been carried out, and have left rows to delete.
Undone(d) == "rows" \in leftover[d] /\ "failure" \notin leftover[d]

\* Such a call is in the deleter's flag, or its answer will set it; and the deleter
\* pauses only without the flag.
PauseInv(d) ==
  /\ Undone(d) =>
       deleter[d].unfinished \/ \E c \in CallsOf(d) : Worth(c) >= config.chunkSize
  /\ deleter[d].pc = "scheduled" /\ deleter[d].pause => ~deleter[d].unfinished

Pauses == \A d \in Deleters : PauseInv(d)

LEMMA WorthType ==
  ASSUME NEW c \in Call
  PROVE  Worth(c) \in Nat /\ (c.status # "success" => Worth(c) = 0)
BY DEF Call, Worth

LEMMA PendingOne ==
  ASSUME NEW c \in Call
  PROVE  IsFiniteSet(Pending({c})) /\ Cardinality(Pending({c})) = Worth(c)
<1> DEFINE w == Worth(c)
<1>1. w \in Nat
  BY WorthType
<1>2. Pending({c}) = {c} \X (1 .. w)
  <2>1. \A i \in 1 .. w : i \in Nat
    BY <1>1
  <2> HIDE DEF w
  <2>2. Pending({c}) = {x \in {c} \X Nat : x[2] \in 1 .. w}
    BY DEF Pending, w
  <2> QED BY <2>1, <2>2
<1> HIDE DEF w
<1>3. IsFiniteSet({c}) /\ Cardinality({c}) = 1
  BY FS_Singleton
<1>4. IsFiniteSet(1 .. w) /\ Cardinality(1 .. w) = w
  BY <1>1, FS_Interval
<1> DEFINE I == 1 .. w
           C == {c}
<1> HIDE DEF I, C
<1>5. IsFiniteSet(C \X I) /\ Cardinality(C \X I) = Cardinality(C) * Cardinality(I)
  BY <1>3, <1>4, FS_Product DEF C, I
<1>6. Cardinality(C \X I) = w
  BY <1>1, <1>3, <1>4, <1>5 DEF C, I
<1>7. Pending({c}) = C \X I
  BY <1>2 DEF C, I
<1> QED BY <1>5, <1>6, <1>7 DEF w

LEMMA PendingWithout ==
  ASSUME NEW S \in SUBSET Call, NEW c \in S, IsFiniteSet(Pending(S \ {c}))
  PROVE  /\ IsFiniteSet(Pending(S))
         /\ Cardinality(Pending(S \ {c})) \in Nat
         /\ Cardinality(Pending(S)) = Cardinality(Pending(S \ {c})) + Worth(c)
<1>1. Pending(S) = Pending(S \ {c}) \cup Pending({c})
  BY DEF Pending
<1>2. Pending(S \ {c}) \cap Pending({c}) = {}
  BY DEF Pending
<1>3. IsFiniteSet(Pending({c})) /\ Cardinality(Pending({c})) = Worth(c)
  BY PendingOne
<1>4. Cardinality(Pending(S \ {c})) \in Nat /\ Worth(c) \in Nat
  BY FS_CardinalityType, WorthType
<1>5. /\ IsFiniteSet(Pending(S \ {c}) \cup Pending({c}))
      /\ Cardinality(Pending(S \ {c}) \cup Pending({c})) =
           Cardinality(Pending(S \ {c})) + Cardinality(Pending({c}))
            - Cardinality(Pending(S \ {c}) \cap Pending({c}))
  BY <1>3, FS_Union
<1>6. Cardinality(Pending(S \ {c}) \cap Pending({c})) = 0
  BY <1>2, FS_EmptySet
<1> QED BY <1>1, <1>3, <1>4, <1>5, <1>6

\* One deletion call: what it removed, and what its answer will say.
LEMMA ExecuteAnswer ==
  ASSUME Types, NEW c \in calls, Execute(c)
  PROVE  \E e \in Call :
           /\ c.status = "sent" /\ e.from = c.from /\ e.p = c.p
           /\ calls' = (calls \ {c}) \cup {e}
           /\ Worth(e) <= removed' - removed
           /\ faults' = 0 =>
                faults = 0 /\ Worth(e) = removed' - removed
           /\ Undone(c.from)' => Undone(c.from) \/ Worth(e) >= config.chunkSize
           /\ \A d \in Deleters \ {c.from} : leftover'[d] = leftover[d]
<1> DEFINE d == c.from
           byDate == DeleteAfterDate(rows[c.p], deleter[d].date, config.chunkSize)
           byCount == DeleteOldestToTarget(rows[c.p], deleter[d].rowTarget, config.chunkSize)
           result == IF DateMode THEN byDate ELSE byCount
           undone == IF DateMode THEN UpTo(result.rows, deleter[d].date) # {}
                     ELSE Cardinality(result.rows) > deleter[d].rowTarget
           remains == IF undone THEN {"rows"} ELSE {}
           e(status) == [c EXCEPT !.status = status, !.deleted = result.deleted]
<1>1. /\ c \in Call /\ d \in Deleters /\ c.p \in Partition /\ deleter[d] \in Round
      /\ leftover \in [Deleters -> SUBSET {"rows", "failure"}] /\ faults \in Nat /\ removed \in Nat
  BY DEF Types, Call
<1>2. /\ Dated(rows[c.p]) /\ deleter[d].date \in Int /\ deleter[d].rowTarget \in Int
      /\ config.chunkSize \in Int
  BY <1>1, ConfigTypes DEF Types, Dated, Round
<1>3. result.deleted \in Nat
  BY <1>2, RepliesACount
<1>4. result.ok /\ undone => result.deleted >= config.chunkSize
  <2>1. CASE DateMode
    BY <1>2, <2>1, DeleteAfterDateChunk
  <2>2. CASE ~DateMode
    BY <1>2, <2>2, DeleteOldestChunk
  <2> QED BY <2>1, <2>2
<1>5. ~result.ok => result.deleted = 0
  BY AbortDeletesNothing
<1>6. /\ c.status = "sent" /\ removed' = removed + result.deleted
      /\ \/ /\ result.ok /\ calls' = (calls \ {c}) \cup {e("success")} /\ faults' = faults
            /\ Left(d, remains)
         \/ /\ ~result.ok /\ calls' = (calls \ {c}) \cup {e("failure")} /\ faults' = faults
            /\ Left(d, remains \cup {"failure"})
         \/ /\ calls' = (calls \ {c}) \cup {e("failure")} /\ faults' = faults + 1
            /\ Left(d, remains \cup {"failure"})
  BY DEF Execute, Fault
<1> DEFINE n == result.deleted
<1>7. /\ n \in Nat /\ removed' = removed + n /\ (result.ok /\ undone => n >= config.chunkSize)
      /\ (~result.ok => n = 0)
  BY <1>3, <1>4, <1>5, <1>6
<1>8. ASSUME NEW status \in {"sent", "success", "failure"}
      PROVE  /\ e(status) \in Call /\ e(status).from = d /\ e(status).p = c.p
             /\ Worth(e(status)) = IF status = "success" THEN n ELSE 0
  <2>1. e(status) = [c EXCEPT !.status = status, !.deleted = n]
    OBVIOUS
  <2> HIDE DEF n
  <2> QED BY <1>1, <1>7, <2>1 DEF Call, Worth
<1>9. remains = (IF undone THEN {"rows"} ELSE {})
  OBVIOUS
<1> HIDE DEF n, e, result, undone, remains
<1>10. CASE /\ result.ok /\ calls' = (calls \ {c}) \cup {e("success")} /\ faults' = faults
            /\ Left(d, remains)
  <2>1. e("success") \in Call /\ Worth(e("success")) = n
    BY <1>8
  <2>2. Worth(e("success")) = removed' - removed /\ Worth(e("success")) <= removed' - removed
    BY <1>1, <1>7, <2>1
  <2>3. Undone(d)' => Undone(d) \/ undone
    BY <1>1, <1>9, <1>10 DEF Left, Undone
  <2>4. Undone(d)' => Undone(d) \/ Worth(e("success")) >= config.chunkSize
    BY <1>7, <1>10, <2>1, <2>3
  <2>5. \A x \in Deleters \ {d} : leftover'[x] = leftover[x]
    BY <1>1, <1>10 DEF Left
  <2> QED BY <1>6, <1>8, <1>10, <2>1, <2>2, <2>4, <2>5
<1>11. ASSUME Left(d, remains \cup {"failure"})
       PROVE  ~Undone(d)' /\ \A x \in Deleters \ {d} : leftover'[x] = leftover[x]
  BY <1>1, <1>11 DEF Left, Undone
<1>12. CASE /\ ~result.ok /\ calls' = (calls \ {c}) \cup {e("failure")} /\ faults' = faults
            /\ Left(d, remains \cup {"failure"})
  <2>1. e("failure") \in Call /\ Worth(e("failure")) = 0
    BY <1>8
  <2>2. Worth(e("failure")) = removed' - removed /\ Worth(e("failure")) <= removed' - removed
    BY <1>1, <1>7, <1>12, <2>1
  <2> QED BY <1>6, <1>8, <1>11, <1>12, <2>1, <2>2
<1>13. CASE /\ calls' = (calls \ {c}) \cup {e("failure")} /\ faults' = faults + 1
            /\ Left(d, remains \cup {"failure"})
  <2>1. e("failure") \in Call /\ Worth(e("failure")) = 0
    BY <1>8
  <2>2. Worth(e("failure")) <= removed' - removed /\ faults' # 0
    BY <1>1, <1>7, <1>13, <2>1
  <2> QED BY <1>6, <1>8, <1>11, <1>13, <2>1, <2>2
<1> QED BY <1>6, <1>10, <1>12, <1>13

LEMMA AccountsInit == Init => AccountInv /\ Pauses
<1> SUFFICES ASSUME Init PROVE AccountInv /\ Pauses
  OBVIOUS
<1>1. Pending({}) = {} /\ IsFiniteSet({}) /\ Cardinality({}) = 0
  BY FS_EmptySet DEF Pending
<1>2. AccountInv
  <2>1. calls = {} /\ reported = 0 /\ deletes = 0 /\ removed = 0
    BY DEF Init
  <2>2. IsFiniteSet(Pending(calls)) /\ Cardinality(Pending(calls)) = 0
    BY <1>1, <2>1
  <2> QED BY <2>1, <2>2 DEF AccountInv
<1>3. ASSUME NEW d \in Deleters PROVE PauseInv(d)
  BY <1>3 DEF Init, PauseInv, Undone
<1> QED BY <1>2, <1>3 DEF Pauses

\* A step that removes, counts and answers nothing.
LEMMA AccountsKept ==
  ASSUME AccountInv, Pending(calls') = Pending(calls), faults' = 0 => faults = 0,
         UNCHANGED <<reported, deletes, removed>>
  PROVE  AccountInv'
BY DEF AccountInv

LEMMA PauseKept ==
  ASSUME NEW d, PauseInv(d), CallsOf(d) \subseteq CallsOf(d)',
         config' = config, leftover'[d] = leftover[d], deleter'[d] = deleter[d]
  PROVE  PauseInv(d)'
BY DEF PauseInv, Undone

\* A call sent counts nothing yet.
LEMMA SendCounts ==
  ASSUME Types, NEW d \in Deleters, NEW p \in deleter[d].todo, DeleterSend(d, p)
  PROVE  /\ Pending(calls') = Pending(calls) /\ calls \subseteq calls' /\ (faults' = 0 => faults = 0)
         /\ UNCHANGED <<config, reported, deletes, removed>>
         /\ \A x \in Deleters : /\ Undone(x)' => Undone(x)
                                /\ deleter'[x].unfinished = deleter[x].unfinished
                                /\ deleter'[x].pc = deleter[x].pc
                                /\ deleter'[x].pause = deleter[x].pause
<1> DEFINE c == [from |-> d, p |-> p, status |-> "sent", deleted |-> 0]
<1>1. calls' = calls \/ calls' = calls \cup {c}
  BY DEF DeleterSend
<1>2. Worth(c) = 0
  BY DEF Worth
<1> HIDE DEF c
<1>3. Pending(calls') = Pending(calls)
  BY <1>1, <1>2 DEF Pending
<1>4. faults' = 0 => faults = 0
  BY DEF DeleterSend, Fault, Types
<1>5. \A x \in Deleters : /\ deleter'[x].unfinished = deleter[x].unfinished
                          /\ deleter'[x].pc = deleter[x].pc
                          /\ deleter'[x].pause = deleter[x].pause
  BY DEF DeleterSend, Types, Round
<1>6. \A x \in Deleters : Undone(x)' => Undone(x)
  BY DEF DeleterSend, Left, Types, Undone
<1> QED BY <1>1, <1>3, <1>4, <1>5, <1>6 DEF DeleterSend, deleterOnly, database

\* The database removes rows, and their number travels in the answer.
LEMMA ExecuteCounts ==
  ASSUME Types, Rounds, AccountInv, NEW c \in calls, Execute(c)
  PROVE  AccountInv'
<1>1. PICK e \in Call :
        /\ c.status = "sent" /\ e.from = c.from /\ e.p = c.p
        /\ calls' = (calls \ {c}) \cup {e} /\ Worth(e) <= removed' - removed
        /\ faults' = 0 => faults = 0 /\ Worth(e) = removed' - removed
  BY ExecuteAnswer
<1> DEFINE others == calls \ {c}
           n == Cardinality(Pending(others))
<1>2. /\ calls \subseteq Call /\ c \in Call /\ c.from \in Deleters
      /\ {reported, deletes, removed} \subseteq Nat
  BY DEF Types, Call
<1>3. Worth(c) = 0 /\ Worth(e) \in Nat
  BY <1>1, <1>2, WorthType
<1>4. e \notin others
  <2>1. ASSUME e \in others PROVE FALSE
    <3>1. e \in CallsOf(c.from) /\ c \in CallsOf(c.from) /\ e # c
      BY <1>1, <2>1 DEF CallsOf
    <3>2. RoundInv(c.from)
      BY <1>2 DEF Rounds
    <3> QED BY <1>1, <3>1, <3>2 DEF RoundInv
  <2> QED BY <2>1
<1>5. IsFiniteSet(Pending(others))
  <2>1. Pending(others) \subseteq Pending(calls)
    BY DEF Pending
  <2> QED BY <2>1, FS_Subset DEF AccountInv
<1>6. n \in Nat /\ Cardinality(Pending(calls)) = n + Worth(c)
  BY <1>2, <1>5, PendingWithout
<1>7. calls' \in SUBSET Call /\ e \in calls' /\ calls' \ {e} = others
  BY <1>1, <1>2, <1>4
<1>8. IsFiniteSet(Pending(calls')) /\ Cardinality(Pending(calls')) = n + Worth(e)
  BY <1>5, <1>7, PendingWithout
<1>9. reported' = reported /\ deletes' = deletes /\ removed' \in Int
  <2>1. removed' \in Nat
    BY ExecuteTypes DEF Types
  <2> QED BY <2>1, SMTT(30) DEF Execute
<1>10. reported + deletes + n <= removed /\ (faults = 0 => reported + deletes + n = removed)
  BY <1>3, <1>6 DEF AccountInv
<1> HIDE DEF n, others
<1>11. reported + deletes + (n + Worth(e)) <= removed'
  BY <1>1, <1>2, <1>3, <1>6, <1>9, <1>10
<1>12. ASSUME faults' = 0 PROVE reported + deletes + (n + Worth(e)) = removed'
  <2>1. reported + deletes + n = removed /\ Worth(e) = removed' - removed
    BY <1>1, <1>10, <1>12
  <2> QED BY <1>2, <1>3, <1>6, <1>9, <2>1
<1> QED BY <1>8, <1>9, <1>11, <1>12 DEF AccountInv

\* The number moves from the answer to the counter.
LEMMA CallbackCounts ==
  ASSUME Types, AccountInv, NEW c \in calls, Callback(c)
  PROVE  AccountInv'
<1> DEFINE others == calls \ {c}
           n == Cardinality(Pending(others))
<1>1. /\ calls \subseteq Call /\ c \in Call /\ Worth(c) \in Nat
      /\ {reported, deletes, removed} \subseteq Nat
  BY WorthType DEF Types
<1>2. IsFiniteSet(Pending(others))
  <2>1. Pending(others) \subseteq Pending(calls)
    BY DEF Pending
  <2> QED BY <2>1, FS_Subset DEF AccountInv
<1>3. n \in Nat /\ Cardinality(Pending(calls)) = n + Worth(c)
  BY <1>1, <1>2, PendingWithout
<1>4. deletes' = deletes + Worth(c)
  BY <1>1 DEF Callback, Worth
<1>5. calls' = others /\ UNCHANGED <<reported, removed, faults>>
  BY DEF Callback, database
<1>6. /\ reported + deletes + (n + Worth(c)) <= removed
      /\ faults = 0 => reported + deletes + (n + Worth(c)) = removed
  BY <1>3 DEF AccountInv
<1>7. Cardinality(Pending(calls')) = n /\ IsFiniteSet(Pending(calls'))
  BY <1>2, <1>5
<1> HIDE DEF n, others
<1>8. reported + deletes' + n = reported + deletes + (n + Worth(c))
  BY <1>1, <1>3, <1>4
<1> QED BY <1>5, <1>6, <1>7, <1>8 DEF AccountInv

LEMMA NextAccounts ==
  ASSUME Types, Rounds, AccountInv, [Next]_vars
  PROVE  AccountInv'
<1>1. CASE Report
  <2>1. /\ {reported, deletes} \subseteq Nat /\ reported' = reported + deletes /\ deletes' = 0
        /\ UNCHANGED <<calls, removed, faults>>
    BY <1>1 DEF Types, Report, database
  <2>2. reported' + deletes' = reported + deletes
    BY <2>1
  <2> QED BY <2>1, <2>2 DEF AccountInv
<1>2. CASE Tick \/ Tracker \/ UNCHANGED vars
  BY <1>2, AccountsKept DEF Tick, Tracker, TrackerStatistics, TrackerKeys, TrackerTarget, Fault,
                            trackerOnly, database, vars, Types
<1>3. ASSUME NEW p, Insert(p) \/ AddPartition(p) PROVE AccountInv'
  BY <1>3, AccountsKept DEF Insert, AddPartition
<1>4. ASSUME NEW d \in Deleters, DeleterStart(d) \/ DeleterTargets(d) \/ DeleterFinish(d)
      PROVE  AccountInv'
  BY <1>4, AccountsKept DEF DeleterStart, DeleterTargets, DeleterFinish, deleterOnly, database
<1>5. ASSUME NEW d \in Deleters, NEW p \in deleter[d].todo, DeleterSend(d, p)
      PROVE  AccountInv'
  BY <1>5, SendCounts, AccountsKept
<1>6. ASSUME NEW c \in calls, Execute(c) \/ Callback(c) PROVE AccountInv'
  BY <1>6, ExecuteCounts, CallbackCounts
<1> QED BY <1>1, <1>2, <1>3, <1>4, <1>5, <1>6 DEF Next, Deleter, Respond, CallsOf

LEMMA NextPauses ==
  ASSUME Types, Rounds, Pauses, [Next]_vars
  PROVE  Pauses'
<1> SUFFICES ASSUME NEW d \in Deleters PROVE PauseInv(d)'
  BY DEF Pauses
<1>0. /\ PauseInv(d) /\ RoundInv(d) /\ deleter[d] \in Round /\ deleter \in [Deleters -> Round]
      /\ leftover \in [Deleters -> SUBSET {"rows", "failure"}]
  BY DEF Pauses, Rounds, Types
<1>1. CASE Tick \/ Report \/ Tracker \/ UNCHANGED vars
  BY <1>0, <1>1, PauseKept DEF Tick, Report, Tracker, TrackerStatistics, TrackerKeys,
                               TrackerTarget, Fault, trackerOnly, database, vars, CallsOf
<1>2. ASSUME NEW p, Insert(p) \/ AddPartition(p) PROVE PauseInv(d)'
  BY <1>0, <1>2, PauseKept DEF Insert, AddPartition, CallsOf
<1>3. ASSUME NEW e \in Deleters, e # d, DeleterStart(e) \/ DeleterTargets(e) \/ DeleterFinish(e)
      PROVE  PauseInv(d)'
  BY <1>0, <1>3, PauseKept DEF DeleterStart, DeleterTargets, DeleterFinish, deleterOnly,
                               database, CallsOf
<1>4. ASSUME NEW e \in Deleters, NEW p \in deleter[e].todo, DeleterSend(e, p)
      PROVE  PauseInv(d)'
  <2>1. CallsOf(d) \subseteq CallsOf(d)'
    BY <1>4, SendCounts DEF CallsOf
  <2> QED BY <1>0, <1>4, <2>1, SendCounts DEF PauseInv
<1>5. CASE DeleterStart(d)
  <2>1. deleter'[d].pc = "targets" /\ ~Undone(d)'
    BY <1>0, <1>5 DEF DeleterStart, Round, Undone
  <2> QED BY <2>1 DEF PauseInv
<1>6. CASE DeleterTargets(d)
  <2>1. /\ deleter'[d].pc = "sending" /\ deleter'[d].unfinished = deleter[d].unfinished
        /\ UNCHANGED <<leftover, calls, config>>
    BY <1>0, <1>6 DEF DeleterTargets, Round, deleterOnly, database
  <2> QED BY <1>0, <2>1 DEF PauseInv, CallsOf, Undone
<1>7. CASE DeleterFinish(d)
  <2>1. /\ deleter'[d].unfinished = deleter[d].unfinished
        /\ deleter'[d].pause = ~deleter[d].unfinished
        /\ UNCHANGED <<leftover, calls, config>>
    BY <1>0, <1>7 DEF DeleterFinish, Round, deleterOnly, database
  <2>2. deleter'[d].pause => ~deleter'[d].unfinished
    BY <2>1
  <2> QED BY <1>0, <2>1, <2>2 DEF PauseInv, CallsOf, Undone
<1>8. ASSUME NEW c \in calls, Execute(c) PROVE PauseInv(d)'
  <2>1. PICK e \in Call :
          /\ c.status = "sent" /\ e.from = c.from /\ calls' = (calls \ {c}) \cup {e}
          /\ Undone(c.from)' => Undone(c.from) \/ Worth(e) >= config.chunkSize
          /\ \A x \in Deleters \ {c.from} : leftover'[x] = leftover[x]
    BY <1>8, ExecuteAnswer
  <2>2. deleter' = deleter /\ config' = config
    BY <1>8 DEF Execute
  <2>3. c \in Call /\ Worth(c) = 0 /\ config.chunkSize \in Nat \ {0}
    BY <2>1, WorthType, ConfigTypes DEF Types
  <2>4. CASE c.from # d
    <3>1. CallsOf(d)' = CallsOf(d)
      BY <2>1, <2>4 DEF CallsOf
    <3> QED BY <1>0, <2>1, <2>2, <2>4, <3>1, PauseKept
  <2>5. CASE c.from = d
    <3>1. CallsOf(d)' = (CallsOf(d) \ {c}) \cup {e}
      BY <2>1, <2>5 DEF CallsOf
    <3>2. \A x \in CallsOf(d) : Worth(x) >= config.chunkSize => x # c
      BY <2>3
    <3>3. ASSUME Undone(d)', ~deleter[d].unfinished
          PROVE  \E x \in CallsOf(d)' : Worth(x) >= config.chunkSize
      <4>1. Undone(d) \/ Worth(e) >= config.chunkSize
        BY <2>1, <2>5, <3>3
      <4>2. CASE Worth(e) >= config.chunkSize
        BY <3>1, <4>2
      <4>3. CASE Undone(d)
        BY <1>0, <3>1, <3>2, <3>3, <4>1, <4>3 DEF PauseInv
      <4> QED BY <4>1, <4>2, <4>3
    <3> QED BY <1>0, <2>2, <3>3 DEF PauseInv
  <2> QED BY <2>4, <2>5
<1>9. ASSUME NEW c \in calls, Callback(c) PROVE PauseInv(d)'
  <2>1. c \in Call /\ c.from \in Deleters
    BY DEF Types, Call
  <2>2. calls' = calls \ {c} /\ UNCHANGED <<config, leftover>>
    BY <1>9 DEF Callback, database
  <2>3. CASE c.from # d
    <3>1. deleter'[d] = deleter[d]
      BY <1>0, <1>9, <2>1, <2>3 DEF Callback
    <3>2. CallsOf(d)' = CallsOf(d)
      BY <2>2, <2>3 DEF CallsOf
    <3> QED BY <1>0, <2>2, <3>1, <3>2, PauseKept
  <2>4. CASE c.from = d
    <3>1. deleter'[d].pc = "sending"
      <4>1. deleter[d].pc = "sending"
        BY <1>0, <2>4 DEF RoundInv, CallsOf
      <4> QED BY <1>0, <1>9, <2>4, <4>1 DEF Callback, Round
    <3>2. deleter[d].unfinished => deleter'[d].unfinished
      BY <1>0, <1>9, <2>4 DEF Callback, Round
    <3>3. Worth(c) >= config.chunkSize => deleter'[d].unfinished
      <4>1. config.chunkSize \in Nat \ {0}
        BY ConfigTypes
      <4>2. Worth(c) >= config.chunkSize =>
              c.status = "success" /\ c.deleted >= config.chunkSize
        BY <4>1 DEF Worth
      <4> QED BY <1>0, <1>9, <2>4, <4>2 DEF Callback, Round
    <3>4. CallsOf(d)' = CallsOf(d) \ {c}
      BY <2>2 DEF CallsOf
    <3> QED BY <1>0, <2>2, <3>1, <3>2, <3>3, <3>4 DEF PauseInv, Undone
  <2> QED BY <2>3, <2>4
<1> QED BY <1>1, <1>2, <1>3, <1>4, <1>5, <1>6, <1>7, <1>8, <1>9
        DEF Next, Deleter, Respond, CallsOf

\* With them, the accounts of the rows deleted and the memory of unfinished calls hold in
\* every state (ContinuousDeleter.java:68-117).
THEOREM AnswersInvariance == Spec => [](IInv /\ AccountInv /\ Pauses)
<1>1. Init => AccountInv /\ Pauses
  BY AccountsInit
<1>2. IInv /\ AccountInv /\ Pauses /\ [Next]_vars => AccountInv' /\ Pauses'
  BY NextAccounts, NextPauses DEF IInv
<1> QED BY <1>1, <1>2, Invariance, PTL DEF Spec

\* The reports never claim a row that was not deleted, and miss none once all calls
\* are answered and none has failed (Nibbler.java:152-158).
THEOREM ReportsAddUpHolds == Spec => []ReportsAddUp
<1>1. IInv /\ AccountInv => ReportsAddUp
  <2> SUFFICES ASSUME IInv, AccountInv PROVE ReportsAddUp
    OBVIOUS
  <2> DEFINE n == Cardinality(Pending(calls))
  <2>1. n \in Nat /\ {reported, deletes, removed} \subseteq Nat
    BY FS_CardinalityType DEF AccountInv, IInv, Types
  <2>2. reported + deletes + n <= removed /\ (faults = 0 => reported + deletes + n = removed)
    BY DEF AccountInv
  <2>3. calls = {} => n = 0
    BY FS_EmptySet DEF Pending
  <2> HIDE DEF n
  <2>4. reported + deletes <= removed
    BY <2>1, <2>2
  <2>5. faults = 0 /\ n = 0 => reported + deletes = removed
    BY <2>1, <2>2
  <2> QED BY <2>3, <2>4, <2>5 DEF ReportsAddUp
<1> QED BY <1>1, AnswersInvariance, PTL

\* A deleter pauses only when its round, whatever the order of the answers, has left
\* no row that it could have deleted, or a call of it has failed
\* (ContinuousDeleter.java:88-89, 154-162).
THEOREM PauseMeansDoneHolds == Spec => []PauseMeansDone
<1>1. IInv /\ Pauses => PauseMeansDone
  <2> SUFFICES ASSUME IInv, Pauses, NEW d \in Deleters,
                      deleter[d].pc = "scheduled", deleter[d].pause, "rows" \in leftover[d]
               PROVE  "failure" \in leftover[d]
    BY DEF PauseMeansDone
  <2>1. CallsOf(d) = {}
    BY DEF IInv, Rounds, RoundInv
  <2> QED BY <2>1 DEF Pauses, PauseInv, Undone
<1> QED BY <1>1, AnswersInvariance, PTL
=============================================================================
