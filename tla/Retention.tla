------------------------------ MODULE Retention ------------------------------
(***************************************************************************)
(* What the nibbler promises to the events table, without tasks, calls or  *)
(* answers: rows come, and the oldest rows of a partition go, in any       *)
(* number, once they are older than historyseconds or, with maxrows, while *)
(* the partition has its share of rows.                                    *)
(***************************************************************************)
EXTENDS Integers, FiniteSets

CONSTANTS
  Partition, FirstPartitions,
  Configs    \* command lines: historyTicks and maxRows, one of them zero

VARIABLES config, now, cluster, rows

RetentionInit ==
  config \in Configs /\ now = 0 /\ cluster = FirstPartitions /\ rows = [p \in Partition |-> {}]

Pass == now' = now + 1 /\ UNCHANGED <<config, cluster, rows>>

Join(p) == cluster' = cluster \cup {p} /\ UNCHANGED <<config, now, rows>>

Add(p) ==
  /\ \E r \in rows'[p] : r.ts = now /\ rows' = [rows EXCEPT ![p] = @ \cup {r}]
  /\ UNCHANGED <<config, now, cluster>>

\* The rows of a partition that may go.
Discardable(p) ==
  IF config.historyTicks > 0 THEN {r \in rows[p] : r.ts <= now - config.historyTicks}
  ELSE IF Cardinality(rows[p]) >= config.maxRows \div Cardinality(cluster) THEN rows[p] ELSE {}

\* The oldest of them do.
Discard(p) ==
  \E gone \in SUBSET Discardable(p) :
    /\ \A r \in gone, kept \in rows[p] \ gone : r.ts < kept.ts
    /\ rows' = [rows EXCEPT ![p] = @ \ gone]
    /\ UNCHANGED <<config, now, cluster>>

RetentionNext ==
  \/ Pass
  \/ \E p \in Partition : Join(p) \/ Add(p) \/ Discard(p)

RetentionSpec == RetentionInit /\ [][RetentionNext]_<<config, now, cluster, rows>>
=============================================================================
