---------------------------- MODULE EventsTable ----------------------------
(***************************************************************************)
(* The rows of one partition of the `events' table as the two deletion     *)
(* procedures see them, and what one transaction of each procedure does.   *)
(*                                                                         *)
(* A row is any record with an integer field ts.  SQL tables are bags, so  *)
(* the rows of a caller also carry a field that tells equal rows apart.    *)
(* A procedure is an operator from the rows before the transaction to a    *)
(* result: did it commit, the rows after it, the count it replies.  A      *)
(* transaction that aborts leaves the rows as they were.                   *)
(***************************************************************************)
EXTENDS Integers, FiniteSets

CONSTANT NoDate          \* a null TimestampType argument

\* No timestamp is null.
ASSUME NoDateAssumption == NoDate \notin Int

\* DELETE FROM events WHERE ts <= t removes these, COUNT(*) counts them.
UpTo(rows, t) == {r \in rows : r.ts <= t}

Before(rows, t) == {r \in rows : r.ts < t}

\* SELECT ts FROM events ORDER BY ts ASC OFFSET n LIMIT 1: the set of the one
\* timestamp found, empty when the table has no row at position n.
NthOldestTimestamp(rows, n) ==
  {t \in {r.ts : r \in rows} : /\ Cardinality(Before(rows, t)) <= n
                               /\ n < Cardinality(UpTo(rows, t))}

Abort(rows) == [ok |-> FALSE, rows |-> rows, deleted |-> 0]

Delete(rows, gone) ==
  [ok |-> TRUE, rows |-> rows \ gone, deleted |-> Cardinality(gone)]

\* Faults the runs must notice: the comment in the code has the comparison the
\* other way round, and it says why a strict one would not do.
DeleteThroughNewest(rows, found) ==
  IF found = {} THEN Abort(rows)
  ELSE Delete(rows, {r \in rows : \E t \in found : r.ts >= t})

DeleteThroughStrict(rows, found) ==
  IF found = {} THEN Abort(rows)
  ELSE Delete(rows, {r \in rows : \E t \in found : r.ts < t})

\* fetchRow(0) of the query's result, whose EXPECT_SCALAR aborts the
\* transaction when there is no row, then the delete up to that timestamp.
DeleteThrough(rows, found) ==
  IF found = {} THEN Abort(rows)
  ELSE Delete(rows, {r \in rows : \E t \in found : r.ts <= t})

\* Faults: a lookup also when the aged rows just fill a chunk; no chunks at all.
DeleteAfterDateOffByOne(rows, newestToDiscard, target) ==
  IF Cardinality(UpTo(rows, newestToDiscard)) >= target
  THEN DeleteThrough(rows, NthOldestTimestamp(rows, target))
  ELSE Delete(rows, UpTo(rows, newestToDiscard))

DeleteAfterDateUnchunked(rows, newestToDiscard, target) ==
  Delete(rows, UpTo(rows, newestToDiscard))

DeleteAfterDate(rows, newestToDiscard, target) ==
  IF newestToDiscard = NoDate \/ target <= 0 THEN Abort(rows)
  ELSE IF Cardinality(UpTo(rows, newestToDiscard)) > target
       THEN DeleteThrough(rows, NthOldestTimestamp(rows, target))
       ELSE Delete(rows, UpTo(rows, newestToDiscard))

\* Fault: the share is forgotten.
RowsToConsiderNoShare(count, maxTotalRows, target) ==
  IF count < target THEN count - 1 ELSE target

\* How many of the oldest rows to skip before the row that sets the cut.
RowsToConsider(count, maxTotalRows, target) ==
  IF count - maxTotalRows < target THEN count - maxTotalRows ELSE target

DeleteOldestToTarget(rows, maxTotalRows, target) ==
  LET count == Cardinality(rows)
  IN  IF target <= 0 \/ maxTotalRows < 0 THEN Abort(rows)
      ELSE IF count < maxTotalRows THEN Delete(rows, {})
      ELSE IF maxTotalRows = 0 /\ count < target THEN Delete(rows, rows)
      ELSE DeleteThrough(rows,
             NthOldestTimestamp(rows, RowsToConsider(count, maxTotalRows, target)))
=============================================================================
