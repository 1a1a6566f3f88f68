------------------------- MODULE EventsTable_proofs -------------------------
(***************************************************************************)
(* What one call of a deletion procedure does to the rows of a partition,  *)
(* for every table, date, target and chunk size.                           *)
(***************************************************************************)
EXTENDS EventsTable, FiniteSetTheorems, WellFoundedInduction, TLAPS

Dated(rows) == IsFiniteSet(rows) /\ \A r \in rows : r.ts \in Int

\* MAX(ts) exists: a finite, non-empty set of rows has a newest one.
LEMMA NewestExists ==
  ASSUME NEW rows, Dated(rows), rows # {}
  PROVE  \E x \in rows : \A y \in rows : y.ts <= x.ts
<1> DEFINE Newer(x) == {y \in rows : y.ts > x.ts}
           All == {Newer(x) : x \in rows}
           R == StrictSubsetOrdering(rows)
<1>1. IsWellFoundedOn(R, SUBSET rows)
  BY FS_StrictSubsetOrderingWellFounded, FS_FiniteSubsetsOfFinite DEF Dated
<1>2. All \subseteq SUBSET rows /\ All # {}
  OBVIOUS
<1>3. \E u \in All : \A v \in All : <<v, u>> \notin R
  BY <1>1, <1>2, WFMin
<1>4. PICK x \in rows : \A y \in rows : <<Newer(y), Newer(x)>> \notin R
  BY <1>3
<1>5. ASSUME NEW y \in rows, y.ts > x.ts PROVE FALSE
  <2>1. Newer(y) \subseteq Newer(x)
    BY <1>5 DEF Dated
  <2>2. y \in Newer(x) /\ y \notin Newer(y)
    BY <1>5 DEF Dated
  <2>3. <<Newer(y), Newer(x)>> \in (SUBSET rows) \X (SUBSET rows)
    OBVIOUS
  <2>4. <<Newer(y), Newer(x)>> \in R
    BY <2>1, <2>2, <2>3 DEF StrictSubsetOrdering
  <2> QED BY <1>4, <2>4
<1> QED BY <1>5 DEF Dated

\* A timestamp that the OFFSET query finds among rows that are more than n up
\* to a date is itself no later than the date (DeleteAfterDate.java:78-82).
LEMMA NthOldestWithin ==
  ASSUME NEW rows, Dated(rows), NEW date \in Int, NEW n \in Int,
         Cardinality(UpTo(rows, date)) > n,
         NEW t \in NthOldestTimestamp(rows, n)
  PROVE  t \in Int /\ t <= date
<1>1. t \in Int /\ Cardinality(Before(rows, t)) <= n
  BY DEF Dated, NthOldestTimestamp
<1>2. ASSUME t > date PROVE FALSE
  <2>1. UpTo(rows, date) \subseteq Before(rows, t) /\ Before(rows, t) \subseteq rows
    BY <1>1, <1>2 DEF UpTo, Before, Dated
  <2>2. IsFiniteSet(Before(rows, t))
    BY <2>1, FS_Subset DEF Dated
  <2>3. Cardinality(UpTo(rows, date)) <= Cardinality(Before(rows, t))
    BY <2>1, <2>2, FS_Subset
  <2>4. Cardinality(UpTo(rows, date)) \in Nat /\ Cardinality(Before(rows, t)) \in Nat
    BY <2>1, <2>2, FS_Subset, FS_CardinalityType
  <2> QED BY <1>1, <2>3, <2>4
<1> QED BY <1>1, <1>2

\* Two rows are at one position of the order only when their timestamps tie:
\* the OFFSET query finds at most one timestamp.
LEMMA NthOldestUnique ==
  ASSUME NEW rows, Dated(rows), NEW n \in Int,
         NEW t \in NthOldestTimestamp(rows, n), NEW u \in NthOldestTimestamp(rows, n)
  PROVE  t = u
<1>1. ASSUME NEW a \in NthOldestTimestamp(rows, n), NEW b \in NthOldestTimestamp(rows, n)
      PROVE  b <= a
  <2>1. a \in Int /\ n < Cardinality(UpTo(rows, a)) /\ b \in Int
    BY DEF Dated, NthOldestTimestamp
  <2>2. UpTo(rows, a) \subseteq rows
    BY DEF UpTo
  <2>3. Cardinality(UpTo(rows, a)) \in Nat
    BY <2>2, FS_Subset, FS_CardinalityType DEF Dated
  <2> QED BY <2>1, <2>3, NthOldestWithin
<1>2. t \in Int /\ u \in Int
  BY DEF Dated, NthOldestTimestamp
<1> QED BY <1>1, <1>2

\* A table of more than n rows has one at position n: the OFFSET query finds a timestamp.
LEMMA NthOldestExists ==
  ASSUME NEW rows, Dated(rows), NEW n \in Nat, n < Cardinality(rows)
  PROVE  NthOldestTimestamp(rows, n) # {}
<1> DEFINE reach == {r \in rows : n < Cardinality(UpTo(rows, r.ts))}
           All == {UpTo(rows, r.ts) : r \in reach}
           R == StrictSubsetOrdering(rows)
<1>1. reach # {}
  <2>1. rows # {}
    BY FS_EmptySet
  <2>2. PICK x \in rows : \A y \in rows : y.ts <= x.ts
    BY <2>1, NewestExists
  <2>3. UpTo(rows, x.ts) = rows
    BY <2>2 DEF UpTo
  <2> QED BY <2>3
<1>2. IsWellFoundedOn(R, SUBSET rows)
  BY FS_StrictSubsetOrderingWellFounded, FS_FiniteSubsetsOfFinite DEF Dated
<1>3. All \subseteq SUBSET rows /\ All # {}
  BY <1>1 DEF UpTo
<1>4. \E u \in All : \A v \in All : <<v, u>> \notin R
  BY <1>2, <1>3, WFMin
<1>5. PICK x \in reach : \A y \in reach : <<UpTo(rows, y.ts), UpTo(rows, x.ts)>> \notin R
  BY <1>4
<1>6. /\ Before(rows, x.ts) \subseteq rows /\ IsFiniteSet(Before(rows, x.ts))
      /\ Cardinality(Before(rows, x.ts)) \in Nat /\ Dated(Before(rows, x.ts))
  <2>1. Before(rows, x.ts) \subseteq rows
    BY DEF Before
  <2>2. IsFiniteSet(Before(rows, x.ts))
    BY <2>1, FS_Subset DEF Dated
  <2> QED BY <2>1, <2>2, FS_CardinalityType DEF Dated
<1>7. ASSUME Cardinality(Before(rows, x.ts)) > n PROVE FALSE
  <2>1. Before(rows, x.ts) # {}
    BY <1>7, FS_EmptySet
  <2>2. PICK y \in Before(rows, x.ts) : \A z \in Before(rows, x.ts) : z.ts <= y.ts
    BY <1>6, <2>1, NewestExists
  <2>3. y \in rows /\ y.ts < x.ts /\ y.ts \in Int /\ x.ts \in Int
    BY <2>2 DEF Before, Dated
  <2>4. UpTo(rows, y.ts) = Before(rows, x.ts)
    BY <2>2, <2>3 DEF UpTo, Before, Dated
  <2>5. y \in reach
    BY <1>7, <1>6, <2>3, <2>4
  <2>6. UpTo(rows, y.ts) \subseteq UpTo(rows, x.ts)
    BY <2>3 DEF UpTo, Dated
  <2>7. x \in UpTo(rows, x.ts) /\ x \notin UpTo(rows, y.ts)
    BY <2>3 DEF UpTo
  <2>8. <<UpTo(rows, y.ts), UpTo(rows, x.ts)>> \in (SUBSET rows) \X (SUBSET rows)
    BY DEF UpTo
  <2>9. <<UpTo(rows, y.ts), UpTo(rows, x.ts)>> \in R
    BY <2>6, <2>7, <2>8 DEF StrictSubsetOrdering
  <2> QED BY <1>5, <2>5, <2>9
<1>8. Cardinality(Before(rows, x.ts)) <= n
  BY <1>6, <1>7
<1>9. x.ts \in NthOldestTimestamp(rows, n)
  BY <1>8 DEF NthOldestTimestamp
<1> QED BY <1>9

\* A delete through the row at position n takes that row and all before it, and of
\* the rows it takes at most n are older than the newest.
LEMMA DeleteThroughCounts ==
  ASSUME NEW rows, Dated(rows), NEW n \in Int,
         NEW result, result = DeleteThrough(rows, NthOldestTimestamp(rows, n)), result.ok
  PROVE  \E t \in Int :
           /\ result = Delete(rows, UpTo(rows, t))
           /\ Cardinality(Before(rows, t)) <= n /\ n < Cardinality(UpTo(rows, t))
<1> DEFINE found == NthOldestTimestamp(rows, n)
<1>1. found # {} /\ result = Delete(rows, {r \in rows : \E t \in found : r.ts <= t})
  BY DEF DeleteThrough, Abort
<1>2. PICK t \in found : TRUE
  BY <1>1
<1>3. \A u \in found : u = t
  BY <1>2, NthOldestUnique
<1>4. result = Delete(rows, UpTo(rows, t))
  BY <1>1, <1>3 DEF UpTo
<1>5. t \in Int /\ Cardinality(Before(rows, t)) <= n /\ n < Cardinality(UpTo(rows, t))
  BY <1>2 DEF NthOldestTimestamp, Dated
<1> QED BY <1>4, <1>5

\* DeleteAfterDate, chunked or not, deletes nothing newer than the date asked for.
LEMMA DeleteAfterDateWithin ==
  ASSUME NEW rows, Dated(rows), NEW date \in Int, NEW target \in Int,
         NEW r \in rows \ DeleteAfterDate(rows, date, target).rows
  PROVE  r.ts <= date
<1> DEFINE found == NthOldestTimestamp(rows, target)
<1>1. r.ts \in Int
  BY DEF Dated
<1>2. CASE date = NoDate \/ target <= 0
  BY <1>2 DEF DeleteAfterDate, Abort
<1>3. CASE ~(date = NoDate \/ target <= 0) /\ Cardinality(UpTo(rows, date)) > target
  <2>1. \A t \in found : t \in Int /\ t <= date
    BY <1>3, NthOldestWithin
  <2>2. DeleteAfterDate(rows, date, target) = DeleteThrough(rows, found)
    BY <1>3 DEF DeleteAfterDate
  <2>3. \E t \in found : r.ts <= t
    BY <2>2 DEF DeleteThrough, Abort, Delete
  <2> QED BY <1>1, <2>1, <2>3
<1>4. CASE ~(date = NoDate \/ target <= 0) /\ ~(Cardinality(UpTo(rows, date)) > target)
  BY <1>4 DEF DeleteAfterDate, Delete, UpTo
<1> QED BY <1>2, <1>3, <1>4

\* A delete through the timestamps found takes rows older than all it leaves.
LEMMA DeleteThroughOldest ==
  ASSUME NEW rows, Dated(rows), NEW n \in Int,
         NEW result, result = DeleteThrough(rows, NthOldestTimestamp(rows, n)),
         NEW r \in rows \ result.rows, NEW s \in result.rows
  PROVE  r.ts < s.ts
<1> DEFINE found == NthOldestTimestamp(rows, n)
<1>1. found # {}
  BY DEF DeleteThrough, Abort
<1>2. result = Delete(rows, {x \in rows : \E t \in found : x.ts <= t})
  BY <1>1 DEF DeleteThrough
<1>3. PICK t \in found : r.ts <= t
  BY <1>2 DEF Delete
<1>4. s \in rows /\ ~(s.ts <= t)
  BY <1>2 DEF Delete
<1>5. t \in Int /\ r.ts \in Int /\ s.ts \in Int
  BY <1>4 DEF Dated, NthOldestTimestamp
<1> QED BY <1>3, <1>4, <1>5

\* The class comments of both procedures: tuples go from oldest to newest, and
\* which ones is determined by the contents of the table.
LEMMA DeleteAfterDateOldest ==
  ASSUME NEW rows, Dated(rows), NEW date \in Int, NEW target \in Int,
         NEW r \in rows \ DeleteAfterDate(rows, date, target).rows,
         NEW s \in DeleteAfterDate(rows, date, target).rows
  PROVE  r.ts < s.ts
<1>1. CASE date = NoDate \/ target <= 0
  BY <1>1 DEF DeleteAfterDate, Abort
<1>2. CASE ~(date = NoDate \/ target <= 0) /\ Cardinality(UpTo(rows, date)) > target
  BY <1>2, DeleteThroughOldest DEF DeleteAfterDate
<1>3. CASE ~(date = NoDate \/ target <= 0) /\ ~(Cardinality(UpTo(rows, date)) > target)
  <2>1. r.ts <= date /\ s \in rows /\ ~(s.ts <= date)
    BY <1>3 DEF DeleteAfterDate, Delete, UpTo
  <2> QED BY <2>1 DEF Dated
<1> QED BY <1>1, <1>2, <1>3

LEMMA DeleteOldestToTargetOldest ==
  ASSUME NEW rows, Dated(rows), NEW maxTotalRows \in Int, NEW target \in Int,
         NEW r \in rows \ DeleteOldestToTarget(rows, maxTotalRows, target).rows,
         NEW s \in DeleteOldestToTarget(rows, maxTotalRows, target).rows
  PROVE  r.ts < s.ts
<1> DEFINE count == Cardinality(rows)
           result == DeleteOldestToTarget(rows, maxTotalRows, target)
           n == RowsToConsider(count, maxTotalRows, target)
<1>1. result \in {Abort(rows), Delete(rows, {}), Delete(rows, rows)}
        \/ result = DeleteThrough(rows, NthOldestTimestamp(rows, n))
  BY DEF DeleteOldestToTarget
<1>2. n \in Int
  BY FS_CardinalityType DEF RowsToConsider, Dated
<1>3. CASE result \in {Abort(rows), Delete(rows, {}), Delete(rows, rows)}
  BY <1>3 DEF Abort, Delete
<1>4. CASE result = DeleteThrough(rows, NthOldestTimestamp(rows, n))
  BY <1>2, <1>4, DeleteThroughOldest
<1> QED BY <1>1, <1>3, <1>4

\* No procedure adds a row, and one that aborts removes none.
LEMMA DeletesOnly ==
  ASSUME NEW rows, NEW date, NEW maxTotalRows, NEW target
  PROVE  /\ DeleteAfterDate(rows, date, target).rows \subseteq rows
         /\ DeleteOldestToTarget(rows, maxTotalRows, target).rows \subseteq rows
BY DEF DeleteAfterDate, DeleteOldestToTarget, DeleteThrough, Delete, Abort

\* The count a procedure replies is a number of rows.
LEMMA RepliesACount ==
  ASSUME NEW rows, Dated(rows), NEW date \in Int, NEW maxTotalRows \in Int, NEW target \in Int
  PROVE  /\ DeleteAfterDate(rows, date, target).deleted \in Nat
         /\ DeleteOldestToTarget(rows, maxTotalRows, target).deleted \in Nat
<1>1. ASSUME NEW gone, gone \subseteq rows PROVE Delete(rows, gone).deleted \in Nat
  BY <1>1, FS_Subset, FS_CardinalityType DEF Dated, Delete
<1>2. ASSUME NEW found PROVE DeleteThrough(rows, found).deleted \in Nat
  <2>1. {r \in rows : \E t \in found : r.ts <= t} \subseteq rows
    OBVIOUS
  <2> QED BY <1>1, <2>1 DEF DeleteThrough, Abort
<1>3. Delete(rows, {}).deleted \in Nat /\ Delete(rows, rows).deleted \in Nat
  BY <1>1
<1>4. Delete(rows, UpTo(rows, date)).deleted \in Nat
  BY <1>1 DEF UpTo
<1>5. Abort(rows).deleted \in Nat
  BY DEF Abort
<1> QED BY <1>2, <1>3, <1>4, <1>5 DEF DeleteAfterDate, DeleteOldestToTarget

\* What a call of DeleteAfterDate that commits did: it deleted through some timestamp t,
\* with at most a chunk of rows before t; and when that was not the date asked for, it
\* deleted more than a chunk (DeleteAfterDate.java:72-95).
LEMMA DeleteAfterDateEffect ==
  ASSUME NEW rows, Dated(rows), NEW date \in Int, NEW target \in Int,
         NEW result, result = DeleteAfterDate(rows, date, target), result.ok
  PROVE  \E t \in Int :
           /\ result = Delete(rows, UpTo(rows, t))
           /\ Cardinality(Before(rows, t)) <= target
           /\ t = date \/ target < Cardinality(UpTo(rows, t))
<1>1. ~(date = NoDate \/ target <= 0)
  BY DEF DeleteAfterDate, Abort
<1>2. CASE Cardinality(UpTo(rows, date)) > target
  <2>1. result = DeleteThrough(rows, NthOldestTimestamp(rows, target))
    BY <1>1, <1>2 DEF DeleteAfterDate
  <2> QED BY <2>1, DeleteThroughCounts
<1>3. CASE ~(Cardinality(UpTo(rows, date)) > target)
  <2>1. result = Delete(rows, UpTo(rows, date))
    BY <1>1, <1>3 DEF DeleteAfterDate
  <2>2. UpTo(rows, date) \subseteq rows /\ Before(rows, date) \subseteq UpTo(rows, date)
    BY DEF UpTo, Before, Dated
  <2>3. IsFiniteSet(UpTo(rows, date))
    BY <2>2, FS_Subset DEF Dated
  <2>4. /\ Cardinality(Before(rows, date)) <= Cardinality(UpTo(rows, date))
        /\ IsFiniteSet(Before(rows, date))
    BY <2>2, <2>3, FS_Subset
  <2>5. Cardinality(Before(rows, date)) \in Nat /\ Cardinality(UpTo(rows, date)) \in Nat
    BY <2>3, <2>4, FS_CardinalityType
  <2>6. Cardinality(Before(rows, date)) <= target
    BY <1>3, <2>4, <2>5
  <2> QED BY <2>1, <2>6
<1> QED BY <1>2, <1>3

\* What a call of DeleteOldestToTarget that commits did: nothing, to a table below its
\* target; or it emptied the table; or it deleted through some timestamp t, with at most
\* a chunk of rows before t and at most the surplus (DeleteOldestToTarget.java:83-112).
LEMMA DeleteOldestEffect ==
  ASSUME NEW rows, Dated(rows), NEW maxTotalRows \in Int, NEW target \in Int,
         NEW result, result = DeleteOldestToTarget(rows, maxTotalRows, target), result.ok
  PROVE  /\ maxTotalRows >= 0 /\ target > 0 /\ Cardinality(rows) \in Nat
         /\ \/ Cardinality(rows) < maxTotalRows /\ result = Delete(rows, {})
            \/ /\ maxTotalRows = 0 /\ Cardinality(rows) < target
               /\ result = Delete(rows, rows)
            \/ \E t \in Int :
                 /\ result = Delete(rows, UpTo(rows, t))
                 /\ Cardinality(Before(rows, t)) <= target
                 /\ Cardinality(Before(rows, t)) <= Cardinality(rows) - maxTotalRows
                 /\ \/ Cardinality(rows) - maxTotalRows < Cardinality(UpTo(rows, t))
                    \/ target < Cardinality(UpTo(rows, t))
<1>1. ~(target <= 0 \/ maxTotalRows < 0)
  BY DEF DeleteOldestToTarget, Abort
<1>2. Cardinality(rows) \in Nat
  BY FS_CardinalityType DEF Dated
<1>3. CASE Cardinality(rows) < maxTotalRows
  BY <1>1, <1>2, <1>3 DEF DeleteOldestToTarget
<1>4. CASE ~(Cardinality(rows) < maxTotalRows) /\ maxTotalRows = 0 /\ Cardinality(rows) < target
  BY <1>1, <1>2, <1>4 DEF DeleteOldestToTarget
<1>5. CASE /\ ~(Cardinality(rows) < maxTotalRows)
           /\ ~(maxTotalRows = 0 /\ Cardinality(rows) < target)
  <2> DEFINE n == RowsToConsider(Cardinality(rows), maxTotalRows, target)
  <2>1. result = DeleteThrough(rows, NthOldestTimestamp(rows, n))
    BY <1>1, <1>5 DEF DeleteOldestToTarget
  <2>2. /\ n \in Int /\ n <= target /\ n <= Cardinality(rows) - maxTotalRows
        /\ n = target \/ n = Cardinality(rows) - maxTotalRows
    BY <1>2 DEF RowsToConsider
  <2> HIDE DEF n
  <2>3. PICK t \in Int : /\ result = Delete(rows, UpTo(rows, t))
                         /\ Cardinality(Before(rows, t)) <= n /\ n < Cardinality(UpTo(rows, t))
    BY <2>1, <2>2, DeleteThroughCounts
  <2>4. Before(rows, t) \subseteq rows
    BY DEF Before
  <2>5. Cardinality(Before(rows, t)) \in Nat
    BY <2>4, FS_Subset, FS_CardinalityType DEF Dated
  <2>6. /\ Cardinality(Before(rows, t)) <= target
        /\ Cardinality(Before(rows, t)) <= Cardinality(rows) - maxTotalRows
    BY <1>2, <2>2, <2>3, <2>5
  <2> QED BY <1>1, <1>2, <2>2, <2>3, <2>6
<1> QED BY <1>3, <1>4, <1>5

\* A call of DeleteAfterDate that leaves rows up to the date has deleted a chunk: this is
\* what the nibbler takes for a sign that there is more to do (ContinuousDeleter.java:85-88).
LEMMA DeleteAfterDateChunk ==
  ASSUME NEW rows, Dated(rows), NEW date \in Int, NEW target \in Int,
         NEW result, result = DeleteAfterDate(rows, date, target), result.ok,
         UpTo(result.rows, date) # {}
  PROVE  result.deleted >= target
<1>1. PICK t \in Int : /\ result = Delete(rows, UpTo(rows, t))
                       /\ t = date \/ target < Cardinality(UpTo(rows, t))
  BY DeleteAfterDateEffect
<1>2. t # date
  BY <1>1 DEF Delete, UpTo
<1>3. UpTo(rows, t) \subseteq rows
  BY DEF UpTo
<1>4. Cardinality(UpTo(rows, t)) \in Nat
  BY <1>3, FS_Subset, FS_CardinalityType DEF Dated
<1> QED BY <1>1, <1>2, <1>4 DEF Delete

\* The same of DeleteOldestToTarget and rows beyond the target.
LEMMA DeleteOldestChunk ==
  ASSUME NEW rows, Dated(rows), NEW maxTotalRows \in Int, NEW target \in Int,
         NEW result, result = DeleteOldestToTarget(rows, maxTotalRows, target), result.ok,
         Cardinality(result.rows) > maxTotalRows
  PROVE  result.deleted >= target
<1>1. Cardinality(rows) \in Nat /\ maxTotalRows >= 0
  BY DeleteOldestEffect
<1>2. CASE Cardinality(rows) < maxTotalRows /\ result = Delete(rows, {})
  <2>1. result.rows = rows
    BY <1>2 DEF Delete
  <2> QED BY <1>1, <1>2, <2>1
<1>3. CASE maxTotalRows = 0 /\ result = Delete(rows, rows)
  <2>1. Cardinality(result.rows) = 0
    BY <1>3, FS_EmptySet DEF Delete
  <2> QED BY <1>3, <2>1
<1>4. ASSUME NEW t \in Int, result = Delete(rows, UpTo(rows, t)),
             \/ Cardinality(rows) - maxTotalRows < Cardinality(UpTo(rows, t))
             \/ target < Cardinality(UpTo(rows, t))
      PROVE  result.deleted >= target
  <2>1. UpTo(rows, t) \subseteq rows
    BY DEF UpTo
  <2>2. Cardinality(UpTo(rows, t)) \in Nat
    BY <2>1, FS_Subset, FS_CardinalityType DEF Dated
  <2>3. rows \cap UpTo(rows, t) = UpTo(rows, t)
    BY <2>1
  <2>4. Cardinality(rows \ UpTo(rows, t)) = Cardinality(rows) - Cardinality(UpTo(rows, t))
    BY <2>3, FS_Difference DEF Dated
  <2>5. Cardinality(rows \ UpTo(rows, t)) > maxTotalRows
    BY <1>4 DEF Delete
  <2>6. target < Cardinality(UpTo(rows, t))
    BY <1>1, <1>4, <2>2, <2>4, <2>5
  <2> QED BY <1>4, <2>2, <2>6 DEF Delete
<1> QED BY <1>2, <1>3, <1>4, DeleteOldestEffect

\* A call that aborts replies no rows.
LEMMA AbortDeletesNothing ==
  ASSUME NEW rows, NEW date, NEW maxTotalRows, NEW target
  PROVE  /\ ~DeleteAfterDate(rows, date, target).ok =>
              DeleteAfterDate(rows, date, target).deleted = 0
         /\ ~DeleteOldestToTarget(rows, maxTotalRows, target).ok =>
              DeleteOldestToTarget(rows, maxTotalRows, target).deleted = 0
BY DEF DeleteAfterDate, DeleteOldestToTarget, DeleteThrough, Delete, Abort

\* "It is guaranteed to make progress" (DeleteAfterDate.java:87-88): a call with rows to
\* delete deletes some.
LEMMA DeleteAfterDateProgress ==
  ASSUME NEW rows, Dated(rows), NEW date \in Int, NEW target \in Nat \ {0},
         UpTo(rows, date) # {}
  PROVE  DeleteAfterDate(rows, date, target).deleted > 0
<1> DEFINE result == DeleteAfterDate(rows, date, target)
<1>1. UpTo(rows, date) \subseteq rows
  BY DEF UpTo
<1>2. IsFiniteSet(UpTo(rows, date))
  BY <1>1, FS_Subset DEF Dated
<1>3. /\ Cardinality(UpTo(rows, date)) \in Nat /\ Cardinality(rows) \in Nat
      /\ Cardinality(UpTo(rows, date)) <= Cardinality(rows)
      /\ Cardinality(UpTo(rows, date)) # 0
  BY <1>1, <1>2, FS_Subset, FS_CardinalityType, FS_EmptySet DEF Dated
<1>4. ~(date = NoDate \/ target <= 0)
  BY NoDateAssumption
<1>5. CASE Cardinality(UpTo(rows, date)) > target
  <2>1. NthOldestTimestamp(rows, target) # {}
    BY <1>3, <1>5, NthOldestExists
  <2>2. result = DeleteThrough(rows, NthOldestTimestamp(rows, target)) /\ result.ok
    BY <1>4, <1>5, <2>1 DEF DeleteAfterDate, DeleteThrough, Delete
  <2>3. PICK t \in Int : result = Delete(rows, UpTo(rows, t)) /\ target < Cardinality(UpTo(rows, t))
    BY <2>2, DeleteThroughCounts
  <2>4. UpTo(rows, t) \subseteq rows
    BY DEF UpTo
  <2>5. Cardinality(UpTo(rows, t)) \in Nat
    BY <2>4, FS_Subset, FS_CardinalityType DEF Dated
  <2>6. Cardinality(UpTo(rows, t)) > 0
    BY <2>3, <2>5
  <2> QED BY <2>3, <2>6 DEF Delete
<1>6. CASE ~(Cardinality(UpTo(rows, date)) > target)
  <2>1. result = Delete(rows, UpTo(rows, date))
    BY <1>4, <1>6 DEF DeleteAfterDate
  <2>2. Cardinality(UpTo(rows, date)) > 0
    BY <1>3
  <2> QED BY <2>1, <2>2 DEF Delete
<1> QED BY <1>5, <1>6

\* The same of DeleteOldestToTarget, for a target above zero; with a target of zero a
\* table of just a chunk of rows has no row at the position it looks up
\* (DeleteOldestToTarget.java:92-110).
LEMMA DeleteOldestProgress ==
  ASSUME NEW rows, Dated(rows), NEW maxTotalRows \in Nat \ {0}, NEW target \in Nat \ {0},
         Cardinality(rows) > maxTotalRows
  PROVE  DeleteOldestToTarget(rows, maxTotalRows, target).deleted > 0
<1> DEFINE result == DeleteOldestToTarget(rows, maxTotalRows, target)
           n == RowsToConsider(Cardinality(rows), maxTotalRows, target)
<1>1. Cardinality(rows) \in Nat
  BY FS_CardinalityType DEF Dated
<1>2. n \in Nat \ {0} /\ n < Cardinality(rows)
  BY <1>1 DEF RowsToConsider
<1>3. result = DeleteThrough(rows, NthOldestTimestamp(rows, n))
  BY <1>1 DEF DeleteOldestToTarget
<1> HIDE DEF n
<1>4. NthOldestTimestamp(rows, n) # {}
  BY <1>2, NthOldestExists
<1>5. result.ok
  BY <1>3, <1>4 DEF DeleteThrough, Delete
<1> HIDE DEF result
<1>6. PICK t \in Int : result = Delete(rows, UpTo(rows, t)) /\ n < Cardinality(UpTo(rows, t))
  BY <1>2, <1>3, <1>5, DeleteThroughCounts
<1>7. UpTo(rows, t) \subseteq rows
  BY DEF UpTo
<1>8. Cardinality(UpTo(rows, t)) \in Nat
  BY <1>7, FS_Subset, FS_CardinalityType DEF Dated
<1>9. Cardinality(UpTo(rows, t)) > 0
  BY <1>2, <1>6, <1>8
<1> QED BY <1>6, <1>9 DEF Delete, result

\* A table below its target loses nothing (DeleteOldestToTarget.java:85-87).
LEMMA SmallTableKept ==
  ASSUME NEW rows, NEW maxTotalRows \in Int, NEW target \in Int,
         DeleteOldestToTarget(rows, maxTotalRows, target).rows # rows
  PROVE  ~(Cardinality(rows) < maxTotalRows)
BY DEF DeleteOldestToTarget, Delete, Abort
=============================================================================
