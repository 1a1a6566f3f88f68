----------------------------- MODULE MCNibbler ------------------------------
(* Small instances of Nibbler; the partitions and deleters are model values. *)
EXTENDS Nibbler

ByDate == {[historyTicks |-> 1, maxRows |-> 0, chunkSize |-> 1]}

\* With two rows kept in all, a partition's share is two, then one; with one row
\* it is one, then zero, where a delete aborts when the rows just fill the chunk.
ByDateOrCount ==
  ByDate \cup [historyTicks : {0}, maxRows : {1, 2}, chunkSize : {1}]
=============================================================================
