---------------------------- MODULE MCEventStore ----------------------------
(* Small instances of EventStore: the data the configurations choose from. *)
EXTENDS EventStore

OneSrc == {1}
TwoSrc == {1, 2}

\* Every source in one partition, and two partitions.
AllTogether == [s \in Src |-> "p1"]
OneEach == [s \in Src |-> IF s = 1 THEN "p1" ELSE "p2"]

MCDestRows == {[id |-> 0, url |-> "home"], [id |-> 1, url |-> "shop"]}
MCAgentRows == {[id |-> 0, name |-> "browser"]}

Visit(s, u) == [src |-> s, dest |-> u, referral |-> "home", agent |-> "browser"]

\* One pair of src and dest; two sources; two pairs that share the src, and
\* a second source.
OnePair == {Visit(1, "home")}
TwoUsers == {Visit(1, "home"), Visit(2, "home")}
ThreePairs == TwoUsers \cup {Visit(1, "shop")}

HomeRow == {[id |-> 0, url |-> "home"]}

Center(i, s) == [id |-> i, src |-> s, dest |-> 0, referral |-> 0, agent |-> 0]

\* No model; one that tells the two users apart.
NoModels == {}
OneModel == {{Center(0, 1), Center(1, 2)}}
=============================================================================
