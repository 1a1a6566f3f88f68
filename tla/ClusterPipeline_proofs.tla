----------------------- MODULE ClusterPipeline_proofs -----------------------
(***************************************************************************)
(* Proofs about the cluster job, for any exported data, any number of      *)
(* centers and of faults.                                                  *)
(*                                                                         *)
(* IInv follows the rows from k-means to the table: what the directory     *)
(* holds is the model of one harvest; a run that reaches "store" without a *)
(* failure, and any run while there has been no fault, finds the staging   *)
(* table empty; a clean run therefore stages exactly its own centers.      *)
(***************************************************************************)
EXTENDS ClusterPipeline, TLAPS

\* The whole model of one harvest, or none.
Whole(rows) == rows = {} \/ \E data \in SUBSET Batch : rows = ModelOf(data)

IInv ==
  /\ TypeOK
  /\ processBase # None => processBase.centers = None \/ Whole(processBase.centers)
  /\ step = "store" /\ (clean \/ faults = 0) => clusters_dsa = {}
  /\ step = "load" /\ clean => clusters_dsa = processBase.centers
  /\ faults = 0 => Whole(clusters_dsa) /\ Whole(clusters)

-----------------------------------------------------------------------------
LEMMA ModelOfBasics ==
  ASSUME NEW data \in SUBSET Batch
  PROVE  ModelOf(data) \subseteq Center /\ Whole(ModelOf(data))
BY DEF ModelOf, Center, Whole

\* The rows of a model have different ids.
LEMMA WholeHasKeys ==
  ASSUME NEW rows, Whole(rows)
  PROVE  \A c, d \in rows : c.id = d.id => c = d
BY DEF Whole, ModelOf

LEMMA InitIInv == Init => IInv
<1> SUFFICES ASSUME Init PROVE IInv
  OBVIOUS
<1>1. step = "rm" /\ clean \in BOOLEAN /\ faults \in 0 .. MaxFaults
  BY PipelineAssumption DEF Init
<1>2. TypeOK
  BY <1>1 DEF Init, TypeOK
<1> QED BY <1>1, <1>2 DEF Init, IInv, Whole

\* The connector writes only to the export directory.
LEMMA ExportKeepsIInv ==
  ASSUME IInv, NEW b \in Batch, Export(b)
  PROVE  IInv'
<1>1. exportBase' \in (SUBSET Batch) \cup {None}
  BY DEF Export, IInv, TypeOK
<1>2. UNCHANGED <<processBase, clusters_dsa, clusters, step, clean, faults>>
  BY DEF Export, tables
<1> QED BY <1>1, <1>2 DEF IInv, TypeOK, Whole

\* A step that leaves the tables alone, and what the directory may become.
LEMMA FilesStep ==
  ASSUME IInv, NEW next \in {"mv", "harvest", "kmeans", "clear"},
         Succeed(next) \/ Fail(next) \/ Fault(next), UNCHANGED tables,
         exportBase' \in (SUBSET Batch) \cup {None},
         processBase' \in Directory \cup {None},
         processBase' # None => processBase'.centers = None \/ Whole(processBase'.centers)
  PROVE  IInv'
<1>1. step' = next /\ clean' \in BOOLEAN
  BY DEF IInv, TypeOK, Succeed, Fail, Fault
<1>3. faults' \in 0 .. MaxFaults /\ (faults' = 0 => faults = 0)
  <2>1. faults \in 0 .. MaxFaults
    BY DEF IInv, TypeOK
  <2> QED BY <2>1, PipelineAssumption DEF Succeed, Fail, Fault
<1>2. UNCHANGED <<clusters_dsa, clusters>>
  BY DEF tables
<1> QED BY <1>1, <1>2, <1>3 DEF IInv, TypeOK, Whole

LEMMA RemoveKeepsIInv ==
  ASSUME IInv, Remove
  PROVE  IInv'
BY FilesStep DEF IInv, TypeOK, Remove

LEMMA MoveKeepsIInv ==
  ASSUME IInv, Move
  PROVE  IInv'
<1>1. /\ processBase \in Directory \cup {None} /\ exportBase \in (SUBSET Batch) \cup {None}
      /\ processBase # None => processBase.centers = None \/ Whole(processBase.centers)
  BY DEF IInv, TypeOK
<1>2. Succeed("harvest") \/ Fail("harvest") \/ Fault("harvest")
  BY DEF Move
<1> DEFINE new == [avro |-> exportBase, source |-> None, centers |-> None, nested |-> FALSE]
           old == [processBase EXCEPT !.nested = TRUE]
<1>3. CASE /\ exportBase # None /\ exportBase' = None
           /\ processBase' = IF processBase # None THEN old ELSE new
  <2>1. new \in Directory /\ new.centers = None
    BY <1>1, <1>3 DEF Directory
  <2>2. processBase # None => old \in Directory /\ old.centers = processBase.centers
    BY <1>1 DEF Directory
  <2> HIDE DEF new, old
  <2>3. /\ processBase' \in Directory
        /\ processBase'.centers = None \/ Whole(processBase'.centers)
    BY <1>1, <1>3, <2>1, <2>2
  <2> QED BY <1>1, <1>2, <1>3, <2>3, FilesStep DEF Move
<1>4. CASE UNCHANGED <<exportBase, processBase>>
  BY <1>1, <1>2, <1>4, FilesStep DEF Move
<1> QED BY <1>3, <1>4 DEF Move

LEMMA HarvestKeepsIInv ==
  ASSUME IInv, Harvest
  PROVE  IInv'
<1>1. /\ processBase \in Directory \cup {None} /\ exportBase \in (SUBSET Batch) \cup {None}
      /\ processBase # None => processBase.centers = None \/ Whole(processBase.centers)
  BY DEF IInv, TypeOK
<1>2. Succeed("kmeans") \/ Fail("kmeans") \/ Fault("kmeans")
  BY DEF Harvest
<1>3. CASE /\ processBase # None
           /\ processBase' = [processBase EXCEPT !.source = processBase.avro]
  <2>0. processBase \in Directory
    BY <1>1, <1>3
  <2>1. processBase' \in Directory /\ processBase'.centers = processBase.centers
    BY <1>3, <2>0 DEF Directory
  <2> QED BY <1>1, <1>2, <1>3, <2>1, FilesStep DEF Harvest
<1>4. CASE UNCHANGED processBase
  BY <1>1, <1>2, <1>4, FilesStep DEF Harvest
<1> QED BY <1>3, <1>4 DEF Harvest

LEMMA KMeansKeepsIInv ==
  ASSUME IInv, KMeans
  PROVE  IInv'
<1>1. /\ processBase \in Directory \cup {None} /\ exportBase \in (SUBSET Batch) \cup {None}
      /\ processBase # None => processBase.centers = None \/ Whole(processBase.centers)
  BY DEF IInv, TypeOK
<1>2. Succeed("clear") \/ Fail("clear") \/ Fault("clear")
  BY DEF KMeans
<1>3. CASE /\ processBase # None /\ processBase.source # None
           /\ processBase' = [processBase EXCEPT !.centers = ModelOf(processBase.source)]
  <2>1. processBase.source \in SUBSET Batch
    BY <1>1, <1>3 DEF Directory
  <2>2. ModelOf(processBase.source) \in SUBSET Center /\ Whole(ModelOf(processBase.source))
    BY <2>1, ModelOfBasics
  <2>3. processBase \in Directory
    BY <1>1, <1>3
  <2>4. processBase' \in Directory /\ processBase'.centers = ModelOf(processBase.source)
    BY <1>3, <2>2, <2>3 DEF Directory
  <2> QED BY <1>1, <1>2, <2>2, <2>4, FilesStep DEF KMeans
<1>4. CASE UNCHANGED processBase
  BY <1>1, <1>2, <1>4, FilesStep DEF KMeans
<1> QED BY <1>3, <1>4 DEF KMeans

LEMMA ClearKeepsIInv ==
  ASSUME IInv, Clear
  PROVE  IInv'
<1>1. UNCHANGED <<exportBase, processBase, clusters>> /\ step' = "store"
  BY DEF Clear, Succeed, Fault
<1>2. CASE clusters_dsa' = {} /\ Succeed("store")
  <2>1. UNCHANGED <<clean, faults>>
    BY <1>2 DEF Succeed
  <2> QED BY <1>1, <1>2, <2>1 DEF IInv, TypeOK, Whole
<1>3. CASE Fault("store") /\ UNCHANGED clusters_dsa
  <2>1. clean' = FALSE /\ faults' \in 1 .. MaxFaults
    BY <1>3, PipelineAssumption DEF Fault, IInv, TypeOK
  <2>2. clean' \in BOOLEAN
    BY <2>1
  <2>3. faults' \in 0 .. MaxFaults /\ faults' # 0
    BY <2>1, PipelineAssumption
  <2> QED BY <1>1, <1>3, <2>1, <2>2, <2>3 DEF IInv, TypeOK
<1> QED BY <1>2, <1>3 DEF Clear

\* Only rows whose ids are not there are inserted, all of them in a clean run.
LEMMA StoreKeepsIInv ==
  ASSUME IInv, Store
  PROVE  IInv'
<1> DEFINE found == IF processBase = None THEN FALSE ELSE processBase.centers # None
           fresh == {c \in processBase.centers : \A d \in clusters_dsa : d.id # c.id}
<1>1. UNCHANGED <<exportBase, processBase, clusters>> /\ step = "store" /\ step' = "load"
  BY DEF Store, Succeed, Fail, Fault
<1>2. ASSUME found
      PROVE  /\ Whole(processBase.centers) /\ processBase.centers \subseteq Center
  <2>1. processBase \in Directory /\ processBase.centers # None
    BY <1>2 DEF IInv, TypeOK
  <2>2. processBase.centers \in (SUBSET Center) \cup {None}
    BY <2>1 DEF Directory
  <2> QED BY <1>2, <2>1, <2>2 DEF IInv
<1>3. ASSUME found, NEW part \in SUBSET fresh
      PROVE  /\ clusters_dsa \cup part \subseteq Center
             /\ \A c, d \in clusters_dsa \cup part : c.id = d.id => c = d
  <2>1. \A c, d \in processBase.centers : c.id = d.id => c = d
    BY <1>2, <1>3, WholeHasKeys
  <2> QED BY <1>2, <1>3, <2>1 DEF IInv, TypeOK
<1>4. CASE /\ found /\ clusters_dsa' = clusters_dsa \cup fresh
           /\ IF fresh = processBase.centers THEN Succeed("load") ELSE Fail("load")
  <2>1. faults' = faults /\ clean' \in BOOLEAN /\ (clean' => clean /\ fresh = processBase.centers)
    BY <1>4 DEF Succeed, Fail, IInv, TypeOK
  <2>2. TypeOK'
    <3>1. /\ clusters_dsa' \subseteq Center
          /\ \A c, d \in clusters_dsa' : c.id = d.id => c = d
      <4>1. fresh \in SUBSET fresh /\ found /\ clusters_dsa' = clusters_dsa \cup fresh
        BY <1>4
      <4> HIDE DEF fresh, found
      <4> QED BY <1>3, <4>1
    <3> QED BY <1>1, <2>1, <3>1 DEF IInv, TypeOK
  <2>3. clean' => clusters_dsa' = processBase.centers
    BY <1>1, <1>4, <2>1 DEF IInv
  <2>4. faults = 0 => Whole(clusters_dsa')
    <3>1. ASSUME faults = 0 PROVE clusters_dsa' = processBase.centers
      BY <1>1, <1>4, <3>1 DEF IInv
    <3> QED BY <1>2, <1>4, <3>1
  <2> QED BY <1>1, <2>1, <2>2, <2>3, <2>4 DEF IInv, Whole
<1>5. CASE ~found /\ Fail("load") /\ UNCHANGED clusters_dsa
  BY <1>1, <1>5 DEF IInv, TypeOK, Fail, Whole
<1>6. CASE /\ found /\ Fault("load")
           /\ \E part \in SUBSET fresh : clusters_dsa' = clusters_dsa \cup part
  <2>1. clean' = FALSE /\ faults' \in 1 .. MaxFaults
    BY <1>6, PipelineAssumption DEF Fault, IInv, TypeOK
  <2>2. TypeOK'
    <3>1. /\ clusters_dsa' \subseteq Center
          /\ \A c, d \in clusters_dsa' : c.id = d.id => c = d
      BY <1>3, <1>6
    <3>2. clean' \in BOOLEAN
      BY <2>1
    <3>3. faults' \in 0 .. MaxFaults
      BY <2>1, PipelineAssumption
    <3> QED BY <1>1, <3>1, <3>2, <3>3 DEF IInv, TypeOK
  <2> QED BY <1>1, <2>1, <2>2 DEF IInv
<1> QED BY <1>4, <1>5, <1>6 DEF Store

LEMMA LoadKeepsIInv ==
  ASSUME IInv, Load
  PROVE  IInv'
<1>1. /\ UNCHANGED <<exportBase, processBase, clusters_dsa>> /\ step' = "rm" /\ clean' = TRUE
      /\ clusters' \in {clusters, clusters_dsa} /\ faults' \in 0 .. MaxFaults
      /\ faults' = 0 => faults = 0
  BY PipelineAssumption DEF Load, IInv, TypeOK
<1> QED BY <1>1 DEF IInv, TypeOK, Whole

LEMMA NextKeepsIInv == IInv /\ [Next]_vars => IInv'
<1> SUFFICES ASSUME IInv, [Next]_vars PROVE IInv'
  OBVIOUS
<1>1. CASE UNCHANGED vars
  BY <1>1 DEF IInv, TypeOK, Whole, vars, tables
<1> QED BY <1>1, ExportKeepsIInv, RemoveKeepsIInv, MoveKeepsIInv, HarvestKeepsIInv,
           KMeansKeepsIInv, ClearKeepsIInv, StoreKeepsIInv, LoadKeepsIInv DEF Next, Script

LEMMA IInvHolds == Spec => []IInv
BY InitIInv, NextKeepsIInv, PTL DEF Spec

-----------------------------------------------------------------------------
\* The job keeps its types, and the staging table its primary key, however its steps
\* fail and follow each other (compute_clusters.sh:6-19, ddl.sql:20-43).
THEOREM PipelineTypeCorrect == Spec => []TypeOK
<1>1. IInv => TypeOK
  BY DEF IInv
<1> QED BY <1>1, IInvHolds, PTL

\* Until a step fails without need, the table of the model holds the whole model of
\* one harvest, or nothing (ddl.sql:31-43).
THEOREM PipelineModelNeverTorn == Spec => []ModelNeverTorn
<1>1. IInv => ModelNeverTorn
  BY DEF IInv, Whole, ModelNeverTorn
<1> QED BY <1>1, IInvHolds, PTL

\* Only the last step of the script touches the model, and puts the staged rows in
\* its place, which are the centers of the run when it was clean
\* (compute_clusters.sh:6-19, LoadDsa.java).
THEOREM PipelineCleanRun == Spec => CleanRunInstallsItsModel
<1>1. ASSUME IInv, [Next]_vars, step = "load", clean
      PROVE  \/ clusters' = processBase.centers
             \/ clusters' = clusters /\ (step' = "load" \/ faults' > faults)
  <2>1. clusters_dsa = processBase.centers
    BY <1>1 DEF IInv
  <2>2. CASE Load
    BY <1>1, <2>1, <2>2, PipelineAssumption DEF Load, IInv, TypeOK
  <2>3. CASE ~Load
    BY <1>1, <2>3 DEF Next, Script, Export, Remove, Move, Harvest, KMeans, Clear, Store,
                      vars, tables
  <2> QED BY <2>2, <2>3
<1>2. IInv /\ [Next]_vars =>
        [step = "load" /\ clean =>
           \/ clusters' = processBase.centers
           \/ clusters' = clusters /\ (step' = "load" \/ faults' > faults)]_vars
  BY <1>1
<1> QED BY <1>2, IInvHolds, PTL DEF Spec, CleanRunInstallsItsModel
=============================================================================
