-------------------------- MODULE ClusterPipeline ---------------------------
(***************************************************************************)
(* The periodic job that turns exported events into the cluster model:     *)
(* compute_clusters.sh with the pig and spark programs and the two stored  *)
(* procedures it calls.  (hdp_compute_clusters.sh does the same, with the  *)
(* first two steps inside its pig script.)                                 *)
(*                                                                         *)
(* The script checks no exit status, so a step that fails, by a fault or   *)
(* because an earlier step left it nothing to work on, is followed by the  *)
(* next all the same.  The export connector and the database are shared    *)
(* with nothing but this job.                                              *)
(***************************************************************************)
EXTENDS Integers, FiniteSets

CONSTANTS
  Batch,        \* portions of exported data
  Centers,      \* the ids of the centers that k-means computes
  None,         \* a directory or file that does not exist
  MaxFaults     \* bound: steps that fail without need

ASSUME PipelineAssumption == MaxFaults \in Nat /\ Centers # {}

VARIABLES
  exportBase,    \* the batches in $EXPORTBASE, or None
  processBase,   \* $PROCESSBASE: its contents, or None
  clusters_dsa, clusters,  \* the two tables of the database
  step,          \* the next step of the script
  clean,         \* history: has every step of this run succeeded
  faults,
  exportedData, harvested  \* history: all exported, all that reached a model

tables == <<clusters_dsa, clusters>>
history == <<exportedData, harvested>>
vars == <<exportBase, processBase, tables, step, clean, faults, history>>

\* The model of some data: one row per center, marked with what it was computed of.
ModelOf(data) == {[id |-> i, data |-> data] : i \in Centers}

Center == [id : Centers, data : SUBSET Batch]

\* $PROCESSBASE: its data, which of its outputs are there, and whether an export
\* directory lies in it under its own name.
Directory == [avro : SUBSET Batch, source : (SUBSET Batch) \cup {None},
              centers : (SUBSET Center) \cup {None}, nested : BOOLEAN]

Init ==
  /\ exportBase = None /\ processBase = None
  /\ clusters_dsa = {} /\ clusters = {}
  /\ step = "rm" /\ clean = TRUE /\ faults = 0
  /\ exportedData = {} /\ harvested = {}

\* External: the connector creates the export directory when it has to.
Export(b) ==
  /\ exportBase' = IF exportBase = None THEN {b} ELSE exportBase \cup {b}
  /\ exportedData' = exportedData \cup {b}
  /\ UNCHANGED <<processBase, tables, step, clean, faults, harvested>>

\* The script goes on whatever a step's outcome.
Succeed(next) == step' = next /\ UNCHANGED <<clean, faults>>
Fail(next) == step' = next /\ clean' = FALSE /\ UNCHANGED faults
Fault(next) ==
  /\ faults < MaxFaults /\ faults' = faults + 1
  /\ step' = next /\ clean' = FALSE

\* Fault the run must notice: the export directory goes too.
RemoveBoth ==
  /\ step = "rm" /\ Succeed("mv")
  /\ processBase' = None /\ exportBase' = None
  /\ UNCHANGED <<tables, history>>

\* hadoop fs -rm -R -f: no directory is no error.
Remove ==
  /\ step = "rm"
  /\ \/ processBase' = None /\ Succeed("mv")
     \/ Fault("mv") /\ UNCHANGED processBase
  /\ UNCHANGED <<exportBase, tables, history>>

\* hadoop fs -mv: into the old directory, out of harvest.pig's reach, when that is
\* still there, and refused when that holds an export directory already.
Move ==
  LET free == IF processBase = None THEN TRUE ELSE ~processBase.nested
  IN  /\ step = "mv"
      /\ \/ /\ exportBase # None /\ free
            /\ exportBase' = None
            /\ processBase' =
                 IF processBase # None THEN [processBase EXCEPT !.nested = TRUE]
                 ELSE [avro |-> exportBase, source |-> None, centers |-> None, nested |-> FALSE]
            /\ Succeed("harvest")
         \/ /\ exportBase = None \/ ~free
            /\ Fail("harvest") /\ UNCHANGED <<exportBase, processBase>>
         \/ Fault("harvest") /\ UNCHANGED <<exportBase, processBase>>
      /\ UNCHANGED <<tables, history>>

\* harvest.pig: STORE refuses an output that exists.
Harvest ==
  LET ready == processBase # None /\ processBase.source = None
  IN  /\ step = "harvest"
      /\ \/ /\ ready
            /\ processBase' = [processBase EXCEPT !.source = processBase.avro]
            /\ Succeed("kmeans")
         \/ ~ready /\ Fail("kmeans") /\ UNCHANGED processBase
         \/ Fault("kmeans") /\ UNCHANGED processBase
      /\ UNCHANGED <<exportBase, tables, history>>

\* KMeansReferral reads the source and writes the centers, a new file.
KMeans ==
  LET ready == IF processBase = None THEN FALSE
               ELSE processBase.source # None /\ processBase.centers = None
  IN  /\ step = "kmeans"
      /\ \/ /\ ready
            /\ processBase' = [processBase EXCEPT !.centers = ModelOf(processBase.source)]
            /\ harvested' = harvested \cup processBase.source
            /\ Succeed("clear")
         \/ ~ready /\ Fail("clear") /\ UNCHANGED <<processBase, harvested>>
         \/ Fault("clear") /\ UNCHANGED <<processBase, harvested>>
      /\ UNCHANGED <<exportBase, tables, exportedData>>

\* dsa.jar CLEAR: the procedure TruncateDsa.
Clear ==
  /\ step = "clear"
  /\ \/ clusters_dsa' = {} /\ Succeed("store")
     \/ Fault("store") /\ UNCHANGED clusters_dsa
  /\ UNCHANGED <<exportBase, processBase, clusters, history>>

\* Fault the run must notice: a task that loses its rows counts as done.
StoreLosing ==
  /\ step = "store" /\ Succeed("load")
  /\ \E part \in SUBSET (IF processBase = None THEN {}
                        ELSE IF processBase.centers = None THEN {} ELSE processBase.centers) :
       clusters_dsa' = clusters_dsa \cup part
  /\ UNCHANGED <<exportBase, processBase, clusters, history>>

\* Fault the run must notice: rows are added whatever is there.
StoreDuplicates ==
  /\ step = "store" /\ Succeed("load")
  /\ clusters_dsa' = clusters_dsa \cup (IF processBase = None THEN {}
                                        ELSE IF processBase.centers = None THEN {}
                                        ELSE processBase.centers)
  /\ UNCHANGED <<exportBase, processBase, clusters, history>>

\* load.pig: its tasks insert row by row; a row whose id is there is refused, and a
\* fault leaves any of the rows behind.
Store ==
  LET found == IF processBase = None THEN FALSE ELSE processBase.centers # None
      fresh == {c \in processBase.centers : \A d \in clusters_dsa : d.id # c.id}
  IN  /\ step = "store"
      /\ \/ /\ found
            /\ clusters_dsa' = clusters_dsa \cup fresh
            /\ IF fresh = processBase.centers THEN Succeed("load") ELSE Fail("load")
         \/ ~found /\ Fail("load") /\ UNCHANGED clusters_dsa
         \/ /\ found /\ Fault("load")
            /\ \E part \in SUBSET fresh : clusters_dsa' = clusters_dsa \cup part
      /\ UNCHANGED <<exportBase, processBase, clusters, history>>

\* Fault the run must notice: the model is added to the old one.
LoadAppend ==
  /\ step = "load"
  /\ clusters' = clusters \cup clusters_dsa
  /\ step' = "rm" /\ clean' = TRUE
  /\ UNCHANGED <<exportBase, processBase, clusters_dsa, faults, history>>

\* dsa.jar LOAD: LoadDsa deletes the old model and copies the new one in one
\* transaction.  The run ends; the next starts clean.
Load ==
  /\ step = "load"
  /\ \/ clusters' = clusters_dsa /\ UNCHANGED faults
     \/ faults < MaxFaults /\ faults' = faults + 1 /\ UNCHANGED clusters
  /\ step' = "rm" /\ clean' = TRUE
  /\ UNCHANGED <<exportBase, processBase, clusters_dsa, history>>

Script == Remove \/ Move \/ Harvest \/ KMeans \/ Clear \/ Store \/ Load

Next == (\E b \in Batch \ exportedData : Export(b)) \/ Script

\* A run that has started goes on to its end, and the job is run periodically.
Spec == Init /\ [][Next]_vars /\ WF_vars(Script)
-----------------------------------------------------------------------------
(* Properties. *)

\* The type invariant; the staging table keeps its primary key.
TypeOK ==
  /\ exportBase \in (SUBSET Batch) \cup {None}
  /\ processBase \in Directory \cup {None}
  /\ clusters_dsa \subseteq Center /\ clusters \subseteq Center
  /\ \A c, d \in clusters_dsa : c.id = d.id => c = d
  /\ step \in {"rm", "mv", "harvest", "kmeans", "clear", "store", "load"}
  /\ clean \in BOOLEAN /\ faults \in 0 .. MaxFaults

\* A run whose every step succeeded installs the model that it computed, whole,
\* whatever the runs before it failed at and left behind in the directories and
\* in the staging table; only a LOAD that fails leaves the old model.
CleanRunInstallsItsModel ==
  [][step = "load" /\ clean =>
       \/ clusters' = processBase.centers
       \/ clusters' = clusters /\ (step' = "load" \/ faults' > faults)]_vars

\* As long as no step has failed without need, the events are scored by a whole
\* model of one harvest, or by none, and never by part of one or a mix of two;
\* runs without new exports, whose steps must fail, included (ddl.sql:31-43).  With a
\* fault it does not hold: a STORE that stops midway is followed by LOAD all the same
\* (compute_clusters.sh:81-86).
ModelNeverTorn ==
  faults = 0 => clusters = {} \/ \E data \in SUBSET Batch : clusters = ModelOf(data)

\* Renaming the export directory while the connector goes on writing loses
\* nothing: without faults, everything exported reaches a model.
ExportsReachAModel ==
  \A b \in Batch : (b \in exportedData) ~> (b \in harvested \/ faults > 0)

\* "4. store the computed clusters back to voltdb" (compute_clusters.sh:18): what
\* a run puts in the place of the old model are centers that were computed.
StoresComputedClusters ==
  [][clusters' # clusters => \E data \in SUBSET Batch : clusters' = ModelOf(data)]_vars
=============================================================================
