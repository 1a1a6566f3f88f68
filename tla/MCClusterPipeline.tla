------------------------- MODULE MCClusterPipeline --------------------------
(* Small instances of ClusterPipeline; batches and None are model values. *)
EXTENDS ClusterPipeline
=============================================================================
