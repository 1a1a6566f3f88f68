----------------------------- MODULE MCTpsChart -----------------------------
(* Small instances of TpsChart: the browser's clock behind, right and ahead. *)
EXTENDS TpsChart
MCAheads == {-1, 0, 1}
=============================================================================
