----------------------------- MODULE TextOverlay -----------------------------
(***************************************************************************)
(* What the text overlay of a chart promises: the reader sees the labels   *)
(* that the axes asked for when the chart was last drawn, all of them and  *)
(* no others.  Setting up the axes changes what is asked for and nothing   *)
(* in the page; a chart that takes the place of another comes drawn.       *)
(***************************************************************************)
VARIABLES labels,   \* the labels asked for, each with its place
          shown     \* the labels in the page

Init == labels = {} /\ shown = {}

\* The axes ask for other labels; the page waits for the next draw.
Ask == UNCHANGED shown

\* A draw, of this chart or of one that takes its place.
Draw == shown' = labels'

Next == Ask \/ Draw

Spec == Init /\ [][Next]_<<labels, shown>>
=============================================================================
