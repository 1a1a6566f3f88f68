------------------------------- MODULE Refresh -------------------------------
(***************************************************************************)
(* The tables and the bar chart of the dashboard (web/js/demo.js): at each *)
(* tick of the chart interval RefreshData asks for all of them, one call   *)
(* each, beside each other and beside the calls of earlier ticks.  Every   *)
(* call has a timer (CallbackWrapper) but no order: what arrives is drawn. *)
(* A user procedure can be called once the metadata has made it known, and *)
(* with the number of arguments that the catalog gives it.                 *)
(***************************************************************************)
EXTENDS Dashboard

CONSTANTS
  Calls,         \* what RefreshData asks for, in order
  Charts,        \* those drawn by DrawBarChart; DrawTable draws the others
  Catalogs,      \* the catalogs to check: of each call "same", "other", "none",
                 \* for a procedure with so many parameters, with another number, absent
  Patience,      \* ticks in the twenty seconds of a timer
  MaxRefreshes   \* bound: how many ticks there are

ASSUME RefreshAssumption ==
  /\ Calls \in Seq(STRING) /\ Charts \subseteq STRING
  /\ Catalogs \subseteq [1 .. Len(Calls) -> {"same", "other", "none"}]
  /\ Patience \in Nat \ {0} /\ MaxRefreshes \in Nat

VARIABLES
  catalog,    \* what @SystemCatalog says of the procedures
  round,      \* how many ticks there have been
  requests,   \* the calls open with the server: [call, round, late]; late when the
              \* timer has spoken for it
  shown,      \* of each call, the tick of the answer on the screen; 0 is none
  newest      \* history: of each call, the latest tick whose answer was drawn

view == <<catalog, round, requests, shown, newest>>
refreshVars == <<vars, page, view>>

RefreshInit ==
  /\ DashboardInit
  /\ catalog \in Catalogs
  /\ round = 0 /\ requests = {}
  /\ shown = [c \in 1 .. Len(Calls) |-> 0] /\ newest = shown

IsChart(c) == Calls[c] \in Charts

\* BuildURI finds the procedure and a signature of that length.
Callable(c) == ready /\ catalog[c] = "same"

\* The calls that a tick makes.  The error for one that cannot be called comes
\* within the call: DrawBarChart throws on it, and those after it are not made;
\* DrawTable swallows its exception.
Made == {c \in 1 .. Len(Calls) :
           /\ Callable(c)
           /\ \A d \in 1 .. c - 1 : IsChart(d) => Callable(d)}

\* RefreshData.  Timers are punctual: none outlives Patience ticks.
RefreshData ==
  /\ intervals # {} /\ round < MaxRefreshes
  /\ \A r \in requests : ~r.late => r.round + Patience > round + 1
  /\ round' = round + 1
  /\ requests' = requests \cup {[call |-> c, round |-> round + 1, late |-> FALSE] : c \in Made}
  /\ UNCHANGED <<vars, page, catalog, shown, newest>>

\* A tick's answer is drawn.
Draw(r) ==
  /\ shown' = [shown EXCEPT ![r.call] = r.round]
  /\ newest' = [newest EXCEPT ![r.call] = IF r.round > @ THEN r.round ELSE @]

\* What is done with an answer: "rows", "empty" or "error".  An error has no table,
\* on which both throw; without rows DrawTable passes jQuery's html no value, which
\* leaves the body as it was, while DrawBarChart plots a chart without bars.
Drawn(r, answer) ==
  IF answer = "rows" \/ (answer = "empty" /\ IsChart(r.call))
  THEN Draw(r) ELSE UNCHANGED <<shown, newest>>

\* Fault the run must notice: an answer is drawn although the timer spoke for it.
ArriveLate(r, answer) ==
  /\ requests' = requests \ {r}
  /\ Drawn(r, answer)
  /\ UNCHANGED <<vars, page, catalog, round>>

\* The wrapper's Callback.
Arrive(r, answer) ==
  /\ requests' = requests \ {r}
  /\ IF r.late THEN UNCHANGED <<shown, newest>> ELSE Drawn(r, answer)
  /\ UNCHANGED <<vars, page, catalog, round>>

\* The wrapper's timer answers with an error; the request stays open.
GiveUp(r) ==
  /\ ~r.late
  /\ requests' = (requests \ {r}) \cup {[r EXCEPT !.late = TRUE]}
  /\ UNCHANGED <<vars, page, catalog, round, shown, newest>>

RefreshNext ==
  \/ DashboardNext /\ UNCHANGED view
  \/ RefreshData
  \/ \E r \in requests : GiveUp(r) \/ \E answer \in {"rows", "empty", "error"} : Arrive(r, answer)

\* The browser fires every timer.
RefreshSpec ==
  /\ RefreshInit /\ [][RefreshNext]_refreshVars
  /\ \A i \in 1 .. Items : WF_refreshVars(Timeout(i) /\ UNCHANGED <<page, view>>)
-----------------------------------------------------------------------------
(* Properties. *)

\* The type invariant, with that of the page.
RefreshTypeOK ==
  /\ DashboardTypeOK
  /\ round \in 0 .. MaxRefreshes
  /\ requests \subseteq [call : 1 .. Len(Calls), round : 1 .. round, late : BOOLEAN]
  /\ shown \in [1 .. Len(Calls) -> 0 .. round] /\ newest \in [1 .. Len(Calls) -> 0 .. round]

\* Whatever is on the screen came over a connection that has every piece of its
\* metadata: a batch that ended on a failure leaves the page without a procedure to
\* call, whatever its order of answers and time-outs (voltdb.js:46-60, 278-394).
DrawnMeansLoaded ==
  \A c \in 1 .. Len(Calls) : shown[c] # 0 => ready /\ Needed \subseteq metadata

\* Answers overtake each other, and an older one replaces a newer one on the screen;
\* the timers, which are taken to be punctual, bound by how much: never by as many
\* ticks as they wait (demo.js:2-35, voltdb.js:130-138).
OvertakenWithinTimeout ==
  \A c \in 1 .. Len(Calls) : newest[c] - shown[c] < Patience
=============================================================================
