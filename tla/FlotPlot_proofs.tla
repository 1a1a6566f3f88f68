--------------------------- MODULE FlotPlot_proofs ---------------------------
(***************************************************************************)
(* Proofs about the plots, for any number of them and of calls, and for    *)
(* all data that the scale of the model and the room of the page allow.    *)
(*                                                                         *)
(* The timers: a plot forgets the timer of its first draw, so that what it *)
(* knows does not tell how many are pending.  OneForgotten is what does:   *)
(* besides the timer that it knows of, a plot never has more than one.     *)
(*                                                                         *)
(* The text: the page agrees with the positions after a draw because every *)
(* element belongs to one position of one label and stands where that      *)
(* position says, and because the page holds just the elements of the      *)
(* positions that were rendered (Sound).  Whatever setupGrid does between  *)
(* two draws keeps this, and leaves the page alone (Keeps).                *)
(*                                                                         *)
(* The axes: the ranges are not empty and hold the data. The ticks of      *)
(* numbers are the multiples of their size from the one at or below the    *)
(* range to the one at or above it. Those of times are steps of the        *)
(* calendar, and rest on two facts about it: the starts of the months      *)
(* rise, and every time lies in one month. Either way there are two to     *)
(* twelve of them.                                                         *)
(*                                                                         *)
(* The labels: the precision of a number's label divides the size of the   *)
(* ticks, and the format of a time, of the fields finer than its last, only*)
(* those that are zero on ticks of that size.                              *)
(*                                                                         *)
(* Their room: a label has one field, or four for a time, and so a width   *)
(* that is bounded; under an axis it takes nine lines at most, beside one  *)
(* it takes one. The margins that setupGrid leaves for labels of such      *)
(* sizes, and the pixels that it leaves between them, keep each inside the *)
(* canvas. The sizes are part of the invariant of the text (Roomy).        *)
(***************************************************************************)
EXTENDS FlotPlot, FiniteSetTheorems, NaturalsInduction, SequenceTheorems, TLAPS

-----------------------------------------------------------------------------
(* The timers. *)

Timer == [plot : Nat, id : Nat]

\* Of the plot in place, at most one timer is pending that it does not know of.
OneForgotten ==
  Cardinality(TimersOf(plot)) <= IF redrawTimeout = NoTimer THEN 1 ELSE 2

\* The inductive invariant of the timers.
IInv == TimersOK /\ OverlayRedrawn /\ OneForgotten /\ IsFiniteSet(timers)

\* One of a number more than are pending is free.
LEMMA FreshTimerIsFree ==
  ASSUME NEW p \in Nat, NEW pending, IsFiniteSet(pending)
  PROVE  FreshTimer(p, pending) \in Timer /\ FreshTimer(p, pending).plot = p
<1> DEFINE ids == 1 .. Cardinality(pending) + 1
           taken == [i \in ids |-> [plot |-> p, id |-> i]]
<1>1. Cardinality(pending) \in Nat
  BY FS_CardinalityType
<1>2. IsFiniteSet(ids) /\ Cardinality(ids) = Cardinality(pending) + 1
  BY <1>1, FS_Interval
<1>3. \E i \in ids : [plot |-> p, id |-> i] \notin pending
  <2> SUFFICES ASSUME \A i \in ids : [plot |-> p, id |-> i] \in pending
               PROVE  FALSE
    OBVIOUS
  <2>1. taken \in [ids -> pending]
    OBVIOUS
  <2>2. PICK i, j \in ids : i # j /\ taken[i] = taken[j]
    <3>1. Cardinality(pending) < Cardinality(ids)
      BY <1>1, <1>2
    <3> HIDE DEF ids, taken
    <3> QED BY <1>2, <2>1, <3>1, FS_PigeonHole
  <2>3. taken[i].id = i /\ taken[j].id = j
    OBVIOUS
  <2> QED BY <2>2, <2>3
<1>4. PICK i \in ids : FreshTimer(p, pending) = [plot |-> p, id |-> i]
  BY <1>3 DEF FreshTimer
<1>5. i \in Nat
  BY <1>1
<1> QED BY <1>4, <1>5 DEF Timer

\* Fewer timers pending are fewer of every plot.
LEMMA FewerTimers ==
  ASSUME IsFiniteSet(timers), NEW p, TimersOf(p)' \subseteq TimersOf(p)
  PROVE  /\ IsFiniteSet(TimersOf(p)) /\ IsFiniteSet(TimersOf(p)')
         /\ Cardinality(TimersOf(p)') \in Nat /\ Cardinality(TimersOf(p)) \in Nat
         /\ Cardinality(TimersOf(p)') <= Cardinality(TimersOf(p))
<1>1. IsFiniteSet(TimersOf(p))
  BY FS_Subset DEF TimersOf
<1>2. IsFiniteSet(TimersOf(p)')
  BY <1>1, FS_Subset
<1>3. Cardinality(TimersOf(p)') <= Cardinality(TimersOf(p))
  BY <1>1, FS_Subset
<1> QED BY <1>1, <1>2, <1>3, FS_CardinalityType

\* Before the first plot no timer is pending.
LEMMA InitIInv == PlotInit => IInv
<1> SUFFICES ASSUME PlotInit PROVE IInv
  OBVIOUS
<1>1. TimersOf(plot) = {} /\ IsFiniteSet(timers)
  BY FS_EmptySet DEF PlotInit, TimersOf
<1>2. OneForgotten
  BY <1>1, FS_EmptySet DEF OneForgotten
<1>3. TimersOK
  <2>1. plot = 0 /\ 0 \in 0 .. MaxPlots /\ \A p \in 1 .. 0 : FALSE
    BY PlotAssumption DEF PlotInit
  <2> QED BY <2>1 DEF PlotInit, TimersOK
<1> QED BY <1>1, <1>2, <1>3 DEF PlotInit, IInv, OverlayRedrawn

\* A new plot has one timer; no other plot gets one.
LEMMA NewPlotKeepsIInv ==
  ASSUME IInv, NEW s, NewPlot(s)
  PROVE  IInv'
<1> USE DEF IInv
<1> DEFINE fresh == FreshTimer(plot + 1, Shutdown)
<1>1. /\ plot \in Nat /\ plot' = plot + 1 /\ plot' \in 0 .. MaxPlots
      /\ timers' = Shutdown \cup {fresh} /\ redrawTimeout' = NoTimer /\ stale' = TRUE
  BY PlotAssumption DEF NewPlot, TimersOK
<1>2. Shutdown \subseteq timers /\ IsFiniteSet(Shutdown) /\ IsFiniteSet(timers')
  BY <1>1, FS_RemoveElement, FS_AddElement DEF Shutdown
<1>3. fresh.plot = plot + 1
  BY <1>1, <1>2, FreshTimerIsFree
<1>4. \A timer \in Shutdown : timer.plot \in 1 .. plot
  BY <1>2 DEF TimersOK
<1> HIDE DEF fresh
<1>5. TimersOf(plot)' = {fresh}
  <2>1. \A timer \in Shutdown : timer.plot # plot + 1
    BY <1>1, <1>4
  <2> QED BY <1>1, <1>3, <2>1 DEF TimersOf
<1>6. OneForgotten' /\ Cardinality(TimersOf(plot)') = 1
  <2>1. Cardinality(TimersOf(plot)') = 1
    BY <1>5, FS_Singleton
  <2> QED BY <1>1, <2>1 DEF OneForgotten
<1>7. \A p \in 1 .. plot : Cardinality(TimersOf(p)') <= 2
  <2> SUFFICES ASSUME NEW p \in 1 .. plot PROVE Cardinality(TimersOf(p)') <= 2
    OBVIOUS
  <2>1. p # plot + 1
    BY <1>1
  <2>2. TimersOf(p)' \subseteq TimersOf(p)
    BY <1>1, <1>2, <1>3, <2>1 DEF TimersOf
  <2>3. Cardinality(TimersOf(p)) <= 2
    BY DEF TimersOK
  <2> QED BY <2>2, <2>3, FewerTimers
<1>8. \A timer \in timers' : timer.plot \in 1 .. plot'
  BY <1>1, <1>3, <1>4
<1>9. \A p \in 1 .. plot' : Cardinality(TimersOf(p)') <= 2
  <2> SUFFICES ASSUME NEW p \in 1 .. plot' PROVE Cardinality(TimersOf(p)') <= 2
    OBVIOUS
  <2>1. CASE p = plot'
    BY <1>6, <2>1 DEF TimersOf
  <2>2. CASE p # plot'
    <3>1. p \in 1 .. plot
      BY <1>1, <2>2
    <3> QED BY <1>7, <3>1
  <2> QED BY <2>1, <2>2
<1>10. TimersOK'
  BY <1>1, <1>8, <1>9 DEF TimersOK
<1>11. OverlayRedrawn'
  BY <1>1, <1>3 DEF OverlayRedrawn
<1> QED BY <1>2, <1>6, <1>10, <1>11

\* A draw sets a timer only when the plot knows of none.
LEMMA DrawKeepsIInv ==
  ASSUME IInv, Draw
  PROVE  IInv'
<1> USE DEF IInv
<1>1. /\ plot \in Nat /\ plot \in 0 .. MaxPlots /\ plot \in 1 .. plot /\ plot' = plot /\ stale' = TRUE
      /\ TriggerRedrawOverlay
  BY PlotAssumption DEF Draw, Called, TimersOK
<1>2. CASE redrawTimeout # NoTimer
  <2>1. UNCHANGED <<plot, timers, redrawTimeout>>
    BY <1>1, <1>2 DEF TriggerRedrawOverlay
  <2>2. TimersOK' /\ OneForgotten'
    BY <1>1, <2>1 DEF TimersOK, OneForgotten, TimersOf
  <2>3. OverlayRedrawn'
    BY <1>2, <2>1 DEF OverlayRedrawn, TimersOK
  <2> QED BY <2>1, <2>2, <2>3
<1>3. CASE redrawTimeout = NoTimer
  <2> DEFINE fresh == FreshTimer(plot, timers)
  <2>1. redrawTimeout' = fresh /\ timers' = timers \cup {fresh}
    BY <1>1, <1>3 DEF TriggerRedrawOverlay
  <2>2. fresh.plot = plot /\ fresh # NoTimer
    BY <1>1, FreshTimerIsFree, PlotAssumption DEF Timer
  <2> HIDE DEF fresh
  <2>3. TimersOf(plot)' = TimersOf(plot) \cup {fresh}
    BY <1>1, <2>1, <2>2 DEF TimersOf
  <2>4. IsFiniteSet(timers') /\ IsFiniteSet(TimersOf(plot)) /\ Cardinality(TimersOf(plot)) \in Nat
    BY <2>1, FS_AddElement, FS_Subset, FS_CardinalityType DEF TimersOf
  <2>5. Cardinality(TimersOf(plot)) <= 1
    BY <1>3 DEF OneForgotten
  <2>6. Cardinality(TimersOf(plot)') <= 2
    <3>1. \/ Cardinality(TimersOf(plot)') = Cardinality(TimersOf(plot))
          \/ Cardinality(TimersOf(plot)') = Cardinality(TimersOf(plot)) + 1
      BY <2>3, <2>4, FS_AddElement
    <3> QED BY <2>4, <2>5, <3>1
  <2>7. \A p \in 1 .. plot : Cardinality(TimersOf(p)') <= 2
    <3> SUFFICES ASSUME NEW p \in 1 .. plot, p # plot
                 PROVE  Cardinality(TimersOf(p)') <= 2
      <4>1. TimersOf(plot)' = {t \in timers' : t.plot = plot}
        BY <1>1 DEF TimersOf
      <4> QED BY <2>6, <4>1 DEF TimersOf
    <3>1. TimersOf(p)' = TimersOf(p)
      BY <2>1, <2>2 DEF TimersOf
    <3> QED BY <3>1 DEF TimersOK
  <2>8. TimersOK'
    BY <1>1, <2>1, <2>2, <2>7 DEF TimersOK
  <2>9. OneForgotten'
    BY <1>1, <2>1, <2>2, <2>6 DEF OneForgotten
  <2>10. OverlayRedrawn'
    BY <1>1, <2>1, <2>2 DEF OverlayRedrawn
  <2> QED BY <2>4, <2>8, <2>9, <2>10
<1> QED BY <1>2, <1>3

\* The plot forgets the timer that it knows of when another of its timers runs.
LEMMA DrawOverlayKeepsIInv ==
  ASSUME IInv, NEW timer \in timers, DrawOverlay(timer)
  PROVE  IInv'
<1> USE DEF IInv
<1>1. /\ plot' = plot /\ plot \in 0 .. MaxPlots /\ timers' = timers \ {timer}
      /\ redrawTimeout' = IF timer.plot = plot THEN NoTimer ELSE redrawTimeout
      /\ stale' = (stale /\ timer.plot # plot)
      /\ timer.plot \in 1 .. plot
  BY DEF DrawOverlay, TimersOK
<1>2. \A p \in 1 .. plot : TimersOf(p)' \subseteq TimersOf(p)
  BY <1>1 DEF TimersOf
<1>3. \A p \in 1 .. plot : Cardinality(TimersOf(p)') <= 2
  <2> SUFFICES ASSUME NEW p \in 1 .. plot PROVE Cardinality(TimersOf(p)') <= 2
    OBVIOUS
  <2>1. Cardinality(TimersOf(p)) <= 2
    BY DEF TimersOK
  <2> QED BY <1>2, <2>1, FewerTimers
<1>4. IsFiniteSet(timers')
  BY <1>1, FS_RemoveElement
<1>5. CASE timer.plot = plot
  <2>1. TimersOf(plot)' = TimersOf(plot) \ {timer} /\ timer \in TimersOf(plot)
    BY <1>1, <1>5 DEF TimersOf
  <2>2. IsFiniteSet(TimersOf(plot)) /\ Cardinality(TimersOf(plot)) \in Nat
    BY FS_Subset, FS_CardinalityType DEF TimersOf
  <2>3. Cardinality(TimersOf(plot)') = Cardinality(TimersOf(plot)) - 1
    BY <2>1, <2>2, FS_RemoveElement
  <2>4. Cardinality(TimersOf(plot)) <= 2
    BY <1>1, <1>5 DEF TimersOK
  <2>5. OneForgotten'
    BY <1>1, <1>5, <2>2, <2>3, <2>4 DEF OneForgotten
  <2>6. TimersOK' /\ OverlayRedrawn'
    BY <1>1, <1>3, <1>5 DEF TimersOK, OverlayRedrawn
  <2> QED BY <1>4, <2>5, <2>6
<1>6. CASE timer.plot # plot
  <2>1. TimersOf(plot)' = TimersOf(plot)
    BY <1>1, <1>6 DEF TimersOf
  <2>2. redrawTimeout' = redrawTimeout /\ stale' = stale
    BY <1>1, <1>6 DEF TimersOK
  <2>3. OneForgotten'
    BY <1>1, <2>1, <2>2 DEF OneForgotten
  <2>4. TimersOK' /\ OverlayRedrawn'
    BY <1>1, <1>3, <1>6, <2>2 DEF TimersOK, OverlayRedrawn
  <2> QED BY <1>4, <2>3, <2>4
<1> QED BY <1>5, <1>6

\* Every step keeps the invariant of the timers.
LEMMA NextKeepsIInv == IInv /\ [PlotNext]_vars => IInv'
<1> SUFFICES ASSUME IInv, [PlotNext]_vars PROVE IInv'
  OBVIOUS
<1>1. ASSUME UNCHANGED <<plot, redrawTimeout, timers, stale>> PROVE IInv'
  BY <1>1 DEF IInv, TimersOK, OneForgotten, OverlayRedrawn, TimersOf
<1>2. ASSUME NEW s, SetData(s) PROVE IInv'
  BY <1>1, <1>2 DEF SetData
<1>3. CASE SetupGrid
  BY <1>1, <1>3 DEF SetupGrid
<1>4. CASE UNCHANGED vars
  BY <1>1, <1>4 DEF vars
<1> QED BY <1>2, <1>3, <1>4, NewPlotKeepsIInv, DrawKeepsIInv, DrawOverlayKeepsIInv DEF PlotNext

\* The invariant of the timers holds.
LEMMA IInvHolds == PlotSpec => []IInv
BY InitIInv, NextKeepsIInv, PTL DEF PlotSpec
-----------------------------------------------------------------------------
(* The shape of a canvas, and what its operations change. *)

\* The fields of a position and of a label.
IsPosition(p) ==
  p = [active |-> p.active, rendered |-> p.rendered, element |-> p.element, x |-> p.x, y |-> p.y]

IsInfo(i) ==
  /\ i = [width |-> i.width, height |-> i.height, element |-> i.element, positions |-> i.positions]
  /\ \A p \in i.positions : IsPosition(p)

\* The shape of a canvas.
IsCanvas(c) ==
  /\ c = [text |-> c.text, css |-> c.css, dom |-> c.dom]
  /\ c.text = [l \in Layers |-> c.text[l]] /\ c.dom = [l \in Layers |-> c.dom[l]]
  /\ \A l \in Layers : /\ c.text[l] = [t \in DOMAIN c.text[l] |-> c.text[l][t]]
                       /\ \A t \in DOMAIN c.text[l] : IsInfo(c.text[l][t])
  /\ c.css = [e \in DOMAIN c.css |-> c.css[e]] /\ IsFiniteSet(DOMAIN c.css)

\* The sizes that the labels of a layer may have, and the places that they may stand at.
SizedLabel(l, size) ==
  /\ size.width \in 0 .. 1440 /\ size.width % 2 = 0
  /\ IF l = "x" THEN size.height \in 0 .. 1440 ELSE size.height = 160

Within(info, x, y) ==
  /\ x \in Int /\ y \in Int
  /\ 0 <= x /\ x + info.width <= Width * Px /\ 0 <= y /\ y + info.height <= Height * Px

\* Every label has such a size, and stands inside the canvas wherever it is active.
Roomy(c) ==
  \A l \in Layers : \A t \in DOMAIN c.text[l] :
    /\ SizedLabel(l, c.text[l][t])
    /\ \A p \in c.text[l][t].positions : p.active => Within(c.text[l][t], p.x, p.y)

SameSize(old, new) == new.width = old.width /\ new.height = old.height

\* Only the size of a label matters to them.
LEMMA SizeDecides ==
  ASSUME NEW old, NEW new, SameSize(old, new)
  PROVE  /\ \A l : SizedLabel(l, old) => SizedLabel(l, new)
         /\ \A x, y : Within(old, x, y) => Within(new, x, y)
BY DEF SameSize, SizedLabel, Within

\* What the update of a field leaves of a position.
LEMMA TypedPosition ==
  ASSUME NEW A, NEW R, NEW E, NEW X, NEW Y, NEW b,
         NEW p \in [active : A, rendered : R, element : E, x : X, y : Y]
  PROVE  /\ [p EXCEPT !.active = b] =
              [active |-> b, rendered |-> p.rendered, element |-> p.element, x |-> p.x, y |-> p.y]
         /\ [p EXCEPT !.rendered = b] =
              [active |-> p.active, rendered |-> b, element |-> p.element, x |-> p.x, y |-> p.y]
OBVIOUS

\* The same of any position: its fields are a type.
LEMMA PositionExcept ==
  ASSUME NEW p, IsPosition(p), NEW b
  PROVE  /\ [p EXCEPT !.active = b] =
              [active |-> b, rendered |-> p.rendered, element |-> p.element, x |-> p.x, y |-> p.y]
         /\ [p EXCEPT !.rendered = b] =
              [active |-> p.active, rendered |-> b, element |-> p.element, x |-> p.x, y |-> p.y]
<1>1. p \in [active : {p.active}, rendered : {p.rendered}, element : {p.element}, x : {p.x}, y : {p.y}]
  BY DEF IsPosition
<1> QED BY <1>1, TypedPosition

\* The same of a label.
LEMMA TypedInfo ==
  ASSUME NEW W, NEW H, NEW E, NEW P, NEW ps,
         NEW info \in [width : W, height : H, element : E, positions : P]
  PROVE  [info EXCEPT !.positions = ps] =
           [width |-> info.width, height |-> info.height, element |-> info.element, positions |-> ps]
OBVIOUS

\* A label whose positions change keeps its size and its element.
LEMMA InfoExcept ==
  ASSUME NEW info, IsInfo(info), NEW ps
  PROVE  [info EXCEPT !.positions = ps] =
           [width |-> info.width, height |-> info.height, element |-> info.element, positions |-> ps]
<1>1. info \in [width : {info.width}, height : {info.height}, element : {info.element},
                positions : {info.positions}]
  BY DEF IsInfo
<1> QED BY <1>1, TypedInfo

\* The same of a canvas.
LEMMA TypedCanvas ==
  ASSUME NEW T, NEW C, NEW D, NEW text, NEW c \in [text : T, css : C, dom : D]
  PROVE  [c EXCEPT !.text = text] = [text |-> text, css |-> c.css, dom |-> c.dom]
OBVIOUS

\* A canvas whose cache changes keeps its styles and its page.
LEMMA CanvasExcept ==
  ASSUME NEW c, IsCanvas(c), NEW text
  PROVE  [c EXCEPT !.text = text] = [text |-> text, css |-> c.css, dom |-> c.dom]
<1>1. c \in [text : {c.text}, css : {c.css}, dom : {c.dom}]
  BY DEF IsCanvas
<1> QED BY <1>1, TypedCanvas

\* An element created is none of those that exist.
LEMMA FreshElementIsFree ==
  ASSUME NEW c, IsCanvas(c)
  PROVE  FreshElement(c) \notin DOMAIN c.css
<1> DEFINE E == DOMAIN c.css
           ids == 1 .. Cardinality(E) + 1
<1>1. IsFiniteSet(E) /\ Cardinality(E) \in Nat
  BY FS_CardinalityType DEF IsCanvas
<1>2. IsFiniteSet(ids) /\ Cardinality(ids) = Cardinality(E) + 1
  BY <1>1, FS_Interval
<1>3. \E i \in ids : i \notin E
  <2> SUFFICES ASSUME ids \subseteq E PROVE FALSE
    OBVIOUS
  <2>1. Cardinality(ids) <= Cardinality(E)
    <3> HIDE DEF ids, E
    <3> QED BY <1>1, FS_Subset
  <2> HIDE DEF ids
  <2> QED BY <1>1, <1>2, <2>1
<1> QED BY <1>3 DEF FreshElement

\* Canvas d is c but for the label of a layer, which has info, and for the element e.
Becomes(c, d, layer, label, info, e, place) ==
  /\ IsCanvas(d) /\ d.dom = c.dom
  /\ \A l \in Layers : DOMAIN d.text[l] = DOMAIN c.text[l] \cup (IF l = layer THEN {label} ELSE {})
  /\ d.text[layer][label] = info
  /\ \A l \in Layers : \A t \in DOMAIN c.text[l] :
       l # layer \/ t # label => d.text[l][t] = c.text[l][t]
  /\ DOMAIN d.css = DOMAIN c.css \cup {e} /\ d.css[e] = place
  /\ \A f \in DOMAIN c.css : f # e => d.css[f] = c.css[f]

\* Storing a label in the cache, with a style for its element, does just that.
LEMMA UpdateBecomes ==
  ASSUME NEW c, IsCanvas(c), NEW layer \in Layers, NEW label, NEW info, IsInfo(info), NEW e, NEW place,
         NEW d, d = [text |-> WithInfo(c.text, layer, label, info), css |-> WithStyle(c.css, e, place),
                     dom |-> c.dom]
  PROVE  Becomes(c, d, layer, label, info, e, place)
<1>1. d = [text |-> d.text, css |-> d.css, dom |-> d.dom] /\ d.dom = c.dom
  OBVIOUS
<1>2. d.text = WithInfo(c.text, layer, label, info) /\ d.css = WithStyle(c.css, e, place)
  OBVIOUS
<1>3. d.css = [f \in DOMAIN c.css \cup {e} |-> IF f = e THEN place ELSE c.css[f]]
  BY <1>2 DEF WithStyle
<1>4. IsFiniteSet(DOMAIN d.css) /\ DOMAIN d.css = DOMAIN c.css \cup {e}
  BY <1>3, FS_AddElement DEF IsCanvas
<1>5. c.text = [l \in Layers |-> c.text[l]]
  BY DEF IsCanvas
<1>6. d.text[layer] = [t \in DOMAIN c.text[layer] \cup {label} |-> IF t = label THEN info ELSE c.text[layer][t]]
  BY <1>2, <1>5 DEF WithInfo
<1>7. \A l \in Layers : l # layer => d.text[l] = c.text[l]
  BY <1>2, <1>5 DEF WithInfo
<1>8. \A l \in Layers : /\ d.text[l] = [t \in DOMAIN d.text[l] |-> d.text[l][t]]
                        /\ \A t \in DOMAIN d.text[l] : IsInfo(d.text[l][t])
  <2> SUFFICES ASSUME NEW l \in Layers
               PROVE  /\ d.text[l] = [t \in DOMAIN d.text[l] |-> d.text[l][t]]
                      /\ \A t \in DOMAIN d.text[l] : IsInfo(d.text[l][t])
    OBVIOUS
  <2>1. CASE l = layer
    <3>1. \A t \in DOMAIN c.text[layer] : IsInfo(c.text[layer][t])
      BY DEF IsCanvas
    <3>2. d.text[layer] = [t \in DOMAIN d.text[layer] |-> d.text[layer][t]]
      BY <1>6
    <3>3. \A t \in DOMAIN d.text[layer] : IsInfo(d.text[layer][t])
      BY <1>6, <3>1
    <3> QED BY <2>1, <3>2, <3>3
  <2>2. CASE l # layer
    BY <1>7, <2>2 DEF IsCanvas
  <2> QED BY <2>1, <2>2
<1>9. d.text = [l \in Layers |-> d.text[l]] /\ d.css = [f \in DOMAIN d.css |-> d.css[f]]
  BY <1>2, <1>3, <1>5 DEF WithInfo
<1>10. IsCanvas(d)
  BY <1>1, <1>4, <1>8, <1>9 DEF IsCanvas
<1>11. \A l \in Layers : DOMAIN d.text[l] = DOMAIN c.text[l] \cup (IF l = layer THEN {label} ELSE {})
  BY <1>6, <1>7
<1>12. /\ d.text[layer][label] = info
       /\ \A l \in Layers : \A t \in DOMAIN c.text[l] : l # layer \/ t # label => d.text[l][t] = c.text[l][t]
  BY <1>6, <1>7
<1>13. d.css[e] = place /\ \A f \in DOMAIN c.css : f # e => d.css[f] = c.css[f]
  BY <1>3
<1> QED BY <1>1, <1>4, <1>10, <1>11, <1>12, <1>13 DEF Becomes

\* getTextInfo of a new label: an element of its own, and no position.
LEMMA GetTextInfoBecomes ==
  ASSUME NEW c, IsCanvas(c), NEW layer \in Layers, NEW label, NEW maxWidth,
         label \notin DOMAIN c.text[layer]
  PROVE  \E info : \E place :
           /\ IsInfo(info) /\ info.positions = {} /\ info.element = FreshElement(c)
           /\ SameSize(Measured(label, maxWidth), info)
           /\ Becomes(c, GetTextInfo(c, layer, label, maxWidth), layer, label, info, FreshElement(c), place)
<1> DEFINE e == FreshElement(c)
           size == Measured(label, maxWidth)
           info == [width |-> size.width, height |-> size.height, element |-> e, positions |-> {}]
           place == [label |-> label, left |-> 0, top |-> -9999]
<1>1. IsInfo(info) /\ info.positions = {} /\ info.element = e /\ SameSize(size, info)
  BY DEF IsInfo, SameSize
<1>2. GetTextInfo(c, layer, label, maxWidth) =
        [text |-> WithInfo(c.text, layer, label, info), css |-> WithStyle(c.css, e, place), dom |-> c.dom]
  BY DEF GetTextInfo
<1> HIDE DEF info, place, e, size
<1>3. Becomes(c, GetTextInfo(c, layer, label, maxWidth), layer, label, info, e, place)
  BY <1>1, <1>2, UpdateBecomes
<1> QED BY <1>1, <1>3 DEF e, size

\* Canvas d is c but for one more position of the label, with the element e.
Gains(c, d, layer, label, info, e, left, top) ==
  \E new : \E p :
    /\ IsInfo(new) /\ new.element = info.element /\ new.positions = info.positions \cup {p}
    /\ SameSize(info, new)
    /\ p.rendered = FALSE /\ p.element = e /\ p.x = left /\ p.y = top
    /\ Becomes(c, d, layer, label, new, e, [label |-> label, left |-> Pixel(left), top |-> Pixel(top)])

\* addText where the label does not stand yet.
LEMMA AddTextGains ==
  ASSUME NEW c, IsCanvas(c), NEW layer \in Layers, NEW label \in DOMAIN c.text[layer], NEW left, NEW top,
         NEW info, info = c.text[layer][label], \A p \in info.positions : ~(p.x = left /\ p.y = top),
         NEW e, e = IF info.positions = {} THEN info.element ELSE FreshElement(c)
  PROVE  Gains(c, AddTextAt(c, layer, label, left, top), layer, label, info, e, left, top)
<1> DEFINE p == [active |-> TRUE, rendered |-> FALSE, element |-> e, x |-> left, y |-> top]
           new == [info EXCEPT !.positions = @ \cup {p}]
           place == [label |-> label, left |-> Pixel(left), top |-> Pixel(top)]
<1>1. AddTextAt(c, layer, label, left, top) =
        [text |-> WithInfo(c.text, layer, label, new), css |-> WithStyle(c.css, e, place), dom |-> c.dom]
  BY DEF AddTextAt
<1>2. IsPosition(p) /\ p.rendered = FALSE /\ p.element = e /\ p.x = left /\ p.y = top
  BY DEF IsPosition
<1> HIDE DEF p, place
<1>3. IsInfo(info)
  BY DEF IsCanvas
<1>4. /\ IsInfo(new) /\ new.element = info.element /\ new.positions = info.positions \cup {p}
      /\ SameSize(info, new)
  <2>1. new = [width |-> info.width, height |-> info.height, element |-> info.element,
               positions |-> info.positions \cup {p}]
    BY <1>3, InfoExcept
  <2> HIDE DEF new
  <2> QED BY <1>2, <1>3, <2>1 DEF IsInfo, SameSize
<1> HIDE DEF new
<1>5. Becomes(c, AddTextAt(c, layer, label, left, top), layer, label, new, e, place)
  BY <1>1, <1>4, UpdateBecomes
<1> QED BY <1>2, <1>4, <1>5 DEF place, Gains
-----------------------------------------------------------------------------
(* The text and the page. *)

\* The elements of a label.
Elements(c, l, t) == {c.text[l][t].element} \cup {p.element : p \in c.text[l][t].positions}

\* Every element exists and belongs to one label, and to one of its positions at most;
\* it stands where that position says, and the page holds those that were rendered.
Sound(c) ==
  /\ IsCanvas(c)
  /\ \A l \in Layers : \A t \in DOMAIN c.text[l] :
       /\ Elements(c, l, t) \subseteq DOMAIN c.css
       /\ \A p \in c.text[l][t].positions :
            /\ c.css[p.element] = [label |-> t, left |-> Pixel(p.x), top |-> Pixel(p.y)]
            /\ \A q \in c.text[l][t].positions : p.element = q.element => p = q
  /\ \A l, m \in Layers : \A t \in DOMAIN c.text[l] : \A u \in DOMAIN c.text[m] :
       (\E e \in Elements(c, l, t) : e \in Elements(c, m, u)) => l = m /\ t = u
  /\ \A l \in Layers : c.dom[l] = {p.element : p \in {q \in Positions(c, l) : q.rendered}}

\* The page of d is that of c, and d still has the labels of c, in their sizes.
Keeps(c, d) ==
  /\ d.dom = c.dom
  /\ \A l \in Layers : \A e \in c.dom[l] : d.css[e] = c.css[e]
  /\ \A l \in Layers : DOMAIN c.text[l] \subseteq DOMAIN d.text[l]
  /\ \A l \in Layers : \A t \in DOMAIN c.text[l] : SameSize(c.text[l][t], d.text[l][t])

\* The element of a label, and those of its positions.
LEMMA ElementsFacts ==
  ASSUME NEW c, NEW l, NEW t
  PROVE  /\ c.text[l][t].element \in Elements(c, l, t)
         /\ \A p \in c.text[l][t].positions : p.element \in Elements(c, l, t)
         /\ \A e \in Elements(c, l, t) :
              e = c.text[l][t].element \/ \E p \in c.text[l][t].positions : e = p.element
BY DEF Elements

\* An element is in the page just when one of its positions was rendered.
LEMMA PageFacts ==
  ASSUME NEW c, Sound(c), NEW l \in Layers, NEW e
  PROVE  e \in c.dom[l] <=> \E t \in DOMAIN c.text[l] : \E p \in c.text[l][t].positions :
                              p.rendered /\ e = p.element
<1>1. c.dom[l] = {p.element : p \in {q \in Positions(c, l) : q.rendered}}
  BY DEF Sound
<1>2. \A p : p \in Positions(c, l) <=> \E t \in DOMAIN c.text[l] : p \in c.text[l][t].positions
  BY DEF Positions
<1> QED BY <1>1, <1>2

\* What is in the page exists.
LEMMA PageExists ==
  ASSUME NEW c, Sound(c), NEW l \in Layers
  PROVE  c.dom[l] \subseteq DOMAIN c.css
<1> SUFFICES ASSUME NEW e \in c.dom[l] PROVE e \in DOMAIN c.css
  OBVIOUS
<1>1. PICK t \in DOMAIN c.text[l] : \E p \in c.text[l][t].positions : e = p.element
  BY PageFacts
<1>2. e \in Elements(c, l, t)
  BY <1>1, ElementsFacts
<1> QED BY <1>1, <1>2 DEF Sound

\* It is enough that the page is that of the rendered positions, element by element.
LEMMA PageFrom ==
  ASSUME NEW c, NEW l,
         \A e : e \in c.dom[l] <=> \E t \in DOMAIN c.text[l] : \E p \in c.text[l][t].positions :
                                    p.rendered /\ e = p.element
  PROVE  c.dom[l] = {p.element : p \in {q \in Positions(c, l) : q.rendered}}
<1>1. \A p : p \in Positions(c, l) <=> \E t \in DOMAIN c.text[l] : p \in c.text[l][t].positions
  BY DEF Positions
<1> QED BY <1>1

\* A new label takes no element from another.
LEMMA MeasuredIsSound ==
  ASSUME NEW c, Sound(c), NEW layer \in Layers, NEW label, label \notin DOMAIN c.text[layer],
         NEW info, info.positions = {}, NEW e, e \notin DOMAIN c.css, info.element = e,
         NEW place, NEW d, Becomes(c, d, layer, label, info, e, place)
  PROVE  Sound(d) /\ Keeps(c, d)
<1>1. /\ IsCanvas(d) /\ d.dom = c.dom /\ DOMAIN d.css = DOMAIN c.css \cup {e}
      /\ \A l \in Layers : DOMAIN d.text[l] = DOMAIN c.text[l] \cup (IF l = layer THEN {label} ELSE {})
      /\ d.text[layer][label] = info
      /\ \A l \in Layers : \A t \in DOMAIN c.text[l] : d.text[l][t] = c.text[l][t]
      /\ \A f \in DOMAIN c.css : d.css[f] = c.css[f]
  BY DEF Becomes
<1>2. \A l \in Layers : \A t \in DOMAIN c.text[l] : Elements(d, l, t) = Elements(c, l, t)
  BY <1>1 DEF Elements
<1>3. \A f : f \in Elements(d, layer, label) <=> f = e
  BY <1>1, ElementsFacts
<1>4. \A l \in Layers : \A t \in DOMAIN c.text[l] : Elements(c, l, t) \subseteq DOMAIN c.css
  BY DEF Sound
<1>5. \A l \in Layers : \A t \in DOMAIN d.text[l] :
         \/ t \in DOMAIN c.text[l] /\ (l # layer \/ t # label)
         \/ l = layer /\ t = label
  BY <1>1
<1>6. ASSUME NEW l \in Layers, NEW t \in DOMAIN d.text[l]
      PROVE  /\ Elements(d, l, t) \subseteq DOMAIN d.css
             /\ \A p \in d.text[l][t].positions :
                  /\ d.css[p.element] = [label |-> t, left |-> Pixel(p.x), top |-> Pixel(p.y)]
                  /\ \A q \in d.text[l][t].positions : p.element = q.element => p = q
  <2>1. CASE l = layer /\ t = label
    BY <1>1, <1>3, <2>1
  <2>2. CASE t \in DOMAIN c.text[l]
    <3>1. \A p \in c.text[l][t].positions : p.element \in DOMAIN c.css
      BY <1>4, <2>2, ElementsFacts
    <3>2. \A p \in c.text[l][t].positions :
            /\ c.css[p.element] = [label |-> t, left |-> Pixel(p.x), top |-> Pixel(p.y)]
            /\ \A q \in c.text[l][t].positions : p.element = q.element => p = q
      BY <2>2 DEF Sound
    <3> QED BY <1>1, <1>2, <1>4, <2>2, <3>1, <3>2
  <2> QED BY <1>5, <2>1, <2>2
<1>7. ASSUME NEW l \in Layers, NEW m \in Layers, NEW t \in DOMAIN d.text[l], NEW u \in DOMAIN d.text[m],
             NEW f \in Elements(d, l, t), f \in Elements(d, m, u)
      PROVE  l = m /\ t = u
  <2>1. CASE t \in DOMAIN c.text[l] /\ u \in DOMAIN c.text[m]
    BY <1>2, <1>7, <2>1 DEF Sound
  <2>2. CASE l = layer /\ t = label
    BY <1>2, <1>3, <1>4, <1>5, <1>7, <2>2
  <2>3. CASE m = layer /\ u = label
    BY <1>2, <1>3, <1>4, <1>5, <1>7, <2>3
  <2> QED BY <1>5, <2>1, <2>2, <2>3
<1>8. ASSUME NEW l \in Layers
      PROVE  d.dom[l] = {p.element : p \in {q \in Positions(d, l) : q.rendered}}
  <2>1. \A f : (\E t \in DOMAIN d.text[l] : \E p \in d.text[l][t].positions : p.rendered /\ f = p.element)
           <=> (\E t \in DOMAIN c.text[l] : \E p \in c.text[l][t].positions : p.rendered /\ f = p.element)
    BY <1>1, <1>5
  <2>2. \A f : f \in d.dom[l] <=>
           \E t \in DOMAIN d.text[l] : \E p \in d.text[l][t].positions : p.rendered /\ f = p.element
    BY <1>1, <2>1, PageFacts
  <2> QED BY <2>2, PageFrom
<1>9. Sound(d)
  BY <1>1, <1>6, <1>7, <1>8 DEF Sound
<1>10. Keeps(c, d)
  BY <1>1, PageExists DEF Keeps, SameSize
<1> QED BY <1>9, <1>10

\* A new label of such a size leaves the canvas roomy.
LEMMA MeasuredIsRoomy ==
  ASSUME NEW c, Roomy(c), NEW layer \in Layers, NEW label, label \notin DOMAIN c.text[layer],
         NEW info, info.positions = {}, SizedLabel(layer, info),
         NEW e, NEW place, NEW d, Becomes(c, d, layer, label, info, e, place)
  PROVE  Roomy(d)
<1>1. /\ \A l \in Layers : DOMAIN d.text[l] = DOMAIN c.text[l] \cup (IF l = layer THEN {label} ELSE {})
      /\ d.text[layer][label] = info
      /\ \A l \in Layers : \A t \in DOMAIN c.text[l] : d.text[l][t] = c.text[l][t]
  BY DEF Becomes
<1>2. ASSUME NEW l \in Layers, NEW t \in DOMAIN d.text[l]
      PROVE  /\ SizedLabel(l, d.text[l][t])
             /\ \A p \in d.text[l][t].positions : p.active => Within(d.text[l][t], p.x, p.y)
  <2>1. CASE t \in DOMAIN c.text[l]
    BY <1>1, <2>1 DEF Roomy
  <2>2. CASE t \notin DOMAIN c.text[l]
    <3>1. l = layer /\ t = label
      BY <1>1, <2>2
    <3> QED BY <1>1, <3>1
  <2> QED BY <2>1, <2>2
<1> QED BY <1>2 DEF Roomy

\* Canvas d is c but for the position p of the label, whose element was in no other
\* label and in no position.
Added(c, d, layer, label, p) ==
  /\ IsCanvas(d) /\ d.dom = c.dom /\ DOMAIN d.css = DOMAIN c.css \cup {p.element}
  /\ \A l \in Layers : DOMAIN d.text[l] = DOMAIN c.text[l]
  /\ \A l \in Layers : \A t \in DOMAIN c.text[l] :
       l # layer \/ t # label => d.text[l][t] = c.text[l][t]
  /\ \A q : q \in d.text[layer][label].positions <=> q = p \/ q \in c.text[layer][label].positions
  /\ \A f : f \in Elements(d, layer, label) <=> f = p.element \/ f \in Elements(c, layer, label)
  /\ SameSize(c.text[layer][label], d.text[layer][label])
  /\ d.css[p.element] = [label |-> label, left |-> Pixel(p.x), top |-> Pixel(p.y)]
  /\ \A f \in DOMAIN c.css : f # p.element => d.css[f] = c.css[f]
  /\ \A l \in Layers : \A t \in DOMAIN c.text[l] :
       /\ p.element \in Elements(c, l, t) => l = layer /\ t = label
       /\ \A q \in c.text[l][t].positions : q.element # p.element

\* A new position takes the label's element only when no other position has it.
LEMMA GainedIsAdded ==
  ASSUME NEW c, Sound(c), NEW layer \in Layers, NEW label \in DOMAIN c.text[layer],
         NEW info, info = c.text[layer][label],
         NEW e, e = IF info.positions = {} THEN info.element ELSE FreshElement(c),
         NEW p, p.element = e,
         NEW new, new.element = info.element, new.positions = info.positions \cup {p},
         SameSize(info, new),
         NEW place, place = [label |-> label, left |-> Pixel(p.x), top |-> Pixel(p.y)],
         NEW d, Becomes(c, d, layer, label, new, e, place)
  PROVE  Added(c, d, layer, label, p)
<1>1. /\ IsCanvas(d) /\ d.dom = c.dom /\ DOMAIN d.css = DOMAIN c.css \cup {e}
      /\ d.text[layer][label] = new
      /\ \A l \in Layers : \A t \in DOMAIN c.text[l] :
           l # layer \/ t # label => d.text[l][t] = c.text[l][t]
      /\ d.css[e] = place /\ \A f \in DOMAIN c.css : f # e => d.css[f] = c.css[f]
  BY Zenon DEF Becomes
<1>2. \A l \in Layers : DOMAIN d.text[l] = DOMAIN c.text[l]
  <2>1. \A l \in Layers : DOMAIN d.text[l] = DOMAIN c.text[l] \cup (IF l = layer THEN {label} ELSE {})
    BY Zenon DEF Becomes
  <2> QED BY <2>1
<1>3. \A q : q \in d.text[layer][label].positions <=> q = p \/ q \in c.text[layer][label].positions
  BY <1>1
<1>4. \A f : f \in Elements(d, layer, label) <=> f = e \/ f \in Elements(c, layer, label)
  <2>1. d.text[layer][label].element = c.text[layer][label].element
    BY <1>1
  <2>2. \A f : f \in {q.element : q \in d.text[layer][label].positions} <=>
               f = e \/ f \in {q.element : q \in c.text[layer][label].positions}
    BY <1>3
  <2> QED BY <2>1, <2>2 DEF Elements
<1>5. \A l \in Layers : \A t \in DOMAIN c.text[l] : Elements(c, l, t) \subseteq DOMAIN c.css
  BY DEF Sound
<1>6. e \notin DOMAIN c.css \/ e \in Elements(c, layer, label)
  <2>1. CASE info.positions = {}
    <3>1. c.text[layer][label].element \in Elements(c, layer, label)
      BY ElementsFacts, Zenon
    <3> QED BY <2>1, <3>1
  <2>2. CASE info.positions # {}
    <3>1. FreshElement(c) \notin DOMAIN c.css
      BY FreshElementIsFree DEF Sound
    <3> QED BY <2>2, <3>1
  <2> QED BY <2>1, <2>2
<1>7. \A l \in Layers : \A t \in DOMAIN c.text[l] : e \in Elements(c, l, t) => l = layer /\ t = label
  <2>1. \A l, m \in Layers : \A t \in DOMAIN c.text[l] : \A u \in DOMAIN c.text[m] :
          (\E f \in Elements(c, l, t) : f \in Elements(c, m, u)) => l = m /\ t = u
    BY DEF Sound
  <2> QED BY <1>5, <1>6, <2>1, Zenon
<1>8. ASSUME NEW l \in Layers, NEW t \in DOMAIN c.text[l], NEW q \in c.text[l][t].positions,
             q.element = e
      PROVE  FALSE
  <2>1. e \in Elements(c, l, t)
    <3>1. q.element \in Elements(c, l, t)
      BY ElementsFacts
    <3> QED BY <1>8, <3>1
  <2>2. l = layer /\ t = label
    BY <1>7, <2>1, Zenon
  <2>3. e = FreshElement(c)
    BY <2>2
  <2>4. FreshElement(c) \notin DOMAIN c.css
    BY FreshElementIsFree DEF Sound
  <2> QED BY <1>5, <2>1, <2>3, <2>4, Zenon
<1>9. /\ DOMAIN d.css = DOMAIN c.css \cup {p.element}
      /\ d.css[p.element] = [label |-> label, left |-> Pixel(p.x), top |-> Pixel(p.y)]
      /\ \A f \in DOMAIN c.css : f # p.element => d.css[f] = c.css[f]
      /\ \A f : f \in Elements(d, layer, label) <=> f = p.element \/ f \in Elements(c, layer, label)
  BY <1>1, <1>4
<1>10. \A l \in Layers : \A t \in DOMAIN c.text[l] :
         /\ p.element \in Elements(c, l, t) => l = layer /\ t = label
         /\ \A q \in c.text[l][t].positions : q.element # p.element
  BY <1>7, <1>8, SMTT(20)
<1>11. SameSize(c.text[layer][label], d.text[layer][label])
  BY <1>1, Zenon
<1> QED BY <1>1, <1>2, <1>3, <1>9, <1>10, <1>11, Zenon DEF Added

\* It keeps what makes the canvas sound, and the page.
LEMMA AddedIsSound ==
  ASSUME NEW c, Sound(c), NEW layer \in Layers, NEW label \in DOMAIN c.text[layer],
         NEW p, p.rendered = FALSE, NEW d, Added(c, d, layer, label, p)
  PROVE  Sound(d) /\ Keeps(c, d)
<1>1. /\ IsCanvas(d) /\ d.dom = c.dom /\ DOMAIN d.css = DOMAIN c.css \cup {p.element}
      /\ \A l \in Layers : DOMAIN d.text[l] = DOMAIN c.text[l]
      /\ \A f \in DOMAIN c.css : f # p.element => d.css[f] = c.css[f]
  BY DEF Added
<1>2. \A l \in Layers : \A t \in DOMAIN c.text[l] :
        l # layer \/ t # label => d.text[l][t] = c.text[l][t] /\ Elements(d, l, t) = Elements(c, l, t)
  BY DEF Added, Elements
<1>3. /\ \A q : q \in d.text[layer][label].positions <=> q = p \/ q \in c.text[layer][label].positions
      /\ \A f : f \in Elements(d, layer, label) <=> f = p.element \/ f \in Elements(c, layer, label)
      /\ d.css[p.element] = [label |-> label, left |-> Pixel(p.x), top |-> Pixel(p.y)]
  BY DEF Added
<1>4. \A l \in Layers : \A t \in DOMAIN c.text[l] :
        /\ Elements(c, l, t) \subseteq DOMAIN c.css
        /\ p.element \in Elements(c, l, t) => l = layer /\ t = label
        /\ \A q \in c.text[l][t].positions : q.element # p.element
  BY DEF Sound, Added
<1>5. \A l \in Layers : \A t \in DOMAIN c.text[l] : \A q \in c.text[l][t].positions :
        /\ d.css[q.element] = [label |-> t, left |-> Pixel(q.x), top |-> Pixel(q.y)]
        /\ \A r \in c.text[l][t].positions : q.element = r.element => q = r
  <2> SUFFICES ASSUME NEW l \in Layers, NEW t \in DOMAIN c.text[l], NEW q \in c.text[l][t].positions
               PROVE  /\ d.css[q.element] = [label |-> t, left |-> Pixel(q.x), top |-> Pixel(q.y)]
                      /\ \A r \in c.text[l][t].positions : q.element = r.element => q = r
    OBVIOUS
  <2>1. q.element \in DOMAIN c.css /\ q.element # p.element
    BY <1>4, ElementsFacts
  <2>2. d.css[q.element] = c.css[q.element]
    BY <1>1, <2>1
  <2> QED BY <2>2 DEF Sound
<1>6. ASSUME NEW l \in Layers, NEW t \in DOMAIN d.text[l]
      PROVE  /\ Elements(d, l, t) \subseteq DOMAIN d.css
             /\ \A q \in d.text[l][t].positions :
                  /\ d.css[q.element] = [label |-> t, left |-> Pixel(q.x), top |-> Pixel(q.y)]
                  /\ \A r \in d.text[l][t].positions : q.element = r.element => q = r
  <2>1. t \in DOMAIN c.text[l] /\ DOMAIN c.css \subseteq DOMAIN d.css /\ p.element \in DOMAIN d.css
    BY <1>1
  <2>2. CASE l = layer /\ t = label
    <3>1. Elements(d, l, t) \subseteq DOMAIN d.css
      BY <1>3, <1>4, <2>1, <2>2
    <3>2. \A q \in d.text[l][t].positions : q = p \/ q \in c.text[l][t].positions
      BY <1>3, <2>2
    <3>3. \A q \in d.text[l][t].positions :
            d.css[q.element] = [label |-> t, left |-> Pixel(q.x), top |-> Pixel(q.y)]
      BY <1>3, <1>5, <2>1, <2>2, <3>2
    <3>4. \A q, r \in d.text[l][t].positions : q.element = r.element => q = r
      <4>1. \A q \in c.text[l][t].positions : q.element # p.element
        BY <1>4, <2>1
      <4>2. \A q, r \in c.text[l][t].positions : q.element = r.element => q = r
        BY <1>5, <2>1
      <4> QED BY <3>2, <4>1, <4>2
    <3> QED BY <3>1, <3>3, <3>4
  <2>3. CASE l # layer \/ t # label
    BY <1>2, <1>4, <1>5, <2>1, <2>3
  <2> QED BY <2>2, <2>3
<1>7. ASSUME NEW l \in Layers, NEW m \in Layers, NEW t \in DOMAIN d.text[l], NEW u \in DOMAIN d.text[m],
             NEW f \in Elements(d, l, t), f \in Elements(d, m, u)
      PROVE  l = m /\ t = u
  <2>1. t \in DOMAIN c.text[l] /\ u \in DOMAIN c.text[m]
    BY <1>1
  <2>2. CASE f = p.element
    <3>1. l = layer /\ t = label
      BY <1>2, <1>4, <2>1, <2>2
    <3>2. m = layer /\ u = label
      BY <1>2, <1>4, <1>7, <2>1, <2>2
    <3> QED BY <3>1, <3>2
  <2>3. CASE f # p.element
    <3>1. f \in Elements(c, l, t)
      BY <1>2, <1>3, <2>1, <2>3
    <3>2. f \in Elements(c, m, u)
      BY <1>2, <1>3, <1>7, <2>1, <2>3
    <3> QED BY <2>1, <3>1, <3>2 DEF Sound
  <2> QED BY <2>2, <2>3
<1>8. ASSUME NEW l \in Layers
      PROVE  d.dom[l] = {q.element : q \in {r \in Positions(d, l) : r.rendered}}
  <2>1. \A t \in DOMAIN c.text[l] : \A q :
          q \in d.text[l][t].positions /\ q.rendered <=> q \in c.text[l][t].positions /\ q.rendered
    <3> SUFFICES ASSUME NEW t \in DOMAIN c.text[l]
                 PROVE  \A q : q \in d.text[l][t].positions /\ q.rendered <=>
                               q \in c.text[l][t].positions /\ q.rendered
      OBVIOUS
    <3>1. CASE l = layer /\ t = label
      BY <1>3, <3>1
    <3>2. CASE l # layer \/ t # label
      BY <1>2, <3>2
    <3> QED BY <3>1, <3>2
  <2>2. \A f : f \in c.dom[l] <=>
          \E t \in DOMAIN c.text[l] : \E q \in c.text[l][t].positions : q.rendered /\ f = q.element
    BY PageFacts
  <2>3. d.dom[l] = c.dom[l] /\ DOMAIN d.text[l] = DOMAIN c.text[l]
    BY <1>1
  <2>4. \A f : f \in d.dom[l] <=>
          \E t \in DOMAIN d.text[l] : \E q \in d.text[l][t].positions : q.rendered /\ f = q.element
    BY <2>1, <2>2, <2>3
  <2> QED BY <2>4, PageFrom
<1>9. Sound(d)
  <2>1. IsCanvas(d)
    BY <1>1
  <2> QED BY <2>1, <1>6, <1>7, <1>8 DEF Sound
<1>10. \A l \in Layers : \A f \in c.dom[l] : f # p.element
  BY <1>4, PageFacts
<1>11. \A l \in Layers : \A t \in DOMAIN c.text[l] : SameSize(c.text[l][t], d.text[l][t])
  <2>1. SameSize(c.text[layer][label], d.text[layer][label])
    BY DEF Added
  <2> QED BY <1>2, <2>1 DEF SameSize
<1>12. Keeps(c, d)
  BY <1>1, <1>10, <1>11, PageExists DEF Keeps
<1> QED BY <1>9, <1>12

\* A position inside the canvas leaves it roomy.
LEMMA AddedIsRoomy ==
  ASSUME NEW c, Roomy(c), NEW layer \in Layers, NEW label \in DOMAIN c.text[layer],
         NEW p, Within(c.text[layer][label], p.x, p.y), NEW d, Added(c, d, layer, label, p)
  PROVE  Roomy(d)
<1>1. /\ \A l \in Layers : DOMAIN d.text[l] = DOMAIN c.text[l]
      /\ \A l \in Layers : \A t \in DOMAIN c.text[l] :
           l # layer \/ t # label => d.text[l][t] = c.text[l][t]
      /\ \A q : q \in d.text[layer][label].positions <=> q = p \/ q \in c.text[layer][label].positions
      /\ SameSize(c.text[layer][label], d.text[layer][label])
  BY DEF Added
<1>2. ASSUME NEW l \in Layers, NEW t \in DOMAIN c.text[l]
      PROVE  /\ SizedLabel(l, d.text[l][t])
             /\ \A q \in d.text[l][t].positions : q.active => Within(d.text[l][t], q.x, q.y)
  <2>1. /\ SizedLabel(l, c.text[l][t])
        /\ \A q \in c.text[l][t].positions : q.active => Within(c.text[l][t], q.x, q.y)
    BY DEF Roomy
  <2>2. CASE l = layer /\ t = label
    <3>1. \A q \in d.text[l][t].positions : q.active => Within(c.text[l][t], q.x, q.y)
      BY <1>1, <2>1, <2>2
    <3> QED BY <1>1, <2>1, <2>2, <3>1, SizeDecides
  <2>3. CASE l # layer \/ t # label
    BY <1>1, <2>1, <2>3
  <2> QED BY <2>2, <2>3
<1> QED BY <1>1, <1>2 DEF Roomy

\* The positions keep everything but their flags, and become active inside the canvas only.
SameFlagsApart(old, new) ==
  /\ new.element = old.element /\ SameSize(old, new)
  /\ \E flag :
       /\ \A q \in new.positions : \E p \in old.positions : q = flag[p]
       /\ \A p \in old.positions :
            /\ flag[p] \in new.positions
            /\ flag[p].element = p.element /\ flag[p].rendered = p.rendered
            /\ flag[p].x = p.x /\ flag[p].y = p.y
            /\ flag[p].active => p.active \/ Within(old, p.x, p.y)

\* No flag changed.
LEMMA SameInfo == ASSUME NEW info PROVE SameFlagsApart(info, info)
<1> DEFINE flag == [p \in info.positions |-> p]
<1>1. \A p \in info.positions : flag[p] = p
  OBVIOUS
<1> HIDE DEF flag
<1> QED BY <1>1 DEF SameFlagsApart, SameSize

\* Canvas d is c but for the positions that are active.
Reflagged(c, d) ==
  /\ IsCanvas(d) /\ d.css = c.css /\ d.dom = c.dom
  /\ \A l \in Layers :
       /\ DOMAIN d.text[l] = DOMAIN c.text[l]
       /\ \A t \in DOMAIN c.text[l] : SameFlagsApart(c.text[l][t], d.text[l][t])

\* Which positions are active does not matter before the next render.
LEMMA ReflaggedIsSound ==
  ASSUME NEW c, Sound(c), NEW d, Reflagged(c, d)
  PROVE  Sound(d) /\ Keeps(c, d) /\ (Roomy(c) => Roomy(d))
<1>1. /\ IsCanvas(d) /\ d.css = c.css /\ d.dom = c.dom
      /\ \A l \in Layers : DOMAIN d.text[l] = DOMAIN c.text[l]
  BY DEF Reflagged
<1>2. ASSUME NEW l \in Layers, NEW t \in DOMAIN c.text[l]
      PROVE  /\ Elements(d, l, t) = Elements(c, l, t)
             /\ \A q \in d.text[l][t].positions :
                  /\ d.css[q.element] = [label |-> t, left |-> Pixel(q.x), top |-> Pixel(q.y)]
                  /\ \A r \in d.text[l][t].positions : q.element = r.element => q = r
             /\ \A f : (\E q \in d.text[l][t].positions : q.rendered /\ f = q.element) <=>
                      (\E p \in c.text[l][t].positions : p.rendered /\ f = p.element)
  <2> DEFINE P == c.text[l][t].positions
             Q == d.text[l][t].positions
  <2>1. d.text[l][t].element = c.text[l][t].element
    BY DEF Reflagged, SameFlagsApart
  <2>2. PICK flag : /\ \A q \in Q : \E p \in P : q = flag[p]
                    /\ \A p \in P : /\ flag[p] \in Q
                                   /\ flag[p].element = p.element /\ flag[p].rendered = p.rendered
                                   /\ flag[p].x = p.x /\ flag[p].y = p.y
    BY DEF Reflagged, SameFlagsApart
  <2>3. \A p \in P : /\ c.css[p.element] = [label |-> t, left |-> Pixel(p.x), top |-> Pixel(p.y)]
                    /\ \A r \in P : p.element = r.element => p = r
    BY DEF Sound
  <2>4. Elements(d, l, t) = Elements(c, l, t)
    <3>1. {q.element : q \in Q} = {p.element : p \in P}
      <4> HIDE DEF P, Q
      <4> QED BY <2>2
    <3> QED BY <2>1, <3>1 DEF Elements
  <2>5. ASSUME NEW q \in Q
        PROVE  /\ d.css[q.element] = [label |-> t, left |-> Pixel(q.x), top |-> Pixel(q.y)]
               /\ \A r \in Q : q.element = r.element => q = r
    <3> HIDE DEF P, Q
    <3>1. PICK p \in P : q = flag[p]
      BY <2>2
    <3>2. d.css[q.element] = [label |-> t, left |-> Pixel(q.x), top |-> Pixel(q.y)]
      BY <1>1, <2>2, <2>3, <3>1
    <3>3. ASSUME NEW r \in Q, q.element = r.element PROVE q = r
      <4>1. PICK s \in P : r = flag[s]
        BY <2>2
      <4>2. p.element = s.element
        BY <2>2, <3>1, <3>3, <4>1
      <4>3. p = s
        BY <2>3, <4>2
      <4> QED BY <3>1, <4>1, <4>3
    <3> QED BY <3>2, <3>3
  <2>6. \A f : (\E q \in Q : q.rendered /\ f = q.element) <=> (\E p \in P : p.rendered /\ f = p.element)
    <3> HIDE DEF P, Q
    <3> QED BY <2>2
  <2> QED BY <2>4, <2>5, <2>6
<1>3. ASSUME NEW l \in Layers
      PROVE  d.dom[l] = {q.element : q \in {r \in Positions(d, l) : r.rendered}}
  <2>1. \A f : f \in d.dom[l] <=>
           \E t \in DOMAIN d.text[l] : \E q \in d.text[l][t].positions : q.rendered /\ f = q.element
    <3> DEFINE In(b, t, f) == \E q \in b.text[l][t].positions : q.rendered /\ f = q.element
    <3>1. \A f : f \in c.dom[l] <=> \E t \in DOMAIN c.text[l] : In(c, t, f)
      BY PageFacts
    <3>2. \A t \in DOMAIN c.text[l] : \A f : In(d, t, f) <=> In(c, t, f)
      BY <1>2
    <3>3. d.dom[l] = c.dom[l] /\ DOMAIN d.text[l] = DOMAIN c.text[l]
      BY <1>1
    <3> HIDE DEF In
    <3>4. \A f : f \in d.dom[l] <=> \E t \in DOMAIN d.text[l] : In(d, t, f)
      BY <3>1, <3>2, <3>3
    <3> QED BY <3>4 DEF In
  <2> QED BY <2>1, PageFrom
<1>4. Sound(d)
  BY <1>1, <1>2, <1>3 DEF Sound
<1>5. \A l \in Layers : \A t \in DOMAIN c.text[l] : SameSize(c.text[l][t], d.text[l][t])
  BY DEF Reflagged, SameFlagsApart
<1>6. ASSUME Roomy(c), NEW l \in Layers, NEW t \in DOMAIN c.text[l]
      PROVE  /\ SizedLabel(l, d.text[l][t])
             /\ \A q \in d.text[l][t].positions : q.active => Within(d.text[l][t], q.x, q.y)
  <2> DEFINE old == c.text[l][t]
             new == d.text[l][t]
  <2>1. SameFlagsApart(old, new)
    BY DEF Reflagged
  <2>2. SizedLabel(l, old) /\ \A p \in old.positions : p.active => Within(old, p.x, p.y)
    BY <1>6 DEF Roomy
  <2> HIDE DEF old, new
  <2>3. PICK flag : /\ \A q \in new.positions : \E p \in old.positions : q = flag[p]
                    /\ \A p \in old.positions :
                         /\ flag[p].x = p.x /\ flag[p].y = p.y
                         /\ flag[p].active => p.active \/ Within(old, p.x, p.y)
    BY <2>1 DEF SameFlagsApart
  <2>4. ASSUME NEW q \in new.positions, q.active PROVE Within(old, q.x, q.y)
    <3>1. PICK p \in old.positions : q = flag[p]
      BY <2>3
    <3> QED BY <2>2, <2>3, <2>4, <3>1
  <2>5. SameSize(old, new)
    BY <2>1 DEF SameFlagsApart
  <2>6. SizedLabel(l, new) /\ \A q \in new.positions : q.active => Within(new, q.x, q.y)
    BY <2>2, <2>4, <2>5, SizeDecides
  <2> QED BY <2>6 DEF new
<1>7. Roomy(c) => Roomy(d)
  BY <1>1, <1>6 DEF Roomy
<1> QED BY <1>1, <1>4, <1>5, <1>7 DEF Keeps

\* One operation after the other.
LEMMA KeepsTransitive ==
  ASSUME NEW b, NEW c, NEW d, Keeps(b, c), Keeps(c, d)
  PROVE  Keeps(b, d)
BY DEF Keeps, SameSize

\* No operation.
LEMMA KeepsReflexive == ASSUME NEW c PROVE Keeps(c, c)
BY DEF Keeps, SameSize
-----------------------------------------------------------------------------
(* The operations of the canvas. *)

\* getTextInfo leaves the page, and the label is in the cache afterwards.
LEMMA GetTextInfoKeeps ==
  ASSUME NEW c, Sound(c), Roomy(c), NEW layer \in Layers, NEW label, NEW maxWidth,
         SizedLabel(layer, Measured(label, maxWidth))
  PROVE  LET d == GetTextInfo(c, layer, label, maxWidth)
         IN  Sound(d) /\ Roomy(d) /\ Keeps(c, d) /\ label \in DOMAIN d.text[layer]
<1>1. CASE label \in DOMAIN c.text[layer]
  BY <1>1, KeepsReflexive DEF GetTextInfo
<1>2. CASE label \notin DOMAIN c.text[layer]
  <2> DEFINE d == GetTextInfo(c, layer, label, maxWidth)
             e == FreshElement(c)
  <2>1. IsCanvas(c) /\ e \notin DOMAIN c.css
    BY FreshElementIsFree DEF Sound
  <2>2. PICK info, place : /\ IsInfo(info) /\ info.positions = {} /\ info.element = e
                           /\ SameSize(Measured(label, maxWidth), info)
                           /\ Becomes(c, d, layer, label, info, e, place)
    BY <1>2, <2>1, GetTextInfoBecomes
  <2> HIDE DEF d, e
  <2>5. SizedLabel(layer, info)
    BY <2>2, SizeDecides
  <2>3. Sound(d) /\ Keeps(c, d) /\ Roomy(d)
    BY <1>2, <2>1, <2>2, <2>5, MeasuredIsSound, MeasuredIsRoomy
  <2>4. label \in DOMAIN d.text[layer]
    BY <2>2 DEF Becomes
  <2> QED BY <2>3, <2>4 DEF d
<1> QED BY <1>1, <1>2

\* addText leaves the page, whether the label stood there or not.
LEMMA AddTextKeeps ==
  ASSUME NEW c, Sound(c), Roomy(c), NEW layer \in Layers, NEW label \in DOMAIN c.text[layer], NEW left, NEW top,
         Within(c.text[layer][label], left, top)
  PROVE  LET d == AddTextAt(c, layer, label, left, top) IN Sound(d) /\ Roomy(d) /\ Keeps(c, d)
<1> DEFINE d == AddTextAt(c, layer, label, left, top)
           info == c.text[layer][label]
           e == IF info.positions = {} THEN info.element ELSE FreshElement(c)
           at(p) == p.x = left /\ p.y = top
<1>0. IsCanvas(c) /\ IsInfo(info)
  BY DEF Sound, IsCanvas
<1>1. CASE \A p \in info.positions : ~at(p)
  <2>1. info = c.text[layer][label] /\ \A p \in info.positions : ~(p.x = left /\ p.y = top)
    BY <1>1
  <2>2. e = IF info.positions = {} THEN info.element ELSE FreshElement(c)
    OBVIOUS
  <2> HIDE DEF info, e, d, at
  <2>3. Gains(c, AddTextAt(c, layer, label, left, top), layer, label, info, e, left, top)
    BY <1>0, <2>1, <2>2, AddTextGains
  <2>4. PICK new, p : /\ new.element = info.element /\ new.positions = info.positions \cup {p}
                      /\ SameSize(info, new)
                      /\ p.rendered = FALSE /\ p.element = e /\ p.x = left /\ p.y = top
                      /\ Becomes(c, d, layer, label, new, e,
                                 [label |-> label, left |-> Pixel(left), top |-> Pixel(top)])
    BY <2>3 DEF Gains, d
  <2>5. Becomes(c, d, layer, label, new, e, [label |-> label, left |-> Pixel(p.x), top |-> Pixel(p.y)])
    BY <2>4
  <2>6. Added(c, d, layer, label, p)
    BY <2>1, <2>2, <2>4, <2>5, GainedIsAdded
  <2>7. Sound(d) /\ Keeps(c, d)
    BY <2>4, <2>6, AddedIsSound
  <2>8. Roomy(d)
    BY <2>4, <2>6, AddedIsRoomy
  <2> QED BY <2>7, <2>8 DEF d
<1>2. CASE \E p \in info.positions : at(p)
  <2> DEFINE F(p) == IF at(p) THEN [p EXCEPT !.active = TRUE] ELSE p
             P == {F(p) : p \in info.positions}
             new == [info EXCEPT !.positions = P]
             flag == [p \in info.positions |-> F(p)]
             text == WithInfo(c.text, layer, label, new)
  <2>1. \A p \in info.positions :
          /\ IsPosition(F(p)) /\ F(p).element = p.element /\ F(p).rendered = p.rendered
          /\ F(p).x = p.x /\ F(p).y = p.y
          /\ F(p).active => p.active \/ at(p)
    <3> SUFFICES ASSUME NEW p \in info.positions
                 PROVE  /\ IsPosition(F(p)) /\ F(p).element = p.element /\ F(p).rendered = p.rendered
                        /\ F(p).x = p.x /\ F(p).y = p.y
                        /\ F(p).active => p.active \/ at(p)
      OBVIOUS
    <3>1. IsPosition(p)
      BY <1>0 DEF IsInfo
    <3>2. [p EXCEPT !.active = TRUE] =
            [active |-> TRUE, rendered |-> p.rendered, element |-> p.element, x |-> p.x, y |-> p.y]
      BY <3>1, PositionExcept
    <3>3. CASE at(p)
      BY <3>2, <3>3 DEF IsPosition
    <3>4. CASE ~at(p)
      BY <3>1, <3>4
    <3> QED BY <3>3, <3>4
  <2>2. d = [c EXCEPT !.text = text]
    BY <1>2 DEF AddTextAt
  <2>3. d = [text |-> text, css |-> c.css, dom |-> c.dom]
    BY <1>0, <2>2, CanvasExcept
  <2>4. new = [width |-> info.width, height |-> info.height, element |-> info.element, positions |-> P]
    BY <1>0, InfoExcept
  <2>5. c.css = WithStyle(c.css, info.element, c.css[info.element])
    <3>1. c.css = [f \in DOMAIN c.css |-> c.css[f]]
      BY <1>0 DEF IsCanvas
    <3>2. info.element \in DOMAIN c.css
      BY ElementsFacts DEF Sound
    <3> QED BY <3>1, <3>2 DEF WithStyle
  <2>6. /\ \A q \in P : \E p \in info.positions : q = flag[p]
        /\ \A p \in info.positions : flag[p] = F(p) /\ flag[p] \in P
    OBVIOUS
  <2>11. \A p \in info.positions : at(p) => Within(info, p.x, p.y)
    OBVIOUS
  <2> HIDE DEF F, P, flag, text, d, info, new, at
  <2>7. IsInfo(new) /\ new.element = info.element /\ new.positions = P
    <3>1. \A q \in P : IsPosition(q)
      BY <2>1, <2>6
    <3> QED BY <2>4, <3>1 DEF IsInfo
  <2>8. Becomes(c, d, layer, label, new, info.element, c.css[info.element])
    <3>1. d = [text |-> WithInfo(c.text, layer, label, new),
               css |-> WithStyle(c.css, info.element, c.css[info.element]), dom |-> c.dom]
      BY <2>3, <2>5 DEF text
    <3> QED BY <1>0, <2>7, <3>1, UpdateBecomes
  <2>12. SameSize(info, new)
    BY <2>4 DEF SameSize
  <2>9. SameFlagsApart(info, new)
    BY <2>1, <2>6, <2>7, <2>11, <2>12 DEF SameFlagsApart
  <2>10. Reflagged(c, d)
    <3>1. ASSUME NEW l \in Layers, NEW t \in DOMAIN c.text[l]
          PROVE  SameFlagsApart(c.text[l][t], d.text[l][t])
      <4>1. CASE l = layer /\ t = label
        BY <2>8, <2>9, <4>1 DEF Becomes, info
      <4>2. CASE l # layer \/ t # label
        BY <2>8, <4>2, SameInfo DEF Becomes
      <4> QED BY <4>1, <4>2
    <3>2. IsCanvas(d) /\ d.css = c.css /\ d.dom = c.dom
      BY <2>3, <2>8 DEF Becomes
    <3>3. \A l \in Layers : DOMAIN d.text[l] = DOMAIN c.text[l]
      BY <2>8, ZenonT(40) DEF Becomes
    <3> QED BY <3>1, <3>2, <3>3 DEF Reflagged
  <2> QED BY <2>10, ReflaggedIsSound DEF d
<1> QED BY <1>1, <1>2

\* A label made passive keeps its element and all its positions.
LEMMA PassiveIs ==
  ASSUME NEW info, IsInfo(info)
  PROVE  IsInfo(Passive(info)) /\ SameFlagsApart(info, Passive(info))
<1> DEFINE F(p) == [p EXCEPT !.active = FALSE]
           P == {F(p) : p \in info.positions}
           flag == [p \in info.positions |-> F(p)]
<1>1. \A p \in info.positions :
        /\ IsPosition(F(p)) /\ F(p).element = p.element /\ F(p).rendered = p.rendered
        /\ F(p).x = p.x /\ F(p).y = p.y /\ F(p).active = FALSE
  <2> SUFFICES ASSUME NEW p \in info.positions
               PROVE  /\ IsPosition(F(p)) /\ F(p).element = p.element /\ F(p).rendered = p.rendered
                      /\ F(p).x = p.x /\ F(p).y = p.y /\ F(p).active = FALSE
    OBVIOUS
  <2>1. IsPosition(p)
    BY DEF IsInfo
  <2>2. F(p) = [active |-> FALSE, rendered |-> p.rendered, element |-> p.element, x |-> p.x, y |-> p.y]
    BY <2>1, PositionExcept
  <2> HIDE DEF F
  <2> QED BY <2>2 DEF IsPosition
<1>2. Passive(info) = [width |-> info.width, height |-> info.height, element |-> info.element, positions |-> P]
  BY InfoExcept DEF Passive
<1>3. /\ \A q \in P : \E p \in info.positions : q = flag[p]
      /\ \A p \in info.positions : flag[p] = F(p) /\ flag[p] \in P
  OBVIOUS
<1> HIDE DEF F, P, flag
<1>4. \A q \in P : IsPosition(q)
  BY <1>1, <1>3
<1>5. Passive(info).element = info.element /\ Passive(info).positions = P /\ SameSize(info, Passive(info))
  BY <1>2 DEF SameSize
<1> QED BY <1>1, <1>2, <1>3, <1>4, <1>5 DEF IsInfo, SameFlagsApart

\* removeText leaves the page: it only makes positions passive.
LEMMA RemoveTextKeeps ==
  ASSUME NEW c, Sound(c), Roomy(c), NEW layer \in Layers
  PROVE  LET d == RemoveText(c, layer) IN Sound(d) /\ Roomy(d) /\ Keeps(c, d)
<1> DEFINE d == RemoveText(c, layer)
           row == [t \in DOMAIN c.text[layer] |-> Passive(c.text[layer][t])]
           text == [c.text EXCEPT ![layer] = row]
<1>1. IsCanvas(c) /\ c.text = [l \in Layers |-> c.text[l]]
  BY DEF Sound, IsCanvas
<1>2. d = [c EXCEPT !.text = text]
  BY DEF RemoveText
<1>3. d = [text |-> text, css |-> c.css, dom |-> c.dom]
  BY <1>1, <1>2, CanvasExcept
<1>4. /\ text = [l \in Layers |-> text[l]] /\ text[layer] = row
      /\ \A l \in Layers : l # layer => text[l] = c.text[l]
  BY <1>1
<1>5. row = [t \in DOMAIN row |-> row[t]] /\ DOMAIN row = DOMAIN c.text[layer]
      /\ \A t \in DOMAIN c.text[layer] : row[t] = Passive(c.text[layer][t])
  OBVIOUS
<1> HIDE DEF text, row, d
<1>6. d.text = text /\ d.css = c.css /\ d.dom = c.dom /\ d = [text |-> d.text, css |-> d.css, dom |-> d.dom]
  BY <1>3
<1>7. \A l \in Layers : \A t \in DOMAIN c.text[l] : IsInfo(c.text[l][t])
  BY <1>1 DEF IsCanvas
<1>8. ASSUME NEW l \in Layers
      PROVE  /\ DOMAIN d.text[l] = DOMAIN c.text[l] /\ d.text[l] = [t \in DOMAIN d.text[l] |-> d.text[l][t]]
             /\ \A t \in DOMAIN c.text[l] : IsInfo(d.text[l][t]) /\ SameFlagsApart(c.text[l][t], d.text[l][t])
  <2>1. CASE l = layer
    BY <1>4, <1>5, <1>6, <1>7, <2>1, PassiveIs
  <2>2. CASE l # layer
    <3>1. d.text[l] = c.text[l]
      BY <1>4, <1>6, <2>2
    <3>2. c.text[l] = [t \in DOMAIN c.text[l] |-> c.text[l][t]]
      BY <1>1 DEF IsCanvas
    <3> QED BY <1>7, <3>1, <3>2, SameInfo
  <2> QED BY <2>1, <2>2
<1>9. IsCanvas(d)
  <2>1. d.text = [l \in Layers |-> d.text[l]]
    BY <1>4, <1>6
  <2>2. /\ d.dom = [l \in Layers |-> d.dom[l]]
        /\ d.css = [e \in DOMAIN d.css |-> d.css[e]] /\ IsFiniteSet(DOMAIN d.css)
    BY <1>1, <1>6 DEF IsCanvas
  <2>3. d = [text |-> d.text, css |-> d.css, dom |-> d.dom]
    BY <1>6
  <2> QED BY <1>8, <2>1, <2>2, <2>3 DEF IsCanvas
<1>10. Reflagged(c, d)
  BY <1>6, <1>8, <1>9 DEF Reflagged
<1> QED BY <1>10, ReflaggedIsSound DEF d

\* The greater of two dividends has the greater quotient.
LEMMA DivisionRises ==
  ASSUME NEW x \in Nat, NEW y \in Nat, x <= y, NEW n \in Nat \ {0}
  PROVE  x \div n \in Nat /\ y \div n \in Nat /\ x \div n <= y \div n
<1> DEFINE p == x \div n
           q == y \div n
<1>1. p \in Int /\ q \in Int /\ n * p <= x /\ y < n * q + n /\ 0 <= p /\ 0 <= q
  OBVIOUS
<1> HIDE DEF p, q
<1>2. p <= q
  <2> SUFFICES ASSUME p >= q + 1 PROVE FALSE
    BY <1>1
  <2>1. n * p >= n * (q + 1) /\ n * (q + 1) = n * q + n
    BY <1>1
  <2>2. n * p \in Int /\ n * q \in Int /\ n * (q + 1) \in Int
    BY <1>1
  <2> QED BY <1>1, <2>1, <2>2
<1> QED BY <1>1, <1>2 DEF p, q

\* p2c keeps to the length.
LEMMA AlongIs ==
  ASSUME NEW axis, axis.min \in Int, axis.max \in Int, axis.min < axis.max,
         NEW v \in Int, axis.min <= v, v <= axis.max, NEW length \in Nat
  PROVE  Along(v, axis, length) \in 0 .. length
<1> DEFINE range == axis.max - axis.min
           coarse == range \div 100000 + 1
           a == (v - axis.min) \div coarse
           b == range \div coarse
<1>1. range \in Nat \ {0} /\ v - axis.min \in Nat /\ v - axis.min <= range
  OBVIOUS
<1>2. Along(v, axis, length) = (a * length) \div b
  BY DEF Along
<1>3. coarse \in Nat \ {0} /\ coarse <= range
  <2> HIDE DEF range
  <2> QED BY <1>1
<1> HIDE DEF coarse
<1>4. a \in Nat /\ b \in Nat /\ a <= b
  <2> HIDE DEF range
  <2> QED BY <1>1, <1>3, DivisionRises
<1>5. b >= 1
  <2> HIDE DEF range
  <2>1. range < coarse * b + coarse
    BY <1>1, <1>3
  <2>2. b = 0 => coarse * b = 0
    BY <1>3
  <2> HIDE DEF b
  <2> QED BY <1>1, <1>3, <1>4, <2>1, <2>2
<1> HIDE DEF a, b
<1>6. a * length \in Nat /\ b * length \in Nat /\ a * length <= b * length
  BY <1>4
<1>7. (b * length) \div b = length
  BY <1>4, <1>5
<1>8. (a * length) \div b \in Nat /\ (a * length) \div b <= (b * length) \div b
  <2>1. b \in Nat \ {0}
    BY <1>4, <1>5
  <2> QED BY <1>6, <2>1, DivisionRises
<1> QED BY <1>2, <1>7, <1>8

\* addText, for the three ways that a label is aligned.
LEMMA CentredText ==
  ASSUME NEW c, NEW layer, NEW label, NEW x, NEW y
  PROVE  AddText(c, layer, label, x, y, "center", "top") =
           AddTextAt(c, layer, label, x - c.text[layer][label].width \div 2, y - 0)
BY Zenon DEF AddText

LEMMA AlignedText ==
  ASSUME NEW c, NEW layer, NEW label, NEW x, NEW y
  PROVE  LET info == c.text[layer][label]
         IN  /\ AddText(c, layer, label, x, y, "right", "middle") =
                  AddTextAt(c, layer, label, x - info.width, y - info.height \div 2)
             /\ AddText(c, layer, label, x, y, "left", "middle") =
                  AddTextAt(c, layer, label, x - 0, y - info.height \div 2)
BY Zenon DEF AddText

\* A layout that keeps labels of such a size inside the canvas.
Suits(layout, layer, position, width, height) ==
  IF layer = "x"
  THEN /\ layout.left \in Nat /\ layout.plotWidth \in Nat /\ layout.labelsTop \in Nat
       /\ width <= 2 * layout.left /\ 2 * (layout.left + layout.plotWidth) + width <= 2 * (Width * Px)
       /\ layout.labelsTop + height <= Height * Px
  ELSE /\ layout.top \in Nat /\ layout.plotHeight \in Nat /\ layout.labelsSide \in Nat
       /\ 80 <= layout.top /\ layout.top + layout.plotHeight + 80 <= Height * Px
       /\ IF position = "left" THEN width <= layout.labelsSide /\ layout.labelsSide <= Width * Px
          ELSE layout.labelsSide + width <= Width * Px

\* A label under the axis, centred on its tick.
LEMMA WithinAcross ==
  ASSUME NEW info, NEW layer, layer = "x", SizedLabel(layer, info), NEW layout, NEW position,
         Suits(layout, layer, position, info.width, info.height),
         NEW along \in 0 .. layout.plotWidth
  PROVE  Within(info, (layout.left + along) - info.width \div 2, layout.labelsTop - 0)
<1> DEFINE W == Width * Px
           H == Height * Px
           w == info.width
           h == info.height
           left == layout.left
           length == layout.plotWidth
           top == layout.labelsTop
<1>1. W \in Int /\ H \in Int
  BY PlotAssumption DEF Px
<1>2. /\ w \in 0 .. 1440 /\ w % 2 = 0 /\ h \in 0 .. 1440
      /\ left \in Nat /\ length \in Nat /\ top \in Nat /\ along \in 0 .. length
      /\ w <= 2 * left /\ 2 * (left + length) + w <= 2 * W /\ top + h <= H
  BY DEF Suits, SizedLabel
<1> HIDE DEF W, H, w, h, left, length, top
<1>3. w \div 2 \in Nat /\ w = 2 * (w \div 2)
  BY <1>2
<1> DEFINE half == w \div 2
<1> HIDE DEF half
<1>4. half \in Nat /\ w = 2 * half
  BY <1>3 DEF half
<1>5. /\ (left + along) - half \in Int /\ top - 0 \in Int
      /\ 0 <= (left + along) - half /\ ((left + along) - half) + w <= W
      /\ 0 <= top - 0 /\ top - 0 + h <= H
  BY <1>1, <1>2, <1>4
<1> QED BY <1>5, Zenon DEF Within, W, H, w, h, left, top, half

\* A label beside the axis, at the height of its tick.
LEMMA WithinUp ==
  ASSUME NEW info, NEW layer, layer # "x", SizedLabel(layer, info), NEW layout, NEW position,
         Suits(layout, layer, position, info.width, info.height),
         NEW along \in 0 .. layout.plotHeight
  PROVE  LET y == layout.top + layout.plotHeight - along
         IN  /\ position = "left" => Within(info, layout.labelsSide - info.width, y - info.height \div 2)
             /\ position # "left" => Within(info, layout.labelsSide - 0, y - info.height \div 2)
<1> DEFINE W == Width * Px
           H == Height * Px
           w == info.width
           h == info.height
           top == layout.top
           length == layout.plotHeight
           side == layout.labelsSide
           y == (top + length - along) - h \div 2
<1>1. W \in Int /\ H \in Int
  BY PlotAssumption DEF Px
<1>2. /\ w \in 0 .. 1440 /\ h = 160 /\ h \div 2 = 80
      /\ top \in Nat /\ length \in Nat /\ side \in Nat /\ along \in 0 .. length
      /\ 80 <= top /\ top + length + 80 <= H
      /\ IF position = "left" THEN w <= side /\ side <= W ELSE side + w <= W
  <2>1. h = 160 => h \div 2 = 80
    <3> HIDE DEF h
    <3> QED OBVIOUS
  <2> QED BY <2>1 DEF Suits, SizedLabel
<1> HIDE DEF W, H, w, h, length, top, side
<1>3. y \in Int /\ 0 <= y /\ y + h <= H
  BY <1>1, <1>2
<1> HIDE DEF y
<1>4. CASE position = "left"
  <2>1. side - w \in Int /\ 0 <= side - w /\ side - w + w <= W
    BY <1>1, <1>2, <1>4
  <2> DEFINE x == side - w
  <2> HIDE DEF x
  <2>2. Within(info, x, y)
    BY <1>3, <2>1, Zenon DEF Within, W, H, w, h, x
  <2> QED BY <1>4, <2>2 DEF w, h, length, top, side, y, x
<1>5. CASE position # "left"
  <2>1. side - 0 \in Int /\ 0 <= side - 0 /\ side - 0 + w <= W
    BY <1>1, <1>2, <1>5
  <2> DEFINE x == side - 0
  <2> HIDE DEF x
  <2>2. Within(info, x, y)
    BY <1>3, <2>1, Zenon DEF Within, W, H, w, h, x
  <2> QED BY <1>5, <2>2 DEF h, length, top, side, y, x
<1> QED BY <1>4, <1>5

\* The range of an axis, for the labels.
RangeOK(axis) == axis.min \in Int /\ axis.max \in Int /\ axis.min < axis.max

\* A tick of drawAxisLabels, inside the range or not, leaves the page.
LEMMA DrawLabelKeeps ==
  ASSUME NEW c, Sound(c), Roomy(c), NEW layer \in Layers, NEW axis, RangeOK(axis), NEW layout,
         NEW tick, tick.v \in Int, tick.label \in DOMAIN c.text[layer],
         Suits(layout, layer, axis.position, c.text[layer][tick.label].width,
               c.text[layer][tick.label].height)
  PROVE  LET d == DrawLabel(c, layer, axis, layout, tick) IN Sound(d) /\ Roomy(d) /\ Keeps(c, d)
<1> DEFINE info == c.text[layer][tick.label]
<1>0. SizedLabel(layer, info) /\ RangeOK(axis)
  BY DEF Roomy
<1>s. Suits(layout, layer, axis.position, info.width, info.height)
  OBVIOUS
<1>1. CASE tick.v < axis.min \/ tick.v > axis.max
  BY <1>1, KeepsReflexive DEF DrawLabel
<1>2. CASE ~(tick.v < axis.min \/ tick.v > axis.max)
  <2>1. axis.min <= tick.v /\ tick.v <= axis.max
    BY <1>2 DEF RangeOK
  <2>2. CASE layer = "x"
    <3> DEFINE along == Along(tick.v, axis, layout.plotWidth)
               x == layout.left + along
               y == layout.labelsTop
    <3>1. DrawLabel(c, layer, axis, layout, tick) = AddText(c, layer, tick.label, x, y, "center", "top")
      BY <1>2, <2>2, Zenon DEF DrawLabel
    <3>2. along \in 0 .. layout.plotWidth
      <4>1. layout.plotWidth \in Nat
        BY <1>s, <2>2 DEF Suits
      <4> QED BY <2>1, <4>1, AlongIs DEF RangeOK
    <3> HIDE DEF along
    <3>3. Within(info, x - info.width \div 2, y - 0)
      BY <1>0, <1>s, <2>2, <3>2, WithinAcross, Zenon
    <3> HIDE DEF x, y
    <3> DEFINE left == x - info.width \div 2
               top == y - 0
    <3>4. DrawLabel(c, layer, axis, layout, tick) = AddTextAt(c, layer, tick.label, left, top)
      BY <3>1, CentredText, Zenon
    <3>5. Within(info, left, top)
      BY <3>3
    <3> HIDE DEF left, top
    <3> QED BY <3>4, <3>5, AddTextKeeps
  <2>3. CASE layer # "x"
    <3> DEFINE along == Along(tick.v, axis, layout.plotHeight)
               x == layout.labelsSide
               y == layout.top + layout.plotHeight - along
    <3>1. DrawLabel(c, layer, axis, layout, tick) =
            AddText(c, layer, tick.label, x, y,
                    IF axis.position = "left" THEN "right" ELSE "left", "middle")
      BY <1>2, <2>3, Zenon DEF DrawLabel
    <3>2. along \in 0 .. layout.plotHeight
      <4>1. layout.plotHeight \in Nat
        BY <1>s, <2>3 DEF Suits
      <4> QED BY <2>1, <4>1, AlongIs DEF RangeOK
    <3> HIDE DEF along
    <3>3. /\ axis.position = "left" => Within(info, x - info.width, y - info.height \div 2)
          /\ axis.position # "left" => Within(info, x - 0, y - info.height \div 2)
      BY <1>0, <1>s, <2>3, <3>2, WithinUp
    <3> HIDE DEF x, y
    <3> DEFINE top == y - info.height \div 2
    <3>4. CASE axis.position = "left"
      <4>1. DrawLabel(c, layer, axis, layout, tick) =
              AddText(c, layer, tick.label, x, y, "right", "middle")
        BY <3>1, <3>4, Zenon
      <4> DEFINE left == x - info.width
      <4>2. DrawLabel(c, layer, axis, layout, tick) = AddTextAt(c, layer, tick.label, left, top)
        BY <4>1, AlignedText, Zenon
      <4>3. Within(info, left, top)
        BY <3>3, <3>4, Zenon
      <4> HIDE DEF left, top
      <4> QED BY <4>2, <4>3, AddTextKeeps
    <3>5. CASE axis.position # "left"
      <4>1. DrawLabel(c, layer, axis, layout, tick) =
              AddText(c, layer, tick.label, x, y, "left", "middle")
        BY <3>1, <3>5, Zenon
      <4> DEFINE left == x - 0
      <4>2. DrawLabel(c, layer, axis, layout, tick) = AddTextAt(c, layer, tick.label, left, top)
        BY <4>1, AlignedText, Zenon
      <4>3. Within(info, left, top)
        BY <3>3, <3>5, Zenon
      <4> HIDE DEF left, top
      <4> QED BY <4>2, <4>3, AddTextKeeps
    <3> QED BY <3>4, <3>5
  <2> QED BY <2>2, <2>3
<1> QED BY <1>1, <1>2

\* A label rendered keeps its active positions, with their elements and places.
LEMMA RenderedIs ==
  ASSUME NEW info, IsInfo(info)
  PROVE  /\ IsInfo(Rendered(info)) /\ Rendered(info).element = info.element
         /\ SameSize(info, Rendered(info))
         /\ \A q \in Rendered(info).positions : \E p \in info.positions :
              /\ p.active /\ q.active /\ q.rendered
              /\ q = [active |-> p.active, rendered |-> TRUE, element |-> p.element, x |-> p.x, y |-> p.y]
         /\ \A p \in info.positions : p.active => \E q \in Rendered(info).positions : q.element = p.element
<1> DEFINE F(p) == [p EXCEPT !.rendered = TRUE]
           A == {q \in info.positions : q.active}
           P == {F(p) : p \in A}
<1>1. ASSUME NEW p \in info.positions
      PROVE  F(p) = [active |-> p.active, rendered |-> TRUE, element |-> p.element, x |-> p.x, y |-> p.y]
  <2>1. IsPosition(p)
    BY DEF IsInfo
  <2> QED BY <2>1, PositionExcept
<1>2. Rendered(info) = [width |-> info.width, height |-> info.height, element |-> info.element, positions |-> P]
  BY InfoExcept DEF Rendered
<1>3. \A q \in P : \E p \in info.positions : p.active /\ q = F(p)
  OBVIOUS
<1>4. \A p \in info.positions : p.active => F(p) \in P
  OBVIOUS
<1> HIDE DEF F, P
<1>5. Rendered(info).element = info.element /\ Rendered(info).positions = P
  BY <1>2
<1>6. \A p \in info.positions :
        IsPosition(F(p)) /\ F(p).active = p.active /\ F(p).rendered = TRUE /\ F(p).element = p.element
  BY <1>1 DEF IsPosition
<1>7. IsInfo(Rendered(info))
  BY <1>2, <1>3, <1>5, <1>6 DEF IsInfo
<1>8. SameSize(info, Rendered(info))
  BY <1>2 DEF SameSize
<1> QED BY <1>1, <1>3, <1>4, <1>5, <1>6, <1>7, <1>8

\* What is left of c in d: the active positions, and they are what the page holds.
Renders(c, d) ==
  /\ IsCanvas(d)
  /\ \A l \in Layers :
       /\ \A t : t \in DOMAIN d.text[l] <=>
                 t \in DOMAIN c.text[l] /\ \E p \in c.text[l][t].positions : p.active
       /\ \A t \in DOMAIN d.text[l] : d.text[l][t] = Rendered(c.text[l][t])
       /\ \A e : e \in d.dom[l] <=>
            \E t \in DOMAIN c.text[l] : \E p \in c.text[l][t].positions : p.active /\ e = p.element
       /\ d.dom[l] \subseteq DOMAIN d.css
       /\ \A t \in DOMAIN d.text[l] : d.text[l][t].element \in DOMAIN d.css
  /\ \A e \in DOMAIN d.css : e \in DOMAIN c.css /\ d.css[e] = c.css[e]

\* render does what Renders says.
LEMMA RenderIs ==
  ASSUME NEW c, Sound(c)
  PROVE  Renders(c, Render(c))
<1> DEFINE kept(layer) ==
             [label \in {t \in DOMAIN c.text[layer] : \E p \in c.text[layer][t].positions : p.active} |->
                Rendered(c.text[layer][label])]
           text == [layer \in Layers |-> kept(layer)]
           enter(layer) == {p \in Positions(c, layer) : p.active /\ ~p.rendered}
           leave(layer) == {p \in Positions(c, layer) : ~p.active /\ p.rendered}
           dom == [layer \in Layers |-> (c.dom[layer] \cup {p.element : p \in enter(layer)})
                                           \ {p.element : p \in leave(layer)}]
           held == UNION {dom[l] \cup {text[l][t].element : t \in DOMAIN text[l]} : l \in Layers}
           css == Restrict(c.css, held)
           d == Render(c)
<1>1. d = [text |-> text, dom |-> dom, css |-> css]
  BY DEF Render
<1>2. css = [e \in held |-> c.css[e]]
  BY DEF Restrict
<1>3. text = [l \in Layers |-> text[l]] /\ dom = [l \in Layers |-> dom[l]]
  OBVIOUS
<1>4. ASSUME NEW l \in Layers
      PROVE  /\ text[l] = [t \in DOMAIN text[l] |-> text[l][t]]
             /\ \A t : t \in DOMAIN text[l] <=>
                       t \in DOMAIN c.text[l] /\ \E p \in c.text[l][t].positions : p.active
             /\ \A t \in DOMAIN text[l] : text[l][t] = Rendered(c.text[l][t])
  <2>1. text[l] = [label \in {t \in DOMAIN c.text[l] : \E p \in c.text[l][t].positions : p.active} |->
                Rendered(c.text[l][label])]
    OBVIOUS
  <2> HIDE DEF text
  <2> QED BY <2>1
<1>5. \A l \in Layers : \A e : e \in dom[l] <=>
         \E t \in DOMAIN c.text[l] : \E p \in c.text[l][t].positions : p.active /\ e = p.element
  <2> SUFFICES ASSUME NEW l \in Layers, NEW e
               PROVE  e \in dom[l] <=> \E t \in DOMAIN c.text[l] : \E p \in c.text[l][t].positions :
                                          p.active /\ e = p.element
    OBVIOUS
  <2>1. e \in dom[l] <=> /\ e \in c.dom[l] \/ \E p \in enter(l) : e = p.element
                        /\ ~\E p \in leave(l) : e = p.element
    OBVIOUS
  <2>2. \A p : p \in Positions(c, l) <=> \E t \in DOMAIN c.text[l] : p \in c.text[l][t].positions
    BY DEF Positions
  <2>3. e \in c.dom[l] <=> \E p \in Positions(c, l) : p.rendered /\ e = p.element
    BY <2>2, PageFacts
  <2>4. ASSUME NEW p \in Positions(c, l), NEW q \in Positions(c, l), p.element = q.element
        PROVE  p = q
    <3>1. PICK t \in DOMAIN c.text[l] : p \in c.text[l][t].positions
      BY <2>2
    <3>2. PICK u \in DOMAIN c.text[l] : q \in c.text[l][u].positions
      BY <2>2
    <3>3. p.element \in Elements(c, l, t) /\ p.element \in Elements(c, l, u)
      BY <2>4, <3>1, <3>2, ElementsFacts
    <3>4. t = u
      BY <3>3 DEF Sound
    <3> QED BY <2>4, <3>1, <3>2, <3>4, ZenonT(40) DEF Sound
  <2>5. e \in dom[l] <=> \E p \in Positions(c, l) : p.active /\ e = p.element
    <3> HIDE DEF dom
    <3> QED BY <2>1, <2>3, <2>4
  <2> HIDE DEF dom
  <2> QED BY <2>2, <2>5
<1>6. held \subseteq DOMAIN c.css
  <2> SUFFICES ASSUME NEW e \in held PROVE e \in DOMAIN c.css
    OBVIOUS
  <2>1. PICK l \in Layers : e \in dom[l] \/ \E t \in DOMAIN text[l] : e = text[l][t].element
    OBVIOUS
  <2> HIDE DEF dom, text, held
  <2>2. CASE e \in dom[l]
    BY <1>5, <2>2, ElementsFacts DEF Sound
  <2>3. ASSUME NEW t \in DOMAIN text[l], e = text[l][t].element PROVE e \in DOMAIN c.css
    <3>1. t \in DOMAIN c.text[l] /\ text[l][t] = Rendered(c.text[l][t])
      BY <1>4
    <3>2. IsInfo(c.text[l][t])
      BY <3>1 DEF Sound, IsCanvas
    <3>3. e = c.text[l][t].element
      BY <2>3, <3>1, <3>2, RenderedIs
    <3> QED BY <3>1, <3>3, ElementsFacts DEF Sound
  <2> QED BY <2>1, <2>2, <2>3
<1> HIDE DEF text, dom, css, d
<1>7. \A l \in Layers : dom[l] \subseteq held /\ \A t \in DOMAIN text[l] : text[l][t].element \in held
  OBVIOUS
<1> HIDE DEF held
<1>8. d.text = text /\ d.dom = dom /\ d.css = css /\ d = [text |-> d.text, css |-> d.css, dom |-> d.dom]
  BY <1>1
<1>9. DOMAIN css = held /\ IsFiniteSet(held) /\ css = [e \in DOMAIN css |-> css[e]]
      /\ \A e \in held : css[e] = c.css[e]
  <2>1. IsFiniteSet(held)
    BY <1>6, FS_Subset DEF Sound, IsCanvas
  <2> QED BY <1>2, <2>1
<1>10. \A l \in Layers : \A t \in DOMAIN text[l] : IsInfo(text[l][t])
  <2> SUFFICES ASSUME NEW l \in Layers, NEW t \in DOMAIN text[l] PROVE IsInfo(text[l][t])
    OBVIOUS
  <2>1. t \in DOMAIN c.text[l] /\ text[l][t] = Rendered(c.text[l][t])
    BY <1>4
  <2>2. IsInfo(c.text[l][t])
    BY <2>1 DEF Sound, IsCanvas
  <2> QED BY <2>1, <2>2, RenderedIs
<1>11. IsCanvas(d)
  BY <1>3, <1>4, <1>8, <1>9, <1>10 DEF IsCanvas
<1>12. ASSUME NEW l \in Layers
       PROVE  /\ \A t : t \in DOMAIN d.text[l] <=>
                         t \in DOMAIN c.text[l] /\ \E p \in c.text[l][t].positions : p.active
              /\ \A t \in DOMAIN d.text[l] : d.text[l][t] = Rendered(c.text[l][t])
  BY <1>4, <1>8
<1>13. ASSUME NEW l \in Layers
       PROVE  /\ \A e : e \in d.dom[l] <=>
                    \E t \in DOMAIN c.text[l] : \E p \in c.text[l][t].positions : p.active /\ e = p.element
              /\ d.dom[l] \subseteq DOMAIN d.css
              /\ \A t \in DOMAIN d.text[l] : d.text[l][t].element \in DOMAIN d.css
  BY <1>5, <1>7, <1>8, <1>9
<1>14. \A e \in DOMAIN d.css : e \in DOMAIN c.css /\ d.css[e] = c.css[e]
  BY <1>6, <1>8, <1>9
<1> QED BY <1>11, <1>12, <1>13, <1>14 DEF Renders, d

\* A render moves no label, and leaves them their sizes.
LEMMA RenderIsRoomy ==
  ASSUME NEW c, Sound(c), Roomy(c)
  PROVE  Roomy(Render(c))
<1> DEFINE d == Render(c)
<1>1. Renders(c, d)
  BY RenderIs
<1> HIDE DEF d
<1>2. ASSUME NEW l \in Layers, NEW t \in DOMAIN d.text[l]
      PROVE  /\ SizedLabel(l, d.text[l][t])
             /\ \A q \in d.text[l][t].positions : q.active => Within(d.text[l][t], q.x, q.y)
  <2> DEFINE old == c.text[l][t]
             new == d.text[l][t]
  <2>1. t \in DOMAIN c.text[l] /\ new = Rendered(old)
    BY <1>1 DEF Renders
  <2>2. /\ IsInfo(old) /\ SizedLabel(l, old)
        /\ \A p \in old.positions : p.active => Within(old, p.x, p.y)
    BY <2>1 DEF Sound, IsCanvas, Roomy
  <2> HIDE DEF old, new
  <2>3. SameSize(old, new)
    BY <2>1, <2>2, RenderedIs
  <2>4. ASSUME NEW q \in new.positions PROVE Within(new, q.x, q.y)
    <3>1. PICK p \in old.positions : p.active /\
            q = [active |-> p.active, rendered |-> TRUE, element |-> p.element, x |-> p.x, y |-> p.y]
      BY <2>1, <2>2, RenderedIs
    <3>2. q.x = p.x /\ q.y = p.y
      BY <3>1
    <3>3. Within(old, p.x, p.y)
      BY <2>2, <3>1
    <3> QED BY <2>3, <3>2, <3>3, SizeDecides
  <2>5. SizedLabel(l, new)
    BY <2>2, <2>3, SizeDecides
  <2> QED BY <2>4, <2>5 DEF new
<1> QED BY <1>2 DEF Roomy, d

\* After a render the page shows the labels asked for.
LEMMA RenderShows ==
  ASSUME NEW c, Sound(c)
  PROVE  Sound(Render(c)) /\ Shown(Render(c)) = AskedFor(Render(c))
<1> DEFINE d == Render(c)
<1>1. Renders(c, d)
  BY RenderIs
<1> HIDE DEF d
<1>2. ASSUME NEW l \in Layers, NEW t \in DOMAIN d.text[l]
      PROVE  /\ t \in DOMAIN c.text[l]
             /\ d.text[l][t].element = c.text[l][t].element
             /\ \A q \in d.text[l][t].positions : \E p \in c.text[l][t].positions :
                  p.active /\ q.active /\ q.rendered /\ q =
                    [active |-> p.active, rendered |-> TRUE, element |-> p.element, x |-> p.x, y |-> p.y]
             /\ \A p \in c.text[l][t].positions : p.active =>
                  \E q \in d.text[l][t].positions : q.element = p.element
  <2>1. t \in DOMAIN c.text[l] /\ d.text[l][t] = Rendered(c.text[l][t])
    BY <1>1 DEF Renders
  <2>2. IsInfo(c.text[l][t])
    BY <2>1 DEF Sound, IsCanvas
  <2> QED BY <2>1, <2>2, RenderedIs
<1>3. ASSUME NEW l \in Layers, NEW t \in DOMAIN d.text[l], NEW q \in d.text[l][t].positions
      PROVE  \E p \in c.text[l][t].positions :
               /\ p.active /\ q.active /\ q.rendered
               /\ q.element = p.element /\ q.x = p.x /\ q.y = p.y
               /\ q = [active |-> p.active, rendered |-> TRUE, element |-> p.element, x |-> p.x, y |-> p.y]
  BY <1>2
<1>4. \A l \in Layers : \A e : e \in d.dom[l] <=>
         \E t \in DOMAIN d.text[l] : \E q \in d.text[l][t].positions : q.rendered /\ e = q.element
  <2> SUFFICES ASSUME NEW l \in Layers, NEW e
               PROVE  e \in d.dom[l] <=>
                        \E t \in DOMAIN d.text[l] : \E q \in d.text[l][t].positions : q.rendered /\ e = q.element
    OBVIOUS
  <2>1. ASSUME e \in d.dom[l]
        PROVE  \E t \in DOMAIN d.text[l] : \E q \in d.text[l][t].positions : q.rendered /\ e = q.element
    <3>0. PICK t \in DOMAIN c.text[l] : \E p \in c.text[l][t].positions : p.active /\ e = p.element
      BY <1>1, <2>1 DEF Renders
    <3>1. PICK p \in c.text[l][t].positions : p.active /\ e = p.element
      BY <3>0
    <3>2. t \in DOMAIN d.text[l]
      BY <1>1, <3>1 DEF Renders
    <3>3. PICK q \in d.text[l][t].positions : q.element = p.element
      BY <1>2, <3>1, <3>2
    <3>4. q.rendered
      BY <1>3, <3>2
    <3> QED BY <3>1, <3>2, <3>3, <3>4
  <2>2. ASSUME NEW t \in DOMAIN d.text[l], NEW q \in d.text[l][t].positions, e = q.element
        PROVE  e \in d.dom[l]
    <3>1. PICK p \in c.text[l][t].positions : p.active /\ q.element = p.element
      BY <1>3
    <3>2. t \in DOMAIN c.text[l]
      BY <1>2
    <3> QED BY <1>1, <2>2, <3>1, <3>2 DEF Renders
  <2> QED BY <2>1, <2>2
<1>5. \A l \in Layers : \A t \in DOMAIN d.text[l] :
        /\ Elements(d, l, t) \subseteq Elements(c, l, t)
        /\ Elements(d, l, t) \subseteq DOMAIN d.css
  <2> SUFFICES ASSUME NEW l \in Layers, NEW t \in DOMAIN d.text[l], NEW e \in Elements(d, l, t)
               PROVE  e \in Elements(c, l, t) /\ e \in DOMAIN d.css
    OBVIOUS
  <2>1. CASE e = d.text[l][t].element
    BY <1>1, <1>2, <2>1, ElementsFacts DEF Renders
  <2>2. ASSUME NEW q \in d.text[l][t].positions, e = q.element
        PROVE  e \in Elements(c, l, t) /\ e \in DOMAIN d.css
    <3>1. PICK p \in c.text[l][t].positions : q.rendered /\ q.element = p.element
      BY <1>3
    <3>2. e \in d.dom[l]
      BY <1>4, <2>2, <3>1
    <3>3. e \in Elements(c, l, t)
      BY <2>2, <3>1, ElementsFacts
    <3> QED BY <1>1, <3>2, <3>3 DEF Renders
  <2> QED BY <2>1, <2>2, ElementsFacts
<1>6. ASSUME NEW l \in Layers, NEW t \in DOMAIN d.text[l], NEW q \in d.text[l][t].positions
      PROVE  /\ d.css[q.element] = [label |-> t, left |-> Pixel(q.x), top |-> Pixel(q.y)]
             /\ \A r \in d.text[l][t].positions : q.element = r.element => q = r
  <2>1. PICK p \in c.text[l][t].positions :
          /\ p.active /\ q.element = p.element /\ q.x = p.x /\ q.y = p.y
          /\ q = [active |-> p.active, rendered |-> TRUE, element |-> p.element, x |-> p.x, y |-> p.y]
    BY <1>3
  <2>2. t \in DOMAIN c.text[l]
    BY <1>2
  <2>3. c.css[p.element] = [label |-> t, left |-> Pixel(p.x), top |-> Pixel(p.y)]
    BY <2>2 DEF Sound
  <2>4. q.element \in DOMAIN d.css
    BY <1>5, ElementsFacts
  <2>5. d.css[q.element] = [label |-> t, left |-> Pixel(q.x), top |-> Pixel(q.y)]
    BY <1>1, <2>1, <2>3, <2>4 DEF Renders
  <2>6. ASSUME NEW r \in d.text[l][t].positions, q.element = r.element PROVE q = r
    <3>1. PICK s \in c.text[l][t].positions :
            /\ r.element = s.element
            /\ r = [active |-> s.active, rendered |-> TRUE, element |-> s.element, x |-> s.x, y |-> s.y]
      BY <1>3
    <3>2. p = s
      BY <2>1, <2>2, <2>6, <3>1 DEF Sound
    <3> QED BY <2>1, <3>1, <3>2
  <2> QED BY <2>5, <2>6
<1>7. ASSUME NEW l \in Layers, NEW m \in Layers, NEW t \in DOMAIN d.text[l], NEW u \in DOMAIN d.text[m],
             NEW f \in Elements(d, l, t), f \in Elements(d, m, u)
      PROVE  l = m /\ t = u
  <2>1. t \in DOMAIN c.text[l] /\ u \in DOMAIN c.text[m]
    BY <1>2
  <2>2. f \in Elements(c, l, t) /\ f \in Elements(c, m, u)
    BY <1>5, <1>7
  <2> QED BY <2>1, <2>2 DEF Sound
<1>8. \A l \in Layers : d.dom[l] = {p.element : p \in {q \in Positions(d, l) : q.rendered}}
  BY <1>4, PageFrom
<1>9. Sound(d)
  <2>1. IsCanvas(d)
    BY <1>1 DEF Renders
  <2> QED BY <1>5, <1>6, <1>7, <1>8, <2>1 DEF Sound
<1>10. Shown(d) = AskedFor(d)
  <2> DEFINE Seen(l) == {[layer |-> l, label |-> d.css[e].label,
                          left |-> d.css[e].left, top |-> d.css[e].top] : e \in d.dom[l]}
             Of(l, t) == {[layer |-> l, label |-> t, left |-> Pixel(p.x), top |-> Pixel(p.y)] :
                            p \in {q \in d.text[l][t].positions : q.active}}
             Asked(l) == UNION {Of(l, t) : t \in DOMAIN d.text[l]}
  <2>1. ASSUME NEW l \in Layers PROVE Seen(l) = Asked(l)
    <3>1. ASSUME NEW t \in DOMAIN d.text[l], NEW q \in d.text[l][t].positions
          PROVE  /\ q.active /\ q.rendered
                 /\ [layer |-> l, label |-> d.css[q.element].label,
                     left |-> d.css[q.element].left, top |-> d.css[q.element].top]
                      = [layer |-> l, label |-> t, left |-> Pixel(q.x), top |-> Pixel(q.y)]
      <4>1. q.active /\ q.rendered
        BY <1>3
      <4>2. d.css[q.element] = [label |-> t, left |-> Pixel(q.x), top |-> Pixel(q.y)]
        BY <1>6
      <4>3. /\ d.css[q.element].label = t /\ d.css[q.element].left = Pixel(q.x)
            /\ d.css[q.element].top = Pixel(q.y)
        BY <4>2
      <4> QED BY <4>1, <4>3
    <3>2. Seen(l) \subseteq Asked(l)
      <4> SUFFICES ASSUME NEW e \in d.dom[l]
                   PROVE  [layer |-> l, label |-> d.css[e].label,
                           left |-> d.css[e].left, top |-> d.css[e].top] \in Asked(l)
        OBVIOUS
      <4>1. PICK t \in DOMAIN d.text[l] : \E q \in d.text[l][t].positions : e = q.element
        BY <1>4
      <4>2. PICK q \in d.text[l][t].positions : e = q.element
        BY <4>1
      <4>3. [layer |-> l, label |-> t, left |-> Pixel(q.x), top |-> Pixel(q.y)] \in Asked(l)
        <5>1. [layer |-> l, label |-> t, left |-> Pixel(q.x), top |-> Pixel(q.y)] \in Of(l, t)
          BY <3>1
        <5> HIDE DEF Of
        <5> QED BY <5>1
      <4> QED BY <3>1, <4>2, <4>3
    <3>3. Asked(l) \subseteq Seen(l)
      <4> SUFFICES ASSUME NEW a \in Asked(l) PROVE a \in Seen(l)
        OBVIOUS
      <4>1. PICK t \in DOMAIN d.text[l] : a \in Of(l, t)
        <5> HIDE DEF Of
        <5> QED OBVIOUS
      <4>2. PICK q \in d.text[l][t].positions :
              a = [layer |-> l, label |-> t, left |-> Pixel(q.x), top |-> Pixel(q.y)]
        BY <4>1
      <4>3. q.element \in d.dom[l]
        BY <1>4, <3>1
      <4>4. [layer |-> l, label |-> d.css[q.element].label,
             left |-> d.css[q.element].left, top |-> d.css[q.element].top] \in Seen(l)
        BY <4>3
      <4> QED BY <3>1, <4>4, <4>2
    <3> QED BY <3>2, <3>3
  <2> HIDE DEF Seen, Asked
  <2>2. UNION {Seen(l) : l \in Layers} = UNION {Asked(l) : l \in Layers}
    BY <2>1
  <2> QED BY <2>2 DEF Seen, Asked, Shown, AskedFor
<1> QED BY <1>9, <1>10 DEF d
-----------------------------------------------------------------------------
(* Loops over the ticks. *)

\* Induction up to a bound: the first-order form that the provers can use.
LEMMA BoundedInduction ==
  ASSUME NEW n \in Nat, NEW S, 0 \in S, \A i \in 0 .. n - 1 : i \in S => i + 1 \in S
  PROVE  0 .. n \subseteq S
<1> SUFFICES ASSUME NEW j \in 0 .. n, j \notin S PROVE FALSE
  OBVIOUS
<1> DEFINE T == {i \in 0 .. j : i \notin S}
           before == [i \in T |-> i - 1]
<1>1. IsFiniteSet(T) /\ IsFiniteSet(T \ {j}) /\ Cardinality(T \ {j}) < Cardinality(T)
  <2>1. IsFiniteSet(0 .. j)
    BY FS_Interval
  <2>2. IsFiniteSet(T) /\ j \in T
    BY <2>1, FS_Subset
  <2> HIDE DEF T
  <2>3. IsFiniteSet(T \ {j}) /\ Cardinality(T \ {j}) = Cardinality(T) - 1
    BY <2>2, FS_RemoveElement
  <2>4. Cardinality(T) \in Nat
    BY <2>2, FS_CardinalityType
  <2> QED BY <2>2, <2>3, <2>4
<1>2. before \in [T -> T \ {j}]
  <2> SUFFICES ASSUME NEW i \in T PROVE i - 1 \in T \ {j}
    OBVIOUS
  <2>1. i # 0 /\ i - 1 \in 0 .. n - 1 /\ i - 1 + 1 = i
    OBVIOUS
  <2> QED BY <2>1
<1>3. PICK x, y \in T : x # y /\ before[x] = before[y]
  <2> HIDE DEF T, before
  <2> QED BY <1>1, <1>2, FS_PigeonHole
<1> QED BY <1>3

\* A set of numbers up to a bound has a greatest one, which Max chooses.
LEMMA MaxIsGreatest ==
  ASSUME NEW n \in Nat, NEW T \in SUBSET (1 .. n), T # {}
  PROVE  Max(T) \in T /\ \A y \in T : Max(T) >= y
<1> DEFINE Has(U) == \E x \in U : \A y \in U : x >= y
           S == {j \in 0 .. n : \A U \in SUBSET (1 .. j) : U # {} => Has(U)}
<1>1. 0 \in S
  <2>1. \A U \in SUBSET (1 .. 0) : U # {} => Has(U)
    <3>1. \A U \in SUBSET (1 .. 0) : U = {}
      OBVIOUS
    <3> QED BY <3>1
  <2> HIDE DEF Has
  <2> QED BY <2>1
<1>2. \A i \in 0 .. n - 1 : i \in S => i + 1 \in S
  <2> SUFFICES ASSUME NEW i \in 0 .. n - 1, i \in S, NEW U \in SUBSET (1 .. i + 1), U # {}
               PROVE  Has(U)
    OBVIOUS
  <2>1. CASE i + 1 \in U
    BY <2>1
  <2>2. CASE i + 1 \notin U
    <3>1. U \in SUBSET (1 .. i)
      BY <2>2
    <3> QED BY <3>1
  <2> QED BY <2>1, <2>2
<1>3. n \in S
  <2> HIDE DEF S
  <2> QED BY <1>1, <1>2, BoundedInduction
<1> QED BY <1>3 DEF Max

\* A turn of a loop: over the ticks, of measureTickLabels or of drawAxisLabels, or over
\* the fields of a label, whose characters are counted.
Turn(k, c, tick) ==
  IF k.does = "measure" THEN GetTextInfo(c, k.layer, tick.label, k.maxWidth)
  ELSE IF k.does = "draw" THEN DrawLabel(c, k.layer, k.axis, k.layout, tick)
  ELSE c + CharactersOf(tick)

\* The fold over a set of positions, that of the community modules, as a function on
\* the sets: the last tick's turn comes last.
Turns(k, base, ticks, n, g) ==
  g = [s \in SUBSET (1 .. n) |->
         IF s = {} THEN base ELSE LET x == Max(s) IN Turn(k, g[s \ {x}], ticks[x])]

\* There is such a function, as each value depends on smaller sets only.
LEMMA TurnsExist ==
  ASSUME NEW k, NEW base, NEW ticks, NEW n \in Nat
  PROVE  \E g : Turns(k, base, ticks, n, g)
<1> DEFINE S == {j \in 0 .. n : \E g : Turns(k, base, ticks, j, g)}
<1>1. 0 \in S
  <2>1. Turns(k, base, ticks, 0, [s \in SUBSET (1 .. 0) |-> base])
    BY DEF Turns
  <2> QED BY <2>1
<1>2. \A i \in 0 .. n - 1 : i \in S => i + 1 \in S
  <2> SUFFICES ASSUME NEW i \in 0 .. n - 1, i \in S PROVE \E g : Turns(k, base, ticks, i + 1, g)
    OBVIOUS
  <2>1. PICK f : Turns(k, base, ticks, i, f)
    OBVIOUS
  <2> DEFINE g == [s \in SUBSET (1 .. i + 1) |->
                    IF s = {} THEN base ELSE Turn(k, f[s \ {Max(s)}], ticks[Max(s)])]
  <2>2. ASSUME NEW s \in SUBSET (1 .. i + 1), s # {}
        PROVE  f[s \ {Max(s)}] = g[s \ {Max(s)}]
    <3> DEFINE r == s \ {Max(s)}
    <3>0. i + 1 \in Nat
      OBVIOUS
    <3>1. PICK m \in s : Max(s) = m /\ \A y \in s : m >= y
      BY <2>2, <3>0, MaxIsGreatest
    <3>2. r \in SUBSET (1 .. i) /\ r \in SUBSET (1 .. i + 1)
      <4>1. ASSUME NEW y \in s, y # m PROVE y \in 1 .. i
        <5>1. y \in 1 .. i + 1 /\ m \in 1 .. i + 1 /\ m >= y
          BY <3>1
        <5> QED BY <4>1, <5>1
      <4> QED BY <3>1, <4>1
    <3> HIDE DEF r
    <3>3. f[r] = IF r = {} THEN base ELSE Turn(k, f[r \ {Max(r)}], ticks[Max(r)])
      BY <2>1, <3>2 DEF Turns
    <3>4. f[r] = g[r]
      BY <3>2, <3>3
    <3> QED BY <3>4 DEF r
  <2>3. Turns(k, base, ticks, i + 1, g)
    <3>1. \A s \in SUBSET (1 .. i + 1) : s # {} =>
             Turn(k, f[s \ {Max(s)}], ticks[Max(s)]) = Turn(k, g[s \ {Max(s)}], ticks[Max(s)])
      <4> SUFFICES ASSUME NEW s \in SUBSET (1 .. i + 1), s # {}
                   PROVE  Turn(k, f[s \ {Max(s)}], ticks[Max(s)]) = Turn(k, g[s \ {Max(s)}], ticks[Max(s)])
        OBVIOUS
      <4>1. f[s \ {Max(s)}] = g[s \ {Max(s)}]
        BY <2>2
      <4> QED BY <4>1
    <3>2. g = [s \in SUBSET (1 .. i + 1) |->
                IF s = {} THEN base ELSE Turn(k, g[s \ {Max(s)}], ticks[Max(s)])]
      BY <3>1
    <3> HIDE DEF g
    <3> QED BY <3>2 DEF Turns
  <2> QED BY <2>3
<1>3. n \in S
  <2> HIDE DEF S
  <2> QED BY <1>1, <1>2, BoundedInduction
<1> QED BY <1>3

\* The states of the text after each turn.
Chain(k, base, ticks, n, h) ==
  h[0] = base /\ \A i \in 1 .. n : h[i] = Turn(k, h[i - 1], ticks[i])

\* Over the first ticks, one more at a time, it makes the turns in order.
LEMMA TurnsChain ==
  ASSUME NEW k, NEW base, NEW ticks, NEW n \in Nat, NEW g, Turns(k, base, ticks, n, g)
  PROVE  \E h : Chain(k, base, ticks, n, h) /\ h[n] = g[1 .. n]
<1> DEFINE h == [i \in 0 .. n |-> g[1 .. i]]
<1>1. h[0] = base
  <2>1. g[{}] = base
    BY DEF Turns
  <2> QED BY <2>1
<1>2. ASSUME NEW i \in 1 .. n PROVE h[i] = Turn(k, h[i - 1], ticks[i])
  <2>1. Max(1 .. i) = i
    <3>1. (1 .. i) \in SUBSET (1 .. i) /\ 1 .. i # {} /\ i \in Nat
      OBVIOUS
    <3>2. Max(1 .. i) \in 1 .. i /\ \A y \in 1 .. i : Max(1 .. i) >= y
      BY <3>1, MaxIsGreatest
    <3> QED BY <3>2
  <2>2. g[1 .. i] = Turn(k, g[(1 .. i) \ {i}], ticks[i])
    <3>1. (1 .. i) \in SUBSET (1 .. n) /\ 1 .. i # {}
      OBVIOUS
    <3>2. g[1 .. i] = Turn(k, g[(1 .. i) \ {Max(1 .. i)}], ticks[Max(1 .. i)])
      BY <3>1 DEF Turns
    <3> QED BY <2>1, <3>2
  <2>3. (1 .. i) \ {i} = 1 .. i - 1
    OBVIOUS
  <2>4. h[i] = g[1 .. i] /\ h[i - 1] = g[1 .. i - 1]
    OBVIOUS
  <2> QED BY <2>2, <2>3, <2>4
<1>3. h[n] = g[1 .. n]
  OBVIOUS
<1> HIDE DEF h
<1> QED BY <1>1, <1>2, <1>3 DEF Chain

\* The width that a label may take before it wraps.
WidthFor(layer, ticks) ==
  IF layer = "x" THEN (Width \div Max({1, Len(ticks)})) * Px ELSE 100 * Width

\* measureTickLabels is such a loop.
LEMMA MeasureChain ==
  ASSUME NEW base, NEW layer, NEW ticks, NEW n \in Nat, DOMAIN ticks = 1 .. n
  PROVE  \E h :
           /\ Chain([does |-> "measure", layer |-> layer, maxWidth |-> WidthFor(layer, ticks)],
                    base, ticks, n, h)
           /\ h[n] = MeasureTickLabels(base, layer, ticks)
<1> DEFINE w == WidthFor(layer, ticks)
<1> HIDE DEF w
<1> DEFINE k == [does |-> "measure", layer |-> layer, maxWidth |-> w]
           G == CHOOSE g : g = [s \in SUBSET (1 .. n) |-> IF s = {} THEN base
                     ELSE LET x == Max(s) IN GetTextInfo(g[s \ {x}], layer, ticks[x].label, w)]
<1>1. FoldLeft(LAMBDA c, tick : GetTextInfo(c, layer, tick.label, w), base, ticks) = G[1 .. n]
  BY DEF FoldLeft, MapThenFoldSet
<1>2. MeasureTickLabels(base, layer, ticks) = G[1 .. n]
  BY <1>1 DEF MeasureTickLabels, WidthFor, w
<1>3. \A c, tick : Turn(k, c, tick) = GetTextInfo(c, layer, tick.label, w)
  BY DEF Turn
<1>4. \A g : Turns(k, base, ticks, n, g) <=>
               g = [s \in SUBSET (1 .. n) |-> IF s = {} THEN base
                     ELSE LET x == Max(s) IN GetTextInfo(g[s \ {x}], layer, ticks[x].label, w)]
  <2> HIDE DEF k
  <2> QED BY <1>3, ZenonT(40) DEF Turns
<1>5. \E g : g = [s \in SUBSET (1 .. n) |-> IF s = {} THEN base
                     ELSE LET x == Max(s) IN GetTextInfo(g[s \ {x}], layer, ticks[x].label, w)]
  BY <1>4, TurnsExist
<1>6. Turns(k, base, ticks, n, G)
  BY <1>4, <1>5
<1> HIDE DEF k, G
<1>7. \E h : Chain(k, base, ticks, n, h) /\ h[n] = G[1 .. n]
  BY <1>6, TurnsChain
<1> QED BY <1>2, <1>7 DEF k, w

\* drawAxisLabels is such a loop, after removeText.
LEMMA DrawChain ==
  ASSUME NEW text, NEW layer, NEW axis, NEW layout, NEW n \in Nat, DOMAIN axis.ticks = 1 .. n
  PROVE  \E h :
           /\ Chain([does |-> "draw", layer |-> layer, axis |-> axis, layout |-> layout],
                    RemoveText(text, layer), axis.ticks, n, h)
           /\ h[n] = DrawAxisLabels(text, layer, axis, layout)
<1> DEFINE k == [does |-> "draw", layer |-> layer, axis |-> axis, layout |-> layout]
           base == RemoveText(text, layer)
           ticks == axis.ticks
<1> HIDE DEF base
<1> DEFINE
           G == CHOOSE g : g = [s \in SUBSET (1 .. n) |-> IF s = {} THEN base
                     ELSE LET x == Max(s) IN DrawLabel(g[s \ {x}], layer, axis, layout, ticks[x])]
<1>1. FoldLeft(LAMBDA c, tick : DrawLabel(c, layer, axis, layout, tick), base, ticks) = G[1 .. n]
  BY DEF FoldLeft, MapThenFoldSet
<1>2. DrawAxisLabels(text, layer, axis, layout) = G[1 .. n]
  BY <1>1 DEF DrawAxisLabels, base
<1>3. \A c, tick : Turn(k, c, tick) = DrawLabel(c, layer, axis, layout, tick)
  BY DEF Turn
<1>4. \A g : Turns(k, base, ticks, n, g) <=>
               g = [s \in SUBSET (1 .. n) |-> IF s = {} THEN base
                     ELSE LET x == Max(s) IN DrawLabel(g[s \ {x}], layer, axis, layout, ticks[x])]
  <2> HIDE DEF k
  <2> QED BY <1>3 DEF Turns
<1>5. \E g : g = [s \in SUBSET (1 .. n) |-> IF s = {} THEN base
                     ELSE LET x == Max(s) IN DrawLabel(g[s \ {x}], layer, axis, layout, ticks[x])]
  BY <1>4, TurnsExist
<1>6. Turns(k, base, ticks, n, G)
  BY <1>4, <1>5
<1> HIDE DEF k, G
<1>7. \E h : Chain(k, base, ticks, n, h) /\ h[n] = G[1 .. n]
  BY <1>6, TurnsChain
<1> QED BY <1>2, <1>7 DEF k, base

\* The count of the characters of a label is such a loop.
LEMMA CountChain ==
  ASSUME NEW label, NEW n \in Nat, DOMAIN label = 1 .. n
  PROVE  \E h : /\ h[0] = 0 /\ \A i \in 1 .. n : h[i] = h[i - 1] + CharactersOf(label[i])
                /\ TextWidth(label) = 6 * Px * h[n]
<1> DEFINE k == [does |-> "count"]
           G == CHOOSE g : g = [s \in SUBSET (1 .. n) |-> IF s = {} THEN 0
                     ELSE LET x == Max(s) IN g[s \ {x}] + CharactersOf(label[x])]
<1>1. FoldLeft(LAMBDA c, field : c + CharactersOf(field), 0, label) = G[1 .. n]
  BY DEF FoldLeft, MapThenFoldSet
<1>2. TextWidth(label) = 6 * Px * G[1 .. n]
  BY <1>1 DEF TextWidth
<1>3. \A c, field : Turn(k, c, field) = c + CharactersOf(field)
  BY DEF Turn
<1>4. \A g : Turns(k, 0, label, n, g) <=>
               g = [s \in SUBSET (1 .. n) |-> IF s = {} THEN 0
                     ELSE LET x == Max(s) IN g[s \ {x}] + CharactersOf(label[x])]
  <2> HIDE DEF k
  <2> QED BY <1>3 DEF Turns
<1>5. \E g : g = [s \in SUBSET (1 .. n) |-> IF s = {} THEN 0
                     ELSE LET x == Max(s) IN g[s \ {x}] + CharactersOf(label[x])]
  BY <1>4, TurnsExist
<1>6. Turns(k, 0, label, n, G)
  BY <1>4, <1>5
<1> HIDE DEF k, G
<1>7. PICK h : Chain(k, 0, label, n, h) /\ h[n] = G[1 .. n]
  BY <1>6, TurnsChain
<1>8. h[0] = 0 /\ \A i \in 1 .. n : h[i] = h[i - 1] + CharactersOf(label[i])
  BY <1>3, <1>7 DEF Chain
<1> QED BY <1>2, <1>7, <1>8
-----------------------------------------------------------------------------
(* The sizes of the labels. *)

\* A label as wide as four fields at most.
ShortLabel(label) == TextWidth(label) \in 0 .. 1440 /\ TextWidth(label) % 2 = 0

\* A label of few fields is short.
LEMMA FieldsAreShort ==
  ASSUME NEW label, NEW n \in 1 .. 4, DOMAIN label = 1 .. n
  PROVE  ShortLabel(label)
<1>1. PICK h : /\ h[0] = 0 /\ \A i \in 1 .. n : h[i] = h[i - 1] + CharactersOf(label[i])
               /\ TextWidth(label) = 6 * Px * h[n]
  BY CountChain
<1>2. \A i : CharactersOf(label[i]) \in 0 .. 6
  BY DEF CharactersOf
<1> DEFINE S == {j \in 0 .. n : h[j] \in 0 .. 6 * j}
<1>3. 0 \in S
  BY <1>1
<1>4. \A j \in 0 .. n - 1 : j \in S => j + 1 \in S
  <2> SUFFICES ASSUME NEW j \in 0 .. n - 1, h[j] \in 0 .. 6 * j PROVE h[j + 1] \in 0 .. 6 * (j + 1)
    OBVIOUS
  <2>1. j + 1 \in 1 .. n /\ j + 1 - 1 = j
    OBVIOUS
  <2> DEFINE x == h[j]
             y == CharactersOf(label[j + 1])
             z == h[j + 1]
  <2>2. z = x + y
    BY <1>1, <2>1
  <2>3. x \in 0 .. 6 * j /\ y \in 0 .. 6
    BY <1>2
  <2> HIDE DEF x, y, z
  <2>4. z \in 0 .. 6 * (j + 1)
    BY <2>2, <2>3
  <2> QED BY <2>4 DEF z
<1>5. n \in S
  <2> HIDE DEF S
  <2>1. n \in Nat
    OBVIOUS
  <2>2. 0 .. n \subseteq S
    BY <1>3, <1>4, <2>1, BoundedInduction
  <2> QED BY <2>1, <2>2
<1> DEFINE x == h[n]
<1>6. x \in 0 .. 6 * n
  BY <1>5
<1>7. TextWidth(label) = 6 * Px * x
  BY <1>1
<1> HIDE DEF x
<1>8. x \in 0 .. 24 /\ 6 * Px * x = 2 * (30 * x)
  BY <1>6 DEF Px
<1> DEFINE y == 30 * x
<1>9. y \in 0 .. 720 /\ TextWidth(label) = 2 * y
  BY <1>7, <1>8
<1> HIDE DEF y
<1> DEFINE w == TextWidth(label)
<1>10. w = 2 * y
  BY <1>9
<1> HIDE DEF w
<1>11. w % 2 = 0 /\ w \in 0 .. 1440
  BY <1>9, <1>10
<1> QED BY <1>11 DEF ShortLabel, w

\* A number takes six characters.
LEMMA NumberWidth ==
  ASSUME NEW v
  PROVE  TextWidth(<<<<"number", v>>>>) = 360
<1> DEFINE label == <<<<"number", v>>>>
<1>1. DOMAIN label = 1 .. 1 /\ label[1][1] = "number" /\ 1 \in Nat /\ 1 \in 1 .. 1
  OBVIOUS
<1> HIDE DEF label
<1>2. PICK h : /\ h[0] = 0 /\ \A i \in 1 .. 1 : h[i] = h[i - 1] + CharactersOf(label[i])
               /\ TextWidth(label) = 6 * Px * h[1]
  BY <1>1, CountChain
<1>3. CharactersOf(label[1]) = 6
  BY <1>1, Zenon DEF CharactersOf
<1>4. h[1] = h[1 - 1] + CharactersOf(label[1]) /\ 1 - 1 = 0
  BY <1>1, <1>2
<1>5. h[1] = 6
  BY <1>2, <1>3, <1>4
<1>6. TextWidth(label) = 360
  BY <1>2, <1>5 DEF Px
<1> QED BY <1>6 DEF label

\* A label that needs nine lines at most gets a size for its layer.
LEMMA MeasuredFits ==
  ASSUME NEW label, ShortLabel(label), NEW maxWidth \in Nat \ {0}, maxWidth % 2 = 0,
         TextWidth(label) <= 9 * maxWidth, NEW layer, layer = "x" \/ TextWidth(label) <= maxWidth
  PROVE  SizedLabel(layer, Measured(label, maxWidth))
<1> DEFINE w == TextWidth(label)
           q == (-w) \div maxWidth
           lines == -q
           size == Measured(label, maxWidth)
<1>1. w \in 0 .. 1440 /\ w % 2 = 0 /\ w <= 9 * maxWidth /\ (layer = "x" \/ w <= maxWidth)
  BY DEF ShortLabel
<1>2. size = IF lines <= 1 THEN [width |-> w, height |-> LineHeight]
                           ELSE [width |-> maxWidth, height |-> lines * LineHeight]
  BY DEF Measured
<1> HIDE DEF w, size
<1>3. q \in Int /\ maxWidth * q <= -w /\ -w < maxWidth * q + maxWidth
  BY <1>1
<1> HIDE DEF q
<1>4. lines <= 9
  <2> SUFFICES ASSUME q <= -10 PROVE FALSE
    BY <1>3
  <2>1. maxWidth * q <= maxWidth * (-10)
    BY <1>3
  <2> QED BY <1>1, <1>3, <2>1
<1>5. LineHeight = 160
  BY DEF LineHeight, Px
<1>6. CASE lines <= 1
  <2>1. size.width = w /\ size.height = 160
    BY <1>2, <1>5, <1>6
  <2> QED BY <1>1, <2>1 DEF SizedLabel, size
<1>7. CASE ~(lines <= 1)
  <2>1. size.width = maxWidth /\ size.height = lines * 160
    BY <1>2, <1>5, <1>7
  <2>2. q <= -2
    BY <1>3, <1>7
  <2>3. maxWidth < w
    <3>1. maxWidth * q <= maxWidth * (-2)
      BY <1>3, <2>2
    <3> QED BY <1>1, <1>3, <3>1
  <2>4. layer = "x"
    BY <1>1, <2>3
  <2>5. maxWidth \in 0 .. 1440 /\ lines * 160 \in 0 .. 1440
    BY <1>1, <1>3, <1>4, <1>7, <2>3
  <2> QED BY <2>1, <2>4, <2>5 DEF SizedLabel, size
<1> QED BY <1>6, <1>7

\* Ticks with the room that their labels need on their axis.
AxisSuits(layer, a) ==
  /\ \E n \in Nat : DOMAIN a.ticks = 1 .. n
  /\ RangeOK(a)
  /\ \A i \in DOMAIN a.ticks :
       /\ a.ticks[i].v \in Int
       /\ SizedLabel(layer, Measured(a.ticks[i].label, WidthFor(layer, a.ticks)))
-----------------------------------------------------------------------------
(* Sets of numbers. *)

\* A bounded set of integers has a least and a greatest element.
LEMMA BoundedExtremes ==
  ASSUME NEW b \in Nat, NEW values, values # {}, \A v \in values : v \in Int /\ -b <= v /\ v <= b
  PROVE  /\ Min(values) \in values /\ \A v \in values : Min(values) <= v
         /\ Max(values) \in values /\ \A v \in values : v <= Max(values)
<1> DEFINE up == {v + b + 1 : v \in values}
           down == {b + 1 - v : v \in values}
           n == 2 * b + 1
<1>1. n \in Nat /\ up \in SUBSET (1 .. n) /\ down \in SUBSET (1 .. n) /\ up # {} /\ down # {}
  OBVIOUS
<1>2. PICK m \in up : \A y \in up : m >= y
  <2> HIDE DEF up, down, n
  <2> QED BY <1>1, MaxIsGreatest
<1>3. PICK k \in down : \A y \in down : k >= y
  <2> HIDE DEF up, down, n
  <2> QED BY <1>1, MaxIsGreatest
<1>4. \E x \in values : \A v \in values : x >= v
  <2>1. PICK x \in values : m = x + b + 1
    OBVIOUS
  <2>2. ASSUME NEW v \in values PROVE x >= v
    <3>1. v + b + 1 \in up
      OBVIOUS
    <3>2. m >= v + b + 1
      BY <1>2, <3>1
    <3> QED BY <2>1, <3>2
  <2> QED BY <2>2
<1>5. \E x \in values : \A v \in values : x =< v
  <2>1. PICK x \in values : k = b + 1 - x
    OBVIOUS
  <2>2. ASSUME NEW v \in values PROVE x =< v
    <3>1. b + 1 - v \in down
      OBVIOUS
    <3>2. k >= b + 1 - v
      BY <1>3, <3>1
    <3> QED BY <2>1, <3>2
  <2> QED BY <2>2
<1>6. Max(values) \in values /\ \A v \in values : Max(values) >= v
  BY <1>4 DEF Max
<1>7. Min(values) \in values /\ \A v \in values : Min(values) =< v
  BY <1>5 DEF Min
<1> QED BY <1>6, <1>7

\* The smaller and the greater of two numbers.
LEMMA SmallExtremes ==
  ASSUME NEW x \in Int, NEW y \in Int
  PROVE  /\ Max({x, y}) \in {x, y} /\ Max({x, y}) >= x /\ Max({x, y}) >= y
         /\ Min({x, y}) \in {x, y} /\ Min({x, y}) <= x /\ Min({x, y}) <= y
<1>1. \E z \in {x, y} : \A v \in {x, y} : z >= v
  OBVIOUS
<1>2. \E z \in {x, y} : \A v \in {x, y} : z =< v
  OBVIOUS
<1>3. Max({x, y}) \in {x, y} /\ \A v \in {x, y} : Max({x, y}) >= v
  BY <1>1 DEF Max
<1>4. Min({x, y}) \in {x, y} /\ \A v \in {x, y} : Min({x, y}) =< v
  BY <1>2 DEF Min
<1> QED BY <1>3, <1>4
-----------------------------------------------------------------------------
(* The room that the layout leaves. *)

\* The size of the largest label of an axis, which may have none.
LargeSize(layer, size) ==
  /\ size.width \in 0 .. 1440 /\ size.width % 2 = 0
  /\ IF layer = "x" THEN size.height \in 0 .. 1440 ELSE size.height \in {0, 160}

Sizes == 0 .. 1440

\* The largest of a set of sizes.
LEMMA GreatestSize ==
  ASSUME NEW sizes, 0 \in sizes, \A v \in sizes : v \in Sizes
  PROVE  Max(sizes) \in sizes /\ \A v \in sizes : v <= Max(sizes)
<1> DEFINE b == 1440
<1>1. ASSUME NEW v \in sizes PROVE v \in Int /\ -b <= v /\ v <= b
  <2>1. v \in Sizes
    OBVIOUS
  <2> QED BY <2>1 DEF Sizes
<1>2. b \in Nat /\ sizes # {}
  OBVIOUS
<1> HIDE DEF b
<1> QED BY <1>1, <1>2, BoundedExtremes

\* Largest is as large as each of the labels, and has such a size.
LEMMA LargestIs ==
  ASSUME NEW c, Roomy(c), NEW layer \in Layers, NEW ticks, NEW n \in Nat, DOMAIN ticks = 1 .. n,
         \A i \in 1 .. n : ticks[i].label \in DOMAIN c.text[layer]
  PROVE  LET size == Largest(c, layer, ticks)
         IN  /\ LargeSize(layer, size)
             /\ \A i \in 1 .. n : LET info == c.text[layer][ticks[i].label]
                                  IN  info.width <= size.width /\ info.height <= size.height
<1> DEFINE widths == {0} \cup {c.text[layer][tick.label].width : tick \in ToSet(ticks)}
           heights == {0} \cup {c.text[layer][tick.label].height : tick \in ToSet(ticks)}
           size == Largest(c, layer, ticks)
<1>1. size.width = Max(widths) /\ size.height = Max(heights)
  BY DEF Largest
<1>2. ToSet(ticks) = {ticks[i] : i \in 1 .. n}
  BY DEF ToSet
<1>3. \A i \in 1 .. n : SizedLabel(layer, c.text[layer][ticks[i].label])
  BY DEF Roomy
<1>4. \A i \in 1 .. n : /\ c.text[layer][ticks[i].label].width \in widths
                        /\ c.text[layer][ticks[i].label].height \in heights
  BY <1>2
<1>5. /\ \A v \in widths : v = 0 \/ \E i \in 1 .. n : v = c.text[layer][ticks[i].label].width
      /\ \A v \in heights : v = 0 \/ \E i \in 1 .. n : v = c.text[layer][ticks[i].label].height
  BY <1>2
<1>6. 0 \in widths /\ 0 \in heights
  OBVIOUS
<1> HIDE DEF widths, heights, size
<1>7. ASSUME NEW v \in widths PROVE v \in Sizes /\ v % 2 = 0
  <2>1. CASE v = 0
    BY <2>1 DEF Sizes
  <2>2. ASSUME NEW i \in 1 .. n, v = c.text[layer][ticks[i].label].width
        PROVE  v \in Sizes /\ v % 2 = 0
    <3> DEFINE info == c.text[layer][ticks[i].label]
    <3>1. SizedLabel(layer, info) /\ v = info.width
      BY <1>3, <2>2
    <3> HIDE DEF info
    <3> QED BY <3>1 DEF SizedLabel, Sizes
  <2> QED BY <1>5, <2>1, <2>2
<1>10. ASSUME NEW v \in heights
       PROVE  v \in Sizes /\ (layer # "x" => v \in {0, 160})
  <2>1. CASE v = 0
    BY <2>1 DEF Sizes
  <2>2. ASSUME NEW i \in 1 .. n, v = c.text[layer][ticks[i].label].height
        PROVE  v \in Sizes /\ (layer # "x" => v \in {0, 160})
    <3> DEFINE info == c.text[layer][ticks[i].label]
    <3>1. SizedLabel(layer, info) /\ v = info.height
      BY <1>3, <2>2
    <3> HIDE DEF info
    <3> QED BY <3>1 DEF SizedLabel, Sizes
  <2> QED BY <1>5, <2>1, <2>2
<1>8. /\ Max(widths) \in widths /\ \A v \in widths : v <= Max(widths)
      /\ Max(heights) \in heights /\ \A v \in heights : v <= Max(heights)
  <2>1. \A v \in widths : v \in Sizes
    BY <1>7, Zenon
  <2>2. \A v \in heights : v \in Sizes
    BY <1>10, Zenon
  <2> QED BY <1>6, <2>1, <2>2, GreatestSize, Zenon
<1>9. LargeSize(layer, size)
  <2>1. size.width \in Sizes /\ size.width % 2 = 0
    BY <1>1, <1>7, <1>8
  <2>2. size.height \in Sizes /\ (layer # "x" => size.height \in {0, 160})
    BY <1>1, <1>8, <1>10
  <2> QED BY <2>1, <2>2 DEF LargeSize, Sizes
<1> QED BY <1>1, <1>4, <1>8, <1>9 DEF size

\* A layout that suits a label suits the smaller ones.
LEMMA SmallerSuits ==
  ASSUME NEW layout, NEW layer, NEW position, NEW large, Suits(layout, layer, position, large.width, large.height),
         large.width \in Int, large.height \in Int,
         NEW info, info.width \in Int, info.height \in Int,
         info.width <= large.width, info.height <= large.height
  PROVE  Suits(layout, layer, position, info.width, info.height)
<1> DEFINE W == Width * Px
           H == Height * Px
<1>1. W \in Int /\ H \in Int
  BY PlotAssumption DEF Px
<1> HIDE DEF W, H
<1>2. CASE layer = "x"
  BY <1>1, <1>2 DEF Suits, W, H
<1>3. CASE layer # "x"
  BY <1>1, <1>3 DEF Suits, W, H
<1> QED BY <1>2, <1>3

\* Whole pixels that a length fits into.
LEMMA CeilingIs ==
  ASSUME NEW half \in 0 .. 720
  PROVE  Ceiling(half) \in Int /\ half <= Ceiling(half) /\ Ceiling(half) <= 720
BY DEF Ceiling, Px

\* On a canvas of that size the boxes of the axes leave a plot, and the labels that
\* stick out of it have room (jquery.flot.js:1461-1492).
LEMMA LayoutIs ==
  ASSUME NEW x, NEW y, NEW position, LargeSize("x", x), LargeSize("y", y)
  PROVE  LET layout == Layout(x, y, position)
         IN  /\ Suits(layout, "x", position, x.width, x.height)
             /\ Suits(layout, "y", position, y.width, y.height)
<1> DEFINE W == Width * Px
           H == Height * Px
           side == BorderWidth + LabelMargin + y.width
           bottom == BorderWidth + LabelMargin + x.height
           marginX == Max({MinMargin, Ceiling(x.width \div 2)})
           marginY == Max({MinMargin, Ceiling(y.height \div 2)})
           leftBox == IF position = "left" THEN side ELSE BorderWidth
           rightBox == IF position = "right" THEN side ELSE BorderWidth
           left == Max({marginX, leftBox})
           right == Max({marginX, rightBox})
           top == Max({marginY, BorderWidth})
           below == Max({marginY, bottom})
           layout == Layout(x, y, position)
<1>1. /\ layout.left = left /\ layout.top = top /\ layout.plotWidth = W - left - right
      /\ layout.plotHeight = H - top - below
      /\ layout.labelsTop = H - bottom + LabelMargin
      /\ layout.labelsSide = IF position = "left" THEN BorderWidth + y.width ELSE W - side + LabelMargin
  BY Zenon DEF Layout
<1>2. BorderWidth = 20 /\ LabelMargin = 50 /\ MinMargin = 80
  BY DEF BorderWidth, LabelMargin, MinMargin, Px
<1>3. W \in Int /\ W >= 2400 /\ H \in Int /\ H >= 2000
  BY PlotAssumption, RoomAssumption DEF Px
<1>4. /\ x.width \in 0 .. 1440 /\ x.width % 2 = 0 /\ x.height \in 0 .. 1440
      /\ y.width \in 0 .. 1440 /\ y.height \in {0, 160}
  BY DEF LargeSize
<1>5. marginX \in 80 .. 720 /\ x.width <= 2 * marginX
  <2> DEFINE half == x.width \div 2
             up == Ceiling(half)
  <2>1. half \in 0 .. 720 /\ x.width = 2 * half
    <3> DEFINE w == x.width
    <3>1. w \in 0 .. 1440 /\ w % 2 = 0
      BY <1>4
    <3> HIDE DEF w
    <3>2. w \div 2 \in 0 .. 720 /\ w = 2 * (w \div 2)
      BY <3>1
    <3> QED BY <3>2 DEF w
  <2> HIDE DEF half
  <2>2. up \in Int /\ half <= up /\ up <= 720
    BY <2>1, CeilingIs
  <2> HIDE DEF up
  <2>3. Max({80, up}) \in {80, up} /\ Max({80, up}) >= 80 /\ Max({80, up}) >= up
    BY <2>2, SmallExtremes
  <2>4. marginX = Max({80, up})
    BY <1>2, Zenon DEF up, half
  <2> HIDE DEF marginX
  <2> QED BY <2>1, <2>2, <2>3, <2>4
<1>6. marginY = 80
  <2> DEFINE half == y.height \div 2
             up == Ceiling(half)
  <2>1. half \in {0, 80}
    <3> DEFINE h == y.height
    <3>1. h = 0 \/ h = 160
      BY <1>4
    <3> HIDE DEF h
    <3>2. h \div 2 = 0 \/ h \div 2 = 80
      BY <3>1
    <3> QED BY <3>2 DEF h
  <2> HIDE DEF half
  <2>2. up \in {0, 80}
    BY <2>1 DEF Ceiling, Px
  <2> HIDE DEF up
  <2>3. Max({80, up}) \in {80, up} /\ Max({80, up}) >= 80
    BY <2>2, SmallExtremes
  <2>4. marginY = Max({80, up})
    BY <1>2, Zenon DEF up, half
  <2> HIDE DEF marginY
  <2> QED BY <2>2, <2>3, <2>4
<1> DEFINE xw == x.width
           xh == x.height
           yw == y.width
<1>7. side = 70 + yw /\ bottom = 70 + xh
  BY <1>2, <1>4
<1>8. xw \in 0 .. 1440 /\ xh \in 0 .. 1440 /\ yw \in 0 .. 1440 /\ xw <= 2 * marginX
  BY <1>4, <1>5
<1> HIDE DEF xw, xh, yw, side, bottom, marginX, marginY, W, H, layout
<1>9. /\ leftBox \in Int /\ leftBox <= 1510 /\ rightBox \in Int /\ rightBox <= 1510
      /\ leftBox = 20 \/ rightBox = 20
  BY <1>2, <1>7, <1>8
<1> HIDE DEF leftBox, rightBox
<1>10. /\ left = marginX \/ left = leftBox
       /\ right = marginX \/ right = rightBox
       /\ left >= marginX /\ right >= marginX
  <2>1. marginX \in Int /\ leftBox \in Int /\ rightBox \in Int
    BY <1>5, <1>9
  <2>2. Max({marginX, leftBox}) \in {marginX, leftBox} /\ Max({marginX, leftBox}) >= marginX
    BY <2>1, SmallExtremes
  <2>3. Max({marginX, rightBox}) \in {marginX, rightBox} /\ Max({marginX, rightBox}) >= marginX
    BY <2>1, SmallExtremes
  <2> QED BY <2>2, <2>3
<1>11. top = 80
  <2>1. Max({80, 20}) \in {80, 20} /\ Max({80, 20}) >= 80
    BY SmallExtremes
  <2>2. top = Max({80, 20})
    BY <1>2, <1>6, Zenon
  <2> HIDE DEF top
  <2> QED BY <2>1, <2>2
<1>12. below \in Int /\ below <= 1510 /\ below >= 80
  <2>1. Max({80, bottom}) \in {80, bottom} /\ Max({80, bottom}) >= 80
    <3>1. bottom \in Int /\ 80 \in Int
      BY <1>7, <1>8
    <3> QED BY <3>1, SmallExtremes
  <2> HIDE DEF below
  <2> QED BY <1>6, <1>7, <1>8, <2>1 DEF below
<1> HIDE DEF left, right, top, below
<1>13. /\ left \in Nat /\ right \in Nat /\ left + right <= 2230
       /\ xw <= 2 * left /\ xw <= 2 * right
  <2>1. marginX \in 80 .. 720
    BY <1>5
  <2>2. left \in Nat /\ right \in Nat /\ left <= 1510 /\ right <= 1510
    BY <1>9, <1>10, <2>1
  <2>3. left <= 720 \/ right <= 720
    BY <1>9, <1>10, <2>1
  <2>4. xw \in Int /\ xw <= 2 * marginX
    BY <1>8
  <2> QED BY <1>10, <2>1, <2>2, <2>3, <2>4
<1>14. /\ layout.left \in Nat /\ layout.plotWidth \in Nat /\ xw <= 2 * layout.left
       /\ 2 * (layout.left + layout.plotWidth) + xw <= 2 * W
  <2> DEFINE rest == layout.plotWidth
  <2>1. rest = W - left - right /\ layout.left = left
    BY <1>1
  <2> HIDE DEF rest
  <2>2. rest \in Nat /\ 2 * (left + rest) + xw <= 2 * W
    BY <1>3, <1>8, <1>13, <2>1
  <2> QED BY <1>13, <2>1, <2>2 DEF rest
<1>15. layout.labelsTop \in Nat /\ layout.labelsTop + xh <= H
  BY <1>1, <1>2, <1>3, <1>7, <1>8
<1>16. /\ layout.top \in Nat /\ layout.plotHeight \in Nat /\ 80 <= layout.top
       /\ layout.top + layout.plotHeight + 80 <= H
  <2> DEFINE rest == layout.plotHeight
  <2>1. rest = H - top - below /\ layout.top = top
    BY <1>1
  <2> HIDE DEF rest
  <2>2. rest \in Nat /\ top + rest + 80 <= H
    BY <1>3, <1>11, <1>12, <2>1
  <2> QED BY <1>11, <2>1, <2>2 DEF rest
<1>17. /\ layout.labelsSide \in Nat
       /\ IF position = "left" THEN yw <= layout.labelsSide /\ layout.labelsSide <= W
          ELSE layout.labelsSide + yw <= W
  <2>1. layout.labelsSide = IF position = "left" THEN 20 + yw ELSE W - side + 50
    BY <1>1, <1>2 DEF yw
  <2> QED BY <1>3, <1>7, <1>8, <2>1
<1>18. Suits(layout, "x", position, xw, xh)
  BY <1>14, <1>15, Zenon DEF Suits, W, H
<1>19. Suits(layout, "y", position, yw, y.height)
  <2>1. "y" # "x"
    OBVIOUS
  <2> QED BY <1>16, <1>17, <2>1, Zenon DEF Suits, W, H
<1> QED BY <1>18, <1>19, Zenon DEF layout, xw, xh, yw
-----------------------------------------------------------------------------
(* setupGrid. *)

\* measureTickLabels leaves the page, and every tick has its label in the cache.
LEMMA MeasureKeeps ==
  ASSUME NEW c, Sound(c), Roomy(c), NEW layer \in Layers, NEW ticks, NEW n \in Nat, DOMAIN ticks = 1 .. n,
         \A i \in 1 .. n : SizedLabel(layer, Measured(ticks[i].label, WidthFor(layer, ticks)))
  PROVE  LET d == MeasureTickLabels(c, layer, ticks)
         IN  /\ Sound(d) /\ Roomy(d) /\ Keeps(c, d)
             /\ \A i \in 1 .. n : ticks[i].label \in DOMAIN d.text[layer]
<1> DEFINE maxWidth == WidthFor(layer, ticks)
<1> HIDE DEF maxWidth
<1> DEFINE k == [does |-> "measure", layer |-> layer, maxWidth |-> maxWidth]
<1>2. PICK h : Chain(k, c, ticks, n, h) /\ h[n] = MeasureTickLabels(c, layer, ticks)
  BY MeasureChain DEF maxWidth
<1>3. \A b, tick : Turn(k, b, tick) = GetTextInfo(b, layer, tick.label, maxWidth)
  BY DEF Turn
<1>8. \A i \in 1 .. n : SizedLabel(layer, Measured(ticks[i].label, maxWidth))
  BY DEF maxWidth
<1> HIDE DEF k
<1> DEFINE Good(j) == /\ Sound(h[j]) /\ Roomy(h[j]) /\ Keeps(c, h[j])
                      /\ \A i \in 1 .. j : ticks[i].label \in DOMAIN h[j].text[layer]
           S == {j \in 0 .. n : Good(j)}
<1>4. 0 \in S
  <2>1. h[0] = c
    BY <1>2 DEF Chain
  <2> QED BY <2>1, KeepsReflexive
<1>5. \A j \in 0 .. n - 1 : j \in S => j + 1 \in S
  <2> HIDE DEF Good
  <2> SUFFICES ASSUME NEW j \in 0 .. n - 1, Good(j) PROVE Good(j + 1)
    OBVIOUS
  <2> USE DEF Good
  <2>1. h[j + 1] = GetTextInfo(h[j], layer, ticks[j + 1].label, maxWidth)
    <3>1. j + 1 \in 1 .. n /\ j + 1 - 1 = j
      OBVIOUS
    <3> QED BY <1>2, <1>3, <3>1 DEF Chain
  <2>5. SizedLabel(layer, Measured(ticks[j + 1].label, maxWidth))
    <3>1. j + 1 \in 1 .. n
      OBVIOUS
    <3> QED BY <1>8, <3>1
  <2>2. /\ Sound(h[j + 1]) /\ Roomy(h[j + 1]) /\ Keeps(h[j], h[j + 1])
        /\ ticks[j + 1].label \in DOMAIN h[j + 1].text[layer]
    BY <2>1, <2>5, GetTextInfoKeeps
  <2>3. Keeps(c, h[j + 1])
    BY <2>2, KeepsTransitive
  <2>4. ASSUME NEW i \in 1 .. j + 1 PROVE ticks[i].label \in DOMAIN h[j + 1].text[layer]
    <3>1. CASE i = j + 1
      BY <2>2, <3>1
    <3>2. CASE i # j + 1
      <4>1. i \in 1 .. j
        BY <3>2
      <4>2. ticks[i].label \in DOMAIN h[j].text[layer]
        BY <4>1
      <4> QED BY <2>2, <4>2 DEF Keeps
    <3> QED BY <3>1, <3>2
  <2> QED BY <2>2, <2>3, <2>4
<1>6. n \in S
  <2> HIDE DEF S
  <2>1. 0 .. n \subseteq S
    BY <1>4, <1>5, BoundedInduction
  <2> QED BY <2>1
<1>7. Good(n)
  BY <1>6
<1> QED BY <1>2, <1>7

\* drawAxisLabels leaves the page, of labels that have been measured.
LEMMA DrawAxisLabelsKeeps ==
  ASSUME NEW c, Sound(c), Roomy(c), NEW layer \in Layers, NEW axis, RangeOK(axis), NEW layout,
         NEW n \in Nat, DOMAIN axis.ticks = 1 .. n,
         \A i \in 1 .. n : axis.ticks[i].v \in Int /\ axis.ticks[i].label \in DOMAIN c.text[layer],
         \A i \in 1 .. n : LET info == c.text[layer][axis.ticks[i].label]
                           IN  Suits(layout, layer, axis.position, info.width, info.height)
  PROVE  LET d == DrawAxisLabels(c, layer, axis, layout) IN Sound(d) /\ Roomy(d) /\ Keeps(c, d)
<1> DEFINE k == [does |-> "draw", layer |-> layer, axis |-> axis, layout |-> layout]
           ticks == axis.ticks
<1>1. PICK h : Chain(k, RemoveText(c, layer), ticks, n, h) /\ h[n] = DrawAxisLabels(c, layer, axis, layout)
  BY DrawChain
<1>2. \A b, tick : Turn(k, b, tick) = DrawLabel(b, layer, axis, layout, tick)
  BY DEF Turn
<1> HIDE DEF k
<1> DEFINE Good(j) == Sound(h[j]) /\ Roomy(h[j]) /\ Keeps(c, h[j])
           S == {j \in 0 .. n : Good(j)}
<1>3. 0 \in S
  <2>1. h[0] = RemoveText(c, layer)
    BY <1>1 DEF Chain
  <2> QED BY <2>1, RemoveTextKeeps
<1>4. \A j \in 0 .. n - 1 : j \in S => j + 1 \in S
  <2> SUFFICES ASSUME NEW j \in 0 .. n - 1, Good(j) PROVE Good(j + 1)
    OBVIOUS
  <2>1. j + 1 \in 1 .. n /\ j + 1 - 1 = j
    OBVIOUS
  <2>2. h[j + 1] = DrawLabel(h[j], layer, axis, layout, ticks[j + 1])
    BY <1>1, <1>2, <2>1 DEF Chain
  <2> DEFINE label == ticks[j + 1].label
             old == c.text[layer][label]
             new == h[j].text[layer][label]
  <2>3. label \in DOMAIN h[j].text[layer] /\ ticks[j + 1].v \in Int
    BY <2>1 DEF Keeps
  <2>5. Suits(layout, layer, axis.position, new.width, new.height)
    <3>1. SameSize(old, new)
      BY <2>1 DEF Keeps
    <3>2. Suits(layout, layer, axis.position, old.width, old.height)
      BY <2>1
    <3> QED BY <3>1, <3>2, Zenon DEF SameSize
  <2>4. Sound(h[j + 1]) /\ Roomy(h[j + 1]) /\ Keeps(h[j], h[j + 1])
    BY <2>2, <2>3, <2>5, DrawLabelKeeps
  <2> QED BY <2>4, KeepsTransitive
<1>5. n \in S
  <2> HIDE DEF S
  <2>1. 0 .. n \subseteq S
    BY <1>3, <1>4, BoundedInduction
  <2> QED BY <2>1
<1> QED BY <1>1, <1>5

\* Sizes are numbers.
LEMMA NumericSize ==
  ASSUME NEW layer, NEW size, SizedLabel(layer, size) \/ LargeSize(layer, size)
  PROVE  size.width \in Int /\ size.height \in Int
<1> DEFINE w == size.width
           h == size.height
<1>1. w \in 0 .. 1440 /\ (h \in 0 .. 1440 \/ h \in {0, 160})
  BY DEF SizedLabel, LargeSize
<1> HIDE DEF w, h
<1>2. w \in Int /\ h \in Int
  BY <1>1
<1> QED BY <1>2 DEF w, h

\* What suits the largest label of an axis suits them all.
LEMMA AllSuit ==
  ASSUME NEW c, Roomy(c), NEW layer \in Layers, NEW ticks, NEW n \in Nat, DOMAIN ticks = 1 .. n,
         \A i \in 1 .. n : ticks[i].label \in DOMAIN c.text[layer], NEW layout, NEW position,
         LET size == Largest(c, layer, ticks)
         IN  Suits(layout, layer, position, size.width, size.height)
  PROVE  \A i \in 1 .. n : LET info == c.text[layer][ticks[i].label]
                           IN  Suits(layout, layer, position, info.width, info.height)
<1> SUFFICES ASSUME NEW i \in 1 .. n
             PROVE  LET info == c.text[layer][ticks[i].label]
                    IN  Suits(layout, layer, position, info.width, info.height)
  OBVIOUS
<1> DEFINE size == Largest(c, layer, ticks)
           info == c.text[layer][ticks[i].label]
<1>1. LargeSize(layer, size) /\ info.width <= size.width /\ info.height <= size.height
  BY LargestIs
<1>2. SizedLabel(layer, info)
  BY DEF Roomy
<1>3. Suits(layout, layer, position, size.width, size.height)
  OBVIOUS
<1> HIDE DEF size, info
<1>4. /\ size.width \in Int /\ size.height \in Int
      /\ info.width \in Int /\ info.height \in Int
  BY <1>1, <1>2, NumericSize
<1>5. Suits(layout, layer, position, info.width, info.height)
  BY <1>1, <1>3, <1>4, SmallerSuits
<1> QED BY <1>5 DEF info

\* Axes whose labels have room.
HasTicks(made) == AxisSuits("x", made.x) /\ AxisSuits("y", made.y)

\* setupGrid leaves the page as it is; that is for the next draw.
LEMMA GridTextKeeps ==
  ASSUME NEW c, Sound(c), Roomy(c), NEW made, HasTicks(made)
  PROVE  Sound(GridText(c, made)) /\ Roomy(GridText(c, made)) /\ Keeps(c, GridText(c, made))
<1>1. PICK nx \in Nat : DOMAIN made.x.ticks = 1 .. nx
  BY DEF HasTicks, AxisSuits
<1>2. PICK ny \in Nat : DOMAIN made.y.ticks = 1 .. ny
  BY DEF HasTicks, AxisSuits
<1> DEFINE mx == MeasureTickLabels(c, "x", made.x.ticks)
           measured == MeasureTickLabels(mx, "y", made.y.ticks)
           largeX == Largest(measured, "x", made.x.ticks)
           largeY == Largest(measured, "y", made.y.ticks)
           layout == Layout(largeX, largeY, made.y.position)
           drawnX == DrawAxisLabels(measured, "x", made.x, layout)
           drawn == DrawAxisLabels(drawnX, "y", made.y, layout)
<1>3. GridText(c, made) = drawn
  BY DEF GridText
<1>4. "x" \in Layers /\ "y" \in Layers
  BY DEF Layers
<1>r. RangeOK(made.x) /\ RangeOK(made.y)
  BY DEF HasTicks, AxisSuits
<1>x. \A i \in 1 .. nx : /\ made.x.ticks[i].v \in Int
                         /\ SizedLabel("x", Measured(made.x.ticks[i].label, WidthFor("x", made.x.ticks)))
  BY <1>1 DEF HasTicks, AxisSuits
<1>y. \A i \in 1 .. ny : /\ made.y.ticks[i].v \in Int
                         /\ SizedLabel("y", Measured(made.y.ticks[i].label, WidthFor("y", made.y.ticks)))
  BY <1>2 DEF HasTicks, AxisSuits
<1> HIDE DEF layout
<1>5. /\ Sound(mx) /\ Roomy(mx) /\ Keeps(c, mx)
      /\ \A i \in 1 .. nx : made.x.ticks[i].label \in DOMAIN mx.text["x"]
  BY <1>1, <1>4, <1>x, MeasureKeeps
<1> HIDE DEF mx
<1>6. /\ Sound(measured) /\ Roomy(measured) /\ Keeps(mx, measured)
      /\ \A i \in 1 .. ny : made.y.ticks[i].label \in DOMAIN measured.text["y"]
  BY <1>2, <1>4, <1>5, <1>y, MeasureKeeps
<1> HIDE DEF measured
<1>7. \A i \in 1 .. nx : made.x.ticks[i].label \in DOMAIN measured.text["x"]
  BY <1>4, <1>5, <1>6 DEF Keeps
<1>12. LargeSize("x", largeX) /\ LargeSize("y", largeY)
  BY <1>1, <1>2, <1>4, <1>6, <1>7, LargestIs
<1>13. /\ Suits(layout, "x", made.x.position, largeX.width, largeX.height)
       /\ Suits(layout, "y", made.y.position, largeY.width, largeY.height)
  <2> HIDE DEF largeX, largeY
  <2>1. /\ Suits(layout, "x", made.y.position, largeX.width, largeX.height)
        /\ Suits(layout, "y", made.y.position, largeY.width, largeY.height)
    BY <1>12, LayoutIs DEF layout
  <2>2. Suits(layout, "x", made.x.position, largeX.width, largeX.height)
    BY <2>1 DEF Suits
  <2> QED BY <2>1, <2>2
<1>14. \A i \in 1 .. nx : LET info == measured.text["x"][made.x.ticks[i].label]
                          IN  Suits(layout, "x", made.x.position, info.width, info.height)
  BY <1>1, <1>4, <1>6, <1>7, <1>13, AllSuit
<1>15. \A i \in 1 .. ny : LET info == measured.text["y"][made.y.ticks[i].label]
                          IN  Suits(layout, "y", made.y.position, info.width, info.height)
  BY <1>2, <1>4, <1>6, <1>13, AllSuit
<1>8. Sound(drawnX) /\ Roomy(drawnX) /\ Keeps(measured, drawnX)
  BY <1>1, <1>4, <1>6, <1>7, <1>14, <1>r, <1>x, DrawAxisLabelsKeeps
<1> HIDE DEF drawnX
<1>9. ASSUME NEW i \in 1 .. ny
      PROVE  LET info == drawnX.text["y"][made.y.ticks[i].label]
             IN  /\ made.y.ticks[i].label \in DOMAIN drawnX.text["y"]
                 /\ Suits(layout, "y", made.y.position, info.width, info.height)
  <2> DEFINE label == made.y.ticks[i].label
             old == measured.text["y"][label]
             new == drawnX.text["y"][label]
  <2>1. label \in DOMAIN drawnX.text["y"] /\ SameSize(old, new)
    BY <1>4, <1>6, <1>8 DEF Keeps
  <2>2. Suits(layout, "y", made.y.position, old.width, old.height)
    BY <1>15
  <2> QED BY <2>1, <2>2, Zenon DEF SameSize
<1>10. Sound(drawn) /\ Roomy(drawn) /\ Keeps(drawnX, drawn)
  BY <1>2, <1>4, <1>8, <1>9, <1>r, <1>y, DrawAxisLabelsKeeps
<1> HIDE DEF drawn
<1>11. Keeps(c, drawn)
  BY <1>5, <1>6, <1>8, <1>10, KeepsTransitive
<1> QED BY <1>3, <1>10, <1>11

\* A canvas without text.
LEMMA NewCanvasIsSound == Sound(NewCanvas) /\ Roomy(NewCanvas)
<1> DEFINE c == NewCanvas
<1>1. c = [text |-> [l \in Layers |-> <<>>], css |-> <<>>, dom |-> [l \in Layers |-> {}]]
  BY DEF NewCanvas
<1>2. /\ c = [text |-> c.text, css |-> c.css, dom |-> c.dom] /\ c.css = <<>>
      /\ c.text = [l \in Layers |-> <<>>] /\ c.dom = [l \in Layers |-> {}]
  BY <1>1
<1> HIDE DEF c
<1>3. \A l \in Layers : DOMAIN c.text[l] = {} /\ c.text[l] = <<>> /\ c.dom[l] = {}
  BY <1>2
<1>4. DOMAIN c.css = {} /\ IsFiniteSet(DOMAIN c.css)
  BY <1>2, FS_EmptySet
<1>5. <<>> = [t \in {} |-> <<>>[t]]
  OBVIOUS
<1>6. IsCanvas(c)
  BY <1>2, <1>3, <1>4, <1>5 DEF IsCanvas
<1>7. \A l \in Layers : Positions(c, l) = {}
  BY <1>3 DEF Positions
<1>8. Sound(c)
  BY <1>3, <1>6, <1>7 DEF Sound
<1>9. Roomy(c)
  BY <1>3 DEF Roomy
<1> QED BY <1>8, <1>9 DEF c
-----------------------------------------------------------------------------
(* The data of the series. *)

Points == [x : Int, y : Int \cup {Null}]

\* The numbers of a series lie within a bound.
LEMMA SeriesAreBounded ==
  ASSUME NEW data \in Seq(Points)
  PROVE  \E b \in Nat : \A p \in ToSet(data) :
           /\ p.x \in Int /\ -b <= p.x /\ p.x <= b
           /\ p.y # Null => p.y \in Int /\ -b <= p.y /\ p.y <= b
<1> DEFINE n == Len(data)
           Bound(b, p) == /\ p.x \in Int /\ -b <= p.x /\ p.x <= b
                          /\ p.y # Null => p.y \in Int /\ -b <= p.y /\ p.y <= b
           S == {j \in 0 .. n : \E b \in Nat : \A i \in 1 .. j : Bound(b, data[i])}
<1>1. n \in Nat /\ \A i \in 1 .. n : data[i] \in Points
  OBVIOUS
<1>2. 0 \in S
  <2>1. 0 \in Nat /\ \A i \in 1 .. 0 : FALSE
    OBVIOUS
  <2> HIDE DEF Bound
  <2> QED BY <1>1, <2>1
<1>3. \A j \in 0 .. n - 1 : j \in S => j + 1 \in S
  <2> HIDE DEF Bound
  <2> SUFFICES ASSUME NEW j \in 0 .. n - 1, j \in S
               PROVE  j + 1 \in S
    OBVIOUS
  <2>1. PICK b \in Nat : \A i \in 1 .. j : Bound(b, data[i])
    OBVIOUS
  <2> USE DEF Bound
  <2>2. j + 1 \in 1 .. n /\ data[j + 1] \in Points
    BY <1>1
  <2>3. \E a \in Nat : Bound(a, data[j + 1])
    <3> DEFINE p == data[j + 1]
    <3>1. p.x \in Int /\ (p.y # Null => p.y \in Int)
      BY <2>2 DEF Points
    <3> HIDE DEF p
    <3>2. PICK a1 \in Nat : -a1 <= p.x /\ p.x <= a1
      <4>1. CASE p.x >= 0
        BY <3>1, <4>1
      <4>2. CASE p.x < 0
        <5>1. -p.x \in Nat /\ -(-p.x) <= p.x /\ p.x <= -p.x
          BY <3>1, <4>2
        <5> QED BY <5>1
      <4> QED BY <3>1, <4>1, <4>2
    <3>3. CASE p.y = Null
      BY <3>1, <3>2, <3>3 DEF p
    <3>4. CASE p.y # Null
      <4>1. PICK a2 \in Nat : -a2 <= p.y /\ p.y <= a2
        <5>1. CASE p.y >= 0
          BY <3>1, <3>4, <5>1
        <5>2. CASE p.y < 0
          <6>1. -p.y \in Nat /\ -(-p.y) <= p.y /\ p.y <= -p.y
            BY <3>1, <3>4, <5>2
          <6> QED BY <6>1
        <5> QED BY <3>1, <3>4, <5>1, <5>2
      <4>2. a1 + a2 \in Nat /\ Bound(a1 + a2, p)
        BY <3>1, <3>2, <3>4, <4>1
      <4> QED BY <4>2 DEF p
    <3> QED BY <3>3, <3>4
  <2>4. PICK a \in Nat : Bound(a, data[j + 1])
    BY <2>3
  <2>5. a + b \in Nat
    OBVIOUS
  <2>6. ASSUME NEW i \in 1 .. j + 1 PROVE Bound(a + b, data[i])
    <3>1. CASE i = j + 1
      BY <2>4, <3>1
    <3>2. CASE i # j + 1
      <4>1. i \in 1 .. j
        BY <3>2
      <4>2. Bound(b, data[i])
        BY <2>1, <4>1
      <4> QED BY <4>2
    <3> QED BY <3>1, <3>2
  <2>7. j + 1 \in 0 .. n
    BY <1>1
  <2> HIDE DEF Bound, n
  <2> QED BY <2>5, <2>6, <2>7
<1>4. 0 .. n \subseteq S
  <2> HIDE DEF S
  <2> QED BY <1>1, <1>2, <1>3, BoundedInduction
<1>5. PICK b \in Nat : \A i \in 1 .. n : Bound(b, data[i])
  <2>1. n \in S
    <3> HIDE DEF S, n
    <3> QED BY <1>1, <1>4
  <2> HIDE DEF Bound
  <2> QED BY <2>1
<1>6. \A p \in ToSet(data) : \E i \in 1 .. n : p = data[i]
  BY <1>1 DEF ToSet
<1>7. \A p \in ToSet(data) : Bound(b, p)
  <2> HIDE DEF Bound, n
  <2> QED BY <1>5, <1>6
<1> HIDE DEF S, n
<1> QED BY <1>7
-----------------------------------------------------------------------------
(* Extents, ranges and tick sizes. *)

IsSeries(s) == s.bars \in BOOLEAN /\ s.data \in Seq(Points)

Extents == [min : Int, max : Int]
IsExtent(e) == e = Null \/ (e \in Extents /\ e.min <= e.max)

\* The extent of bounded numbers is Null or goes from the least to the greatest.
LEMMA ExtentOfBounded ==
  ASSUME NEW b \in Nat, NEW values, \A v \in values : v \in Int /\ -b <= v /\ v <= b
  PROVE  IsExtent(Extent(values))
<1>1. CASE values = {}
  BY <1>1 DEF Extent, IsExtent
<1>2. CASE values # {}
  <2>1. /\ Min(values) \in values /\ \A v \in values : Min(values) <= v
        /\ Max(values) \in values /\ \A v \in values : v <= Max(values)
    BY <1>2, BoundedExtremes
  <2>2. Min(values) \in Int /\ Max(values) \in Int /\ Min(values) <= Max(values)
    BY <2>1
  <2>3. Extent(values) = [min |-> Min(values), max |-> Max(values)]
    BY <1>2 DEF Extent
  <2> HIDE DEF Min, Max
  <2> QED BY <2>2, <2>3 DEF IsExtent, Extents
<1> QED BY <1>1, <1>2

\* The extents of a series, with the room that bars take and with zero.
LEMMA ExtentsAre ==
  ASSUME NEW s, IsSeries(s)
  PROVE  IsExtent(XExtent(s)) /\ IsExtent(YExtent(s))
<1>1. PICK b \in Nat : \A p \in ToSet(s.data) :
        /\ p.x \in Int /\ -b <= p.x /\ p.x <= b
        /\ p.y # Null => p.y \in Int /\ -b <= p.y /\ p.y <= b
  BY SeriesAreBounded DEF IsSeries
<1>2. \A p \in Kept(s) : p \in ToSet(s.data) /\ p.y # Null
  BY DEF Kept
<1>3. IsExtent(XExtent(s))
  <2> DEFINE sides == IF s.bars THEN {-(One \div 2), One \div 2} ELSE {0}
             values == {p.x + side : p \in Kept(s), side \in sides} \cup {p.x : p \in ToSet(s.data) \ Kept(s)}
  <2>1. \A side \in sides : side \in Int /\ -1000 <= side /\ side <= 1000
    BY DEF One
  <2>2. \A v \in values : v \in Int /\ -(b + 1000) <= v /\ v <= b + 1000
    <3> SUFFICES ASSUME NEW v \in values PROVE v \in Int /\ -(b + 1000) <= v /\ v <= b + 1000
      OBVIOUS
    <3>1. CASE \E p \in Kept(s), side \in sides : v = p.x + side
      <4> HIDE DEF sides
      <4>1. PICK p \in Kept(s), side \in sides : v = p.x + side
        BY <3>1
      <4> QED BY <1>1, <1>2, <2>1, <4>1
    <3>2. CASE \E p \in ToSet(s.data) : v = p.x
      BY <1>1, <3>2
    <3> QED BY <3>1, <3>2
  <2>3. XExtent(s) = Extent(values)
    BY DEF XExtent
  <2>4. b + 1000 \in Nat
    OBVIOUS
  <2> HIDE DEF values
  <2> QED BY <2>2, <2>3, <2>4, ExtentOfBounded
<1>4. IsExtent(YExtent(s))
  <2> DEFINE values == {p.y : p \in Kept(s)} \cup {0 : p \in ToSet(s.data)}
  <2>1. \A v \in values : v \in Int /\ -b <= v /\ v <= b
    BY <1>1, <1>2
  <2>2. YExtent(s) = Extent(values)
    BY DEF YExtent
  <2> HIDE DEF values
  <2> QED BY <2>1, <2>2, ExtentOfBounded
<1> QED BY <1>3, <1>4

\* The sides of an extent are values of the data.
LEMMA ExtentHas ==
  ASSUME NEW b \in Nat, NEW values, \A v \in values : v \in Int /\ -b <= v /\ v <= b,
         Extent(values) # Null
  PROVE  /\ values # {} /\ Extent(values).min \in values /\ Extent(values).max \in values
         /\ \A v \in values : Extent(values).min <= v /\ v <= Extent(values).max
<1>1. values # {}
  BY DEF Extent
<1>2. /\ Min(values) \in values /\ \A v \in values : Min(values) <= v
      /\ Max(values) \in values /\ \A v \in values : v <= Max(values)
  BY <1>1, BoundedExtremes
<1>3. Extent(values) = [min |-> Min(values), max |-> Max(values)]
  BY <1>1 DEF Extent
<1>4. Extent(values).min = Min(values) /\ Extent(values).max = Max(values)
  BY <1>3
<1> HIDE DEF Min, Max
<1> QED BY <1>1, <1>2, <1>4

\* The scale of the values, in whole numbers.
Million == 1000 * 1000

LEMMA ScaleIs == One = 1000 /\ One \div 10 = 100 /\ 100000 * One = 100 * Million /\ Million \in Nat
  BY SMT DEF One, Million

\* The values reach from zero or below to zero or above, by nothing or within the scale.
LEMMA YExtentFits ==
  ASSUME NEW s \in FirstSeries \cup LaterSeries, YExtent(s) # Null
  PROVE  /\ YExtent(s).min \in Int /\ YExtent(s).max \in Int
         /\ \/ YExtent(s).min = 0 /\ YExtent(s).max = 0
            \/ /\ 100 <= YExtent(s).max - YExtent(s).min
               /\ YExtent(s).max - YExtent(s).min <= 200 * Million
<1> DEFINE values == {p.y : p \in Kept(s)} \cup {0 : p \in ToSet(s.data)}
<1>1. s.data \in Seq(Points)
  BY SeriesAssumption DEF Points
<1>2. PICK b \in Nat : \A p \in ToSet(s.data) :
        /\ p.x \in Int /\ -b <= p.x /\ p.x <= b
        /\ p.y # Null => p.y \in Int /\ -b <= p.y /\ p.y <= b
  BY <1>1, SeriesAreBounded
<1>3. \A p \in Kept(s) : p \in ToSet(s.data) /\ p.y # Null
  BY DEF Kept
<1>4. \A v \in values : v \in Int /\ -b <= v /\ v <= b
  BY <1>2, <1>3
<1>5. YExtent(s) = Extent(values)
  BY DEF YExtent
<1>6. \A v \in values : v = 0 \/ (100 <= v /\ v <= 100 * Million) \/ (100 <= -v /\ -v <= 100 * Million)
  <2> DEFINE least == One \div 10
             most == 100000 * One
  <2>0. \A p \in ToSet(s.data) : p.y \in {Null, 0} \/ p.y \in least .. most \/ -p.y \in least .. most
    BY ScaleAssumption, SMT
  <2>1. least = 100 /\ most = 100 * Million /\ most \in Int
    BY ScaleIs, SMT
  <2> HIDE DEF least, most
  <2>2. \A p \in Kept(s) : \/ p.y = 0 \/ (100 <= p.y /\ p.y <= 100 * Million)
                           \/ (100 <= -p.y /\ -p.y <= 100 * Million)
    <3> SUFFICES ASSUME NEW p \in Kept(s)
                 PROVE  \/ p.y = 0 \/ (100 <= p.y /\ p.y <= 100 * Million)
                        \/ (100 <= -p.y /\ -p.y <= 100 * Million)
      OBVIOUS
    <3>1. p \in ToSet(s.data) /\ p.y \in Int
      BY <1>2, <1>3
    <3>2. p.y = 0 \/ p.y \in least .. most \/ -p.y \in least .. most
      BY <1>3, <2>0
    <3> DEFINE y == p.y
    <3> HIDE DEF y
    <3>3. y \in Int /\ (y = 0 \/ y \in least .. most \/ -y \in least .. most)
      BY <3>1, <3>2 DEF y
    <3>4. y = 0 \/ (100 <= y /\ y <= most) \/ (100 <= -y /\ -y <= most)
      BY <2>1, <3>3
    <3> QED BY <2>1, <3>4 DEF y
  <2> QED BY <2>2
<1>7. 0 \in values \/ values = {}
  BY <1>3
<1> HIDE DEF values
<1>8. /\ values # {} /\ YExtent(s).min \in values /\ YExtent(s).max \in values
      /\ \A v \in values : YExtent(s).min <= v /\ v <= YExtent(s).max
  BY <1>4, <1>5, ExtentHas
<1> DEFINE min == YExtent(s).min
           max == YExtent(s).max
<1>9. /\ min \in Int /\ max \in Int /\ min <= 0 /\ 0 <= max
      /\ min = 0 \/ (100 <= -min /\ -min <= 100 * Million)
      /\ max = 0 \/ (100 <= max /\ max <= 100 * Million)
  <2>1. /\ min \in values /\ max \in values /\ min <= 0 /\ 0 <= max
        /\ min \in Int /\ max \in Int
    BY <1>4, <1>7, <1>8
  <2> HIDE DEF min, max
  <2> QED BY <1>6, <2>1, ScaleIs
<1> HIDE DEF min, max
<1>10. (min = 0 /\ max = 0) \/ (100 <= max - min /\ max - min <= 200 * Million)
  BY <1>9, ScaleIs
<1> QED BY <1>9, <1>10 DEF min, max

\* The times of a line lie up to thirty years apart.
LEMMA TimesFit ==
  ASSUME NEW s \in FirstSeries \cup LaterSeries, ~s.bars, XExtent(s) # Null
  PROVE  XExtent(s).max - XExtent(s).min <= 30 * timeUnitSize.year
<1> DEFINE values == {p.x + side : p \in Kept(s), side \in {0}} \cup {p.x : p \in ToSet(s.data) \ Kept(s)}
<1>1. s.data \in Seq(Points)
  BY SeriesAssumption DEF Points
<1>2. PICK b \in Nat : \A p \in ToSet(s.data) : p.x \in Int /\ -b <= p.x /\ p.x <= b
  BY <1>1, SeriesAreBounded
<1>3. \A p \in Kept(s) : p \in ToSet(s.data)
  BY DEF Kept
<1>4. \A v \in values : \E p \in ToSet(s.data) : v = p.x
  <2> SUFFICES ASSUME NEW v \in values PROVE \E p \in ToSet(s.data) : v = p.x
    OBVIOUS
  <2>1. CASE \E p \in Kept(s) : v = p.x + 0
    BY <1>2, <1>3, <2>1
  <2>2. CASE \E p \in ToSet(s.data) : v = p.x
    BY <2>2
  <2> QED BY <2>1, <2>2
<1>5. XExtent(s) = Extent(values)
  BY DEF XExtent
<1> HIDE DEF values
<1>6. \A v \in values : v \in Int /\ -b <= v /\ v <= b
  BY <1>2, <1>4
<1>7. XExtent(s).min \in values /\ XExtent(s).max \in values
  BY <1>5, <1>6, ExtentHas
<1>8. PICK p \in ToSet(s.data), q \in ToSet(s.data) : XExtent(s).min = p.x /\ XExtent(s).max = q.x
  BY <1>4, <1>7
<1>9. q.x - p.x <= 30 * timeUnitSize.year
  BY ScaleAssumption
<1> QED BY <1>8, <1>9

\* setRange: a range that is not empty, over the extent.
SpanOf(extent) == IF extent = Null THEN 0 ELSE extent.max - extent.min

RangeFits(r, extent, options) ==
  LET span == SpanOf(extent)
  IN  /\ r \in Extents /\ r.min < r.max
      /\ extent # Null => r.min <= extent.min /\ extent.max <= r.max
      /\ span = 0 /\ (extent = Null \/ extent.max = 0) /\ ~options.time => r.max - r.min = 2000
      /\ span = 0 /\ options.time => r.max - r.min = 2
      /\ span > 0 => span <= r.max - r.min /\ 100 * (r.max - r.min) <= 104 * span
      /\ span > 0 /\ options.margin = 0 => r.max - r.min = span

LEMMA SetRangeIs ==
  ASSUME NEW extent, IsExtent(extent),
         NEW options, options.margin \in {0, 2}, options.time \in BOOLEAN
  PROVE  RangeFits(SetRange(extent, options), extent, options)
<1> DEFINE min == IF extent = Null THEN 0 ELSE extent.min
           max == IF extent = Null THEN 0 ELSE extent.max
           margin == options.margin
           widen == IF options.time THEN 1 ELSE IF max = 0 THEN One ELSE One \div 100
           room == IF margin = 0 THEN 0 ELSE ((max - min) * margin) \div 100
           r == SetRange(extent, options)
           span == SpanOf(extent)
<1>1. min \in Int /\ max \in Int /\ min <= max
  BY DEF IsExtent, Extents
<1>2. /\ extent # Null => extent.min = min /\ extent.max = max
      /\ span = max - min /\ (extent = Null => max = 0)
  BY <1>1 DEF SpanOf
<1>3. r = IF min = max THEN [min |-> min - widen, max |-> max + widen]
          ELSE [min |-> IF min >= 0 /\ min < room THEN 0 ELSE min - room,
                max |-> IF max <= 0 /\ -max < room THEN 0 ELSE max + room]
  BY DEF SetRange
<1> HIDE DEF min, max, r, span
<1>4. /\ widen \in {1000, 10, 1} /\ (max = 0 /\ ~options.time => widen = 1000)
      /\ (options.time => widen = 1)
  BY DEF One
<1>5. room \in Nat /\ 100 * room <= 2 * (max - min) /\ (margin = 0 => room = 0)
  <2>1. CASE margin = 0
    BY <1>1, <2>1
  <2>2. CASE margin = 2
    BY <1>1, <2>2
  <2> QED BY <2>1, <2>2
<1> HIDE DEF widen, room, margin
<1>6. /\ r \in Extents /\ r.min < r.max /\ r.min <= min /\ max <= r.max
      /\ max = min => r.max - r.min = 2 * widen
      /\ max # min => /\ max - min <= r.max - r.min /\ r.max - r.min <= (max - min) + 2 * room
  <2>1. CASE min = max
    <3>1. r.min = min - widen /\ r.max = max + widen /\ r = [min |-> r.min, max |-> r.max]
      BY <1>3, <2>1
    <3>2. r.min \in Int /\ r.max \in Int
      BY <1>1, <1>4, <3>1
    <3> QED BY <1>1, <1>4, <2>1, <3>1, <3>2 DEF Extents
  <2>2. CASE min # max
    <3>1. r.min = (IF min >= 0 /\ min < room THEN 0 ELSE min - room)
          /\ r.max = (IF max <= 0 /\ -max < room THEN 0 ELSE max + room)
          /\ r = [min |-> r.min, max |-> r.max]
      BY <1>3, <2>2
    <3>2. r.min \in Int /\ r.max \in Int /\ r.min <= min /\ max <= r.max
      BY <1>1, <1>5, <3>1
    <3>3. max - min <= r.max - r.min /\ r.max - r.min <= (max - min) + 2 * room
      BY <1>1, <1>5, <3>1, <3>2
    <3> QED BY <1>1, <2>2, <3>1, <3>2, <3>3 DEF Extents
  <2> QED BY <2>1, <2>2
<1>7. r.min \in Int /\ r.max \in Int
  BY <1>6 DEF Extents
<1>8. /\ span = 0 /\ (extent = Null \/ extent.max = 0) /\ ~options.time => r.max - r.min = 2000
      /\ span = 0 /\ options.time => r.max - r.min = 2
  BY <1>1, <1>2, <1>4, <1>6
<1>9. /\ span > 0 => span <= r.max - r.min /\ 100 * (r.max - r.min) <= 104 * span
      /\ span > 0 /\ margin = 0 => r.max - r.min = span
  BY <1>1, <1>2, <1>5, <1>6, <1>7
<1> QED BY <1>2, <1>6, <1>8, <1>9 DEF r, span, margin, RangeFits

\* The powers of ten that a tick size starts from.
LEMMA PowersAreBounded == \E top \in Nat : \A p \in Powers : p \in 1 .. top
<1>1. \A p \in Powers : p \in Int /\ 1 <= p /\ p <= 10000000
  BY SMT DEF Powers
<1>2. 10000000 \in Nat
  BY SMT
<1> QED BY <1>1, <1>2, SMT

\* The powers of ten, up to ten million.
LEMMA PowersAre ==
  /\ 10 \in Powers /\ Million \in Nat
  /\ \A p \in Powers : p \in Nat \ {0} /\ (p = 10 * Million \/ 10 * p \in Powers)
  /\ \A p \in Powers : p \in {1, 10, 100, 1000} \/ (p > 1000 /\ p % 1000 = 0)
  /\ \A p \in Powers \ {1} : p % 10 = 0 /\ p \div 10 \in Powers
<1>1. 10 \in Powers /\ Million \in Nat
  BY SMT DEF Powers, Million
<1>2. \A p \in Powers : p \in Nat \ {0} /\ (p = 10 * Million \/ 10 * p \in Powers)
  BY SMT DEF Powers, Million
<1>3. \A p \in Powers : p \in {1, 10, 100, 1000} \/ (p > 1000 /\ p % 1000 = 0)
  BY SMT DEF Powers
<1>4. \A p \in Powers \ {1} : p % 10 = 0 /\ p \div 10 \in Powers
  BY SMT DEF Powers
<1> QED BY <1>1, <1>2, <1>3, <1>4

\* The power of ten that the size of a tick starts from, for a quarter of the height.
LEMMA MagnitudeIs ==
  ASSUME NEW span \in Int, 100 <= span, span <= 208 * Million
  PROVE  LET m == Max({p \in Powers : p * 42 <= 10 * span} \cup {1})
         IN  m \in Powers \ {1} /\ 42 * m <= 10 * span /\ 10 * span < 420 * m
<1> DEFINE P == {p \in Powers : p * 42 <= 10 * span} \cup {1}
           m == Max(P)
<1>1. m \in P /\ \A y \in P : m >= y
  <2>1. PICK top \in Nat : \A p \in Powers : p \in 1 .. top
    BY PowersAreBounded
  <2>2. top + 1 \in Nat /\ P \in SUBSET (1 .. top + 1) /\ P # {}
    BY <2>1
  <2> HIDE DEF P
  <2> QED BY <2>2, MaxIsGreatest
<1> HIDE DEF m
<1>2. \A p \in Powers : p * 42 <= 10 * span => p <= m
  BY <1>1
<1>3. m = 1 \/ (m \in Powers /\ m * 42 <= 10 * span)
  BY <1>1
<1> HIDE DEF P
<1>4. 10 <= m
  BY <1>2, PowersAre
<1>5. m \in Powers \ {1} /\ m \in Nat /\ m * 42 <= 10 * span
  BY <1>3, <1>4, PowersAre
<1>6. 10 * span < 420 * m
  <2>1. CASE m = 10 * Million
    BY <2>1, PowersAre
  <2>2. CASE m # 10 * Million
    <3>1. 10 * m \in Powers
      BY <1>5, <2>2, PowersAre
    <3>2. (10 * m) * 42 <= 10 * span => 10 * m <= m
      BY <1>2, <3>1, Zenon
    <3> QED BY <1>4, <1>5, <3>2
  <2> QED BY <2>1, <2>2
<1> QED BY <1>5, <1>6 DEF m, P

\* The size of a tick is a multiple of the precision of its label, and six or seven
\* make the span.
Precisions == {1, 10, 100, 1000}

Fits(made, span) ==
  /\ made.size \in Nat \ {0} /\ 10 * span <= 63 * made.size
  /\ made.precision \in Precisions /\ made.size % made.precision = 0

LEMMA TickSizeFits ==
  ASSUME NEW span \in Int, 100 <= span, span <= 208 * Million,
         NEW options, options.tenths = 42, options.whole = FALSE
  PROVE  Fits(TickSize(span, options), span)
<1> DEFINE m == Max({p \in Powers : p * 42 <= 10 * span} \cup {1})
<1>1. m \in Powers \ {1} /\ 42 * m <= 10 * span /\ 10 * span < 420 * m
  BY MagnitudeIs
<1>0. /\ m \in Nat /\ m % 10 = 0
      /\ m \in {10, 100, 1000} \/ (m > 1000 /\ m % 1000 = 0)
      /\ m \div 10 \in {1, 10, 100, 1000} \/ (m \div 10 > 1000 /\ (m \div 10) % 1000 = 0)
  BY <1>1, PowersAre
<1> HIDE DEF m
<1> DEFINE under(quarters) == 40 * span < quarters * m * 42
           over(quarters) == 40 * span > quarters * m * 42
           half == ~under(6) /\ over(9) /\ under(12)
           times == CASE under(6) -> 2 [] ~under(6) /\ under(12) -> IF half THEN 5 ELSE 4
                      [] ~under(12) /\ under(30) -> 10 [] OTHER -> 20
           digit == IF half THEN m \div 10 ELSE m
           size == (times * m) \div 2
           precision == Min({digit, 1000})
<1>2. TickSize(span, options) = [size |-> size, precision |-> precision]
  BY DEF TickSize, m, One
<1>3. digit \in Int
  BY <1>0
<1>4. precision = IF digit <= 1000 THEN digit ELSE 1000
  <2> HIDE DEF digit
  <2> QED BY <1>3, SmallExtremes
<1>5. /\ times \in {2, 4, 5, 10, 20} /\ (half <=> times = 5)
      /\ times = 2 => 40 * span < 252 * m
      /\ times \in {4, 5} => 40 * span < 504 * m
      /\ times = 10 => 40 * span < 1260 * m
  BY <1>0, <1>1
<1> HIDE DEF half, times
<1>6. size \in Nat \ {0} /\ 10 * span <= 63 * size
      /\ precision \in {1, 10, 100, 1000} /\ size % precision = 0
  <2>1. CASE times = 2
    <3>1. size = m /\ digit = m
      BY <1>0, <1>1, <1>5, <2>1
    <3> QED BY <1>0, <1>1, <1>4, <1>5, <2>1, <3>1
  <2>2. CASE times = 4
    <3>1. size = 2 * m /\ digit = m
      BY <1>0, <1>1, <1>5, <2>2
    <3> QED BY <1>0, <1>1, <1>4, <1>5, <2>2, <3>1
  <2>3. CASE times = 5
    <3>1. size = 25 * (m \div 10) /\ digit = m \div 10
      BY <1>0, <1>1, <1>5, <2>3
    <3> QED BY <1>0, <1>1, <1>4, <1>5, <2>3, <3>1
  <2>4. CASE times = 10
    <3>1. size = 5 * m /\ digit = m
      BY <1>0, <1>1, <1>5, <2>4
    <3> QED BY <1>0, <1>1, <1>4, <1>5, <2>4, <3>1
  <2>5. CASE times = 20
    <3>1. size = 10 * m /\ digit = m
      BY <1>0, <1>1, <1>5, <2>5
    <3> QED BY <1>0, <1>1, <1>4, <2>5, <3>1
  <2> QED BY <1>5, <2>1, <2>2, <2>3, <2>4, <2>5
<1> HIDE DEF size, precision
<1> QED BY <1>2, <1>6 DEF Fits, Precisions
-----------------------------------------------------------------------------
(* The calendar. *)

\* The days from the start of YearZero to month m of year y.
InYear(y, m) ==
  365 * y + (y + 3) \div 4
    + <<0, 31, 59, 90, 120, 151, 181, 212, 243, 273, 304, 334>>[m + 1]
    + (IF y % 4 = 0 /\ m >= 2 THEN 1 ELSE 0)

LEMMA YearAndMonth ==
  ASSUME NEW k \in Int
  PROVE  \E y \in Int, m \in 0 .. 11 : k = 12 * y + m
<1>1. k \div 12 \in Int /\ k % 12 \in 0 .. 11 /\ k = 12 * (k \div 12) + (k % 12)
  OBVIOUS
<1> QED BY <1>1

LEMMA MonthStartIs ==
  ASSUME NEW y \in Int, NEW m \in 0 .. 11
  PROVE  MonthStart(12 * y + m) = Day * InYear(y, m)
<1>1. (12 * y + m) \div 12 = y /\ (12 * y + m) % 12 = m
  OBVIOUS
<1> QED BY <1>1 DEF MonthStart, InYear

LEMMA InYearIs ==
  ASSUME NEW y \in Int, NEW m \in 0 .. 11
  PROVE  /\ InYear(y, m) \in Int
         /\ IF m = 11 THEN InYear(y + 1, 0) - InYear(y, m) = 31
            ELSE InYear(y, m + 1) - InYear(y, m) \in 28 .. 31
<1> DEFINE leap == y % 4 = 0
<1>1. m \in {0, 1, 2, 3, 4, 5, 6, 7, 8, 9, 10, 11}
  OBVIOUS
<1>2. \A i \in 0 .. 11 : InYear(y, i) \in Int
  <2> SUFFICES ASSUME NEW i \in 0 .. 11 PROVE InYear(y, i) \in Int
    OBVIOUS
  <2>1. <<0, 31, 59, 90, 120, 151, 181, 212, 243, 273, 304, 334>>[i + 1] \in Int
    OBVIOUS
  <2> QED BY <2>1 DEF InYear
<1>3. (y + 1 + 3) \div 4 = (y + 3) \div 4 + (IF y % 4 = 0 THEN 1 ELSE 0)
  OBVIOUS
<1>4. CASE m = 11
  BY <1>2, <1>3, <1>4 DEF InYear
<1>5. CASE m # 11
  BY <1>1, <1>2, <1>5 DEF InYear
<1> QED BY <1>2, <1>4, <1>5

LEMMA MonthLength ==
  ASSUME NEW k \in Int
  PROVE  /\ MonthStart(k) \in Int
         /\ \E d \in 28 .. 31 : MonthStart(k + 1) = MonthStart(k) + d * Day
<1>1. PICK y \in Int, m \in 0 .. 11 : k = 12 * y + m
  BY YearAndMonth
<1>2. InYear(y, m) \in Int /\ MonthStart(k) = Day * InYear(y, m)
  BY <1>1, MonthStartIs, InYearIs
<1>3. PICK z \in Int, l \in 0 .. 11 :
        /\ k + 1 = 12 * z + l
        /\ InYear(z, l) - InYear(y, m) \in 28 .. 31 /\ InYear(z, l) \in Int
  <2>1. CASE m = 11
    <3>1. k + 1 = 12 * (y + 1) + 0 /\ y + 1 \in Int /\ 0 \in 0 .. 11
      BY <1>1, <2>1
    <3>2. InYear(y + 1, 0) \in Int /\ InYear(y + 1, 0) - InYear(y, m) = 31
      BY <2>1, <3>1, InYearIs
    <3> QED BY <3>1, <3>2
  <2>2. CASE m # 11
    <3>1. k + 1 = 12 * y + (m + 1) /\ m + 1 \in 0 .. 11
      BY <1>1, <2>2
    <3>2. InYear(y, m + 1) \in Int /\ InYear(y, m + 1) - InYear(y, m) \in 28 .. 31
      BY <2>2, <3>1, InYearIs
    <3> QED BY <3>1, <3>2
  <2> QED BY <2>1, <2>2
<1>4. MonthStart(k + 1) = Day * InYear(z, l)
  BY <1>3, MonthStartIs
<1> DEFINE a == InYear(y, m)
           b == InYear(z, l)
<1>5. a \in Int /\ b \in Int /\ b - a \in 28 .. 31 /\ MonthStart(k) = Day * a /\ MonthStart(k + 1) = Day * b
  BY <1>2, <1>3, <1>4
<1> HIDE DEF a, b
<1>6. b = a + (b - a) /\ Day * a \in Int /\ Day * b = Day * a + (b - a) * Day
  BY <1>5 DEF Day, Hour, Minute, Second
<1> QED BY <1>5, <1>6

LEMMA MonthsApart ==
  ASSUME NEW k \in Int, NEW n \in Nat
  PROVE  /\ MonthStart(k) + 28 * Day * n <= MonthStart(k + n)
         /\ MonthStart(k + n) <= MonthStart(k) + 31 * Day * n
<1> DEFINE Apart(i) == /\ MonthStart(k) + 28 * Day * i <= MonthStart(k + i)
                       /\ MonthStart(k + i) <= MonthStart(k) + 31 * Day * i
           S == {i \in 0 .. n : Apart(i)}
<1>0. \A i \in 0 .. n : MonthStart(k + i) \in Int
  BY MonthLength
<1>1. 0 \in S
  <2>1. k + 0 = k /\ MonthStart(k) \in Int
    BY MonthLength
  <2>2. Apart(0)
    BY <2>1 DEF Day, Hour, Minute, Second
  <2> HIDE DEF Apart
  <2> QED BY <2>2
<1>2. ASSUME NEW i \in 0 .. n - 1, i \in S PROVE i + 1 \in S
  <2>1. Apart(i) /\ i \in Int /\ k + (i + 1) = (k + i) + 1 /\ k + i \in Int /\ MonthStart(k + i) \in Int
    BY <1>2, MonthLength
  <2>2. PICK d \in 28 .. 31 : MonthStart(k + (i + 1)) = MonthStart(k + i) + d * Day
    BY <2>1, MonthLength
  <2>3. Apart(i + 1)
    <3> HIDE DEF S
    <3>1. MonthStart(k) \in Int
      BY MonthLength
    <3> QED BY <2>1, <2>2, <3>1 DEF Day, Hour, Minute, Second
  <2> HIDE DEF Apart
  <2> QED BY <2>3
<1>3. n \in S
  <2> HIDE DEF S
  <2>1. 0 .. n \subseteq S
    BY <1>1, <1>2, BoundedInduction
  <2> QED BY <2>1
<1> HIDE DEF Apart
<1>4. Apart(n)
  BY <1>3
<1> QED BY <1>4 DEF Apart

\* Every time lies in one month, which MonthOf finds.
LEMMA MonthExists ==
  ASSUME NEW t \in Int
  PROVE  \E k \in Int : MonthStart(k) <= t /\ t < MonthStart(k + 1)
<1> SUFFICES ASSUME \A k \in Int : ~(MonthStart(k) <= t /\ t < MonthStart(k + 1))
             PROVE  FALSE
  OBVIOUS
<1>0. \A k \in Int : MonthStart(k) \in Int
  BY MonthLength
<1>1. MonthStart(0) = 0
  <2>1. 0 = 12 * 0 + 0 /\ InYear(0, 0) = 0
    BY DEF InYear
  <2>2. MonthStart(12 * 0 + 0) = Day * InYear(0, 0)
    BY MonthStartIs
  <2> QED BY <2>1, <2>2 DEF Day, Hour, Minute, Second
<1>2. CASE t >= 0
  <2> DEFINE n == t + 1
             S == {i \in 0 .. n : MonthStart(i) <= t}
  <2>1. 0 \in S
    BY <1>1, <1>2
  <2>2. ASSUME NEW i \in 0 .. n - 1, i \in S PROVE i + 1 \in S
    <3>1. i \in Int /\ i + 1 \in Int /\ MonthStart(i) <= t /\ MonthStart(i + 1) \in Int
      BY <1>0, <2>2
    <3>2. ~(t < MonthStart(i + 1))
      BY <3>1
    <3> QED BY <1>2, <3>1, <3>2
  <2>3. n \in Nat
    BY <1>2
  <2>4. n \in S
    <3> HIDE DEF S
    <3>1. 0 .. n \subseteq S
      BY <2>1, <2>2, <2>3, BoundedInduction
    <3> QED BY <2>3, <3>1
  <2>5. MonthStart(0) + 28 * Day * n <= MonthStart(0 + n) /\ 0 + n = n
    BY <2>3, MonthsApart
  <2> HIDE DEF S
  <2> QED BY <1>0, <1>1, <2>3, <2>4, <2>5 DEF S, Day, Hour, Minute, Second
<1>3. CASE t < 0
  <2> DEFINE n == -t
             S == {i \in 0 .. n : t < MonthStart(-i)}
  <2>1. 0 \in S
    BY <1>1, <1>3
  <2>2. ASSUME NEW i \in 0 .. n - 1, i \in S PROVE i + 1 \in S
    <3>1. /\ -(i + 1) \in Int /\ -(i + 1) + 1 = -i /\ t < MonthStart(-i)
          /\ MonthStart(-(i + 1)) \in Int
      BY <1>0, <2>2
    <3>2. ~(MonthStart(-(i + 1)) <= t)
      BY <3>1
    <3> QED BY <1>3, <3>1, <3>2
  <2>3. n \in Nat
    BY <1>3
  <2>4. n \in S
    <3> HIDE DEF S
    <3>1. 0 .. n \subseteq S
      BY <2>1, <2>2, <2>3, BoundedInduction
    <3> QED BY <2>3, <3>1
  <2>5. MonthStart(-n) + 28 * Day * n <= MonthStart(-n + n) /\ -n + n = 0 /\ -n \in Int
    BY <2>3, MonthsApart
  <2> HIDE DEF S
  <2> QED BY <1>0, <1>1, <2>3, <2>4, <2>5 DEF S, Day, Hour, Minute, Second
<1> QED BY <1>2, <1>3

\* The starts of the months rise.
LEMMA MonthsRise ==
  ASSUME NEW j \in Int, NEW k \in Int
  PROVE  /\ MonthStart(j) \in Int /\ MonthStart(k) \in Int
         /\ j < k => MonthStart(j) + 28 * Day <= MonthStart(k)
         /\ j <= k => MonthStart(j) <= MonthStart(k)
<1>1. MonthStart(j) \in Int /\ MonthStart(k) \in Int
  BY MonthLength
<1>2. ASSUME j <= k
      PROVE  k - j \in Nat /\ MonthStart(j) + 28 * Day * (k - j) <= MonthStart(k)
  <2>1. k - j \in Nat /\ j + (k - j) = k
    BY <1>2
  <2> QED BY <2>1, MonthsApart
<1> QED BY <1>1, <1>2 DEF Day, Hour, Minute, Second

\* A month starts within a month of where it would if all were as long as the average
\* of four years.
LEMMA MonthsOnAverage ==
  ASSUME NEW k \in Int
  PROVE  \E d \in Int : /\ MonthStart(k) = Day * d
                       /\ 1461 * (k - 1) < 48 * d /\ 48 * d < 1461 * (k + 1)
<1>1. PICK y \in Int, m \in 0 .. 11 : k = 12 * y + m
  BY YearAndMonth
<1>2. InYear(y, m) \in Int /\ MonthStart(k) = Day * InYear(y, m)
  BY <1>1, MonthStartIs, InYearIs
<1>3. m \in {0, 1, 2, 3, 4, 5, 6, 7, 8, 9, 10, 11}
  OBVIOUS
<1>4. y <= 4 * ((y + 3) \div 4) /\ 4 * ((y + 3) \div 4) <= y + 3
  OBVIOUS
<1>5. 1461 * (m - 1) < 48 * (InYear(y, m) - 365 * y) - 12 * y
      /\ 48 * (InYear(y, m) - 365 * y) - 12 * y < 1461 * (m + 1)
  BY <1>3, <1>4 DEF InYear
<1>6. 1461 * (k - 1) < 48 * InYear(y, m) /\ 48 * InYear(y, m) < 1461 * (k + 1)
  BY <1>1, <1>2, <1>5
<1> QED BY <1>2, <1>6

\* A month is where its days are: MonthOf inverts MonthStart.
LEMMA MonthOfIs ==
  ASSUME NEW t \in Int
  PROVE  /\ MonthOf(t) \in Int
         /\ MonthStart(MonthOf(t)) \in Int /\ MonthStart(MonthOf(t)) <= t
         /\ t < MonthStart(MonthOf(t) + 1)
<1> DEFINE day == t \div Day
           about == (48 * day) \div 1461
           In(k) == MonthStart(k) <= t /\ t < MonthStart(k + 1)
<1>1. PICK k \in Int : In(k)
  BY MonthExists
<1>2. PICK a \in Int : MonthStart(k) = Day * a /\ 1461 * (k - 1) < 48 * a
  BY MonthsOnAverage
<1>3. PICK b \in Int : MonthStart(k + 1) = Day * b /\ 48 * b < 1461 * (k + 2)
  <2>1. k + 1 \in Int /\ (k + 1) + 1 = k + 2
    OBVIOUS
  <2> QED BY <2>1, MonthsOnAverage
<1>4. day \in Int /\ a <= day /\ day < b
  BY <1>1, <1>2, <1>3 DEF Day, Hour, Minute, Second
<1>5. about \in Int /\ k \in about - 1 .. about + 1
  <2> HIDE DEF day
  <2> QED BY <1>2, <1>3, <1>4
<1>6. MonthOf(t) = CHOOSE l \in about - 1 .. about + 1 : In(l)
  BY DEF MonthOf
<1> HIDE DEF about, In
<1>7. MonthOf(t) \in about - 1 .. about + 1 /\ In(MonthOf(t))
  BY <1>1, <1>5, <1>6
<1>8. MonthOf(t) \in Int
  BY <1>5, <1>7
<1> QED BY <1>7, <1>8, MonthLength DEF In

LEMMA MonthOfUnique ==
  ASSUME NEW t \in Int, NEW k \in Int, MonthStart(k) <= t, t < MonthStart(k + 1)
  PROVE  MonthOf(t) = k
<1> DEFINE m == MonthOf(t)
<1>1. m \in Int /\ MonthStart(m) <= t /\ t < MonthStart(m + 1)
  BY MonthOfIs
<1> HIDE DEF m
<1>2. /\ m + 1 <= k => MonthStart(m + 1) <= MonthStart(k)
      /\ k + 1 <= m => MonthStart(k + 1) <= MonthStart(m)
      /\ MonthStart(k) \in Int /\ MonthStart(m) \in Int
      /\ MonthStart(k + 1) \in Int /\ MonthStart(m + 1) \in Int
  BY <1>1, MonthsRise
<1>3. m = k
  BY <1>1, <1>2
<1> QED BY <1>3 DEF m

\* Months that start are set to the start of others.
LEMMA FromStartToStart ==
  ASSUME NEW k \in Int
  PROVE  /\ MonthStart(k) \in Int /\ MonthOf(MonthStart(k)) = k
         /\ MonthStart(k) % Day = 0
         /\ \A j \in Int : SetMonth(MonthStart(k), j) = MonthStart(j)
<1>1. MonthStart(k) \in Int /\ MonthStart(k) + 28 * Day <= MonthStart(k + 1)
  BY MonthsRise, MonthLength
<1>2. MonthOf(MonthStart(k)) = k
  <2>1. MonthStart(k) < MonthStart(k + 1)
    BY <1>1, MonthLength DEF Day, Hour, Minute, Second
  <2> QED BY <1>1, <2>1, MonthOfUnique
<1>3. MonthStart(k) % Day = 0
  <2>1. PICK y \in Int, m \in 0 .. 11 : k = 12 * y + m
    BY YearAndMonth
  <2>2. InYear(y, m) \in Int /\ MonthStart(k) = Day * InYear(y, m)
    BY <2>1, MonthStartIs, InYearIs
  <2> QED BY <2>2 DEF Day, Hour, Minute, Second
<1>4. ASSUME NEW j \in Int PROVE SetMonth(MonthStart(k), j) = MonthStart(j)
  BY <1>1, <1>2, MonthLength DEF SetMonth
<1> QED BY <1>1, <1>2, <1>3, <1>4

(* The tick sizes. *)

\* The sizes that a chart of times may get.
ClockSizes ==
  {<<40, "second">>, <<120, "second">>,
   <<4, "minute">>, <<8, "minute">>, <<20, "minute">>, <<40, "minute">>, <<120, "minute">>,
   <<4, "hour">>, <<8, "hour">>, <<16, "hour">>, <<32, "hour">>, <<48, "hour">>,
   <<4, "day">>, <<8, "day">>, <<12, "day">>}

PartSize(size, q) == size = <<q, "month">> /\ q \in {1, 2}
MonthSize(size, n) == size = <<4 * n, "month">> /\ n \in {1, 2, 3, 6}
YearSize(size, n) == size = <<4 * n, "year">> /\ n \in {1, 2, 5, 10}

LEMMA UnitsAre ==
  /\ timeUnitSize["second"] = 2 /\ timeUnitSize["minute"] = 120 /\ timeUnitSize["hour"] = 7200
  /\ timeUnitSize["day"] = 172800 /\ timeUnitSize["month"] = 5184000
  /\ timeUnitSize["year"] = 63113904
BY DEF timeUnitSize, Day, Hour, Minute, Second

\* The steps of the list, in half seconds.
Steps == <<2, 4, 10, 20, 60, 120, 240, 600, 1200, 3600, 7200, 14400, 28800, 57600, 86400,
           172800, 345600, 518400, 1296000, 2592000, 5184000, 10368000, 15552000, 31104000, 63113904>>

LEMMA StepsAre ==
  ASSUME NEW i \in 1 .. 25
  PROVE  StepOf(specMonths[i]) = Steps[i]
<1>1. i \in {1,2,3,4,5,6,7,8,9,10,11,12,13,14,15,16,17,18,19,20,21,22,23,24,25}
  OBVIOUS
<1>2. CASE i \in {1,2,3,4,5,6,7,8,9,10}
  BY <1>2, UnitsAre DEF StepOf, specMonths, Steps
<1>3. CASE i \in {11,12,13,14,15,16,17,18}
  BY <1>3, UnitsAre DEF StepOf, specMonths, Steps
<1>4. CASE i \in {19,20,21,22,23,24,25}
  BY <1>4, UnitsAre DEF StepOf, specMonths, Steps
<1> QED BY <1>1, <1>2, <1>3, <1>4

\* The list in terms of the kinds of sizes: what a size of the list is, by its place.
LEMMA SizesOfTheList ==
  ASSUME NEW i \in 4 .. 25
  PROVE  LET size == specMonths[i]
         IN  \/ i <= 18 /\ size \in ClockSizes
             \/ i = 19 /\ PartSize(size, 1)
             \/ i = 20 /\ PartSize(size, 2)
             \/ i = 21 /\ MonthSize(size, 1)
             \/ i = 22 /\ MonthSize(size, 2)
             \/ i = 23 /\ MonthSize(size, 3)
             \/ i = 24 /\ MonthSize(size, 6)
             \/ i = 25 /\ size[2] = "year"
<1>1. i \in {4,5,6,7,8,9,10,11,12,13,14,15,16,17,18} \/ i \in {19,20,21,22,23,24,25}
  OBVIOUS
<1>2. CASE i \in {4,5,6,7,8,9,10,11,12,13,14,15,16,17,18}
  BY <1>2 DEF specMonths, ClockSizes
<1>3. CASE i \in {19,20,21,22,23,24,25}
  BY <1>3 DEF specMonths, PartSize, MonthSize
<1> QED BY <1>1, <1>2, <1>3

\* The size chosen is one of four kinds, and the range is not many times as long.
LEMMA SizeChosen ==
  ASSUME NEW range \in Nat \ {0}, range <= 30 * timeUnitSize.year
  PROVE  LET size == ChooseTickSize(range, 4, 10 * Second)
         IN  \/ size \in ClockSizes /\ range <= 8 * StepOf(size)
             \/ \E q \in {1, 2} : PartSize(size, q) /\ range <= 45 * q * Day
             \/ \E n \in {1, 2, 3, 6} : MonthSize(size, n) /\ range <= 182 * n * Day
             \/ \E n \in {1, 2, 5, 10} : YearSize(size, n) /\ range <= 6 * n * 366 * Day
<1> DEFINE fits(i) == /\ (2 * range) \div 4 < StepOf(specMonths[i]) + StepOf(specMonths[i + 1])
                      /\ StepOf(specMonths[i]) >= 10 * Second
           found == {j \in 1 .. 24 : fits(j)} \cup {25}
           at == Min(found)
           size == specMonths[at]
<1>1. at \in found
  <2>1. found # {} /\ 25 \in Nat
    OBVIOUS
  <2>2. \A v \in found : v \in Int /\ -25 <= v /\ v <= 25
    <3> HIDE DEF fits
    <3> QED OBVIOUS
  <2> HIDE DEF found
  <2> QED BY <2>1, <2>2, BoundedExtremes
<1>2. Len(specMonths) = 25
  BY DEF specMonths
<1>3. ChooseTickSize(range, 4, 10 * Second)
        = IF size[2] = "year" THEN <<4 * Years(range, 4), "year">> ELSE size
  <2>1. 1 .. Len(specMonths) - 1 = 1 .. 24
    BY <1>2
  <2> QED BY <1>2, <2>1 DEF ChooseTickSize
<1>4. at \in 1 .. 25 /\ (at # 25 => fits(at))
  <2> HIDE DEF fits, at
  <2> QED BY <1>1
<1> HIDE DEF at
<1>5. at # 25 => (2 * range) \div 4 < Steps[at] + Steps[at + 1] /\ Steps[at] >= 20
  <2>1. CASE at = 25
    BY <2>1
  <2>2. CASE at # 25
    <3>1. at \in 1 .. 25 /\ at + 1 \in 1 .. 25 /\ fits(at)
      BY <1>4, <2>2
    <3>2. StepOf(specMonths[at]) = Steps[at] /\ StepOf(specMonths[at + 1]) = Steps[at + 1]
      BY <3>1, StepsAre
    <3> QED BY <3>1, <3>2 DEF Second
  <2> QED BY <2>1, <2>2
<1>6. at \in 4 .. 25
  <2>1. at \in {1, 2, 3} => Steps[at] < 20
    BY DEF Steps
  <2> QED BY <1>4, <1>5, <2>1 DEF Steps
<1>7. StepOf(size) = Steps[at]
  BY <1>4, StepsAre
<1>8. CASE at <= 18
  <2>1. size \in ClockSizes
    BY <1>6, <1>8, SizesOfTheList
  <2>2. Steps[at] + Steps[at + 1] <= 4 * Steps[at] /\ Steps[at] \in Nat /\ Steps[at + 1] \in Nat
    BY <1>6, <1>8 DEF Steps
  <2>3. range <= 8 * StepOf(size)
    BY <1>5, <1>7, <1>8, <2>2
  <2>4. size[2] # "year"
    BY <2>1 DEF ClockSizes
  <2> HIDE DEF size
  <2> QED BY <1>3, <2>1, <2>3, <2>4
<1>9. CASE at \in {19, 20}
  <2>1. PICK q \in {1, 2} : at = 18 + q
    BY <1>9
  <2>2. PartSize(size, q)
    BY <1>6, <2>1, SizesOfTheList DEF PartSize, MonthSize
  <2>3. range <= 45 * q * Day
    BY <1>5, <2>1 DEF Steps, Day, Hour, Minute, Second
  <2>4. size[2] # "year"
    BY <2>2 DEF PartSize
  <2> HIDE DEF size
  <2> QED BY <1>3, <2>2, <2>3, <2>4
<1>10. CASE at \in {21, 22, 23, 24}
  <2>1. \E n \in {1, 2, 3, 6} : <<n, at>> \in {<<1, 21>>, <<2, 22>>, <<3, 23>>, <<6, 24>>}
    BY <1>10
  <2>2. PICK n \in {1, 2, 3, 6} : <<n, at>> \in {<<1, 21>>, <<2, 22>>, <<3, 23>>, <<6, 24>>}
    BY <2>1
  <2>3. MonthSize(size, n)
    BY <1>6, <2>2, SizesOfTheList DEF PartSize, MonthSize
  <2>4. range <= 182 * n * Day
    BY <1>5, <2>2 DEF Steps, Day, Hour, Minute, Second
  <2>5. size[2] # "year"
    BY <2>3 DEF MonthSize
  <2> HIDE DEF size
  <2> QED BY <1>3, <2>3, <2>4, <2>5
<1>11. CASE at = 25
  <2>1. size[2] = "year"
    BY <1>11 DEF specMonths
  <2> DEFINE n == Years(range, 4)
  <2>2. n \in {1, 2, 5, 10} /\ range <= 6 * n * 366 * Day
    <3>1. timeUnitSize.year = 63113904
      BY UnitsAre
    <3> QED BY <3>1 DEF Years, Day, Hour, Minute, Second
  <2>3. YearSize(<<4 * n, "year">>, n)
    BY <2>2 DEF YearSize
  <2>4. ChooseTickSize(range, 4, 10 * Second) = <<4 * n, "year">>
    BY <1>3, <2>1
  <2> HIDE DEF n
  <2> QED BY <2>2, <2>3, <2>4
<1> QED BY <1>6, <1>8, <1>9, <1>10, <1>11

(* The first tick. *)

\* The unit of time whose multiples the ticks of a size are.
Grain(size) ==
  IF size[2] = "second" THEN Second ELSE IF size[2] \in {"minute", "hour"} THEN Minute ELSE Day

LEMMA ClockIs ==
  ASSUME NEW size \in ClockSizes
  PROVE  \/ /\ size[2] = "second" /\ size[1] \div 4 \in {10, 30}
            /\ StepOf(size) = (size[1] \div 4) * 2
         \/ /\ size[2] = "minute" /\ size[1] \div 4 \in {1, 2, 5, 10, 30}
            /\ StepOf(size) = (size[1] \div 4) * 120
         \/ /\ size[2] = "hour" /\ size[1] \div 4 \in {1, 2, 4, 8, 12}
            /\ StepOf(size) = (size[1] \div 4) * 7200
         \/ /\ size[2] = "day" /\ size[1] \div 4 \in {1, 2, 3}
            /\ StepOf(size) = (size[1] \div 4) * 172800
<1>1. CASE size \in {<<40, "second">>, <<120, "second">>}
  BY <1>1, UnitsAre, SMT DEF StepOf
<1>2. CASE size \in {<<4, "minute">>, <<8, "minute">>, <<20, "minute">>, <<40, "minute">>,
                     <<120, "minute">>}
  BY <1>2, UnitsAre, SMT DEF StepOf
<1>3. CASE size \in {<<4, "hour">>, <<8, "hour">>, <<16, "hour">>, <<32, "hour">>, <<48, "hour">>}
  BY <1>3, UnitsAre, SMT DEF StepOf
<1>4. CASE size \in {<<4, "day">>, <<8, "day">>, <<12, "day">>}
  BY <1>4, UnitsAre, SMT DEF StepOf
<1> QED BY <1>1, <1>2, <1>3, <1>4, SMT DEF ClockSizes

LEMMA ClockSteps ==
  ASSUME NEW size \in ClockSizes
  PROVE  /\ StepOf(size) \in Nat \ {0} /\ StepOf(size) < 4 * Day
         /\ StepOf(size) % Grain(size) = 0
         /\ size[2] = "day" <=> StepOf(size) >= Day
BY ClockIs, SMT DEF Grain, Day, Hour, Minute, Second

\* Rounding down the component of a unit takes less than the size.
LEMMA ClockRounded ==
  ASSUME NEW t \in Int, NEW size \in ClockSizes, size[2] # "day"
  PROVE  LET f == RoundedDown(t, size)
         IN  f \in Int /\ f <= t /\ t < f + StepOf(size) /\ f % Grain(size) = 0
<1> DEFINE f == RoundedDown(t, size)
           n == size[1] \div 4
<1>1. CASE size[2] = "second"
  <2>1. n \in {10, 30} /\ Grain(size) = 2 /\ StepOf(size) = n * 2
    BY <1>1, ClockIs, SMT DEF Grain, Second
  <2>3. f = (t - (t % Minute)) + (n * (((t % Minute) \div Second) \div n)) * Second
    BY <1>1, Zenon DEF RoundedDown, floorInBase
  <2> HIDE DEF f, n
  <2>4. f \in Int /\ f <= t /\ t < f + n * 2 /\ f % 2 = 0
    BY <2>1, <2>3, SMT DEF Minute, Second
  <2> QED BY <2>1, <2>4 DEF f
<1>2. CASE size[2] = "minute"
  <2>1. n \in {1, 2, 5, 10, 30} /\ Grain(size) = 120 /\ StepOf(size) = n * 120
    BY <1>2, ClockIs, SMT DEF Grain, Minute, Second
  <2>3. f = (t - (t % Hour)) + (n * (((t % Hour) \div Minute) \div n)) * Minute
    BY <1>2, Zenon DEF RoundedDown, floorInBase
  <2> HIDE DEF f, n
  <2>4. f \in Int /\ f <= t /\ t < f + n * 120 /\ f % 120 = 0
    BY <2>1, <2>3, SMT DEF Hour, Minute, Second
  <2> QED BY <2>1, <2>4 DEF f
<1>3. CASE size[2] = "hour"
  <2>1. n \in {1, 2, 4, 8, 12} /\ Grain(size) = 120 /\ StepOf(size) = n * 7200
    BY <1>3, ClockIs, SMT DEF Grain, Minute, Second
  <2>3. f = (t - (t % Day)) + (n * (((t % Day) \div Hour) \div n)) * Hour
    BY <1>3, Zenon DEF RoundedDown, floorInBase
  <2> HIDE DEF f, n
  <2>4. f \in Int /\ f <= t /\ t < f + n * 7200 /\ f % 120 = 0
    BY <2>1, <2>3, SMT DEF Day, Hour, Minute, Second
  <2> QED BY <2>1, <2>4 DEF f
<1> QED BY <1>1, <1>2, <1>3, ClockIs

LEMMA ClockFirst ==
  ASSUME NEW t \in Int, NEW size \in ClockSizes
  PROVE  LET f == FirstTick(t, size)
         IN  f \in Int /\ f <= t /\ t < f + StepOf(size) /\ f % Grain(size) = 0
<1> DEFINE step == StepOf(size)
           rounded == RoundedDown(t, size)
<1>1. step \in Nat \ {0} /\ step < 4 * Day /\ (size[2] = "day" <=> step >= Day)
  BY ClockSteps
<1>2. FirstTick(t, size) = IF step >= Day THEN rounded - (rounded % Day) ELSE rounded
  <2>1. ~(step >= 4 * Day) /\ ~(step >= 2 * timeUnitSize.month)
        /\ ~(step >= 6 * timeUnitSize.month) /\ ~(step >= timeUnitSize.year)
    BY <1>1, UnitsAre DEF Day, Hour, Minute, Second
  <2> HIDE DEF step
  <2> QED BY <2>1 DEF FirstTick, step
<1>3. CASE size[2] = "day"
  <2>1. rounded = t /\ Grain(size) = Day
    BY <1>3 DEF RoundedDown, Grain
  <2>2. FirstTick(t, size) = t - (t % Day)
    BY <1>1, <1>2, <1>3, <2>1
  <2> QED BY <1>1, <1>3, <2>1, <2>2 DEF Day, Hour, Minute, Second
<1>4. CASE size[2] # "day"
  <2>1. FirstTick(t, size) = rounded
    BY <1>1, <1>2, <1>4
  <2> QED BY <1>4, <2>1, ClockRounded
<1> QED BY <1>3, <1>4

\* The hours and the day reset: the start of the month.
LEMMA ResetToMonth ==
  ASSUME NEW t \in Int
  PROVE  SetDateFirst(t - (t % Day)) = MonthStart(MonthOf(t))
<1> DEFINE k == MonthOf(t)
           d == t - (t % Day)
<1>1. k \in Int /\ MonthStart(k) \in Int /\ MonthStart(k) <= t /\ t < MonthStart(k + 1)
  BY MonthOfIs
<1>2. MonthStart(k) % Day = 0 /\ d \in Int /\ d <= t /\ d % Day = 0
  BY <1>1, FromStartToStart DEF Day, Hour, Minute, Second
<1>3. MonthStart(k) <= d
  <2> HIDE DEF k
  <2> QED BY <1>1, <1>2 DEF Day, Hour, Minute, Second
<1>4. d < MonthStart(k + 1)
  BY <1>1, <1>2, MonthLength
<1>5. MonthOf(d) = k
  BY <1>1, <1>2, <1>3, <1>4, MonthOfUnique
<1>6. SetDateFirst(d) = MonthStart(k) + 0
  BY <1>2, <1>5 DEF SetDateFirst
<1> QED BY <1>1, <1>6

\* A month of the year rounded down, from the start of a month.
LEMMA FloorMonthsOfStart ==
  ASSUME NEW k \in Int, NEW n \in {2, 3, 6, 12}
  PROVE  \E j \in Int : /\ FloorMonths(MonthStart(k), n) = MonthStart(j)
                        /\ k - n < j /\ j <= k /\ j % n = 0
<1>1. floorInBase(k, n) \in Int /\ k - n < floorInBase(k, n) /\ floorInBase(k, n) <= k
      /\ floorInBase(k, n) % n = 0
  BY DEF floorInBase
<1>2. FloorMonths(MonthStart(k), n) = MonthStart(floorInBase(k, n))
  BY <1>1, FromStartToStart DEF FloorMonths
<1> QED BY <1>1, <1>2

\* The same where the step may not call for it.
LEMMA FloorMonthsIf ==
  ASSUME NEW k \in Int, NEW n \in {3, 6, 12}, NEW c
  PROVE  \E j \in Int :
           /\ (IF c THEN FloorMonths(MonthStart(k), n) ELSE MonthStart(k)) = MonthStart(j)
           /\ j <= k /\ k - j <= (IF c THEN n - 1 ELSE 0) /\ (c => j % n = 0)
<1>1. CASE c
  <2>1. PICK j \in Int : /\ FloorMonths(MonthStart(k), n) = MonthStart(j)
                         /\ k - n < j /\ j <= k /\ j % n = 0
    BY FloorMonthsOfStart, Zenon
  <2>2. k - j <= n - 1
    BY <2>1, SMT
  <2> QED BY <1>1, <2>1, <2>2, Zenon
<1>2. CASE ~c
  <2>1. k <= k /\ k - k <= 0
    BY SMT
  <2> QED BY <1>2, <2>1, Zenon
<1> QED BY <1>1, <1>2, Zenon

\* An earlier month with the day kept: not later, and not before that month.
LEMMA SetMonthBack ==
  ASSUME NEW t \in Int, NEW j \in Int, j <= MonthOf(t)
  PROVE  LET x == SetMonth(t, j)
         IN  x \in Int /\ x <= t /\ MonthOf(x) \in Int /\ j <= MonthOf(x) /\ MonthOf(x) <= MonthOf(t)
<1> DEFINE k == MonthOf(t)
           x == SetMonth(t, j)
           m == MonthOf(x)
<1>1. k \in Int /\ MonthStart(k) \in Int /\ MonthStart(k) <= t /\ t < MonthStart(k + 1)
  BY MonthOfIs
<1>2. MonthStart(j) \in Int /\ MonthStart(j) <= MonthStart(k)
  BY <1>1, MonthsRise
<1>3. x = MonthStart(j) + (t - MonthStart(k))
  BY DEF SetMonth
<1>4. x \in Int /\ MonthStart(j) <= x /\ x <= t
  <2> HIDE DEF x, k
  <2> QED BY <1>1, <1>2, <1>3
<1>5. m \in Int /\ MonthStart(m) <= x /\ x < MonthStart(m + 1)
  BY <1>4, MonthOfIs
<1> HIDE DEF k, x, m
<1>6. /\ m + 1 <= j => MonthStart(m + 1) <= MonthStart(j)
      /\ k + 1 <= m => MonthStart(k + 1) <= MonthStart(m)
      /\ MonthStart(m + 1) \in Int /\ MonthStart(k + 1) \in Int /\ MonthStart(m) \in Int
  BY <1>1, <1>5, MonthsRise
<1>7. j <= m /\ m <= k
  BY <1>1, <1>2, <1>4, <1>5, <1>6
<1> QED BY <1>4, <1>5, <1>7 DEF k, x, m

\* The month is reset to a multiple of these.
ResetMonths(step) ==
  CASE step >= timeUnitSize.year -> 12
    [] step >= 6 * timeUnitSize.month /\ step < timeUnitSize.year -> 6
    [] OTHER -> 3

\* What is left to reset when a step is as long as a quarter of a month, or longer.
LEMMA FirstOfLongStep ==
  ASSUME NEW t, NEW size, NEW step \in Nat, step = StepOf(size), step >= 1296000,
         RoundedDown(t, size) \in Int
  PROVE  LET start == MonthStart(MonthOf(RoundedDown(t, size)))
             months == ResetMonths(step)
         IN  FirstTick(t, size) = IF step >= 2 * timeUnitSize.month THEN FloorMonths(start, months) ELSE start
<1> DEFINE r == RoundedDown(t, size)
           start == MonthStart(MonthOf(r))
<1>1. SetDateFirst(r - (r % Day)) = start
  BY ResetToMonth
<1>2. step >= Day /\ step >= 4 * Day
  BY DEF Day, Hour, Minute, Second
<1> HIDE DEF r, start
<1> QED BY <1>1, <1>2 DEF FirstTick, ResetMonths, r, start

\* The months to a tick.
MonthsOf(size) == (IF size[2] = "year" THEN 12 ELSE 1) * (size[1] \div 4)

LongSizes ==
  {<<4, "month">>, <<8, "month">>, <<12, "month">>, <<24, "month">>,
   <<4, "year">>, <<8, "year">>, <<20, "year">>, <<40, "year">>}

LEMMA LongIs ==
  ASSUME NEW size \in LongSizes
  PROVE  /\ MonthsOf(size) \in {1, 2, 3, 6, 12, 24, 60, 120}
         /\ size[2] = "month" => /\ MonthsOf(size) \in {1, 2, 3, 6} /\ size[1] \div 4 = MonthsOf(size)
                                 /\ StepOf(size) = MonthsOf(size) * timeUnitSize.month
         /\ size[2] # "month" => /\ size[2] = "year" /\ MonthsOf(size) = 3 * size[1]
                                 /\ size[1] \div 4 \in {1, 2, 5, 10}
                                 /\ MonthsOf(size) = 12 * (size[1] \div 4)
                                 /\ StepOf(size) >= timeUnitSize.year /\ StepOf(size) \in Nat
<1>1. CASE size \in {<<4, "month">>, <<8, "month">>, <<12, "month">>, <<24, "month">>}
  BY <1>1, UnitsAre, SMT DEF StepOf, MonthsOf
<1>2. CASE size \in {<<4, "year">>, <<8, "year">>, <<20, "year">>, <<40, "year">>}
  BY <1>2, UnitsAre, SMT DEF StepOf, MonthsOf
<1> QED BY <1>1, <1>2, SMT DEF LongSizes

\* The first tick of a size of months or years: the start of a month that divides the
\* year, of January if it is years, a few ticks before the time at most.
LEMMA LongFirst ==
  ASSUME NEW t \in Int, NEW size \in LongSizes
  PROVE  \E j \in Int : /\ FirstTick(t, size) = MonthStart(j)
                        /\ j <= MonthOf(t) /\ 2 * (MonthOf(t) - j) <= 5 * MonthsOf(size)
                        /\ size[2] = "year" => j % 12 = 0
<1> DEFINE k == MonthOf(t)
           r == RoundedDown(t, size)
           m == MonthsOf(size)
           step == StepOf(size)

<1>1. k \in Int
  BY MonthOfIs, SMT
<1>2. r \in Int /\ MonthOf(r) \in Int /\ k - m < MonthOf(r) /\ MonthOf(r) <= k
  <2>1. CASE size[2] = "month" /\ m = 1
    <3>1. r = t
      <4>1. ~(size[1] \div 4 > 1)
        BY <2>1, LongIs, SMT
      <4> QED BY <2>1, <4>1, Zenon DEF RoundedDown
    <3> QED BY <1>1, <2>1, <3>1, SMT
  <2>2. CASE size[2] = "month" /\ m # 1
    <3>1. size[1] \div 4 = m /\ m \in {2, 3, 6}
      BY <2>2, LongIs, SMT
    <3> HIDE DEF m, k
    <3>2. m > 1
      BY <3>1, SMT
    <3>3. r = SetMonth(t, floorInBase(k, m))
      BY <2>2, <3>1, <3>2, Zenon DEF RoundedDown, FloorMonths, k
    <3>4. floorInBase(k, m) \in Int /\ k - m < floorInBase(k, m) /\ floorInBase(k, m) <= k
      BY <1>1, <3>1, SMT DEF floorInBase
    <3>5. /\ SetMonth(t, floorInBase(k, m)) \in Int
          /\ MonthOf(SetMonth(t, floorInBase(k, m))) \in Int
          /\ floorInBase(k, m) <= MonthOf(SetMonth(t, floorInBase(k, m)))
          /\ MonthOf(SetMonth(t, floorInBase(k, m))) <= k
      BY <3>4, SetMonthBack, SMT DEF k
    <3> QED BY <1>1, <3>1, <3>3, <3>4, <3>5, SMT
  <2>3. CASE size[2] # "month"
    <3> DEFINE n == size[1] \div 4
               b == 12 * (floorInBase(YearZero + k \div 12, n) - YearZero) + (k % 12)
    <3>1. n \in {1, 2, 5, 10} /\ m = 12 * n /\ size[2] = "year"
      BY <2>3, LongIs, SMT
    <3>2. r = SetMonth(t, b)
      BY <3>1, Zenon DEF RoundedDown
    <3> HIDE DEF k, n, m
    <3>3. b \in Int /\ k - m < b /\ b <= k
      BY <1>1, <3>1, SMT DEF floorInBase, YearZero
    <3> HIDE DEF b
    <3>4. /\ SetMonth(t, b) \in Int /\ MonthOf(SetMonth(t, b)) \in Int
          /\ b <= MonthOf(SetMonth(t, b)) /\ MonthOf(SetMonth(t, b)) <= k
      BY <3>3, SetMonthBack, SMT DEF k
    <3> QED BY <1>1, <3>1, <3>2, <3>3, <3>4, SMT
  <2> QED BY <2>1, <2>2, <2>3, SMT
<1> DEFINE i0 == MonthOf(r)
           start == MonthStart(i0)
           months == ResetMonths(step)
           first == IF step >= 2 * timeUnitSize.month THEN FloorMonths(start, months) ELSE start
<1>3. step \in Nat /\ step >= 1296000
  BY LongIs, UnitsAre, SMT
<1>4. FirstTick(t, size) = first
  BY <1>2, <1>3, FirstOfLongStep, SMT
<1>5. /\ months \in {3, 6, 12} /\ (step >= timeUnitSize.year => months = 12)
      /\ step < timeUnitSize.year => months \in {3, 6}
      /\ step < 6 * timeUnitSize.month => months = 3
  <2> HIDE DEF step
  <2> QED BY <1>3, UnitsAre, SMT DEF ResetMonths
<1> HIDE DEF step, k, r, m, first, months
<1>7. PICK i3 \in Int : /\ first = MonthStart(i3) /\ i3 <= i0
                        /\ i0 - i3 <= (IF step >= 2 * timeUnitSize.month THEN months - 1 ELSE 0)
                        /\ step >= 2 * timeUnitSize.month => i3 % months = 0
  <2> HIDE DEF i0
  <2>1. first = IF step >= 2 * timeUnitSize.month THEN FloorMonths(MonthStart(i0), months) ELSE MonthStart(i0)
    BY Zenon DEF first
  <2>2. i0 \in Int
    BY <1>2, Zenon DEF i0
  <2> QED BY <1>5, <2>1, <2>2, FloorMonthsIf, Zenon
<1>8. /\ i3 <= k /\ k - i3 <= (m - 1) + (IF step >= 2 * timeUnitSize.month THEN months - 1 ELSE 0)
  <2>1. m \in Int
    BY LongIs, SMT DEF m
  <2> HIDE DEF i0
  <2> QED BY <1>1, <1>2, <1>3, <1>5, <1>7, <2>1, UnitsAre, SMT DEF i0
<1>9. 2 * (k - i3) <= 5 * m
  <2>1. CASE size[2] = "month"
    <3>1. m \in {1, 2, 3, 6} /\ step = m * timeUnitSize.month
      BY <2>1, LongIs, SMT DEF m, step
    <3> QED BY <1>1, <1>5, <1>8, <3>1, UnitsAre, SMT
  <2>2. CASE size[2] # "month"
    <3>1. m \in {12, 24, 60, 120} /\ step >= timeUnitSize.year
      BY <2>2, LongIs, SMT DEF m, step
    <3> QED BY <1>1, <1>3, <1>5, <1>8, <3>1, UnitsAre, SMT
  <2> QED BY <2>1, <2>2, SMT
<1>10. size[2] = "year" => i3 % 12 = 0
  <2>1. size[2] = "year" => step >= timeUnitSize.year
    BY LongIs, SMT DEF step
  <2> QED BY <1>3, <1>5, <1>7, <2>1, UnitsAre, SMT
<1> QED BY <1>4, <1>7, <1>8, <1>9, <1>10, SMT DEF k, m

\* The first tick of a size of parts of a month: the start of the month.
LEMMA PartFirst ==
  ASSUME NEW t \in Int, NEW q \in {1, 2}
  PROVE  FirstTick(t, <<q, "month">>) = MonthStart(MonthOf(t))
<1> DEFINE size == <<q, "month">>
<1>1. StepOf(size) \in {1296000, 2592000}
  BY UnitsAre, SMT DEF StepOf
<1>2. RoundedDown(t, size) = t
  <2>1. size[2] = "month" /\ ~(size[1] \div 4 > 1)
    BY SMT
  <2> HIDE DEF size
  <2> QED BY <2>1, Zenon DEF RoundedDown
<1>3. t \in Int /\ StepOf(size) \in Nat /\ StepOf(size) >= 1296000
  BY <1>1, SMT
<1>4. /\ ~(StepOf(size) >= 2 * timeUnitSize.month) /\ ~(StepOf(size) >= 6 * timeUnitSize.month)
      /\ ~(StepOf(size) >= timeUnitSize.year)
  BY <1>1, UnitsAre, SMT
<1> HIDE DEF size
<1>5. FirstTick(t, size) = MonthStart(MonthOf(t))
  BY <1>2, <1>3, <1>4, FirstOfLongStep, SMT
<1> QED BY <1>5 DEF size

(* The list of ticks. *)

\* The ticks from a time on, as far as the list goes.
TicksFrom(g, t, size, n) ==
  g = [i \in 1 .. n |-> IF i = 1 THEN [v |-> FirstTick(t, size), carry |-> 0]
                                 ELSE Following(g[i - 1], size)]

\* There is such a list, as each tick depends on the one before it only.
LEMMA TicksExist ==
  ASSUME NEW t, NEW size, NEW n \in Nat
  PROVE  \E g : TicksFrom(g, t, size, n)
<1> DEFINE S == {j \in 0 .. n : \E g : TicksFrom(g, t, size, j)}
           first == [v |-> FirstTick(t, size), carry |-> 0]
<1>1. 0 \in S
  <2>1. \A i : i \notin 1 .. 0
    OBVIOUS
  <2>2. TicksFrom([i \in 1 .. 0 |-> 0], t, size, 0)
    BY <2>1 DEF TicksFrom
  <2> QED BY <2>2
<1>2. \A i \in 0 .. n - 1 : i \in S => i + 1 \in S
  <2> SUFFICES ASSUME NEW j \in 0 .. n - 1, j \in S
               PROVE  \E g : TicksFrom(g, t, size, j + 1)
    OBVIOUS
  <2>1. PICK f : TicksFrom(f, t, size, j)
    OBVIOUS
  <2> HIDE DEF first, S
  <2> DEFINE g == [i \in 1 .. j + 1 |-> IF i = 1 THEN first ELSE Following(f[i - 1], size)]
  <2>2. ASSUME NEW i \in 1 .. j PROVE g[i] = f[i]
    <3>1. i \in 1 .. j + 1
      OBVIOUS
    <3>2. f[i] = IF i = 1 THEN first ELSE Following(f[i - 1], size)
      BY <2>1 DEF TicksFrom, first
    <3> QED BY <3>1, <3>2
  <2>3. ASSUME NEW i \in 1 .. j + 1, i # 1 PROVE g[i - 1] = f[i - 1]
    <3>1. i - 1 \in 1 .. j
      BY <2>3
    <3> HIDE DEF g
    <3> QED BY <2>2, <3>1
  <2>4. \A i \in 1 .. j + 1 : (IF i = 1 THEN first ELSE Following(f[i - 1], size))
                                = IF i = 1 THEN first ELSE Following(g[i - 1], size)
    <3> HIDE DEF g
    <3> QED BY <2>3
  <2>5. g = [i \in 1 .. j + 1 |-> IF i = 1 THEN first ELSE Following(g[i - 1], size)]
    BY <2>4
  <2> HIDE DEF g
  <2>6. TicksFrom(g, t, size, j + 1)
    BY <2>5 DEF TicksFrom, first
  <2> QED BY <2>6
<1>3. n \in S
  <2> HIDE DEF S
  <2> QED BY <1>1, <1>2, BoundedInduction
<1> QED BY <1>3

\* The ticks up to the first at the end of the range.
TicksUntil(g, last, min, max, size) ==
  /\ g[1] = [v |-> FirstTick(min + ZoneOffset, size), carry |-> 0]
  /\ \A i \in 2 .. 16 : g[i] = Following(g[i - 1], size)
  /\ TimeTicks(min, max, size) = [i \in 1 .. last |-> g[i].v - ZoneOffset]
  /\ \A i \in 1 .. 16 : g[i].v >= max + ZoneOffset => last <= i
  /\ last = 16 \/ g[last].v >= max + ZoneOffset

\* The generator's list is such a one.
LEMMA TimeTicksAre ==
  ASSUME NEW min, NEW max, NEW size
  PROVE  \E g : \E last \in 1 .. 16 : TicksUntil(g, last, min, max, size)
<1> DEFINE t == min + ZoneOffset
           g == CHOOSE h : TicksFrom(h, t, size, 16)
           ends == {i \in 1 .. 16 : g[i].v >= max + ZoneOffset} \cup {16}
           last == Min(ends)
<1>1. TicksFrom(g, t, size, 16)
  <2>1. 16 \in Nat
    OBVIOUS
  <2>2. \E h : TicksFrom(h, t, size, 16)
    BY <2>1, TicksExist
  <2> QED BY <2>2
<1>2. TimeTicks(min, max, size) = [i \in 1 .. last |-> g[i].v - ZoneOffset]
  BY DEF TimeTicks, MaxTicks, TicksFrom
<1> HIDE DEF g
<1>3. g[1] = [v |-> FirstTick(t, size), carry |-> 0]
      /\ \A i \in 2 .. 16 : g[i] = Following(g[i - 1], size)
  <2>1. \A i \in 1 .. 16 : g[i] = IF i = 1 THEN [v |-> FirstTick(t, size), carry |-> 0]
                                   ELSE Following(g[i - 1], size)
    BY <1>1 DEF TicksFrom
  <2>2. 1 \in 1 .. 16 /\ \A i \in 2 .. 16 : i \in 1 .. 16 /\ i # 1
    OBVIOUS
  <2> HIDE DEF t
  <2> QED BY <2>1, <2>2, Zenon
<1>4. last \in ends /\ \A i \in ends : last <= i
  <2>1. 16 \in Nat /\ ends # {} /\ \A i \in ends : i \in Int /\ -16 <= i /\ i <= 16
    OBVIOUS
  <2> HIDE DEF ends
  <2> QED BY <2>1, BoundedExtremes
<1>5. last \in 1 .. 16 /\ (last = 16 \/ g[last].v >= max + ZoneOffset)
  <2> HIDE DEF last
  <2> QED BY <1>4
<1>6. \A i \in 1 .. 16 : g[i].v >= max + ZoneOffset => last <= i
  <2> HIDE DEF last
  <2> QED BY <1>4
<1> HIDE DEF last
<1>7. TicksUntil(g, last, min, max, size)
  BY <1>2, <1>3, <1>5, <1>6 DEF TicksUntil
<1> QED BY <1>5, <1>7

\* Where the ticks of a size lie: on whole units, at the start of a month or of a year.
Aligned(v, size) ==
  IF size \in LongSizes
  THEN \E k \in Int : v = MonthStart(k) /\ (size[2] = "year" => k % 12 = 0)
  ELSE v % Grain(size) = 0

\* A dozen ticks that rise from a time, or before it, to another, or beyond.
Dozen(g, t, end, size) ==
  /\ \A i \in 1 .. 12 : g[i].v \in Int /\ Aligned(g[i].v, size)
  /\ \A i \in 2 .. 12 : g[i - 1].v < g[i].v
  /\ g[1].v <= t /\ end <= g[12].v

\* The ticks of the clock and of days: one step after the other.
LEMMA ClockDozen ==
  ASSUME NEW g, NEW t \in Int, NEW size \in ClockSizes, NEW range \in Nat, range <= 8 * StepOf(size),
         g[1] = [v |-> FirstTick(t, size), carry |-> 0],
         \A i \in 2 .. 16 : g[i] = Following(g[i - 1], size)
  PROVE  Dozen(g, t, t + range, size)
<1> DEFINE f == FirstTick(t, size)
           step == StepOf(size)
           at(i) == [v |-> f + i * step, carry |-> 0]
           S == {i \in 0 .. 11 : g[i + 1] = at(i)}
<1>1. f \in Int /\ f <= t /\ t < f + step /\ f % Grain(size) = 0
  BY ClockFirst
<1>2. step \in Nat \ {0} /\ step % Grain(size) = 0
  BY ClockSteps
<1>3. \A d : Following(d, size) = [d EXCEPT !.v = @ + step]
  <2>1. size[2] # "month" /\ size[2] # "year"
    BY ClockIs
  <2> QED BY <2>1, Zenon DEF Following
<1> HIDE DEF f, step
<1>4. 0 \in S
  <2>1. g[0 + 1] = at(0)
    BY <1>1, <1>2 DEF f
  <2> QED BY <2>1
<1>5. \A i \in 0 .. 11 - 1 : i \in S => i + 1 \in S
  <2> SUFFICES ASSUME NEW i \in 0 .. 10, g[i + 1] = at(i) PROVE g[i + 1 + 1] = at(i + 1)
    OBVIOUS
  <2>1. i + 1 + 1 \in 2 .. 16 /\ i + 1 + 1 - 1 = i + 1
    OBVIOUS
  <2>2. g[i + 1 + 1] = Following(g[i + 1], size)
    BY <2>1
  <2>3. g[i + 1 + 1] = [v |-> (f + i * step) + step, carry |-> 0]
    BY <1>3, <2>2
  <2>4. (f + i * step) + step = f + (i + 1) * step
    BY <1>1, <1>2
  <2> QED BY <2>3, <2>4
<1>6. \A i \in 1 .. 12 : g[i].v = f + (i - 1) * step
  <2>1. 0 .. 11 \subseteq S
    <3>1. 11 \in Nat
      OBVIOUS
    <3> HIDE DEF S
    <3> QED BY <1>4, <1>5, <3>1, BoundedInduction
  <2> SUFFICES ASSUME NEW i \in 1 .. 12 PROVE g[i].v = f + (i - 1) * step
    OBVIOUS
  <2>2. i - 1 \in 0 .. 11 /\ i - 1 + 1 = i
    OBVIOUS
  <2>3. g[i - 1 + 1] = at(i - 1)
    BY <2>1, <2>2
  <2> QED BY <2>2, <2>3
<1>7. Grain(size) \in {2, 120, 172800} /\ size \notin LongSizes
  <2>1. Grain(size) \in {2, 120, 172800}
    BY DEF Grain, Day, Hour, Minute, Second
  <2>2. size \notin LongSizes
    BY ClockIs DEF LongSizes
  <2> QED BY <2>1, <2>2
<1>8. ASSUME NEW i \in 1 .. 12 PROVE g[i].v \in Int /\ Aligned(g[i].v, size)
  <2> DEFINE c == Grain(size)
             a == f \div c
             b == step \div c
  <2>1. a \in Int /\ b \in Int /\ f = a * c /\ step = b * c
    BY <1>1, <1>2, <1>7
  <2>2. c \in {2, 120, 172800}
    BY <1>7
  <2> HIDE DEF a, b, c
  <2>3. f + (i - 1) * step = (a + (i - 1) * b) * c /\ a + (i - 1) * b \in Int
    <3>1. i \in {1,2,3,4,5,6,7,8,9,10,11,12}
      OBVIOUS
    <3> QED BY <2>1, <2>2, <3>1
  <2> DEFINE e == a + (i - 1) * b
  <2>4. e \in Int /\ g[i].v = e * c
    BY <1>6, <2>3
  <2> HIDE DEF e
  <2>5. (e * c) % c = 0 /\ e * c \in Int
    BY <2>2, <2>4
  <2> QED BY <1>7, <2>4, <2>5 DEF Aligned, c
<1>9. ASSUME NEW i \in 2 .. 12 PROVE g[i - 1].v < g[i].v
  <2>1. i \in {2,3,4,5,6,7,8,9,10,11,12}
    OBVIOUS
  <2>2. g[i - 1].v = f + (i - 1 - 1) * step /\ g[i].v = f + (i - 1) * step
    BY <1>6
  <2> QED BY <1>1, <1>2, <2>1, <2>2
<1>10. g[1].v <= t /\ t + range <= g[12].v
  <2>1. g[1].v = f + 0 * step /\ g[12].v = f + 11 * step
    BY <1>6
  <2>2. range <= 8 * step
    BY DEF step
  <2> QED BY <1>1, <1>2, <2>1, <2>2
<1> QED BY <1>8, <1>9, <1>10 DEF Dozen

\* Hours split into whole days and the hours carried on.
LEMMA HoursSplit ==
  ASSUME NEW n \in Int, NEW t, t = n * Hour
  PROVE  /\ t - (t % Day) \in Int /\ (t - (t % Day)) % Day = 0
         /\ (t % Day) \div Hour \in 0 .. 23 /\ t - (t % Day) > t - Day
         /\ (t - (t % Day)) + ((t % Day) \div Hour) * Hour = t
<1>1. PICK a \in Int, b \in 0 .. 23 : n = 24 * a + b
  <2>1. n \div 24 \in Int /\ n % 24 \in 0 .. 23 /\ n = 24 * (n \div 24) + (n % 24)
    BY SMT DEF Day, Hour, Minute, Second
  <2> QED BY <2>1, Zenon
<1>2. t = Day * a + Hour * b
  BY <1>1, SMT DEF Day, Hour, Minute, Second
<1>3. t % Day = Hour * b
  BY <1>1, <1>2, SMT DEF Day, Hour, Minute, Second
<1>4. (Hour * b) \div Hour = b
  BY <1>1, SMT DEF Day, Hour, Minute, Second
<1>5. (Day * a) % Day = 0
  BY SMT DEF Day, Hour, Minute, Second
<1>6. t - (t % Day) = Day * a
  BY <1>1, <1>2, <1>3, SMT DEF Day, Hour, Minute, Second
<1>7. t - (t % Day) > t - Day
  BY <1>1, <1>2, <1>3, SMT DEF Day, Hour, Minute, Second
<1> QED BY <1>1, <1>2, <1>3, <1>4, <1>5, <1>6, <1>7, SMT DEF Day, Hour, Minute, Second

\* A quarter of a month on from the i-th tick, a day and hours, or two quarters.
QuartersOn(f, q, i, x, c, hours, on) ==
  /\ f \in Int /\ q \in {1, 2} /\ i \in 0 .. 10 /\ x \in Int /\ x % Day = 0
  /\ c \in 0 .. 23 /\ hours \in 168 .. 186 /\ x + c * Hour >= f + 7 * q * Day * i
  /\ on = x + c * Hour + (hours * Hour) * q

LEMMA HoursOn ==
  ASSUME NEW f, NEW q, NEW i, NEW x, NEW c, NEW hours, NEW on,
         QuartersOn(f, q, i, x, c, hours, on)
  PROVE  /\ on \in Int /\ on >= x + 7 * Day /\ on >= f + 7 * q * Day * (i + 1)
         /\ on = (on \div Hour) * Hour
<1> USE DEF QuartersOn
<1>1. PICK days \in Int : x = days * Day
  <2>1. x \div Day \in Int /\ x = (x \div Day) * Day
    BY SMT DEF Day, Hour, Minute, Second
  <2> QED BY <2>1, Zenon
<1>2. on = (24 * days + c + hours * q) * Hour /\ 24 * days + c + hours * q \in Int
  BY <1>1, SMT DEF Day, Hour, Minute, Second
<1>3. on \in Int /\ on = (on \div Hour) * Hour
  <2> DEFINE n == 24 * days + c + hours * q
  <2>1. n \in Int /\ on = n * Hour
    BY <1>2
  <2> HIDE DEF n
  <2>2. n * Hour \in Int /\ (n * Hour) \div Hour = n
    BY <2>1, SMT DEF Hour, Minute, Second
  <2> QED BY <2>1, <2>2, Zenon
<1>4. CASE q = 1
  <2>1. on >= x + 7 * Day /\ on >= f + 7 * 1 * Day * (i + 1)
    BY <1>4, SMT DEF Day, Hour, Minute, Second
  <2> QED BY <1>3, <1>4, <2>1
<1>5. CASE q = 2
  <2>1. on = x + c * Hour + (hours * Hour) * 2 /\ x + c * Hour >= f + 7 * 2 * Day * i
    BY <1>5
  <2>2. on >= x + 7 * Day /\ on >= f + 7 * 2 * Day * (i + 1)
    BY <2>1, SMT DEF Day, Hour, Minute, Second
  <2> QED BY <1>3, <1>5, <2>2
<1> QED BY <1>4, <1>5

\* The ticks of parts of a month: a week or two at a time, at least, the hours that are
\* cut off carried on.
LEMMA PartDozen ==
  ASSUME NEW g, NEW t \in Int, NEW q \in {1, 2}, NEW range \in Nat, range <= 45 * q * Day,
         g[1] = [v |-> FirstTick(t, <<q, "month">>), carry |-> 0],
         \A i \in 2 .. 16 : g[i] = Following(g[i - 1], <<q, "month">>)
  PROVE  Dozen(g, t, t + range, <<q, "month">>)
<1> DEFINE size == <<q, "month">>
           f == FirstTick(t, size)
           Part(i) == /\ g[i + 1].v \in Int /\ g[i + 1].carry \in 0 .. 23
                      /\ g[i + 1].v % Day = 0
                      /\ g[i + 1].v + g[i + 1].carry * Hour >= f + 7 * q * Day * i
                      /\ i > 0 => g[i].v < g[i + 1].v
           S == {i \in 0 .. 11 : Part(i)}
<1>1. f \in Int /\ f <= t /\ t < f + 31 * Day /\ f % Day = 0
  <2>1. f = MonthStart(MonthOf(t)) /\ MonthOf(t) \in Int /\ f <= t /\ t < MonthStart(MonthOf(t) + 1)
    BY PartFirst, MonthOfIs
  <2> DEFINE k == MonthOf(t)
  <2> HIDE DEF k
  <2>2. f = MonthStart(k) /\ k \in Int /\ t < MonthStart(k + 1)
    BY <2>1 DEF k
  <2>3. PICK d \in 28 .. 31 : MonthStart(k + 1) = MonthStart(k) + d * Day
    BY <2>2, MonthLength
  <2>4. MonthStart(k) \in Int /\ MonthStart(k) % Day = 0
    BY <2>2, FromStartToStart
  <2> HIDE DEF f
  <2> QED BY <2>1, <2>2, <2>3, <2>4, SMT DEF Day, Hour, Minute, Second
<1>2. \A d : Following(d, size) = PartOfMonthOn(d, size)
  <2>1. size[2] = "month" /\ size[2] # "year" /\ size[1] < 4 /\ ~(size[1] >= 4)
    BY SMT DEF Day, Hour, Minute, Second
  <2> HIDE DEF size
  <2> QED BY <2>1, Zenon DEF Following
<1> HIDE DEF f
<1>3. 0 \in S
  <2>1. g[0 + 1].v = f /\ g[0 + 1].carry = 0
    BY DEF f
  <2>2. Part(0)
    <3> DEFINE x == g[0 + 1].v
               c == g[0 + 1].carry
    <3>1. x \in Int /\ c \in 0 .. 23 /\ x % Day = 0 /\ x = f /\ c = 0
      BY <1>1, <2>1
    <3> HIDE DEF x, c
    <3>2. 7 * q * Day * 0 = 0 /\ c * Hour = 0
      BY <3>1, SMT DEF Day, Hour, Minute, Second
    <3>3. x + c * Hour >= f + 7 * q * Day * 0
      BY <1>1, <3>1, <3>2
    <3>4. /\ x \in Int /\ c \in 0 .. 23 /\ x % Day = 0
          /\ x + c * Hour >= f + 7 * q * Day * 0
      BY <3>1, <3>3
    <3>5. ~(0 > 0)
      OBVIOUS
    <3> QED BY <3>4, <3>5, Zenon DEF x, c
  <2> HIDE DEF Part
  <2> QED BY <2>2
<1>4. ASSUME NEW i \in 0 .. 11 - 1, Part(i) PROVE Part(i + 1)
  <2> DEFINE d == g[i + 1]
             k == MonthOf(d.v)
             length == (MonthStart(k + 1) - MonthStart(k)) \div 4
             on == d.v + d.carry * Hour + length * q
             next == g[i + 1 + 1]
  <2>1. next = Following(d, size)
    <3>1. i + 1 + 1 \in 2 .. 16 /\ i + 1 + 1 - 1 = i + 1
      BY SMT DEF Day, Hour, Minute, Second
    <3> HIDE DEF Part
    <3> QED BY <3>1
  <2>2. next = [v |-> on - (on % Day), carry |-> (on % Day) \div Hour]
    <3>1. size[1] = q
      OBVIOUS
    <3> HIDE DEF size, next, d, Part
    <3> QED BY <1>2, <2>1, <3>1, Zenon DEF PartOfMonthOn
  <2>3. PICK hours \in 168 .. 186 : length = hours * Hour
    <3>1. k \in Int
      BY <1>4, MonthOfIs
    <3> HIDE DEF k
    <3>2. PICK days \in 28 .. 31 : MonthStart(k + 1) = MonthStart(k) + days * Day
      BY <3>1, MonthLength
    <3>3. MonthStart(k) \in Int
      BY <3>1, MonthLength
    <3>4. length = (days * Day) \div 4
      BY <3>2, <3>3, SMT DEF Day, Hour, Minute, Second
    <3>5. length = days * (6 * Hour)
      BY <3>4, SMT DEF Day, Hour, Minute, Second
    <3> HIDE DEF length
    <3>6. length = (6 * days) * Hour /\ 6 * days \in 168 .. 186
      BY <3>5, SMT DEF Day, Hour, Minute, Second
    <3> DEFINE hours == 6 * days
    <3> HIDE DEF hours
    <3> QED BY <3>6 DEF hours
  <2>4. next.v = on - (on % Day) /\ next.carry = (on % Day) \div Hour
    <3> HIDE DEF next, on
    <3>1. next.v = on - (on % Day) /\ next.carry = (on % Day) \div Hour
      BY <2>2, Zenon
    <3> QED BY <3>1, SMT DEF Day, Hour, Minute, Second
  <2>5. d.v \in Int /\ d.carry \in 0 .. 23 /\ d.v % Day = 0
        /\ d.v + d.carry * Hour >= f + 7 * q * Day * i
    BY <1>4
  <2>6. on = d.v + d.carry * Hour + length * q
    BY SMT DEF Hour, Minute, Second
  <2>7. next.v \in Int /\ next.carry \in 0 .. 23 /\ next.v % Day = 0
        /\ next.v + next.carry * Hour >= f + 7 * q * Day * (i + 1)
        /\ d.v < next.v
    <3> HIDE DEF next, on, length, d, f
    <3>0. i \in 0 .. 10 /\ on = d.v + d.carry * Hour + (hours * Hour) * q
      BY <2>3, <2>6, SMT
    <3>1. /\ on \in Int /\ on >= d.v + 7 * Day /\ on >= f + 7 * q * Day * (i + 1)
          /\ on = (on \div Hour) * Hour
      <4> DEFINE x == d.v
                 c == d.carry
      <4>1. /\ x \in Int /\ x % Day = 0 /\ c \in 0 .. 23 /\ x + c * Hour >= f + 7 * q * Day * i
            /\ on = x + c * Hour + (hours * Hour) * q /\ i \in 0 .. 10 /\ f \in Int
        BY <1>1, <2>5, <3>0, Zenon
      <4> HIDE DEF x, c
      <4>2. QuartersOn(f, q, i, x, c, hours, on)
        BY <4>1, Zenon DEF QuartersOn
      <4>3. on \in Int /\ on >= x + 7 * Day /\ on >= f + 7 * q * Day * (i + 1)
        BY <4>2, HoursOn, Zenon
      <4>4. on = (on \div Hour) * Hour
        BY <4>2, HoursOn, Zenon
      <4> QED BY <4>3, <4>4, Zenon DEF x, c
    <3>2. on \in Int /\ on >= d.v + 7 * Day /\ on >= f + 7 * q * Day * (i + 1)
      BY <3>1, Zenon
    <3>3. /\ on - (on % Day) \in Int /\ (on - (on % Day)) % Day = 0
          /\ (on % Day) \div Hour \in 0 .. 23 /\ on - (on % Day) > on - Day
          /\ (on - (on % Day)) + ((on % Day) \div Hour) * Hour = on
      <4>1. on \div Hour \in Int
        BY <3>1, SMT DEF Hour, Minute, Second
      <4> DEFINE n == on \div Hour
      <4>2. on = n * Hour /\ n \in Int
        BY <3>1, <4>1, Zenon
      <4> HIDE DEF n
      <4> QED BY <4>2, HoursSplit, Zenon
    <3>4. next.v \in Int /\ next.carry \in 0 .. 23 /\ next.v % Day = 0
          /\ next.v + next.carry * Hour = on /\ next.v > on - Day
      BY <2>4, <3>3, SMT DEF Day, Hour, Minute, Second
    <3>5. next.v + next.carry * Hour >= f + 7 * q * Day * (i + 1)
      BY <3>2, <3>4, Zenon
    <3>6. d.v < next.v
      <4> DEFINE x == d.v
                 y == next.v
      <4>1. x \in Int /\ y \in Int /\ on \in Int /\ on >= x + 7 * Day /\ y > on - Day
        BY <2>5, <3>2, <3>4, Zenon
      <4> HIDE DEF x, y
      <4>2. x < y
        BY <4>1, SMT DEF Day, Hour, Minute, Second
      <4> QED BY <4>2, Zenon DEF x, y
    <3> QED BY <3>4, <3>5, <3>6, Zenon
  <2> HIDE DEF d, next, f
  <2> QED BY <2>7, SMT DEF d, next, Day, Hour, Minute, Second
<1>5. \A i \in 0 .. 11 : Part(i)
  <2>1. 11 \in Nat
    OBVIOUS
  <2>2. \A i \in 0 .. 11 - 1 : i \in S => i + 1 \in S
    <3> HIDE DEF Part
    <3> QED BY <1>4
  <2>3. 0 .. 11 \subseteq S
    <3> HIDE DEF S
    <3> QED BY <1>3, <2>1, <2>2, BoundedInduction
  <2> HIDE DEF Part
  <2> QED BY <2>3
<1>6. \A i \in 1 .. 12 : Part(i - 1) /\ i - 1 + 1 = i
  <2> HIDE DEF Part
  <2> QED BY <1>5
<1>7. \A i \in 1 .. 12 : g[i].v \in Int /\ g[i].v % Day = 0
  BY <1>6
<1>8. size \notin LongSizes /\ Grain(size) = Day
  BY SMT DEF LongSizes, Grain, Day, Hour, Minute, Second
<1>9. \A i \in 2 .. 12 : g[i - 1].v < g[i].v
  <2> SUFFICES ASSUME NEW i \in 2 .. 12 PROVE g[i - 1].v < g[i].v
    OBVIOUS
  <2>1. i \in 1 .. 12 /\ i - 1 > 0
    BY SMT DEF Day, Hour, Minute, Second
  <2>2. Part(i - 1) /\ i - 1 + 1 = i
    BY <1>6, <2>1
  <2> QED BY <2>1, <2>2
<1>10. g[1].v <= t
  BY <1>1 DEF f
<1>11. t + range <= g[12].v
  <2>1. Part(11) /\ 11 + 1 = 12
    BY <1>5
  <2>2. /\ g[12].v \in Int /\ g[12].carry \in 0 .. 23
        /\ g[12].v + g[12].carry * Hour >= f + 77 * q * Day
    BY <1>1, <2>1, SMT DEF Day, Hour, Minute, Second
  <2>3. range <= 45 * q * Day
    BY SMT DEF Day, Hour, Minute, Second
  <2> HIDE DEF Part
  <2> QED BY <1>1, <2>2, <2>3, SMT DEF Day, Hour, Minute, Second
<1>12. \A i \in 1 .. 12 : Aligned(g[i].v, size)
  <2> HIDE DEF size, Part
  <2> QED BY <1>7, <1>8 DEF Aligned
<1> HIDE DEF size, Part, S
<1> QED BY <1>7, <1>9, <1>10, <1>11, <1>12 DEF Dozen, size

\* The ticks of months and of years: the starts of months, as far apart as the size.
LEMMA LongDozen ==
  ASSUME NEW g, NEW t \in Int, NEW size \in LongSizes, NEW range \in Nat,
         range <= 183 * MonthsOf(size) * Day,
         g[1] = [v |-> FirstTick(t, size), carry |-> 0],
         \A i \in 2 .. 16 : g[i] = Following(g[i - 1], size)
  PROVE  Dozen(g, t, t + range, size)
<1> DEFINE m == MonthsOf(size)
           k == MonthOf(t)
<1>1. PICK j \in Int : /\ FirstTick(t, size) = MonthStart(j)
                       /\ j <= MonthOf(t) /\ 2 * (MonthOf(t) - j) <= 5 * MonthsOf(size)
                       /\ size[2] = "year" => j % 12 = 0
  BY LongFirst
<1> DEFINE at(i) == [v |-> MonthStart(j + i * m), carry |-> 0]
           S == {i \in 0 .. 11 : g[i + 1] = at(i)}
<1>2. m \in {1, 2, 3, 6, 12, 24, 60, 120} /\ (size[2] = "year" => m \in {12, 24, 60, 120})
  <2>1. m \in {1, 2, 3, 6, 12, 24, 60, 120}
    BY LongIs
  <2>2. size[2] = "year" => m = 12 * (size[1] \div 4) /\ size[1] \div 4 \in {1, 2, 5, 10}
    BY LongIs, SMT
  <2> HIDE DEF m
  <2> QED BY <2>1, <2>2, SMT
<1>3. \A d : Following(d, size) = [d EXCEPT !.v = SetMonth(@, MonthOf(@) + m)]
  <2>1. CASE size[2] = "month"
    <3>1. size[1] >= 4 /\ ~(size[1] < 4) /\ size[1] \div 4 = m
      BY <2>1, LongIs, SMT DEF LongSizes
    <3> HIDE DEF m
    <3> QED BY <2>1, <3>1, Zenon DEF Following
  <2>2. CASE size[2] # "month"
    <3>1. size[2] = "year" /\ m = 3 * size[1]
      BY <2>2, LongIs, SMT
    <3> HIDE DEF m
    <3> QED BY <3>1, Zenon DEF Following
  <2> QED BY <2>1, <2>2
<1> HIDE DEF m, k
<1>4. 0 \in S
  <2>1. j + 0 * m = j
    BY <1>2
  <2>2. g[0 + 1] = at(0)
    BY <1>1, <2>1
  <2> QED BY <2>2
<1>5. \A i \in 0 .. 11 - 1 : i \in S => i + 1 \in S
  <2> SUFFICES ASSUME NEW i \in 0 .. 10, g[i + 1] = at(i) PROVE g[i + 1 + 1] = at(i + 1)
    OBVIOUS
  <2> DEFINE b == j + i * m
  <2>1. i + 1 + 1 \in 2 .. 16 /\ i + 1 + 1 - 1 = i + 1
    OBVIOUS
  <2>2. g[i + 1 + 1] = Following(g[i + 1], size)
    BY <2>1
  <2>3. b \in Int /\ b + m \in Int /\ b + m = j + (i + 1) * m
    BY <1>2
  <2>4. g[i + 1] = [v |-> MonthStart(b), carry |-> 0]
    OBVIOUS
  <2> HIDE DEF b, at
  <2>5. g[i + 1 + 1] = [v |-> SetMonth(MonthStart(b), MonthOf(MonthStart(b)) + m), carry |-> 0]
    BY <1>3, <2>2, <2>4
  <2>6. SetMonth(MonthStart(b), MonthOf(MonthStart(b)) + m) = MonthStart(b + m)
    BY <2>3, FromStartToStart
  <2> QED BY <2>3, <2>5, <2>6 DEF at
<1>6. \A i \in 1 .. 12 : g[i].v = MonthStart(j + (i - 1) * m)
  <2>1. 0 .. 11 \subseteq S
    <3>1. 11 \in Nat
      OBVIOUS
    <3> HIDE DEF S
    <3> QED BY <1>4, <1>5, <3>1, BoundedInduction
  <2> SUFFICES ASSUME NEW i \in 1 .. 12 PROVE g[i].v = MonthStart(j + (i - 1) * m)
    OBVIOUS
  <2>2. i - 1 \in 0 .. 11 /\ i - 1 + 1 = i
    OBVIOUS
  <2>3. g[i - 1 + 1] = at(i - 1)
    BY <2>1, <2>2
  <2> QED BY <2>2, <2>3
<1>7. ASSUME NEW i \in 1 .. 12
      PROVE  /\ j + (i - 1) * m \in Int
             /\ size[2] = "year" => (j + (i - 1) * m) % 12 = 0
  <2>1. i \in {1,2,3,4,5,6,7,8,9,10,11,12}
    OBVIOUS
  <2> QED BY <1>1, <1>2, <2>1
<1>8. \A i \in 1 .. 12 : g[i].v \in Int /\ Aligned(g[i].v, size)
  <2> SUFFICES ASSUME NEW i \in 1 .. 12 PROVE g[i].v \in Int /\ Aligned(g[i].v, size)
    OBVIOUS
  <2> DEFINE b == j + (i - 1) * m
  <2>1. b \in Int /\ g[i].v = MonthStart(b) /\ (size[2] = "year" => b % 12 = 0)
    BY <1>6, <1>7
  <2> HIDE DEF b
  <2> QED BY <2>1, MonthLength DEF Aligned
<1>9. \A i \in 2 .. 12 : g[i - 1].v < g[i].v
  <2> SUFFICES ASSUME NEW i \in 2 .. 12 PROVE g[i - 1].v < g[i].v
    OBVIOUS
  <2> DEFINE a == j + (i - 1 - 1) * m
             b == j + (i - 1) * m
  <2>1. i \in 1 .. 12 /\ i - 1 \in 1 .. 12
    OBVIOUS
  <2>2. a \in Int /\ b \in Int /\ g[i - 1].v = MonthStart(a) /\ g[i].v = MonthStart(b)
    BY <1>6, <1>7, <2>1
  <2>3. b = a + m
    BY <1>2
  <2> HIDE DEF a, b
  <2>4. MonthStart(a) + 28 * Day <= MonthStart(b) /\ MonthStart(a) \in Int /\ MonthStart(b) \in Int
    BY <1>2, <2>2, <2>3, MonthsRise
  <2> QED BY <2>2, <2>4, SMT DEF Day, Hour, Minute, Second
<1>10. g[1].v <= t /\ t + range <= g[12].v
  <2>1. /\ k \in Int /\ MonthStart(k) \in Int /\ MonthStart(k) <= t /\ t < MonthStart(k + 1)
        /\ MonthStart(k + 1) \in Int
    BY MonthOfIs, MonthLength DEF k
  <2>2. j <= k /\ 2 * (k - j) <= 5 * m /\ range <= 183 * m * Day
    BY <1>1 DEF k, m
  <2>3. g[1].v = MonthStart(j) /\ g[12].v = MonthStart(j + 11 * m)
    <3>1. g[1].v = MonthStart(j + 0 * m) /\ g[12].v = MonthStart(j + 11 * m) /\ j + 0 * m = j
      BY <1>2, <1>6
    <3> QED BY <3>1
  <2>4. MonthStart(j) <= MonthStart(k) /\ MonthStart(j) \in Int
    BY <2>1, <2>2, MonthsRise
  <2> DEFINE n == j + 11 * m - (k + 1)
  <2>5. n \in Nat /\ (k + 1) + n = j + 11 * m /\ 2 * n >= 17 * m - 2 /\ k + 1 \in Int
    BY <1>2, <2>1, <2>2
  <2> HIDE DEF n
  <2>6. MonthStart(k + 1) + 28 * Day * n <= MonthStart(j + 11 * m) /\ MonthStart(j + 11 * m) \in Int
    <3>1. MonthStart(k + 1) + 28 * Day * n <= MonthStart((k + 1) + n)
      BY <2>5, MonthsApart
    <3>2. (k + 1) + n \in Int
      BY <2>5
    <3> QED BY <2>5, <3>1, <3>2, MonthLength
  <2>7. 28 * Day * n >= 183 * m * Day /\ 28 * Day * n \in Int /\ 183 * m * Day \in Int
    BY <1>2, <2>5, SMT DEF Day, Hour, Minute, Second
  <2>8. t + range <= MonthStart(j + 11 * m)
    <3> DEFINE x == 28 * Day * n
               y == 183 * m * Day
               u == MonthStart(k + 1)
               w == MonthStart(j + 11 * m)
    <3>1. t < u /\ u + x <= w /\ x >= y /\ range <= y /\ x \in Int /\ y \in Int /\ u \in Int /\ w \in Int
      BY <2>1, <2>2, <2>6, <2>7
    <3> HIDE DEF x, y, u, w
    <3>2. t + range <= w
      BY <3>1, SMT
    <3> QED BY <3>2 DEF w
  <2> QED BY <2>1, <2>3, <2>4, <2>8
<1> QED BY <1>8, <1>9, <1>10 DEF Dozen

TimeSizes == ClockSizes \cup {<<1, "month">>, <<2, "month">>} \cup LongSizes

\* The size chosen has a dozen ticks over the range.
LEMMA DozenOfChosen ==
  ASSUME NEW g, NEW t \in Int, NEW range \in Nat \ {0}, range <= 30 * timeUnitSize.year,
         NEW size, size = ChooseTickSize(range, 4, 10 * Second),
         g[1] = [v |-> FirstTick(t, size), carry |-> 0],
         \A i \in 2 .. 16 : g[i] = Following(g[i - 1], size)
  PROVE  size \in TimeSizes /\ Dozen(g, t, t + range, size)
<1>1. \/ size \in ClockSizes /\ range <= 8 * StepOf(size)
      \/ \E q \in {1, 2} : PartSize(size, q) /\ range <= 45 * q * Day
      \/ \E n \in {1, 2, 3, 6} : MonthSize(size, n) /\ range <= 182 * n * Day
      \/ \E n \in {1, 2, 5, 10} : YearSize(size, n) /\ range <= 6 * n * 366 * Day
  BY SizeChosen
<1>2. CASE size \in ClockSizes /\ range <= 8 * StepOf(size)
  BY <1>2, ClockDozen DEF TimeSizes
<1>3. CASE \E q \in {1, 2} : PartSize(size, q) /\ range <= 45 * q * Day
  <2>1. PICK q \in {1, 2} : PartSize(size, q) /\ range <= 45 * q * Day
    BY <1>3
  <2>2. size = <<q, "month">>
    BY <2>1 DEF PartSize
  <2>3. size \in {<<1, "month">>, <<2, "month">>}
    BY <2>2
  <2>4. Dozen(g, t, t + range, <<q, "month">>)
    BY <2>1, <2>2, PartDozen, Zenon
  <2> QED BY <2>2, <2>3, <2>4 DEF TimeSizes
<1>4. CASE \E n \in {1, 2, 3, 6} : MonthSize(size, n) /\ range <= 182 * n * Day
  <2>1. PICK n \in {1, 2, 3, 6} : MonthSize(size, n) /\ range <= 182 * n * Day
    BY <1>4
  <2>2. size \in LongSizes /\ size[1] = 4 * n /\ size[2] = "month"
    BY <2>1, SMT DEF MonthSize, LongSizes
  <2>3. MonthsOf(size) = n
    BY <2>2, SMT DEF MonthsOf
  <2>4. range <= 183 * MonthsOf(size) * Day
    BY <2>1, <2>3, SMT DEF Day, Hour, Minute, Second
  <2> QED BY <2>2, <2>4, LongDozen DEF TimeSizes
<1>5. CASE \E n \in {1, 2, 5, 10} : YearSize(size, n) /\ range <= 6 * n * 366 * Day
  <2>1. PICK n \in {1, 2, 5, 10} : YearSize(size, n) /\ range <= 6 * n * 366 * Day
    BY <1>5
  <2>2. size \in LongSizes /\ size[1] = 4 * n /\ size[2] = "year"
    BY <2>1, SMT DEF YearSize, LongSizes
  <2>3. MonthsOf(size) = 12 * n
    BY <2>2, SMT DEF MonthsOf
  <2>4. range <= 183 * MonthsOf(size) * Day
    BY <2>1, <2>3, SMT DEF Day, Hour, Minute, Second
  <2> QED BY <2>2, <2>4, LongDozen DEF TimeSizes
<1> QED BY <1>1, <1>2, <1>3, <1>4, <1>5, Zenon

\* The ticks of times rise from one end of the range to the other, a dozen at most, and
\* lie where their size says.
LEMMA TimeTicksRise ==
  ASSUME NEW min \in Int, NEW max \in Int, min < max, max - min <= 30 * timeUnitSize.year,
         NEW size, size = ChooseTickSize(max - min, 4, 10 * Second)
  PROVE  /\ size \in TimeSizes
         /\ \E n \in 2 .. 12 :
              /\ DOMAIN TimeTicks(min, max, size) = 1 .. n
              /\ \A i \in 1 .. n : /\ TimeTicks(min, max, size)[i] \in Int
                                   /\ Aligned(TimeTicks(min, max, size)[i] + ZoneOffset, size)
              /\ \A i \in 2 .. n : TimeTicks(min, max, size)[i - 1] < TimeTicks(min, max, size)[i]
              /\ TimeTicks(min, max, size)[1] <= min /\ max <= TimeTicks(min, max, size)[n]
<1> DEFINE t == min + ZoneOffset
           range == max - min
           ticks == TimeTicks(min, max, size)
<1>0. t \in Int /\ range \in Nat \ {0} /\ ZoneOffset \in Int /\ t + range = max + ZoneOffset
  BY ZoneAssumption
<1>1. PICK g : \E last \in 1 .. 16 : TicksUntil(g, last, min, max, size)
  BY TimeTicksAre, Zenon
<1> PICK last \in 1 .. 16 : TicksUntil(g, last, min, max, size)
  BY <1>1, Zenon
<1>2. /\ g[1] = [v |-> FirstTick(t, size), carry |-> 0]
      /\ \A i \in 2 .. 16 : g[i] = Following(g[i - 1], size)
      /\ ticks = [i \in 1 .. last |-> g[i].v - ZoneOffset]
      /\ \A i \in 1 .. 16 : g[i].v >= max + ZoneOffset => last <= i
      /\ last = 16 \/ g[last].v >= max + ZoneOffset
  BY Zenon DEF TicksUntil
<1> HIDE DEF t, range, ticks
<1>3. size \in TimeSizes /\ Dozen(g, t, t + range, size)
  <2>1. range <= 30 * timeUnitSize.year /\ size = ChooseTickSize(range, 4, 10 * Second)
    BY DEF range
  <2> QED BY <1>0, <1>2, <2>1, DozenOfChosen
<1>4. /\ \A i \in 1 .. 12 : g[i].v \in Int /\ Aligned(g[i].v, size)
      /\ \A i \in 2 .. 12 : g[i - 1].v < g[i].v
      /\ g[1].v <= t /\ max + ZoneOffset <= g[12].v
  BY <1>0, <1>3 DEF Dozen
<1>5. last \in 2 .. 12
  <2>1. 12 \in 1 .. 16 /\ g[12].v >= max + ZoneOffset
    BY <1>0, <1>4
  <2>2. last <= 12
    BY <1>2, <2>1
  <2>3. ~(g[1].v >= max + ZoneOffset)
    BY <1>0, <1>4 DEF t
  <2>4. last # 1
    BY <1>2, <2>3
  <2> QED BY <2>2, <2>4
<1>6. \A i \in 1 .. last : i \in 1 .. 12 /\ ticks[i] = g[i].v - ZoneOffset
  <2>1. ticks = [i \in 1 .. last |-> g[i].v - ZoneOffset]
    BY <1>2
  <2> HIDE DEF ticks
  <2>2. \A i \in 1 .. last : ticks[i] = g[i].v - ZoneOffset
    BY <2>1, Zenon
  <2>3. \A i \in 1 .. last : i \in 1 .. 12
    BY <1>5
  <2> QED BY <2>2, <2>3, Zenon
<1>7. DOMAIN ticks = 1 .. last
  BY <1>2
<1>8. ASSUME NEW i \in 1 .. last
      PROVE  ticks[i] \in Int /\ Aligned(ticks[i] + ZoneOffset, size)
  <2>1. i \in 1 .. 12 /\ g[i].v \in Int /\ Aligned(g[i].v, size) /\ ticks[i] = g[i].v - ZoneOffset
    BY <1>4, <1>6
  <2> DEFINE v == g[i].v
  <2>2. v \in Int /\ Aligned(v, size) /\ ticks[i] = v - ZoneOffset
    BY <2>1
  <2> HIDE DEF v
  <2>3. ticks[i] \in Int /\ ticks[i] + ZoneOffset = v
    BY <1>0, <2>2
  <2> QED BY <2>2, <2>3
<1>9. ASSUME NEW i \in 2 .. last PROVE ticks[i - 1] < ticks[i]
  <2>1. i \in 2 .. 12 /\ i \in 1 .. last /\ i - 1 \in 1 .. last
    BY <1>5
  <2>2. ticks[i] = g[i].v - ZoneOffset /\ ticks[i - 1] = g[i - 1].v - ZoneOffset
        /\ g[i].v \in Int /\ g[i - 1].v \in Int
    BY <1>4, <1>6, <2>1
  <2>3. g[i - 1].v < g[i].v
    BY <1>4, <2>1
  <2> QED BY <1>0, <2>2, <2>3
<1>10. ticks[1] <= min /\ max <= ticks[last]
  <2>1. 1 \in 1 .. last /\ last \in 1 .. last /\ last # 16
    BY <1>5
  <2>2. /\ ticks[1] = g[1].v - ZoneOffset /\ ticks[last] = g[last].v - ZoneOffset
        /\ g[1].v \in Int /\ g[last].v \in Int
    BY <1>4, <1>6, <2>1
  <2>3. g[1].v <= min + ZoneOffset /\ g[last].v >= max + ZoneOffset
    BY <1>2, <1>4, <2>1 DEF t
  <2> QED BY <1>0, <2>2, <2>3
<1> QED BY <1>3, <1>5, <1>7, <1>8, <1>9, <1>10 DEF ticks

(* The labels of times. *)

Fields == <<"%Y", "%b", "%d", "%H", "%M", "%S">>

FinestField(label) == Max({i \in 1 .. 6 : \E f \in ToSet(label) : f[1] = Fields[i]})

\* A label of a time behind whose last field there are only zeros.
ExactTime(t, label) ==
  /\ t % Second = 0
  /\ \A i \in FinestField(label) + 1 .. 6 :
       Field(t, Fields[i]) = IF Fields[i] = "%d" THEN 1 ELSE 0

\* The finest field of a format, in the order of Fields.
FinestOf(fmt, c) ==
  /\ \E j \in 1 .. Len(fmt) : fmt[j] = Fields[c]
  /\ \A i \in c + 1 .. 6 : \A j \in 1 .. Len(fmt) : fmt[j] # Fields[i]

LEMMA FinestIs ==
  ASSUME NEW t, NEW fmt, NEW c \in 1 .. 6, Len(fmt) \in Nat, FinestOf(fmt, c)
  PROVE  FinestField(formatDate(t, fmt)) = c
<1> DEFINE label == formatDate(t, fmt)
           S == {i \in 1 .. 6 : \E f \in ToSet(label) : f[1] = Fields[i]}
<1>1. \A i \in 1 .. 6 : (\E f \in ToSet(label) : f[1] = Fields[i])
                          <=> \E j \in 1 .. Len(fmt) : fmt[j] = Fields[i]
  <2>1. label = [j \in 1 .. Len(fmt) |-> <<fmt[j], Field(t, fmt[j])>>]
    BY DEF formatDate
  <2>2. ToSet(label) = {<<fmt[j], Field(t, fmt[j])>> : j \in 1 .. Len(fmt)}
    <3> HIDE DEF label
    <3> QED BY <2>1 DEF ToSet
  <2> HIDE DEF label
  <2>3. \A j : <<fmt[j], Field(t, fmt[j])>>[1] = fmt[j]
    OBVIOUS
  <2> SUFFICES ASSUME NEW i \in 1 .. 6
               PROVE  (\E f \in ToSet(label) : f[1] = Fields[i])
                        <=> \E j \in 1 .. Len(fmt) : fmt[j] = Fields[i]
    OBVIOUS
  <2>4. ASSUME NEW f \in ToSet(label), f[1] = Fields[i]
        PROVE  \E j \in 1 .. Len(fmt) : fmt[j] = Fields[i]
    <3>1. PICK j \in 1 .. Len(fmt) : f = <<fmt[j], Field(t, fmt[j])>>
      BY <2>2, Zenon
    <3> QED BY <2>3, <2>4, <3>1, Zenon
  <2>5. ASSUME NEW j \in 1 .. Len(fmt), fmt[j] = Fields[i]
        PROVE  \E f \in ToSet(label) : f[1] = Fields[i]
    <3>1. <<fmt[j], Field(t, fmt[j])>> \in ToSet(label)
      BY <2>2, Zenon
    <3> QED BY <2>3, <2>5, <3>1, Zenon
  <2> QED BY <2>4, <2>5, Zenon
<1> HIDE DEF label
<1>2. c \in S
  BY <1>1 DEF FinestOf
<1>3. \A i \in S : i <= c
  <2> SUFFICES ASSUME NEW i \in S, i > c PROVE FALSE
    OBVIOUS
  <2>1. i \in 1 .. 6 /\ \E f \in ToSet(label) : f[1] = Fields[i]
    BY Zenon
  <2>2. \E j \in 1 .. Len(fmt) : fmt[j] = Fields[i]
    BY <1>1, <2>1, Zenon
  <2> HIDE DEF S
  <2>3. i \in c + 1 .. 6
    BY <2>1, SMT
  <2> QED BY <2>2, <2>3, Zenon DEF FinestOf
<1>4. S \in SUBSET (1 .. 6) /\ S # {} /\ 6 \in Nat
  BY <1>2
<1> HIDE DEF S
<1>5. Max(S) \in S /\ \A y \in S : Max(S) >= y
  BY <1>4, MaxIsGreatest
<1>6. Max(S) = c
  <2> DEFINE m == Max(S)
  <2>1. m \in 1 .. 6 /\ m >= c /\ m <= c
    BY <1>2, <1>3, <1>4, <1>5, Zenon
  <2> HIDE DEF m
  <2>2. m = c
    BY <2>1, SMT
  <2> QED BY <2>2 DEF m
<1> QED BY <1>6 DEF S, label, FinestField

\* The fields that are left out are those that a time on its grid has nothing in.
LEMMA ClockFields ==
  ASSUME NEW t \in Int
  PROVE  /\ t % Minute = 0 => t % Second = 0 /\ Field(t, "%S") = 0
         /\ t % Day = 0 => /\ t % Second = 0 /\ Field(t, "%S") = 0
                           /\ Field(t, "%M") = 0 /\ Field(t, "%H") = 0
<1>1. /\ Field(t, "%S") = (t % Minute) \div Second
      /\ Field(t, "%M") = (t % Hour) \div Minute
      /\ Field(t, "%H") = (t % Day) \div Hour
  BY Zenon DEF Field
<1>2. t % Minute = 0 => t % Second = 0
  BY SMT DEF Minute, Second
<1>3. t % Day = 0 => t % Hour = 0 /\ t % Minute = 0
  <2> SUFFICES ASSUME t % Day = 0 PROVE t % Hour = 0 /\ t % Minute = 0
    OBVIOUS
  <2>1. t = (t \div Day) * Day /\ t \div Day \in Int
    BY SMT DEF Day, Hour, Minute, Second
  <2> DEFINE d == t \div Day
  <2> HIDE DEF d
  <2>2. t = (24 * d) * Hour /\ t = (1440 * d) * Minute /\ d \in Int
    BY <2>1, SMT DEF Day, Hour, Minute, Second, d
  <2> QED BY <2>2, SMT DEF Hour, Minute, Second
<1>4. 0 \div Second = 0 /\ 0 \div Minute = 0 /\ 0 \div Hour = 0
  BY SMT DEF Hour, Minute, Second
<1> QED BY <1>1, <1>2, <1>3, <1>4, Zenon

LEMMA DateFields ==
  ASSUME NEW k \in Int
  PROVE  /\ MonthStart(k) % Day = 0 /\ MonthStart(k) \in Int
         /\ Field(MonthStart(k), "%d") = 1
         /\ k % 12 = 0 => Field(MonthStart(k), "%b") = 0
<1>1. MonthOf(MonthStart(k)) = k /\ MonthStart(k) \in Int /\ MonthStart(k) % Day = 0
  BY FromStartToStart, Zenon
<1>2. /\ Field(MonthStart(k), "%d") = (MonthStart(k) - MonthStart(MonthOf(MonthStart(k)))) \div Day + 1
      /\ Field(MonthStart(k), "%b") = MonthOf(MonthStart(k)) % 12
  BY Zenon DEF Field
<1>3. (MonthStart(k) - MonthStart(k)) \div Day + 1 = 1
  BY <1>1, SMT DEF Day, Hour, Minute, Second
<1> QED BY <1>1, <1>2, <1>3, Zenon

\* The formats, by the kind of the size.
LEMMA FormatIs ==
  ASSUME NEW v, NEW size \in TimeSizes, NEW span
  PROVE  \E fmt : /\ TimeLabel(v, size, span) = formatDate(v + ZoneOffset, fmt)
                  /\ \/ size[2] = "second" /\ size \in ClockSizes /\ fmt = <<"%H", "%M", "%S">>
                     \/ /\ size[2] \in {"minute", "hour"} /\ size \in ClockSizes
                        /\ fmt \in {<<"%H", "%M">>, <<"%b", "%d", "%H", "%M">>}
                     \/ size \notin LongSizes /\ Grain(size) = Day /\ fmt = <<"%b", "%d">>
                     \/ size \in LongSizes /\ fmt \in {<<"%b">>, <<"%b", "%Y">>}
                     \/ size \in LongSizes /\ size[2] = "year" /\ fmt = <<"%Y">>
<1> DEFINE t == StepOf(size)
           fmt == CASE t < Minute -> <<"%H", "%M", "%S">>
                    [] t >= Minute /\ t < Day ->
                         IF span < 2 * Day THEN <<"%H", "%M">> ELSE <<"%b", "%d", "%H", "%M">>
                    [] t >= Day /\ t < timeUnitSize.month -> <<"%b", "%d">>
                    [] t >= timeUnitSize.month /\ t < timeUnitSize.year ->
                         IF span < timeUnitSize.year THEN <<"%b">> ELSE <<"%b", "%Y">>
                    [] t >= timeUnitSize.year -> <<"%Y">>
<1>1. TimeLabel(v, size, span) = formatDate(v + ZoneOffset, fmt)
  BY Zenon DEF TimeLabel
<1>2. /\ Minute < Day /\ Day < timeUnitSize.month /\ timeUnitSize.month < timeUnitSize.year
      /\ Minute \in Int /\ Day \in Int /\ timeUnitSize.month \in Int /\ timeUnitSize.year \in Int
  BY UnitsAre, SMT DEF Day, Hour, Minute, Second
<1>3. CASE size \in ClockSizes
  <2>0. size \notin LongSizes
    BY <1>3, ClockIs, SMT DEF LongSizes
  <2>1. CASE size[2] = "second"
    <3>1. t < Minute /\ ~(t >= Minute) /\ ~(t >= Day) /\ ~(t >= timeUnitSize.month) /\ ~(t >= timeUnitSize.year)
      BY <1>2, <1>3, <2>1, ClockIs, UnitsAre, SMT DEF Day, Hour, Minute, Second
    <3> HIDE DEF t
    <3>2. fmt = <<"%H", "%M", "%S">>
      BY <3>1, Zenon
    <3> QED BY <1>1, <1>3, <2>1, <3>2, Zenon
  <2>2. CASE size[2] \in {"minute", "hour"}
    <3>1. ~(t < Minute) /\ t >= Minute /\ t < Day /\ ~(t >= Day) /\ ~(t >= timeUnitSize.month) /\ ~(t >= timeUnitSize.year)
      BY <1>3, <2>2, ClockIs, UnitsAre, SMT DEF Day, Hour, Minute, Second
    <3> HIDE DEF t
    <3>2. fmt = IF span < 2 * Day THEN <<"%H", "%M">> ELSE <<"%b", "%d", "%H", "%M">>
      BY <3>1, Zenon
    <3> HIDE DEF fmt
    <3>3. fmt \in {<<"%H", "%M">>, <<"%b", "%d", "%H", "%M">>}
      BY <3>2, Zenon
    <3> QED BY <1>1, <1>3, <2>2, <3>3, Zenon
  <2>3. CASE size[2] = "day"
    <3>1. ~(t < Minute) /\ ~(t < Day) /\ t >= Day /\ t < timeUnitSize.month
          /\ ~(t >= timeUnitSize.month) /\ ~(t >= timeUnitSize.year)
      BY <1>3, <2>3, ClockIs, UnitsAre, SMT DEF Day, Hour, Minute, Second
    <3> HIDE DEF t
    <3>2. fmt = <<"%b", "%d">>
      BY <3>1, Zenon
    <3>3. Grain(size) = Day
      BY <2>3, Zenon DEF Grain
    <3> QED BY <1>1, <2>0, <3>2, <3>3, Zenon
  <2>4. size[2] \in {"second", "minute", "hour"} \/ size[2] = "day"
    BY <1>3, ClockIs, SMT
  <2> HIDE DEF fmt, t
  <2> QED BY <2>1, <2>2, <2>3, <2>4, Zenon
<1>4. CASE size \in {<<1, "month">>, <<2, "month">>}
  <2>1. t \in {1296000, 2592000} /\ size[2] = "month" /\ size \notin LongSizes
    BY <1>4, UnitsAre, SMT DEF StepOf, LongSizes
  <2>2. ~(t < Minute) /\ ~(t < Day) /\ t >= Day /\ t < timeUnitSize.month
        /\ ~(t >= timeUnitSize.month) /\ ~(t >= timeUnitSize.year)
    BY <2>1, UnitsAre, SMT DEF Day, Hour, Minute, Second
  <2> HIDE DEF t
  <2>3. fmt = <<"%b", "%d">>
    BY <2>2, Zenon
  <2>4. Grain(size) = Day
    BY <1>4, SMT DEF Grain
  <2>5. size \notin LongSizes
    BY <1>4, SMT DEF LongSizes
  <2> QED BY <1>1, <2>3, <2>4, <2>5, Zenon
<1>5. CASE size \in LongSizes
  <2>1. CASE size[2] = "month"
    <3>1. ~(t < Minute) /\ ~(t < Day) /\ ~(t < timeUnitSize.month) /\ t >= timeUnitSize.month
          /\ t < timeUnitSize.year /\ ~(t >= timeUnitSize.year)
      BY <1>5, <2>1, LongIs, UnitsAre, SMT DEF Day, Hour, Minute, Second
    <3> HIDE DEF t
    <3>2. fmt = IF span < timeUnitSize.year THEN <<"%b">> ELSE <<"%b", "%Y">>
      BY <3>1, Zenon
    <3> HIDE DEF fmt
    <3>3. fmt \in {<<"%b">>, <<"%b", "%Y">>}
      BY <3>2, Zenon
    <3> QED BY <1>1, <1>5, <3>3, Zenon
  <2>2. CASE size[2] # "month"
    <3>1. ~(t < Minute) /\ ~(t < Day) /\ ~(t < timeUnitSize.month)
          /\ ~(t < timeUnitSize.year) /\ t >= timeUnitSize.year
      BY <1>5, <2>2, LongIs, UnitsAre, SMT DEF Day, Hour, Minute, Second
    <3>2. size[2] = "year"
      BY <1>5, <2>2, LongIs, SMT
    <3> HIDE DEF t
    <3>3. fmt = <<"%Y">>
      BY <3>1, Zenon
    <3> QED BY <1>1, <1>5, <3>2, <3>3, Zenon
  <2> QED BY <2>1, <2>2
<1> QED BY <1>3, <1>4, <1>5, Zenon DEF TimeSizes

\* The label of a time has four fields at most.
LEMMA TimeLabelIsShort ==
  ASSUME NEW v, NEW size \in TimeSizes, NEW span
  PROVE  ShortLabel(TimeLabel(v, size, span))
<1>1. PICK fmt :
        /\ TimeLabel(v, size, span) = formatDate(v + ZoneOffset, fmt)
        /\ fmt \in {<<"%H", "%M", "%S">>, <<"%H", "%M">>, <<"%b", "%d", "%H", "%M">>, <<"%b", "%d">>,
                    <<"%b">>, <<"%b", "%Y">>, <<"%Y">>}
  BY FormatIs, Zenon
<1>2. PICK n \in 1 .. 4 : DOMAIN fmt = 1 .. n
  <2>1. /\ DOMAIN <<"%H", "%M", "%S">> = 1 .. 3 /\ DOMAIN <<"%H", "%M">> = 1 .. 2
        /\ DOMAIN <<"%b", "%d", "%H", "%M">> = 1 .. 4 /\ DOMAIN <<"%b", "%d">> = 1 .. 2
        /\ DOMAIN <<"%b">> = 1 .. 1 /\ DOMAIN <<"%b", "%Y">> = 1 .. 2 /\ DOMAIN <<"%Y">> = 1 .. 1
    OBVIOUS
  <2>2. 1 \in 1 .. 4 /\ 2 \in 1 .. 4 /\ 3 \in 1 .. 4 /\ 4 \in 1 .. 4
    OBVIOUS
  <2> QED BY <1>1, <2>1, <2>2, Zenon
<1>3. DOMAIN formatDate(v + ZoneOffset, fmt) = 1 .. n
  BY <1>2 DEF formatDate
<1> QED BY <1>1, <1>3, FieldsAreShort

\* Where no label goes past the fields c, the finer ones are nothing at all.
LEMMA ExactFrom ==
  ASSUME NEW t \in Int, NEW fmt, NEW c \in 1 .. 6, Len(fmt) \in Nat, FinestOf(fmt, c),
         t % Second = 0,
         \A i \in c + 1 .. 6 : Field(t, Fields[i]) = IF Fields[i] = "%d" THEN 1 ELSE 0
  PROVE  ExactTime(t, formatDate(t, fmt))
<1>1. FinestField(formatDate(t, fmt)) = c
  BY FinestIs, Zenon
<1> QED BY <1>1, Zenon DEF ExactTime

\* The label of a tick of times is exact.
LEMMA TimeLabelIsExact ==
  ASSUME NEW v \in Int, NEW size \in TimeSizes, NEW span, Aligned(v + ZoneOffset, size)
  PROVE  /\ ExactTime(v + ZoneOffset, TimeLabel(v, size, span))
         /\ TimeLabel(v, size, span)[1][1] # "number"
<1> DEFINE t == v + ZoneOffset
<1>0. t \in Int /\ Aligned(t, size)
  BY ZoneAssumption
<1>1. PICK fmt : /\ TimeLabel(v, size, span) = formatDate(t, fmt)
                 /\ \/ size[2] = "second" /\ size \in ClockSizes /\ fmt = <<"%H", "%M", "%S">>
                    \/ /\ size[2] \in {"minute", "hour"} /\ size \in ClockSizes
                       /\ fmt \in {<<"%H", "%M">>, <<"%b", "%d", "%H", "%M">>}
                    \/ size \notin LongSizes /\ Grain(size) = Day /\ fmt = <<"%b", "%d">>
                    \/ size \in LongSizes /\ fmt \in {<<"%b">>, <<"%b", "%Y">>}
                    \/ size \in LongSizes /\ size[2] = "year" /\ fmt = <<"%Y">>
  BY FormatIs, Zenon
<1> DEFINE label == formatDate(t, fmt)
<1> HIDE DEF t
<1>2. /\ Fields[1] = "%Y" /\ Fields[2] = "%b" /\ Fields[3] = "%d"
      /\ Fields[4] = "%H" /\ Fields[5] = "%M" /\ Fields[6] = "%S"
  BY SMT DEF Fields
<1>3. size \in ClockSizes => size \notin LongSizes
  BY ClockIs, SMT DEF LongSizes
<1>4. CASE size[2] = "second" /\ size \in ClockSizes /\ fmt = <<"%H", "%M", "%S">>
  <2>1. t % Second = 0
    BY <1>0, <1>3, <1>4, Zenon DEF Aligned, Grain
  <2>2. Len(fmt) = 3 /\ FinestOf(fmt, 6) /\ fmt[1] = "%H"
    BY <1>2, <1>4, SMT DEF FinestOf
  <2>3. \A i \in 6 + 1 .. 6 : FALSE
    BY SMT
  <2>4. 6 \in 1 .. 6 /\ 3 \in Nat /\ 1 \in 1 .. 3
    BY SMT
  <2>5. label[1] = <<"%H", Field(t, "%H")>>
    BY <2>2, <2>4 DEF formatDate
  <2>6. ExactTime(t, label)
    BY <1>0, <2>1, <2>2, <2>3, <2>4, ExactFrom, Zenon
  <2> QED BY <1>1, <2>5, <2>6 DEF t
<1>5. CASE /\ size[2] \in {"minute", "hour"} /\ size \in ClockSizes
           /\ fmt \in {<<"%H", "%M">>, <<"%b", "%d", "%H", "%M">>}
  <2>1. t % Minute = 0
    BY <1>0, <1>3, <1>5, Zenon DEF Aligned, Grain
  <2>2. Len(fmt) \in {2, 4} /\ FinestOf(fmt, 5) /\ fmt[1] \in {"%H", "%b"}
    BY <1>2, <1>5, SMT DEF FinestOf
  <2>3. \A i \in 5 + 1 .. 6 : i = 6
    BY SMT
  <2>4. 5 \in 1 .. 6 /\ Len(fmt) \in Nat /\ 1 \in 1 .. Len(fmt)
    BY <2>2, SMT
  <2>5. label[1] = <<fmt[1], Field(t, fmt[1])>>
    BY <2>4 DEF formatDate
  <2>6. t % Second = 0 /\ Field(t, "%S") = 0
    BY <1>0, <2>1, ClockFields, Zenon
  <2>7. ExactTime(t, label)
    BY <1>0, <1>2, <2>2, <2>3, <2>4, <2>6, ExactFrom, Zenon
  <2> QED BY <1>1, <2>2, <2>5, <2>7 DEF t
<1>6. CASE size \notin LongSizes /\ Grain(size) = Day /\ fmt = <<"%b", "%d">>
  <2>1. t % Day = 0
    BY <1>0, <1>6, Zenon DEF Aligned
  <2>2. Len(fmt) = 2 /\ FinestOf(fmt, 3) /\ fmt[1] = "%b"
    BY <1>2, <1>6, SMT DEF FinestOf
  <2>3. \A i \in 3 + 1 .. 6 : i = 4 \/ i = 5 \/ i = 6
    BY SMT
  <2>4. 3 \in 1 .. 6 /\ Len(fmt) \in Nat /\ 1 \in 1 .. Len(fmt)
    BY <2>2, SMT
  <2>5. label[1] = <<fmt[1], Field(t, fmt[1])>>
    BY <2>4 DEF formatDate
  <2>6. t % Second = 0 /\ Field(t, "%S") = 0 /\ Field(t, "%M") = 0 /\ Field(t, "%H") = 0
    BY <1>0, <2>1, ClockFields, Zenon
  <2>7. ExactTime(t, label)
    BY <1>0, <1>2, <2>2, <2>3, <2>4, <2>6, ExactFrom, Zenon
  <2> QED BY <1>1, <2>2, <2>5, <2>7 DEF t
<1>7. ASSUME size \in LongSizes
      PROVE  /\ t % Second = 0 /\ Field(t, "%S") = 0 /\ Field(t, "%M") = 0 /\ Field(t, "%H") = 0
             /\ Field(t, "%d") = 1 /\ (size[2] = "year" => Field(t, "%b") = 0)
  <2>1. PICK k \in Int : t = MonthStart(k) /\ (size[2] = "year" => k % 12 = 0)
    BY <1>0, <1>7, Zenon DEF Aligned
  <2>2. t % Day = 0 /\ Field(t, "%d") = 1 /\ (size[2] = "year" => Field(t, "%b") = 0)
    BY <2>1, DateFields, Zenon
  <2> QED BY <1>0, <2>2, ClockFields, Zenon
<1>8. CASE size \in LongSizes /\ fmt \in {<<"%b">>, <<"%b", "%Y">>}
  <2>2. Len(fmt) \in {1, 2} /\ FinestOf(fmt, 2) /\ fmt[1] = "%b"
    BY <1>2, <1>8, SMT DEF FinestOf
  <2>3. \A i \in 2 + 1 .. 6 : i = 3 \/ i = 4 \/ i = 5 \/ i = 6
    BY SMT
  <2>4. 2 \in 1 .. 6 /\ Len(fmt) \in Nat /\ 1 \in 1 .. Len(fmt)
    BY <2>2, SMT
  <2>5. label[1] = <<fmt[1], Field(t, fmt[1])>>
    BY <2>4 DEF formatDate
  <2>6. \A i \in 2 + 1 .. 6 : Field(t, Fields[i]) = IF Fields[i] = "%d" THEN 1 ELSE 0
    BY <1>2, <1>7, <1>8, <2>3, Zenon
  <2>7. ExactTime(t, label)
    BY <1>0, <1>7, <1>8, <2>2, <2>4, <2>6, ExactFrom, Zenon
  <2> QED BY <1>1, <2>2, <2>5, <2>7 DEF t
<1>9. CASE size \in LongSizes /\ size[2] = "year" /\ fmt = <<"%Y">>
  <2>2. Len(fmt) = 1 /\ FinestOf(fmt, 1) /\ fmt[1] = "%Y"
    BY <1>2, <1>9, SMT DEF FinestOf
  <2>3. \A i \in 1 + 1 .. 6 : i = 2 \/ i = 3 \/ i = 4 \/ i = 5 \/ i = 6
    BY SMT
  <2>4. 1 \in 1 .. 6 /\ Len(fmt) \in Nat /\ 1 \in 1 .. Len(fmt)
    BY <2>2, SMT
  <2>5. label[1] = <<fmt[1], Field(t, fmt[1])>>
    BY <2>4 DEF formatDate
  <2>6. \A i \in 1 + 1 .. 6 : Field(t, Fields[i]) = IF Fields[i] = "%d" THEN 1 ELSE 0
    BY <1>2, <1>7, <1>9, <2>3, Zenon
  <2>7. ExactTime(t, label)
    BY <1>0, <1>7, <1>9, <2>2, <2>4, <2>6, ExactFrom, Zenon
  <2> QED BY <1>1, <2>2, <2>5, <2>7 DEF t
<1> HIDE DEF label
<1> QED BY <1>1, <1>4, <1>5, <1>6, <1>8, <1>9, Zenon
-----------------------------------------------------------------------------
(* Ticks and axes. *)

\* floorInBase: the multiple of the base that is not above.
LEMMA FloorInBaseIs ==
  ASSUME NEW n \in Int, NEW base \in Nat \ {0}
  PROVE  /\ n \div base \in Int /\ floorInBase(n, base) \in Int
         /\ floorInBase(n, base) <= n /\ n < floorInBase(n, base) + base
         /\ n < 0 => n \div base <= -1
<1>1. n \div base \in Int /\ base * (n \div base) <= n
  OBVIOUS
<1>2. n < base * (n \div base) + base
  OBVIOUS
<1>3. n < 0 => n \div base <= -1
  OBVIOUS
<1>4. base * (n \div base) \in Int
  BY <1>1
<1> QED BY <1>1, <1>2, <1>3, <1>4 DEF floorInBase

\* Ticks that rise from the start of an interval, or before it, to its end, or beyond.
Rises(ticks, n, range) ==
  /\ n \in Nat /\ n >= 2 /\ DOMAIN ticks = 1 .. n
  /\ \A i \in 1 .. n : ticks[i] \in Int
  /\ \A i \in 2 .. n : ticks[i - 1] < ticks[i]
  /\ ticks[1] <= range.min /\ range.max <= ticks[n]

\* The default tickGenerator: multiples of the size over the whole range, from two to
\* twelve of them.
LEMMA NumberTicksRise ==
  ASSUME NEW range \in Extents, range.min < range.max, NEW size \in Nat \ {0},
         10 * (range.max - range.min) <= 63 * size
  PROVE  \E n \in 2 .. 12 :
           /\ Rises(NumberTicks(range, size), n, range)
           /\ \A i \in 1 .. n : \E k \in Int : NumberTicks(range, size)[i] = size * k
<1> DEFINE start == floorInBase(range.min, size)
           last == -((start - range.max) \div size)
           n == last + 1
           ticks == [i \in 1 .. n |-> start + (i - 1) * size]
<1>0. range.min \in Int /\ range.max \in Int
  BY DEF Extents
<1>1. start \in Int /\ start <= range.min /\ range.min < start + size
  BY <1>0, FloorInBaseIs
<1>11. PICK first \in Int : start = size * first
  BY <1>0, FloorInBaseIs DEF floorInBase
<1> HIDE DEF start
<1>2. start - range.max \in Int /\ start - range.max < 0
  BY <1>0, <1>1
<1>3. /\ (start - range.max) \div size \in Int /\ (start - range.max) \div size <= -1
      /\ floorInBase(start - range.max, size) <= start - range.max
  BY <1>2, FloorInBaseIs
<1>4. last \in Nat /\ last >= 1 /\ n \in Nat /\ n >= 2
  BY <1>3
<1>5. range.max <= start + last * size
  <2> DEFINE q == (start - range.max) \div size
  <2>1. q \in Int /\ size * q <= start - range.max
    BY <1>3 DEF floorInBase
  <2> HIDE DEF q
  <2>2. (-q) * size = -(size * q) /\ size * q \in Int
    BY <2>1
  <2>3. range.max <= start + (-q) * size
    BY <1>0, <1>1, <2>1, <2>2
  <2> QED BY <2>3 DEF q
<1>12. last <= 9
  <2> DEFINE q == (start - range.max) \div size
  <2>1. q \in Int /\ start - range.max < size * q + size
    BY <1>2, <1>3, FloorInBaseIs DEF floorInBase
  <2> HIDE DEF q
  <2>2. ASSUME q <= -10 PROVE FALSE
    <3>1. size * q <= size * (-10)
      BY <2>1, <2>2
    <3> DEFINE sq == size * q
    <3>2. sq \in Int /\ sq <= -(10 * size) /\ start - range.max < sq + size
      BY <2>1, <3>1
    <3> HIDE DEF sq
    <3> QED BY <1>0, <1>1, <3>2
  <2> QED BY <2>1, <2>2 DEF q
<1> HIDE DEF last
<1>6. DOMAIN ticks = 1 .. n /\ \A i \in 1 .. n : ticks[i] = start + (i - 1) * size
  OBVIOUS
<1>7. \A i \in 1 .. n : ticks[i] \in Int
  BY <1>1, <1>4
<1>8. ASSUME NEW i \in 2 .. n PROVE ticks[i - 1] < ticks[i]
  <2>1. i \in 1 .. n /\ i - 1 \in 1 .. n
    BY <1>4
  <2>2. ticks[i - 1] = start + (i - 1 - 1) * size /\ ticks[i] = start + (i - 1) * size
    BY <1>6, <2>1
  <2>3. (i - 1) * size = (i - 1 - 1) * size + size /\ (i - 1) * size \in Int /\ (i - 1 - 1) * size \in Int
    OBVIOUS
  <2> HIDE DEF ticks
  <2> QED BY <1>1, <2>2, <2>3
<1>9. ticks[1] = start /\ ticks[n] = start + last * size
  <2>1. 1 \in 1 .. n /\ n \in 1 .. n /\ n - 1 = last /\ (1 - 1) * size = 0
    BY <1>4
  <2> QED BY <1>1, <1>4, <1>6, <2>1
<1>10. NumberTicks(range, size) = ticks
  BY DEF NumberTicks, start, last
<1>13. ASSUME NEW i \in 1 .. n PROVE \E k \in Int : ticks[i] = size * k
  <2>1. ticks[i] = size * first + (i - 1) * size
    BY <1>6, <1>11
  <2>2. first + (i - 1) \in Int /\ size * (first + (i - 1)) = size * first + (i - 1) * size
    BY <1>4
  <2> HIDE DEF ticks
  <2> QED BY <2>1, <2>2
<1>14. n \in 2 .. 12
  BY <1>4, <1>12
<1> HIDE DEF ticks, n
<1>15. Rises(ticks, n, range)
  BY <1>1, <1>4, <1>5, <1>6, <1>7, <1>8, <1>9 DEF Rises
<1> QED BY <1>10, <1>13, <1>14, <1>15

IsList(ts) == \E n \in Nat : DOMAIN ts = 1 .. n

\* A label that says where its tick is.
ExactTick(tick) ==
  IF tick.label[1][1] = "number" THEN tick.label[1][2] = tick.v
  ELSE ExactTime(tick.v + ZoneOffset, tick.label)

AllExact(ticks) == \A i \in DOMAIN ticks : ExactTick(ticks[i])

\* Ticks at whole places, their labels no wider than that.
AllShort(ticks, widest) ==
  \A i \in DOMAIN ticks : /\ ticks[i].v \in Int
                          /\ ShortLabel(ticks[i].label) /\ TextWidth(ticks[i].label) <= widest

\* Ticks over the whole range, about as many as asked for.
CoverRange(ticks, range) ==
  \E n \in 2 .. 12 : DOMAIN ticks = 1 .. n /\ Rises([i \in 1 .. n |-> ticks[i].v], n, range)

\* A number is labelled to the last digit when the precision divides it.
LEMMA NumberLabelIs ==
  ASSUME NEW precision \in Precisions, NEW w \in Int
  PROVE  NumberLabel(precision * w, precision) = <<<<"number", precision * w>>>>
<1>1. floorInBase(precision * w + precision \div 2, precision) = precision * w
  <2>1. CASE precision = 1
    BY <2>1 DEF floorInBase
  <2>2. CASE precision = 10
    BY <2>2 DEF floorInBase
  <2>3. CASE precision = 100
    BY <2>3 DEF floorInBase
  <2>4. CASE precision = 1000
    BY <2>4 DEF floorInBase
  <2> QED BY <2>1, <2>2, <2>3, <2>4 DEF Precisions
<1> QED BY <1>1 DEF NumberLabel

LEMMA NumberIsExact ==
  ASSUME NEW v, NEW precision, NumberLabel(v, precision) = <<<<"number", v>>>>
  PROVE  ExactTick([v |-> v, label |-> NumberLabel(v, precision)])
BY DEF ExactTick

LEMMA NumberIsShort ==
  ASSUME NEW v, NEW precision
  PROVE  ShortLabel(NumberLabel(v, precision)) /\ TextWidth(NumberLabel(v, precision)) = 360
<1> DEFINE w == TextWidth(NumberLabel(v, precision))
<1>1. w = 360
  BY NumberWidth DEF NumberLabel
<1> HIDE DEF w
<1>2. w \in 0 .. 1440 /\ w % 2 = 0
  BY <1>1
<1> QED BY <1>1, <1>2 DEF ShortLabel, w

LEMMA NumbersAreShort ==
  ASSUME NEW ticks, NEW precision,
         \A i \in DOMAIN ticks : ticks[i].v \in Int /\ ticks[i].label = NumberLabel(ticks[i].v, precision)
  PROVE  AllShort(ticks, 360)
<1> SUFFICES ASSUME NEW i \in DOMAIN ticks
             PROVE  ShortLabel(ticks[i].label) /\ TextWidth(ticks[i].label) <= 360
  BY DEF AllShort
<1> DEFINE w == TextWidth(ticks[i].label)
<1>1. ShortLabel(ticks[i].label) /\ w = 360
  BY NumberIsShort
<1> HIDE DEF w
<1>2. w <= 360
  BY <1>1
<1> QED BY <1>1, <1>2 DEF w

\* The multiples of a size that the precision divides are labelled to the last digit.
LEMMA MultipleIsExact ==
  ASSUME NEW precision \in Precisions, NEW size \in Nat \ {0}, size % precision = 0,
         NEW k \in Int
  PROVE  NumberLabel(size * k, precision) = <<<<"number", size * k>>>>
<1>0. precision \in Int
  BY DEF Precisions
<1>1. PICK j \in Int : size = precision * j
  <2>1. size = precision * (size \div precision) /\ size \div precision \in Int
    <3>1. CASE precision = 1
      BY <3>1
    <3>2. CASE precision = 10
      BY <3>2
    <3>3. CASE precision = 100
      BY <3>3
    <3>4. CASE precision = 1000
      BY <3>4
    <3> QED BY <3>1, <3>2, <3>3, <3>4 DEF Precisions
  <2> QED BY <2>1
<1>2. j * k \in Int /\ size * k = precision * (j * k)
  BY <1>0, <1>1
<1> DEFINE w == j * k
<1> HIDE DEF w
<1>3. w \in Int /\ size * k = precision * w
  BY <1>2 DEF w
<1>4. NumberLabel(precision * w, precision) = <<<<"number", precision * w>>>>
  BY <1>3, NumberLabelIs, Zenon
<1> QED BY <1>3, <1>4

\* The ticks of the value axes.
LEMMA ValueTicksAre ==
  ASSUME NEW range \in Extents, 100 <= range.max - range.min, range.max - range.min <= 208 * Million,
         NEW ts, NEW options \in {ValueAxis, CountAxis}
  PROVE  /\ CoverRange(SetTicks(range, ts, options), range) /\ AllExact(SetTicks(range, ts, options))
         /\ AllShort(SetTicks(range, ts, options), 360)
<1> DEFINE span == range.max - range.min
           size == TickSize(span, options)
           step == size.size
           precision == size.precision
           values == NumberTicks(range, step)
           made == SetTicks(range, ts, options)
<1>1. ~options.time /\ ~options.given /\ options.tenths = 42 /\ options.whole = FALSE
  BY DEF ValueAxis, CountAxis, TimeAxis
<1>2. span \in Int /\ range.min < range.max /\ 100 <= span /\ span <= 208 * Million
  BY DEF Extents
<1>3. Fits(size, span)
  <2> HIDE DEF span
  <2> QED BY <1>1, <1>2, TickSizeFits
<1>4. made = [i \in DOMAIN values |-> [v |-> values[i], label |-> NumberLabel(values[i], size.precision)]]
  BY <1>1 DEF SetTicks, LabelledTicks
<1> HIDE DEF size
<1>5. PICK n \in 2 .. 12 : /\ Rises(values, n, range)
                           /\ \A i \in 1 .. n : \E k \in Int : values[i] = step * k
  <2>1. 10 * (range.max - range.min) <= 63 * step /\ step \in Nat \ {0}
    BY <1>3 DEF Fits
  <2> HIDE DEF step
  <2> QED BY <1>2, <2>1, NumberTicksRise
<1> HIDE DEF values, made
<1>6. DOMAIN values = 1 .. n
  BY <1>5 DEF Rises
<1>7. DOMAIN made = 1 .. n /\ \A i \in 1 .. n : made[i].v = values[i]
  BY <1>4, <1>6
<1>8. Rises([i \in 1 .. n |-> made[i].v], n, range)
  <2>1. 1 \in 1 .. n /\ n \in 1 .. n /\ \A i \in 2 .. n : i \in 1 .. n /\ i - 1 \in 1 .. n
    OBVIOUS
  <2> QED BY <1>5, <1>7, <2>1 DEF Rises
<1>9. ASSUME NEW i \in 1 .. n PROVE ExactTick(made[i])
  <2>1. PICK k \in Int : values[i] = step * k
    BY <1>5
  <2>2. NumberLabel(step * k, precision) = <<<<"number", step * k>>>>
    <3>1. step \in Nat \ {0} /\ precision \in Precisions /\ step % precision = 0
      BY <1>3 DEF Fits
    <3> HIDE DEF step, precision
    <3> QED BY <3>1, MultipleIsExact, Zenon
  <2>3. made[i] = [v |-> values[i], label |-> NumberLabel(values[i], precision)]
    BY <1>4, <1>6
  <2> HIDE DEF step, precision
  <2> QED BY <2>1, <2>2, <2>3, NumberIsExact
<1>10. AllShort(made, 360)
  <2>1. ASSUME NEW i \in 1 .. n
        PROVE  made[i].v \in Int /\ made[i].label = NumberLabel(made[i].v, precision)
    <3>1. made[i].v = values[i] /\ made[i].label = NumberLabel(values[i], precision)
      BY <1>4, <1>6
    <3>2. values[i] \in Int
      BY <1>5 DEF Rises
    <3> QED BY <3>1, <3>2
  <2> HIDE DEF precision
  <2> QED BY <1>7, <2>1, NumbersAreShort
<1> QED BY <1>7, <1>8, <1>9, <1>10 DEF CoverRange, AllExact, made

\* The ticks of the axis of times.
LEMMA TimeAxisTicksAre ==
  ASSUME NEW range \in Extents, range.min < range.max,
         range.max - range.min <= 30 * timeUnitSize.year, NEW ts
  PROVE  /\ CoverRange(SetTicks(range, ts, TimeAxis), range) /\ AllExact(SetTicks(range, ts, TimeAxis))
         /\ AllShort(SetTicks(range, ts, TimeAxis), 1440)
<1> DEFINE span == range.max - range.min
           size == ChooseTickSize(span, 4, 10 * Second)
           values == TimeTicks(range.min, range.max, size)
           made == SetTicks(range, ts, TimeAxis)
<1>1. /\ TimeAxis.time /\ TimeAxis.minTickSize = 10 * Second
      /\ TimeAxis.tenths = 40 /\ 40 \div 10 = 4
  BY DEF TimeAxis
<1>2. range.min \in Int /\ range.max \in Int
  BY DEF Extents
<1>4. made = [i \in DOMAIN values |-> [v |-> values[i], label |-> TimeLabel(values[i], size, span)]]
  BY <1>1 DEF SetTicks, LabelledTicks
<1> HIDE DEF made
<1>3. /\ size \in TimeSizes
      /\ \E n \in 2 .. 12 :
           /\ DOMAIN values = 1 .. n
           /\ \A i \in 1 .. n : values[i] \in Int /\ Aligned(values[i] + ZoneOffset, size)
           /\ \A i \in 2 .. n : values[i - 1] < values[i]
           /\ values[1] <= range.min /\ range.max <= values[n]
  BY <1>2, TimeTicksRise
<1> HIDE DEF values, size
<1>5. PICK n \in 2 .. 12 :
        /\ DOMAIN values = 1 .. n
        /\ \A i \in 1 .. n : values[i] \in Int /\ Aligned(values[i] + ZoneOffset, size)
        /\ \A i \in 2 .. n : values[i - 1] < values[i]
        /\ values[1] <= range.min /\ range.max <= values[n]
  BY <1>3
<1>7. DOMAIN made = 1 .. n /\ \A i \in 1 .. n : made[i].v = values[i]
  BY <1>4, <1>5
<1>8. Rises([i \in 1 .. n |-> made[i].v], n, range)
  <2>1. 1 \in 1 .. n /\ n \in 1 .. n /\ \A i \in 2 .. n : i \in 1 .. n /\ i - 1 \in 1 .. n
    OBVIOUS
  <2> QED BY <1>5, <1>7, <2>1 DEF Rises
<1>9. ASSUME NEW i \in 1 .. n PROVE ExactTick(made[i])
  <2>1. made[i] = [v |-> values[i], label |-> TimeLabel(values[i], size, span)]
    BY <1>4, <1>5
  <2>2. /\ ExactTime(values[i] + ZoneOffset, TimeLabel(values[i], size, span))
        /\ TimeLabel(values[i], size, span)[1][1] # "number"
    BY <1>3, <1>5, TimeLabelIsExact
  <2> HIDE DEF span
  <2> QED BY <2>1, <2>2 DEF ExactTick
<1>10. ASSUME NEW i \in 1 .. n
       PROVE  /\ made[i].v \in Int /\ ShortLabel(made[i].label)
              /\ TextWidth(made[i].label) <= 1440
  <2>1. made[i].v = values[i] /\ made[i].label = TimeLabel(values[i], size, span)
    BY <1>4, <1>5
  <2>2. ShortLabel(TimeLabel(values[i], size, span))
    <3> HIDE DEF span
    <3> QED BY <1>3, TimeLabelIsShort
  <2> DEFINE label == made[i].label
             w == TextWidth(label)
  <2>3. ShortLabel(label)
    BY <2>1, <2>2
  <2> HIDE DEF label
  <2>4. w <= 1440
    <3>1. w \in 0 .. 1440
      BY <2>3 DEF ShortLabel
    <3> HIDE DEF w
    <3> QED BY <3>1
  <2> HIDE DEF w
  <2>5. made[i].v \in Int
    BY <1>5, <2>1
  <2> QED BY <2>3, <2>4, <2>5 DEF label, w
<1>11. AllShort(made, 1440)
  BY <1>7, <1>10 DEF AllShort
<1> QED BY <1>7, <1>8, <1>9, <1>11 DEF CoverRange, AllExact, made

\* Ticks given with the options, whole numbers.
Wholes(ts) == \A i \in DOMAIN ts : \E w \in Int : ts[i] = One * w

LEMMA BarTicksAre ==
  ASSUME NEW range, NEW ts, IsList(ts), Wholes(ts)
  PROVE  /\ AllExact(SetTicks(range, ts, BarAxis)) /\ AllShort(SetTicks(range, ts, BarAxis), 360)
         /\ DOMAIN SetTicks(range, ts, BarAxis) = DOMAIN ts
         /\ IsList(SetTicks(range, ts, BarAxis))
<1> DEFINE size == TickSize(range.max - range.min, BarAxis)
           made == SetTicks(range, ts, BarAxis)
<1>1. ~BarAxis.time /\ BarAxis.given /\ BarAxis.whole
  BY DEF BarAxis, TimeAxis
<1>2. size.precision = One
  BY <1>1 DEF TickSize
<1>3. made = [i \in DOMAIN ts |-> [v |-> ts[i], label |-> NumberLabel(ts[i], size.precision)]]
  BY <1>1 DEF SetTicks, LabelledTicks
<1> HIDE DEF size, made
<1>4. ASSUME NEW i \in DOMAIN made PROVE ExactTick(made[i])
  <2>1. PICK w \in Int : ts[i] = 1000 * w
    BY <1>3 DEF Wholes, One
  <2>2. size.precision = 1000
    BY <1>2 DEF One
  <2>3. NumberLabel(1000 * w, 1000) = <<<<"number", 1000 * w>>>>
    BY <2>1, NumberLabelIs DEF Precisions
  <2>4. made[i] = [v |-> ts[i], label |-> NumberLabel(ts[i], 1000)]
    BY <1>3, <2>2
  <2> QED BY <2>1, <2>3, <2>4, NumberIsExact
<1>5. DOMAIN made = DOMAIN ts /\ IsList(made)
  BY <1>3 DEF IsList
<1>6. AllShort(made, 360)
  <2> DEFINE precision == size.precision
  <2>1. ASSUME NEW i \in DOMAIN made
        PROVE  made[i].v \in Int /\ made[i].label = NumberLabel(made[i].v, precision)
    <3>1. made[i].v = ts[i] /\ made[i].label = NumberLabel(ts[i], precision)
      BY <1>3
    <3>2. ts[i] \in Int
      BY <1>3 DEF Wholes, One
    <3> QED BY <3>1, <3>2
  <2> HIDE DEF precision
  <2> QED BY <2>1, NumbersAreShort
<1> QED BY <1>4, <1>5, <1>6 DEF AllExact, made

\* A function on the first numbers is a sequence.
LEMMA ListsAreSequences ==
  ASSUME NEW ticks, NEW n \in Nat, DOMAIN ticks = 1 .. n, ticks = [i \in 1 .. n |-> ticks[i]]
  PROVE  Len(ticks) = n /\ (n > 0 => Last(ticks) = ticks[n] /\ ticks # <<>>)
<1>1. ticks \in Seq({ticks[i] : i \in 1 .. n})
  <2>1. ticks \in [1 .. n -> {ticks[i] : i \in 1 .. n}]
    OBVIOUS
  <2> QED BY <2>1
<1>2. Len(ticks) = n
  BY <1>1, LenProperties, SMT
<1> QED BY <1>1, <1>2 DEF Last

\* Ticks whose labels fit into that many lines of the width that they may take: nine
\* under an axis, and one beside it.
LEMMA TicksHaveRoom ==
  ASSUME NEW layer, NEW a, IsList(a.ticks), RangeOK(a), NEW widest \in Nat, AllShort(a.ticks, widest),
         NEW maxWidth \in Nat \ {0}, WidthFor(layer, a.ticks) = maxWidth, maxWidth % 2 = 0,
         widest <= 9 * maxWidth, layer = "x" \/ widest <= maxWidth
  PROVE  AxisSuits(layer, a)
<1>1. ASSUME NEW i \in DOMAIN a.ticks
      PROVE  a.ticks[i].v \in Int /\ SizedLabel(layer, Measured(a.ticks[i].label, maxWidth))
  <2> DEFINE label == a.ticks[i].label
             w == TextWidth(label)
  <2>1. a.ticks[i].v \in Int /\ ShortLabel(label) /\ w <= widest
    BY DEF AllShort
  <2> HIDE DEF label
  <2>2. w <= 9 * maxWidth /\ (layer = "x" \/ w <= maxWidth)
    <3>1. w \in Int
      BY <2>1 DEF ShortLabel
    <3> HIDE DEF w
    <3> QED BY <2>1, <3>1
  <2>3. SizedLabel(layer, Measured(label, maxWidth))
    BY <2>1, <2>2, MeasuredFits
  <2> QED BY <2>1, <2>3 DEF label
<1>2. \E n \in Nat : DOMAIN a.ticks = 1 .. n
  BY DEF IsList
<1> QED BY <1>1, <1>2 DEF AxisSuits

\* The width for a label under the axis, when every tick has so many pixels.
LEMMA WidthAcross ==
  ASSUME NEW ticks, NEW n \in Nat, Len(ticks) = n, NEW k \in Nat \ {0}, k * n <= Width, k <= Width
  PROVE  \E maxWidth \in Nat \ {0} : /\ WidthFor("x", ticks) = maxWidth /\ maxWidth % 2 = 0
                                     /\ 10 * k <= maxWidth
<1> DEFINE m == Max({1, n})
           q == Width \div m
<1>1. m \in Nat \ {0} /\ k * m <= Width
  <2>1. m \in {1, n} /\ m >= 1
    BY SmallExtremes
  <2> HIDE DEF m
  <2> QED BY <2>1
<1>2. WidthFor("x", ticks) = q * 10
  BY DEF WidthFor, Px
<1> HIDE DEF m
<1>3. q \in Nat /\ k <= q
  <2>1. q \in Int /\ Width < m * q + m /\ q >= 0
    BY <1>1, PlotAssumption
  <2> HIDE DEF q
  <2> SUFFICES ASSUME q + 1 <= k PROVE FALSE
    BY <2>1
  <2>2. m * (q + 1) <= m * k
    BY <1>1, <2>1
  <2>3. m * (q + 1) = m * q + m /\ m * k = k * m
    BY <1>1, <2>1
  <2> DEFINE mq == m * q
             mk == k * m
  <2>4. mq \in Int /\ mk \in Int /\ mq + m <= mk /\ mk <= Width /\ Width < mq + m
    BY <1>1, <2>1, <2>2, <2>3
  <2> HIDE DEF mq, mk
  <2> QED BY <1>1, <2>4, PlotAssumption
<1> HIDE DEF q
<1>4. q * 10 \in Nat \ {0} /\ (q * 10) % 2 = 0 /\ 10 * k <= q * 10
  <2>1. q * 10 = 2 * (5 * q)
    BY <1>3
  <2> DEFINE f == 5 * q
  <2>2. f \in Nat
    BY <1>3
  <2> HIDE DEF f
  <2>3. (2 * f) % 2 = 0
    BY <2>2
  <2>4. q * 10 \in Nat \ {0} /\ 10 * k <= q * 10
    BY <1>3
  <2> QED BY <2>1, <2>3, <2>4 DEF f
<1> QED BY <1>2, <1>4

\* An axis of times, one of given numbers, and one up the side.
LEMMA TimesHaveRoom ==
  ASSUME NEW a, IsList(a.ticks), RangeOK(a), AllShort(a.ticks, 1440), Len(a.ticks) \in 2 .. 12
  PROVE  AxisSuits("x", a)
<1>1. PICK n \in 2 .. 12 : Len(a.ticks) = n
  OBVIOUS
<1>2. 20 * n <= Width /\ 20 <= Width /\ n \in Nat /\ 20 \in Nat \ {0}
  BY PlotAssumption, RoomAssumption
<1>3. PICK maxWidth \in Nat \ {0} : /\ WidthFor("x", a.ticks) = maxWidth /\ maxWidth % 2 = 0
                                    /\ 10 * 20 <= maxWidth
  BY <1>1, <1>2, WidthAcross
<1>4. 1440 <= 9 * maxWidth /\ 1440 \in Nat
  BY <1>3
<1> QED BY <1>3, <1>4, TicksHaveRoom

LEMMA BarsHaveRoom ==
  ASSUME NEW a, IsList(a.ticks), RangeOK(a), AllShort(a.ticks, 360),
         NEW n \in Nat, Len(a.ticks) = n, 4 * n <= Width
  PROVE  AxisSuits("x", a)
<1>1. 4 <= Width /\ 4 \in Nat \ {0}
  BY PlotAssumption, RoomAssumption
<1>2. PICK maxWidth \in Nat \ {0} : /\ WidthFor("x", a.ticks) = maxWidth /\ maxWidth % 2 = 0
                                    /\ 10 * 4 <= maxWidth
  BY <1>1, WidthAcross
<1>3. 360 <= 9 * maxWidth /\ 360 \in Nat
  BY <1>2
<1> QED BY <1>2, <1>3, TicksHaveRoom

LEMMA ValuesHaveRoom ==
  ASSUME NEW a, IsList(a.ticks), RangeOK(a), AllShort(a.ticks, 360)
  PROVE  AxisSuits("y", a)
<1> DEFINE maxWidth == 100 * Width
<1>1. WidthFor("y", a.ticks) = maxWidth
  BY DEF WidthFor
<1>2. maxWidth \in Nat \ {0} /\ 360 <= maxWidth /\ 360 <= 9 * maxWidth /\ 360 \in Nat
  BY PlotAssumption, RoomAssumption
<1>3. maxWidth % 2 = 0
  <2> DEFINE f == 50 * Width
  <2>1. f \in Nat /\ maxWidth = 2 * f
    BY PlotAssumption
  <2> HIDE DEF f, maxWidth
  <2> QED BY <2>1
<1> HIDE DEF maxWidth
<1> QED BY <1>1, <1>2, <1>3, TicksHaveRoom

\* The options of an axis: with a margin, it leaves its ticks to the library.
IsOptions(o) ==
  /\ o.time \in BOOLEAN /\ o.given \in BOOLEAN /\ o.margin \in {0, 2}
  /\ o.margin # 0 => ~o.time /\ ~o.given

\* The options of the two charts.
LEMMA OptionsAre ==
  /\ \A o \in {TimeAxis, BarAxis, ValueAxis, CountAxis} : IsOptions(o)
  /\ TimeAxis.time /\ ~TimeAxis.given /\ TimeAxis.margin = 0 /\ BarAxis.given
  /\ \A o \in {ValueAxis, CountAxis} : ~o.time /\ ~o.given
  BY DEF IsOptions, TimeAxis, BarAxis, ValueAxis, CountAxis

\* An axis over its data; an axis with a margin ends at its ticks at most.
LEMMA AxisIs ==
  ASSUME NEW extent, IsExtent(extent), NEW ts, NEW options, IsOptions(options),
         IsList(SetTicks(SetRange(extent, options), ts, options)),
         ~options.given => CoverRange(SetTicks(SetRange(extent, options), ts, options),
                                      SetRange(extent, options))
  PROVE  LET a == Axis(extent, ts, options)
         IN  /\ a.ticks = SetTicks(SetRange(extent, options), ts, options)
             /\ IsList(a.ticks) /\ CoversItsData(a) /\ RangeOK(a)
             /\ ~options.given => RisesFromEndToEnd(a.ticks, a) /\ Len(a.ticks) \in 2 .. 12
<1> DEFINE range == SetRange(extent, options)
           ticks == SetTicks(range, ts, options)
           snapped == SnapRangeToTicks(range, ticks, options.margin)
           a == Axis(extent, ts, options)
<1>1. /\ range \in Extents /\ range.min < range.max
      /\ extent # Null => range.min <= extent.min /\ extent.max <= range.max
  BY SetRangeIs DEF IsOptions, RangeFits
<1>5. ticks = [i \in DOMAIN ticks |-> ticks[i]]
  BY DEF SetTicks, LabelledTicks
<1>6. IsList(ticks) /\ (~options.given => CoverRange(ticks, range))
  OBVIOUS
<1> HIDE DEF range
<1>2. range.min \in Int /\ range.max \in Int /\ range.max - range.min \in Int
  BY <1>1 DEF Extents
<1> HIDE DEF ticks
<1>7. a.min = snapped.min /\ a.max = snapped.max /\ a.extent = extent /\ a.ticks = ticks
  BY DEF Axis, range, ticks
<1>8. a.ticks = ticks /\ IsList(a.ticks)
  BY <1>6, <1>7 DEF IsList
<1>9. CASE options.given
  <2>1. snapped = range
    BY <1>9 DEF SnapRangeToTicks, IsOptions
  <2> HIDE DEF snapped, a
  <2>2. CoversItsData(a) /\ RangeOK(a)
    BY <1>1, <1>2, <1>7, <2>1 DEF CoversItsData, RangeOK
  <2> QED BY <1>8, <1>9, <2>2 DEF a, ticks, range
<1>10. CASE ~options.given
  <2>1. PICK n \in 2 .. 12 : DOMAIN ticks = 1 .. n /\ Rises([i \in 1 .. n |-> ticks[i].v], n, range)
    BY <1>6, <1>10 DEF CoverRange
  <2> DEFINE at(i) == ticks[i].v
  <2>2. /\ n >= 2 /\ at(1) \in Int /\ at(n) \in Int /\ at(1) <= range.min /\ range.max <= at(n)
        /\ \A i \in 2 .. n : at(i - 1) < at(i)
    <3>1. n >= 2 /\ 1 \in 1 .. n /\ n \in 1 .. n /\ \A i \in 2 .. n : i \in 1 .. n /\ i - 1 \in 1 .. n
      BY <2>1 DEF Rises
    <3> QED BY <2>1, <3>1 DEF Rises
  <2>3. Len(ticks) = n /\ Last(ticks) = ticks[n] /\ ticks # <<>>
    <3>1. ticks = [i \in 1 .. n |-> ticks[i]]
      BY <1>5, <2>1
    <3> QED BY <2>1, <2>2, <3>1, ListsAreSequences, SMTT(30)
  <2>4. /\ snapped.min \in Int /\ snapped.max \in Int
        /\ snapped.min <= range.min /\ at(1) <= snapped.min
        /\ range.max <= snapped.max /\ snapped.max <= at(n)
    <3>1. CASE options.margin = 0
      <4>1. snapped = range
        BY <3>1 DEF SnapRangeToTicks
      <4> HIDE DEF snapped
      <4> QED BY <1>2, <2>2, <4>1
    <3>2. CASE options.margin # 0
      <4>1. snapped = [min |-> Min({range.min, at(1)}), max |-> Max({range.max, at(n)})]
        BY <2>2, <2>3, <3>2 DEF SnapRangeToTicks
      <4>2. snapped.min = Min({range.min, at(1)}) /\ snapped.max = Max({range.max, at(n)})
        BY <4>1
      <4> HIDE DEF snapped, at
      <4>3. /\ Min({range.min, at(1)}) \in {range.min, at(1)} /\ Min({range.min, at(1)}) <= range.min
            /\ Max({range.max, at(n)}) \in {range.max, at(n)} /\ Max({range.max, at(n)}) >= range.max
        BY <1>2, <2>2, SmallExtremes
      <4> QED BY <1>2, <2>2, <4>2, <4>3
    <3> QED BY <3>1, <3>2
  <2> HIDE DEF snapped, a
  <2>5. CoversItsData(a)
    <3>1. extent # Null => extent.min \in Int /\ extent.max \in Int
      BY DEF IsExtent, Extents
    <3> QED BY <1>1, <1>2, <1>7, <2>4, <3>1 DEF CoversItsData
  <2>7. RangeOK(a)
    BY <1>7, <2>4, <2>5 DEF CoversItsData, RangeOK
  <2>6. RisesFromEndToEnd(a.ticks, a) /\ Len(a.ticks) \in 2 .. 12
    BY <1>7, <2>2, <2>3, <2>4 DEF RisesFromEndToEnd
  <2> QED BY <1>8, <2>5, <2>6, <2>7 DEF a, ticks, range
<1> QED BY <1>9, <1>10

\* What the charts show are series.
LEMMA SeriesAre ==
  ASSUME NEW s \in FirstSeries \cup LaterSeries
  PROVE  IsSeries(s)
BY SeriesAssumption DEF IsSeries, Points

\* What a tick axis promises: the ticks that the library makes cover it.
AxisOK(a) == IsList(a.ticks) /\ CoversItsData(a) /\ AllExact(a.ticks)
TicksOK(a) == RisesFromEndToEnd(a.ticks, a) /\ Len(a.ticks) \in 2 .. 12

LEMMA ValueAxisIs ==
  ASSUME NEW s \in FirstSeries \cup LaterSeries, NEW ts, NEW options \in {ValueAxis, CountAxis}
  PROVE  LET a == Axis(YExtent(s), ts, options) IN AxisOK(a) /\ TicksOK(a) /\ AxisSuits("y", a)
<1> DEFINE e == YExtent(s)
           range == SetRange(e, options)
<1>1. IsOptions(options) /\ ~options.time /\ ~options.given /\ IsExtent(e)
  BY OptionsAre, SeriesAre, ExtentsAre
<1>2. /\ range \in Extents
      /\ 100 <= range.max - range.min /\ range.max - range.min <= 208 * Million
  <2> DEFINE span == SpanOf(e)
  <2>1. \/ span = 0 /\ (e = Null \/ e.max = 0)
        \/ span \in Int /\ 100 <= span /\ span <= 200 * Million
    <3>1. CASE e = Null
      BY <3>1 DEF SpanOf
    <3>2. CASE e # Null
      <4> HIDE DEF e
      <4>1. /\ e.min \in Int /\ e.max \in Int
            /\ \/ e.min = 0 /\ e.max = 0
               \/ 100 <= e.max - e.min /\ e.max - e.min <= 200 * Million
        BY <3>2, YExtentFits DEF e
      <4>2. span = e.max - e.min
        BY <3>2 DEF SpanOf
      <4> HIDE DEF span
      <4> QED BY <4>1, <4>2, ScaleIs
    <3> QED BY <3>1, <3>2
  <2>2. /\ range \in Extents
        /\ span = 0 /\ (e = Null \/ e.max = 0) /\ ~options.time => range.max - range.min = 2000
        /\ span > 0 => span <= range.max - range.min /\ 100 * (range.max - range.min) <= 104 * span
    <3> HIDE DEF e
    <3> QED BY <1>1, SetRangeIs DEF IsOptions, RangeFits
  <2> DEFINE width == range.max - range.min
  <2>3. width \in Int
    BY <2>2 DEF Extents
  <2>4. 2000 <= 208 * Million
    BY SMT DEF Million
  <2> HIDE DEF span, range, e
  <2>5. 100 <= width /\ width <= 208 * Million
    <3> HIDE DEF width
    <3>1. \/ width = 2000
          \/ /\ span \in Int /\ 100 <= span /\ span <= 200 * Million
             /\ span <= width /\ 100 * width <= 104 * span
      BY <1>1, <2>1, <2>2 DEF width
    <3> QED BY <2>3, <2>4, <3>1, ScaleIs
  <2> QED BY <2>2, <2>5
<1> DEFINE ticks == SetTicks(range, ts, options)
<1> HIDE DEF range, e
<1>3. CoverRange(ticks, range) /\ AllExact(ticks) /\ AllShort(ticks, 360)
  BY <1>2, ValueTicksAre
<1> HIDE DEF ticks
<1>4. IsList(ticks)
  BY <1>3 DEF CoverRange, IsList
<1> DEFINE a == Axis(e, ts, options)
<1>5. a.ticks = ticks /\ CoversItsData(a) /\ RangeOK(a) /\ TicksOK(a)
  BY <1>1, <1>3, <1>4, AxisIs DEF ticks, range, TicksOK
<1> HIDE DEF a
<1>6. AxisOK(a) /\ TicksOK(a)
  BY <1>3, <1>4, <1>5 DEF AxisOK
<1>7. AxisSuits("y", a)
  BY <1>3, <1>4, <1>5, ValuesHaveRoom
<1> QED BY <1>6, <1>7 DEF a, e

LEMMA TimeAxisIs ==
  ASSUME NEW s \in FirstSeries \cup LaterSeries, ~s.bars, NEW ts
  PROVE  LET a == Axis(XExtent(s), ts, TimeAxis) IN AxisOK(a) /\ TicksOK(a) /\ AxisSuits("x", a)
<1> DEFINE e == XExtent(s)
           range == SetRange(e, TimeAxis)
<1>1. /\ IsOptions(TimeAxis) /\ TimeAxis.time /\ ~TimeAxis.given /\ TimeAxis.margin = 0
      /\ IsExtent(e)
  BY OptionsAre, SeriesAre, ExtentsAre
<1>2. /\ range \in Extents /\ range.min < range.max
      /\ range.max - range.min <= 30 * timeUnitSize.year
  <2> DEFINE span == SpanOf(e)
  <2>1. e # Null => e.max - e.min <= 30 * timeUnitSize.year
    BY TimesFit
  <2>2. e # Null => e.min \in Int /\ e.max \in Int /\ e.min <= e.max
    BY <1>1 DEF IsExtent, Extents
  <2> HIDE DEF e
  <2>3. /\ range \in Extents /\ range.min < range.max
        /\ span = 0 /\ TimeAxis.time => range.max - range.min = 2
        /\ span > 0 /\ TimeAxis.margin = 0 => range.max - range.min = span
    <3>1. TimeAxis.margin \in {0, 2} /\ TimeAxis.time \in BOOLEAN /\ IsExtent(e)
      BY <1>1
    <3>2. RangeFits(range, e, TimeAxis)
      BY <3>1, SetRangeIs
    <3> QED BY <3>2 DEF RangeFits
  <2>4. span \in Nat /\ (span > 0 => span = e.max - e.min /\ e # Null)
    BY <2>2 DEF SpanOf
  <2>5. 2 <= 30 * timeUnitSize.year
    BY UnitsAre, SMT DEF Day, Hour, Minute, Second
  <2> HIDE DEF span, range
  <2>6. CASE span = 0
    BY <1>1, <2>3, <2>5, <2>6
  <2>7. CASE span > 0
    BY <1>1, <2>1, <2>3, <2>4, <2>7
  <2> QED BY <2>4, <2>6, <2>7
<1> DEFINE ticks == SetTicks(range, ts, TimeAxis)
<1> HIDE DEF range, e
<1>3. CoverRange(ticks, range) /\ AllExact(ticks) /\ AllShort(ticks, 1440)
  BY <1>2, TimeAxisTicksAre
<1> HIDE DEF ticks
<1>4. IsList(ticks)
  BY <1>3 DEF CoverRange, IsList
<1> DEFINE a == Axis(e, ts, TimeAxis)
<1>5. a.ticks = ticks /\ CoversItsData(a) /\ RangeOK(a) /\ TicksOK(a)
  BY <1>1, <1>3, <1>4, AxisIs DEF ticks, range, TicksOK
<1> HIDE DEF a
<1>6. AxisOK(a) /\ TicksOK(a)
  BY <1>3, <1>4, <1>5 DEF AxisOK
<1>7. AxisSuits("x", a)
  BY <1>3, <1>4, <1>5, TimesHaveRoom DEF TicksOK
<1> QED BY <1>6, <1>7 DEF a, e

\* The clusters are few enough for the chart to label them.
FewTicks(ts) == \E n \in Nat : DOMAIN ts = 1 .. n /\ 4 * n <= Width

LEMMA BarAxisIs ==
  ASSUME NEW s, IsSeries(s), NEW ts, FewTicks(ts), Wholes(ts)
  PROVE  LET a == Axis(XExtent(s), ts, BarAxis) IN AxisOK(a) /\ AxisSuits("x", a)
<1> DEFINE e == XExtent(s)
           ticks == SetTicks(SetRange(e, BarAxis), ts, BarAxis)
           a == Axis(e, ts, BarAxis)
<1>1. IsOptions(BarAxis) /\ BarAxis.given /\ IsExtent(e)
  BY OptionsAre, ExtentsAre
<1>2. PICK n \in Nat : DOMAIN ts = 1 .. n /\ 4 * n <= Width
  BY DEF FewTicks
<1>3. /\ IsList(ticks) /\ AllExact(ticks) /\ AllShort(ticks, 360)
      /\ DOMAIN ticks = 1 .. n /\ ticks = [i \in 1 .. n |-> ticks[i]]
  <2>1. IsList(ts)
    BY <1>2 DEF IsList
  <2>2. /\ IsList(ticks) /\ AllExact(ticks) /\ AllShort(ticks, 360) /\ DOMAIN ticks = 1 .. n
    BY <1>2, <2>1, BarTicksAre
  <2>3. ticks = [i \in DOMAIN ticks |-> ticks[i]]
    BY DEF SetTicks, LabelledTicks
  <2> HIDE DEF ticks
  <2> QED BY <2>2, <2>3
<1> HIDE DEF e
<1>4. a.ticks = ticks /\ CoversItsData(a) /\ RangeOK(a)
  BY <1>1, <1>3, AxisIs
<1> HIDE DEF a, ticks
<1>5. AxisOK(a)
  BY <1>3, <1>4 DEF AxisOK
<1>6. AxisSuits("x", a)
  <2>1. Len(ticks) = n
    BY <1>3, ListsAreSequences, Zenon
  <2> QED BY <1>2, <1>3, <1>4, <2>1, BarsHaveRoom
<1> QED BY <1>5, <1>6 DEF a, e

\* Both axes of a series.
LEMMA AxesAre ==
  ASSUME NEW s \in FirstSeries \cup LaterSeries, NEW ts, s.bars => FewTicks(ts) /\ Wholes(ts)
  PROVE  LET made == Axes(s, ts)
         IN  /\ AxisOK(made.x) /\ AxisOK(made.y) /\ TicksOK(made.y) /\ HasTicks(made)
             /\ ~s.bars => TicksOK(made.x)
<1> DEFINE xoptions == IF s.bars THEN BarAxis ELSE TimeAxis
           yoptions == IF s.bars THEN CountAxis ELSE ValueAxis
<1>1. yoptions \in {ValueAxis, CountAxis}
  OBVIOUS
<1>2. Axes(s, ts).x = Axis(XExtent(s), ts, xoptions)
      /\ Axes(s, ts).y = Axis(YExtent(s), ts, yoptions)
  BY DEF Axes
<1> HIDE DEF yoptions
<1>3. AxisOK(Axes(s, ts).y) /\ TicksOK(Axes(s, ts).y) /\ AxisSuits("y", Axes(s, ts).y)
  BY <1>1, <1>2, ValueAxisIs
<1>4. CASE s.bars
  BY <1>2, <1>3, <1>4, SeriesAre, BarAxisIs DEF HasTicks
<1>5. CASE ~s.bars
  BY <1>2, <1>3, <1>5, TimeAxisIs DEF HasTicks
<1> QED BY <1>4, <1>5
-----------------------------------------------------------------------------
(* The invariant of the text and the axes. *)

\* Every series that the plots get is one, and so is the list of given ticks.
SeriesOK ==
  plot > 0 => /\ series \in FirstSeries \cup LaterSeries
              /\ series.bars => FewTicks(given) /\ Wholes(given)

\* Axes made for a series.
AxesOK ==
  plot > 0 => /\ AxisOK(axes.x) /\ AxisOK(axes.y) /\ TicksOK(axes.y) /\ HasTicks(axes)
              /\ ~series.bars => TicksOK(axes.x)

\* The inductive invariant of the text and the axes.
TextInv == plot \in Nat /\ SeriesOK /\ AxesOK /\ Sound(canvas) /\ Roomy(canvas)

\* Where the page is kept, so is what the reader sees.
LEMMA KeepsShown ==
  ASSUME NEW c, NEW d, Keeps(c, d)
  PROVE  Shown(d) = Shown(c)
<1> DEFINE seen(a, l) == {[layer |-> l, label |-> a.css[e].label,
                           left |-> a.css[e].left, top |-> a.css[e].top] : e \in a.dom[l]}
<1>1. \A l \in Layers : seen(d, l) = seen(c, l)
  BY DEF Keeps
<1>2. Shown(d) = UNION {seen(d, l) : l \in Layers} /\ Shown(c) = UNION {seen(c, l) : l \in Layers}
  BY DEF Shown
<1> HIDE DEF seen
<1> QED BY <1>1, <1>2

\* Before the first plot nothing is asked for and nothing shown.
LEMMA InitText == PlotInit => TextInv /\ Overlay!Init
<1> SUFFICES ASSUME PlotInit PROVE TextInv /\ Overlay!Init
  OBVIOUS
<1>1. plot = 0 /\ canvas = NewCanvas
  BY DEF PlotInit
<1>3. TextInv
  BY <1>1, NewCanvasIsSound DEF TextInv, SeriesOK, AxesOK
<1>4. \A l \in Layers : canvas.dom[l] = {} /\ DOMAIN canvas.text[l] = {}
  BY <1>1 DEF NewCanvas
<1>5. AskedFor(canvas) = {} /\ Shown(canvas) = {}
  BY <1>4 DEF AskedFor, Shown
<1> QED BY <1>3, <1>5 DEF Overlay!Init

\* A new plot comes drawn: its page shows what its axes ask for.
LEMMA NewPlotText ==
  ASSUME TextInv, NEW s \in FirstSeries \cup LaterSeries, NewPlot(s)
  PROVE  TextInv' /\ Overlay!Draw
<1>1. /\ plot \in Nat /\ plot' = plot + 1 /\ series' = s /\ axes' = Axes(s, given')
      /\ canvas' = Render(GridText(NewCanvas, axes'))
      /\ given' = IF s.bars THEN [i \in DOMAIN s.data |-> s.data[i].x] ELSE <<>>
  BY DEF NewPlot, TextInv
<1>2. IsSeries(s)
  BY SeriesAre
<1>3. s.bars => FewTicks(given)' /\ Wholes(given)'
  <2> SUFFICES ASSUME s.bars PROVE FewTicks(given)' /\ Wholes(given)'
    OBVIOUS
  <2>1. DOMAIN given' = 1 .. Len(s.data) /\ Len(s.data) \in Nat /\ 4 * Len(s.data) <= Width
    BY <1>1, <1>2, RoomAssumption DEF IsSeries
  <2>2. ASSUME NEW i \in 1 .. Len(s.data) PROVE \E w \in Int : given'[i] = One * w
    <3>1. given'[i] = s.data[i].x /\ s.data[i] \in Points /\ s.data[i] \in ToSet(s.data)
      BY <1>1, <1>2 DEF IsSeries, ToSet
    <3>2. s.data[i].x % One = 0
      BY <3>1, ScaleAssumption
    <3> DEFINE x == s.data[i].x
    <3>3. x \in Int /\ x % 1000 = 0
      BY <3>1, <3>2 DEF Points, One
    <3> HIDE DEF x
    <3>4. x = 1000 * (x \div 1000) /\ x \div 1000 \in Int
      BY <3>3
    <3> QED BY <3>1, <3>4 DEF x, One
  <2> QED BY <2>1, <2>2 DEF FewTicks, Wholes
<1>4. AxesOK' /\ HasTicks(axes)'
  <2> DEFINE made == Axes(s, given')
  <2>1. /\ AxisOK(made.x) /\ AxisOK(made.y) /\ TicksOK(made.y) /\ HasTicks(made)
        /\ ~s.bars => TicksOK(made.x)
    BY <1>3, AxesAre
  <2> HIDE DEF made
  <2>2. axes' = made /\ series' = s
    BY <1>1 DEF made
  <2> QED BY <2>1, <2>2 DEF AxesOK
<1>5. Sound(canvas)' /\ Roomy(canvas)' /\ Shown(canvas)' = AskedFor(canvas)'
  <2> DEFINE grid == GridText(NewCanvas, axes')
  <2>1. Sound(grid) /\ Roomy(grid)
    BY <1>4, NewCanvasIsSound, GridTextKeeps
  <2> HIDE DEF grid
  <2>2. canvas' = Render(grid)
    BY <1>1 DEF grid
  <2> QED BY <2>1, <2>2, RenderShows, RenderIsRoomy
<1>6. plot' \in Nat /\ SeriesOK'
  BY <1>1, <1>3 DEF SeriesOK
<1> QED BY <1>4, <1>5, <1>6 DEF TextInv, Overlay!Draw

\* setupGrid only asks.
LEMMA SetupGridText ==
  ASSUME TextInv, SetupGrid
  PROVE  TextInv' /\ Overlay!Ask
<1>1. /\ plot \in Nat /\ plot > 0 /\ series' = series /\ given' = given /\ plot' = plot
      /\ axes' = Axes(series, given) /\ canvas' = GridText(canvas, axes')
  BY DEF SetupGrid, Called, TextInv
<1>2. series \in FirstSeries \cup LaterSeries /\ (series.bars => FewTicks(given) /\ Wholes(given))
  BY <1>1 DEF TextInv, SeriesOK
<1>3. AxesOK' /\ HasTicks(axes)'
  <2> DEFINE made == Axes(series, given)
  <2>1. /\ AxisOK(made.x) /\ AxisOK(made.y) /\ TicksOK(made.y) /\ HasTicks(made)
        /\ ~series.bars => TicksOK(made.x)
    BY <1>2, AxesAre
  <2> HIDE DEF made
  <2>2. axes' = made /\ series' = series
    BY <1>1 DEF made
  <2> QED BY <2>1, <2>2 DEF AxesOK
<1>4. Sound(canvas)' /\ Roomy(canvas)' /\ Keeps(canvas, canvas')
  <2>1. Sound(canvas) /\ Roomy(canvas)
    BY DEF TextInv
  <2> DEFINE grid == GridText(canvas, axes')
  <2>2. Sound(grid) /\ Roomy(grid) /\ Keeps(canvas, grid)
    BY <1>3, <2>1, GridTextKeeps
  <2> HIDE DEF grid
  <2>3. canvas' = grid
    BY <1>1 DEF grid
  <2> QED BY <2>2, <2>3
<1>5. Shown(canvas)' = Shown(canvas)
  BY <1>4, KeepsShown
<1> QED BY <1>1, <1>3, <1>4, <1>5 DEF TextInv, SeriesOK, Overlay!Ask

\* A draw shows what is asked for.
LEMMA DrawText ==
  ASSUME TextInv, Draw
  PROVE  TextInv' /\ Overlay!Draw
<1>1. /\ UNCHANGED <<plot, series, given, axes>> /\ canvas' = Render(canvas)
      /\ Sound(canvas) /\ Roomy(canvas)
  BY DEF Draw, TextInv
<1>2. Sound(canvas)' /\ Roomy(canvas)' /\ Shown(canvas)' = AskedFor(canvas)'
  BY <1>1, RenderShows, RenderIsRoomy
<1> QED BY <1>1, <1>2 DEF TextInv, SeriesOK, AxesOK, Overlay!Draw

\* New data, a timer that runs, or nothing.
LEMMA OthersLeaveText ==
  ASSUME TextInv, UNCHANGED <<plot, given, axes, canvas>>,
         series' = series \/ (series' \in FirstSeries \cup LaterSeries /\ series'.bars = series.bars)
  PROVE  TextInv' /\ UNCHANGED <<AskedFor(canvas), Shown(canvas)>>
BY DEF TextInv, SeriesOK, AxesOK

\* Every step keeps the invariant, and is a step of the overlay or none.
LEMMA NextText ==
  ASSUME TextInv, [PlotNext]_vars
  PROVE  TextInv' /\ [Overlay!Next]_<<AskedFor(canvas), Shown(canvas)>>
<1>1. ASSUME NEW s \in FirstSeries \cup LaterSeries, NewPlot(s)
      PROVE  TextInv' /\ Overlay!Next
  BY <1>1, NewPlotText DEF Overlay!Next
<1>2. ASSUME NEW s \in LaterSeries, SetData(s)
      PROVE  TextInv' /\ UNCHANGED <<AskedFor(canvas), Shown(canvas)>>
  BY <1>2, OthersLeaveText DEF SetData
<1>3. CASE SetupGrid
  BY <1>3, SetupGridText DEF Overlay!Next
<1>4. CASE Draw
  BY <1>4, DrawText DEF Overlay!Next
<1>5. ASSUME NEW timer \in timers, DrawOverlay(timer)
      PROVE  TextInv' /\ UNCHANGED <<AskedFor(canvas), Shown(canvas)>>
  BY <1>5, OthersLeaveText DEF DrawOverlay
<1>6. CASE UNCHANGED vars
  BY <1>6, OthersLeaveText DEF vars
<1> QED BY <1>1, <1>2, <1>3, <1>4, <1>5, <1>6 DEF PlotNext

\* The invariant of the text and the axes holds.
LEMMA TextInvHolds == PlotSpec => []TextInv
<1>1. PlotInit => TextInv
  BY InitText
<1>2. TextInv /\ [PlotNext]_vars => TextInv'
  BY NextText
<1> QED BY <1>1, <1>2, PTL DEF PlotSpec
-----------------------------------------------------------------------------
(* The theorems. *)

\* The overlay is redrawn after every draw, though a plot forgets the timer of its first
\* draw and the next plot clears only the timer that the plot knows of
\* (jquery.flot.js:2902-2914).
THEOREM PlotOverlayRedrawn == PlotSpec => []OverlayRedrawn
<1>1. IInv => OverlayRedrawn
  BY DEF IInv
<1> QED BY <1>1, IInvHolds, PTL

\* However often a plot is drawn, it has at most two timers pending, and every timer
\* belongs to a plot that was made (jquery.flot.js:2902-2914).
THEOREM PlotTimersOK == PlotSpec => []TimersOK
<1>1. IInv => TimersOK
  BY DEF IInv
<1> QED BY <1>1, IInvHolds, PTL

\* The overlay promises that the reader sees just the labels that the axes asked for
\* when the chart was last drawn; the cache, the passive positions, the clones and the
\* render pass keep that promise (jquery.flot.js:167-487).
THEOREM PlotImplementsOverlay == PlotSpec => ImplementsOverlay
<1>1. PlotInit => Overlay!Init
  BY InitText
<1>2. TextInv /\ [PlotNext]_vars => [Overlay!Next]_<<AskedFor(canvas), Shown(canvas)>>
  BY NextText
<1> QED BY <1>1, <1>2, TextInvHolds, PTL DEF PlotSpec, ImplementsOverlay, Overlay!Spec

\* The plots keep their types: the timers are those of plots that were made, and every
\* element in the page is one that exists (jquery.flot.js:167-487, 2902-2914).
THEOREM PlotTypeOKHolds == PlotSpec => []PlotTypeOK
<1>1. TimersOK /\ TextInv => PlotTypeOK
  BY PageExists DEF TextInv, PlotTypeOK
<1> QED BY <1>1, PlotTimersOK, TextInvHolds, PTL

\* Whatever numbers a series has, or none at all, both axes have a range that is not
\* empty and holds the data, and the ticks that the library makes rise from one end to
\* the other: multiples of a power of ten, or steps of the calendar up to thirty years
\* (jquery.flot.js:1571-1812, jquery.flot.time.js:208-356).
THEOREM PlotTicksCoverTheData == PlotSpec => []TicksCoverTheData
<1>1. TextInv => TicksCoverTheData
  BY DEF TextInv, AxesOK, AxisOK, TicksOK, TicksCoverTheData
<1> QED BY <1>1, TextInvHolds, PTL

\* No label rounds its tick away: the precision that setupTickGeneration chooses divides
\* the size of the ticks, and behind the last field of the format that a tick size
\* gets there are only zeros on its ticks (jquery.flot.js:1627-1647, jquery.flot.time.js:274-316).
THEOREM PlotLabelsAreExact == PlotSpec => []LabelsAreExact
<1>1. ASSUME TextInv, plot > 0, NEW a \in {axes.x, axes.y}, NEW tick \in ToSet(a.ticks)
      PROVE  ExactTick(tick)
  <2>1. AllExact(a.ticks)
    BY <1>1 DEF TextInv, AxesOK, AxisOK
  <2>2. PICK i \in DOMAIN a.ticks : tick = a.ticks[i]
    BY DEF ToSet, IsList
  <2> QED BY <2>1, <2>2 DEF AllExact
<1>2. TextInv => LabelsAreExact
  BY <1>1 DEF LabelsAreExact, ExactTick, ExactTime, FinestField, Fields
<1> QED BY <1>2, TextInvHolds, PTL

\* Every label that the plot asks for lies inside the canvas, whatever the data: on a
\* chart with that much room setupGrid leaves margins for the labels of both axes, also
\* for those at the ends, that stick out of the plot (jquery.flot.js:1461-1492).
THEOREM PlotLabelsInsideCanvas == PlotSpec => []LabelsInsideCanvas
<1>1. TextInv => LabelsInsideCanvas
  BY DEF TextInv, Roomy, Within, LabelsInsideCanvas
<1> QED BY <1>1, TextInvHolds, PTL
=============================================================================
