------------------------------ MODULE FlotPlot -------------------------------
(***************************************************************************)
(* A chart of the dashboard: the plots that the page makes, one after the  *)
(* other, in one place of the page (Plot in web/js/jquery.flot.js).  Every *)
(* answer makes a new plot, which shuts down the one before it and takes   *)
(* over its canvases; a plot may also be given other data, set up again    *)
(* and drawn again, its public functions.  A draw leaves a timer behind    *)
(* that redraws the overlay canvas.                                        *)
(***************************************************************************)
EXTENDS FlotAxis, FlotCanvas

CONSTANTS
  FirstSeries, LaterSeries,  \* what the first plot shows, and what the later ones may
  Width, Height,             \* the size of the place, in pixels
  NoTimer,
  MaxPlots, MaxCalls         \* bounds: how many plots the page makes, and how often it
                             \* calls the public functions

ASSUME PlotAssumption ==
  /\ Width \in Nat \ {0} /\ Height \in Nat \ {0} /\ MaxPlots \in Nat /\ MaxCalls \in Nat
  /\ NoTimer \notin [plot : Nat, id : Nat]

\* The columns of the answers are numbers, the y of a point perhaps NULL.
ASSUME SeriesAssumption ==
  \A s \in FirstSeries \cup LaterSeries :
    s.bars \in BOOLEAN /\ s.data \in Seq([x : Int, y : Int \cup {Null}])

\* What the scale of the model allows for: values are nothing or a tenth, up to a
\* hundred thousand; the numbers of clusters are whole; times lie up to thirty years apart.
ASSUME ScaleAssumption ==
  \A s \in FirstSeries \cup LaterSeries : \A p, q \in ToSet(s.data) :
    /\ p.y \in {Null, 0} \/ p.y \in One \div 10 .. 100000 * One
                          \/ -p.y \in One \div 10 .. 100000 * One
    /\ IF s.bars THEN p.x % One = 0 ELSE q.x - p.x <= 30 * timeUnitSize.year

\* The place that a chart gets (index.html:61, 82): two hundred pixels high, and wider on
\* the narrowest of screens, with four pixels at least for each of the clusters.
ASSUME RoomAssumption ==
  /\ Width >= 240 /\ Height >= 200
  /\ \A s \in FirstSeries \cup LaterSeries : s.bars => 4 * Len(s.data) <= Width

VARIABLES
  plot,           \* the plot of the place: 0 is none, and they are numbered
  series, given,  \* of the plot: its data, and the ticks among its options
  axes, canvas,   \* its axes, and the text over its canvas
  redrawTimeout,  \* its timer, as far as it knows
  timers,         \* the browser's pending timers: [plot, id]
  stale,          \* history: the overlay has not been redrawn since the last draw
  calls           \* how many calls of public functions were made

vars == <<plot, series, given, axes, canvas, redrawTimeout, timers, stale, calls>>

PlotInit ==
  /\ plot = 0 /\ series = Null /\ given = <<>> /\ axes = Null /\ canvas = NewCanvas
  /\ redrawTimeout = NoTimer /\ timers = {} /\ stale = FALSE /\ calls = 0
-----------------------------------------------------------------------------
(* The layout. *)

BorderWidth == 2 * Px
LabelMargin == 5 * Px
MinMargin == 8 * Px     \* of the radius and the line width of points

Ceiling(length) == -((-length) \div Px) * Px

\* measureTickLabels: every label of an axis, in the cache; those of the x axis share
\* the width.
MeasureTickLabels(text, layer, ticks) ==
  LET maxWidth == IF layer = "x" THEN (Width \div Max({1, Len(ticks)})) * Px ELSE 100 * Width
  IN  FoldLeft(LAMBDA c, tick : GetTextInfo(c, layer, tick.label, maxWidth), text, ticks)

Largest(text, layer, ticks) ==
  [width |-> Max({0} \cup {text.text[layer][tick.label].width : tick \in ToSet(ticks)}),
   height |-> Max({0} \cup {text.text[layer][tick.label].height : tick \in ToSet(ticks)})]

\* Fault the run must notice: no room is made for what sticks out.
LayoutTight(x, y, position) ==
  LET side == BorderWidth + LabelMargin + y.width
      bottom == BorderWidth + LabelMargin + x.height
      left == IF position = "left" THEN side ELSE BorderWidth
      right == IF position = "right" THEN side ELSE BorderWidth
  IN  [left |-> left, top |-> BorderWidth,
       plotWidth |-> Width * Px - left - right, plotHeight |-> Height * Px - BorderWidth - bottom,
       labelsTop |-> Height * Px - bottom + LabelMargin,
       labelsSide |-> IF position = "left" THEN BorderWidth + y.width
                      ELSE Width * Px - side + LabelMargin]

\* The boxes of the two axes, from the sizes of their largest labels, and what they
\* and the labels that stick out leave of the canvas.
Layout(x, y, position) ==
  LET side == BorderWidth + LabelMargin + y.width
      bottom == BorderWidth + LabelMargin + x.height
      marginX == Max({MinMargin, Ceiling(x.width \div 2)})
      marginY == Max({MinMargin, Ceiling(y.height \div 2)})
      left == Max({marginX, IF position = "left" THEN side ELSE BorderWidth})
      right == Max({marginX, IF position = "right" THEN side ELSE BorderWidth})
      top == Max({marginY, BorderWidth})
  IN  [left |-> left, top |-> top, plotWidth |-> Width * Px - left - right,
       plotHeight |-> Height * Px - top - Max({marginY, bottom}),
       labelsTop |-> Height * Px - bottom + LabelMargin,
       labelsSide |-> IF position = "left" THEN BorderWidth + y.width
                      ELSE Width * Px - side + LabelMargin]

\* p2c: how far along a length the value lies in its range.  The range is made coarser
\* to keep the product small.
Along(value, axis, length) ==
  LET coarse == (axis.max - axis.min) \div 100000 + 1
  IN  (((value - axis.min) \div coarse) * length) \div ((axis.max - axis.min) \div coarse)

\* One turn of the loop of drawAxisLabels: a tick inside the range gets its label.
DrawLabel(text, layer, axis, layout, tick) ==
  IF tick.v < axis.min \/ tick.v > axis.max THEN text
  ELSE IF layer = "x"
  THEN AddText(text, layer, tick.label, layout.left + Along(tick.v, axis, layout.plotWidth),
               layout.labelsTop, "center", "top")
  ELSE AddText(text, layer, tick.label, layout.labelsSide,
               layout.top + layout.plotHeight - Along(tick.v, axis, layout.plotHeight),
               IF axis.position = "left" THEN "right" ELSE "left", "middle")

\* drawAxisLabels, for an axis.
DrawAxisLabels(text, layer, axis, layout) ==
  FoldLeft(LAMBDA c, tick : DrawLabel(c, layer, axis, layout, tick),
           RemoveText(text, layer), axis.ticks)

\* setupGrid, with the axes made for the data: the text afterwards.
GridText(text, made) ==
  LET measured == MeasureTickLabels(MeasureTickLabels(text, "x", made.x.ticks), "y", made.y.ticks)
      layout == Layout(Largest(measured, "x", made.x.ticks), Largest(measured, "y", made.y.ticks),
                       made.y.position)
  IN  DrawAxisLabels(DrawAxisLabels(measured, "x", made.x, layout), "y", made.y, layout)
-----------------------------------------------------------------------------
(* The operations. *)

FreshTimer(p, pending) ==
  [plot |-> p, id |-> CHOOSE i \in 1 .. Cardinality(pending) + 1 : [plot |-> p, id |-> i] \notin pending]

\* setupCanvases shuts the old plot down: the timer it knows of is cleared.
Shutdown == timers \ {redrawTimeout}

\* The constructor: the text of the old plot leaves the page, then setData, setupGrid
\* and draw; redrawTimeout is initialised after all that, when the draw has set a
\* timer already.
NewPlot(s) ==
  /\ plot < MaxPlots
  /\ series # Null => s.bars = series.bars
  /\ plot' = plot + 1 /\ series' = s
  /\ given' = IF s.bars THEN [i \in DOMAIN s.data |-> s.data[i].x] ELSE <<>>
  /\ axes' = Axes(s, given')
  /\ canvas' = Render(GridText(NewCanvas, axes'))
  /\ timers' = Shutdown \cup {FreshTimer(plot + 1, Shutdown)}
  /\ redrawTimeout' = NoTimer
  /\ stale' = TRUE
  /\ UNCHANGED calls

\* Bounds the public functions.
Called == plot > 0 /\ calls < MaxCalls /\ calls' = calls + 1

SetData(s) ==
  /\ Called /\ s.bars = series.bars
  /\ series' = s
  /\ UNCHANGED <<plot, given, axes, canvas, redrawTimeout, timers, stale>>

SetupGrid ==
  /\ Called
  /\ axes' = Axes(series, given)
  /\ canvas' = GridText(canvas, axes')
  /\ UNCHANGED <<plot, series, given, redrawTimeout, timers, stale>>

\* Fault the run must notice: every draw sets a timer.
TriggerRedrawOverlayAlways ==
  /\ redrawTimeout' = FreshTimer(plot, timers)
  /\ timers' = timers \cup {redrawTimeout'}

\* triggerRedrawOverlay: one timer at a time, as far as the plot knows.
TriggerRedrawOverlay ==
  IF redrawTimeout # NoTimer THEN UNCHANGED <<timers, redrawTimeout>>
  ELSE /\ redrawTimeout' = FreshTimer(plot, timers)
       /\ timers' = timers \cup {redrawTimeout'}

Draw ==
  /\ Called
  /\ canvas' = Render(canvas)
  /\ TriggerRedrawOverlay
  /\ stale' = TRUE
  /\ UNCHANGED <<plot, series, given, axes>>

\* Fault the run must notice: redrawTimeout is not reset.
DrawOverlaySticky(timer) ==
  /\ timers' = timers \ {timer}
  /\ stale' = (stale /\ timer.plot # plot)
  /\ UNCHANGED <<plot, series, given, axes, canvas, redrawTimeout, calls>>

\* drawOverlay, of the plot that set the timer; an old plot clears the overlay that
\* its successor has taken over.
DrawOverlay(timer) ==
  /\ timers' = timers \ {timer}
  /\ redrawTimeout' = IF timer.plot = plot THEN NoTimer ELSE redrawTimeout
  /\ stale' = (stale /\ timer.plot # plot)
  /\ UNCHANGED <<plot, series, given, axes, canvas, calls>>

PlotNext ==
  \/ \E s \in IF plot = 0 THEN FirstSeries ELSE LaterSeries : NewPlot(s)
  \/ \E s \in LaterSeries : SetData(s)
  \/ SetupGrid \/ Draw
  \/ \E timer \in timers : DrawOverlay(timer)

PlotSpec == PlotInit /\ [][PlotNext]_vars
-----------------------------------------------------------------------------
(* Properties. *)

\* The timers that a plot has pending.
TimersOf(p) == {timer \in timers : timer.plot = p}

\* A plot has at most two timers pending, the one that it forgot or that it no longer
\* waits for among them, and a plot that was shut down has no other left.
TimersOK ==
  /\ plot \in 0 .. MaxPlots /\ stale \in BOOLEAN
  /\ \A timer \in timers : timer.plot \in 1 .. plot
  /\ redrawTimeout # NoTimer => redrawTimeout.plot = plot
  /\ \A p \in 1 .. plot : Cardinality(TimersOf(p)) <= 2

\* The type invariant: the timers, and an element in the page is one that exists.
PlotTypeOK ==
  /\ TimersOK
  /\ \A l \in Layers : canvas.dom[l] \subseteq DOMAIN canvas.css

\* The range of an axis is not empty and holds its data.
CoversItsData(a) ==
  /\ a.min < a.max
  /\ a.extent # Null => a.min <= a.extent.min /\ a.extent.max <= a.max

\* The ticks rise, and reach from one end of the axis to the other.
RisesFromEndToEnd(ticks, a) ==
  /\ \A i \in 2 .. Len(ticks) : ticks[i - 1].v < ticks[i].v
  /\ ticks[1].v <= a.min /\ a.max <= Last(ticks).v

\* Each axis covers its data, also when that is empty or all the same, so that nothing
\* is divided by a range of zero; the ticks that the library generates rise, reach
\* from one end of the axis to the other and stay about as many as asked for
\* (jquery.flot.js:1571-1657, jquery.flot.time.js:208-356).
TicksCoverTheData ==
  plot > 0 =>
    \A a \in {axes.x, axes.y} :
      /\ CoversItsData(a)
      /\ a = axes.y \/ ~series.bars => RisesFromEndToEnd(a.ticks, a) /\ Len(a.ticks) \in 2 .. 12

\* A label does not round its tick: a number is the tick's to the last digit, and of a
\* time nothing finer than the field shown last is left out but zeros; the fields
\* coarser than the first, such as the date of an hour, are the reader's to know
\* (jquery.flot.js:1627-1647, the digit more for ticks at two and a half;
\* jquery.flot.time.js:274-316).
LabelsAreExact ==
  LET fields == <<"%Y", "%b", "%d", "%H", "%M", "%S">>
      Exact(tick) ==
        IF tick.label[1][1] = "number" THEN tick.label[1][2] = tick.v
        ELSE LET t == tick.v + ZoneOffset
                 finest == Max({i \in 1 .. 6 : \E f \in ToSet(tick.label) : f[1] = fields[i]})
             IN  /\ t % Second = 0
                 /\ \A i \in finest + 1 .. 6 :
                      Field(t, fields[i]) = IF fields[i] = "%d" THEN 1 ELSE 0
  IN  plot > 0 => \A a \in {axes.x, axes.y} : \A tick \in ToSet(a.ticks) : Exact(tick)

\* The labels lie inside the canvas, whatever their sizes and wherever their ticks
\* are: those at the ends stick out of the plot (jquery.flot.js:1461-1492).
LabelsInsideCanvas ==
  \A l \in Layers : \A label \in DOMAIN canvas.text[l] :
    LET info == canvas.text[l][label]
    IN  \A p \in {q \in info.positions : q.active} :
          /\ 0 <= p.x /\ p.x + info.width <= Width * Px
          /\ 0 <= p.y /\ p.y + info.height <= Height * Px

\* The overlay is redrawn after every draw: a timer of the plot is pending until then,
\* and the timer that the plot knows of is pending too (jquery.flot.js:2902-2914).  This
\* page draws each of its plots once; a second draw is any other user's of the library.
OverlayRedrawn ==
  /\ stale => \E timer \in timers : timer.plot = plot
  /\ redrawTimeout # NoTimer => redrawTimeout \in timers

\* The page shows the labels that the axes asked for at the last draw.
Overlay == INSTANCE TextOverlay WITH labels <- AskedFor(canvas), shown <- Shown(canvas)
ImplementsOverlay == Overlay!Spec
=============================================================================
