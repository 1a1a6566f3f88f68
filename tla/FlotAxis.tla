------------------------------ MODULE FlotAxis -------------------------------
(***************************************************************************)
(* The axes of a chart (web/js/jquery.flot.js): from the data of a series  *)
(* to the range of each axis and its ticks.  Numbers are integers, One of  *)
(* them to the number 1; times are those of FlotTime.  A series has points *)
(* [x, y], y Null where there is no number, and is drawn as bars or as a   *)
(* filled line, the two kinds that the dashboard uses.                     *)
(***************************************************************************)
EXTENDS FlotTime

CONSTANT Null

ASSUME NullAssumption == Null \notin Int /\ Null \notin [min : Int, max : Int]

One == 1000
Powers == {1, 10, 100, 1000, 10000, 100000, 1000000, 10000000}

\* The options of the axes of the two charts, where they are not the library's:
\* mode "time", the ticks or how many of them (in tenths; the library's guess for a
\* chart of 300 by 200 pixels where the page gives none), minTickSize,
\* autoscaleMargin in percent, tickDecimals zero, and position.
TimeAxis  == [time |-> TRUE, tenths |-> 40, given |-> FALSE, minTickSize |-> 10 * Second,
              margin |-> 0, whole |-> FALSE, position |-> "bottom"]
BarAxis   == [TimeAxis EXCEPT !.time = FALSE, !.tenths = 52, !.given = TRUE, !.whole = TRUE]
ValueAxis == [TimeAxis EXCEPT !.time = FALSE, !.tenths = 42, !.margin = 2, !.position = "right"]
CountAxis == [ValueAxis EXCEPT !.position = "left"]
-----------------------------------------------------------------------------
(* The data. *)

\* The points that processData keeps: the others become null.
Kept(series) == {p \in ToSet(series.data) : p.y # Null}

Extent(values) ==
  IF values = {} THEN Null ELSE [min |-> Min(values), max |-> Max(values)]

\* A point widens the x axis even when its y is null; a bar is one wide, and lies
\* around its point.
XExtent(series) ==
  LET sides == IF series.bars THEN {-(One \div 2), One \div 2} ELSE {0}
  IN  Extent({p.x + side : p \in Kept(series), side \in sides}
               \cup {p.x : p \in ToSet(series.data) \ Kept(series)})

\* Bars and filled lines reach down to zero, which every point brings along.
YExtent(series) ==
  Extent({p.y : p \in Kept(series)} \cup {0 : p \in ToSet(series.data)})
-----------------------------------------------------------------------------
(* The range. *)

\* setRange, for an axis without min and max of its own: a range of one value is
\* widened (of one time, by less than the second that its ticks tell apart), another
\* gets its margin, but not across zero.
SetRange(extent, options) ==
  LET min == IF extent = Null THEN 0 ELSE extent.min
      max == IF extent = Null THEN 0 ELSE extent.max
      widen == IF options.time THEN 1 ELSE IF max = 0 THEN One ELSE One \div 100
      room == IF options.margin = 0 THEN 0 ELSE ((max - min) * options.margin) \div 100
  IN  IF min = max THEN [min |-> min - widen, max |-> max + widen]
      ELSE [min |-> IF min >= 0 /\ min < room THEN 0 ELSE min - room,
            max |-> IF max <= 0 /\ -max < room THEN 0 ELSE max + room]
-----------------------------------------------------------------------------
(* The ticks. *)

\* Fault the run must notice: two and a half is labelled with no digit more.
TickSizeCoarse(range, options) ==
  LET below == Max({p \in Powers : p * options.tenths <= 10 * range} \cup {1})
      magn == IF options.whole THEN Max({below, One}) ELSE below
      under(quarters) == 40 * range < quarters * magn * options.tenths
      size == CASE under(6) -> magn [] ~under(6) /\ under(9) -> 2 * magn
                [] ~under(9) /\ under(12) -> (5 * magn) \div 2
                [] ~under(12) /\ under(30) -> 5 * magn [] OTHER -> 10 * magn
  IN  [size |-> size, precision |-> Min({magn, One})]

\* setupTickGeneration: one, two, two and a half, five or ten times the power of ten
\* below the distance asked for, and the precision of the labels: one digit more
\* for two and a half, none if tickDecimals is zero.
TickSize(range, options) ==
  LET below == Max({p \in Powers : p * options.tenths <= 10 * range} \cup {1})
      magn == IF options.whole THEN Max({below, One}) ELSE below
      under(quarters) == 40 * range < quarters * magn * options.tenths
      over(quarters) == 40 * range > quarters * magn * options.tenths
      half == ~under(6) /\ over(9) /\ under(12) /\ (options.whole => magn > One)
      times == CASE under(6) -> 2 [] ~under(6) /\ under(12) -> IF half THEN 5 ELSE 4
                 [] ~under(12) /\ under(30) -> 10 [] OTHER -> 20
      digit == IF half THEN magn \div 10 ELSE magn
  IN  [size |-> (times * magn) \div 2,
       precision |-> IF options.whole THEN One ELSE Min({digit, One})]

\* Fault the run must notice: no tick at or above the end of the range.
NumberTicksShort(range, size) ==
  LET start == floorInBase(range.min, size)
  IN  [i \in 1 .. (range.max - start) \div size |-> start + (i - 1) * size]

\* The default tickGenerator: from the multiple of the size below min up to the
\* first that is not below max.
NumberTicks(range, size) ==
  LET start == floorInBase(range.min, size)
      last == -((start - range.max) \div size)
  IN  [i \in 1 .. last + 1 |-> start + (i - 1) * size]

\* The default tickFormatter rounds to the precision.
NumberLabel(v, precision) == <<<<"number", floorInBase(v + (precision \div 2), precision)>>>>

\* setTicks: the ticks given with the options or generated, each with its label.
LabelledTicks(range, given, options, size) ==
  LET values == IF options.time THEN TimeTicks(range.min, range.max, size)
                ELSE IF options.given THEN given ELSE NumberTicks(range, size.size)
      label(v) == IF options.time THEN TimeLabel(v, size, range.max - range.min)
                                  ELSE NumberLabel(v, size.precision)
  IN  [i \in DOMAIN values |-> [v |-> values[i], label |-> label(values[i])]]

\* setupTickGeneration: the ticks of the axis, in the size chosen for its range.  The
\* bar chart was given its ticks with its options.
SetTicks(range, given, options) ==
  LET span == range.max - range.min
  IN  LabelledTicks(range, given, options,
        IF options.time THEN ChooseTickSize(span, options.tenths \div 10, options.minTickSize)
                        ELSE TickSize(span, options))

\* snapRangeToTicks: an axis with a margin ends at its outermost ticks.
SnapRangeToTicks(range, ticks, margin) ==
  IF margin = 0 \/ ticks = <<>> THEN range
  ELSE [min |-> Min({range.min, ticks[1].v}),
        max |-> IF Len(ticks) > 1 THEN Max({range.max, Last(ticks).v}) ELSE range.max]

\* The axis that setupGrid makes for the extent of its data.
Axis(extent, given, options) ==
  LET range == SetRange(extent, options)
      ticks == SetTicks(range, given, options)
      snapped == SnapRangeToTicks(range, ticks, options.margin)
  IN  [min |-> snapped.min, max |-> snapped.max, extent |-> extent, ticks |-> ticks,
       position |-> options.position]

\* The two axes of a chart, by the options that the page draws it with.
Axes(series, given) ==
  [x |-> Axis(XExtent(series), given, IF series.bars THEN BarAxis ELSE TimeAxis),
   y |-> Axis(YExtent(series), given, IF series.bars THEN CountAxis ELSE ValueAxis)]
=============================================================================
