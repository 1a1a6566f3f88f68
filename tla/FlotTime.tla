------------------------------ MODULE FlotTime -------------------------------
(***************************************************************************)
(* The time axis of the charts (web/js/jquery.flot.time.js): which tick    *)
(* size a range of time gets, where its ticks lie, and how they read.      *)
(* Times are integers, Second of them to a second, counted from the start  *)
(* of YearZero; the browser's zone is a constant distance from UTC.        *)
(***************************************************************************)
EXTENDS Integers, SequencesExt

CONSTANT ZoneOffset     \* the browser's time zone, which dateGenerator uses

ASSUME ZoneAssumption == ZoneOffset \in Int

YearZero == 2012        \* a leap year
Second == 2
Minute == 60 * Second
Hour == 60 * Minute
Day == 24 * Hour

timeUnitSize ==
  [second |-> Second, minute |-> Minute, hour |-> Hour, day |-> Day,
   month |-> 30 * Day, year |-> 31556952 * Second]

\* The allowed tick sizes, in quarters of a unit because some are parts of a month.
specMonths ==
  <<<<4, "second">>, <<8, "second">>, <<20, "second">>, <<40, "second">>, <<120, "second">>,
    <<4, "minute">>, <<8, "minute">>, <<20, "minute">>, <<40, "minute">>, <<120, "minute">>,
    <<4, "hour">>, <<8, "hour">>, <<16, "hour">>, <<32, "hour">>, <<48, "hour">>,
    <<4, "day">>, <<8, "day">>, <<12, "day">>, <<1, "month">>, <<2, "month">>,
    <<4, "month">>, <<8, "month">>, <<12, "month">>, <<24, "month">>, <<4, "year">>>>

StepOf(size) == (size[1] * timeUnitSize[size[2]]) \div 4

\* Years to a tick, for ranges of less than ten years to a tick.
Years(range, noTicks) ==
  LET reaches(halves) == (2 * range) \div noTicks >= halves * timeUnitSize.year
  IN  IF reaches(15) THEN 10 ELSE IF reaches(6) THEN 5 ELSE IF reaches(3) THEN 2 ELSE 1

\* The first size of the list with more than the distance asked for half way to the
\* next, and no smaller than minSize.
ChooseTickSize(range, noTicks, minSize) ==
  LET fits(i) == /\ (2 * range) \div noTicks < StepOf(specMonths[i]) + StepOf(specMonths[i + 1])
                 /\ StepOf(specMonths[i]) >= minSize
      size == specMonths[Min({j \in 1 .. Len(specMonths) - 1 : fits(j)} \cup {Len(specMonths)})]
  IN  IF size[2] = "year" THEN <<4 * Years(range, noTicks), "year">> ELSE size
-----------------------------------------------------------------------------
(* Dates, in local time.  External: what the browser's Date does. *)

\* The start of month k, counted from January of YearZero.
MonthStart(k) ==
  LET y == k \div 12
      before == <<0, 31, 59, 90, 120, 151, 181, 212, 243, 273, 304, 334>>[(k % 12) + 1]
      leapDay == IF y % 4 = 0 /\ k % 12 >= 2 THEN 1 ELSE 0
  IN  Day * (365 * y + (y + 3) \div 4 + before + leapDay)

MonthOf(t) ==
  LET about == (48 * (t \div Day)) \div 1461  \* the days of four years
  IN  CHOOSE k \in about - 1 .. about + 1 : MonthStart(k) <= t /\ t < MonthStart(k + 1)

\* setDate(1) keeps the hours.  setMonth keeps the day, and so runs over into the
\* next month when the new one is shorter.
SetDateFirst(t) == MonthStart(MonthOf(t)) + (t % Day)
SetMonth(t, k) == MonthStart(k) + (t - MonthStart(MonthOf(t)))
-----------------------------------------------------------------------------
(* The ticks. *)

floorInBase(n, base) == base * (n \div base)

\* floorInBase of the months of the year: n divides twelve.
FloorMonths(t, n) == SetMonth(t, floorInBase(MonthOf(t), n))

\* The component of the unit rounded down to the size, the smaller ones of the
\* clock reset.
RoundedDown(t, size) ==
  LET n == size[1] \div 4
      FloorIn(whole, part) == (t - (t % whole)) + floorInBase((t % whole) \div part, n) * part
      year == MonthOf(t) \div 12
  IN  CASE size[2] = "second" -> FloorIn(Minute, Second)
        [] size[2] = "minute" -> FloorIn(Hour, Minute)
        [] size[2] = "hour" -> FloorIn(Day, Hour)
        [] size[2] = "month" /\ n > 1 -> FloorMonths(t, n)
        [] size[2] = "year" ->
             SetMonth(t, 12 * (floorInBase(YearZero + year, n) - YearZero) + (MonthOf(t) % 12))
        [] OTHER -> t

\* The first tick: rounded down, and the hours, the day and the month reset as the
\* step calls for it.  The month is reset to a multiple of three, then of six, then of
\* twelve, and the last of them decides.
FirstTick(t, size) ==
  LET step == StepOf(size)
      ResetHours(d) == IF step >= Day THEN d - (d % Day) ELSE d
      ResetDate(d) == IF step >= 4 * Day THEN SetDateFirst(d) ELSE d
      first == ResetDate(ResetHours(RoundedDown(t, size)))
      months == CASE step >= timeUnitSize.year -> 12
                  [] step >= 6 * timeUnitSize.month /\ step < timeUnitSize.year -> 6
                  [] OTHER -> 3
  IN  IF step >= 2 * timeUnitSize.month THEN FloorMonths(first, months) ELSE first

\* A part of a month on, rounded down to a day; the hours are carried to the next.
PartOfMonthOn(d, size) ==
  LET k == MonthOf(d.v)
      t == d.v + d.carry * Hour + ((MonthStart(k + 1) - MonthStart(k)) \div 4) * size[1]
  IN  [v |-> t - (t % Day), carry |-> (t % Day) \div Hour]

Following(d, size) ==
  CASE size[2] = "month" /\ size[1] < 4 -> PartOfMonthOn(d, size)
    [] size[2] = "month" /\ size[1] >= 4 ->
         [d EXCEPT !.v = SetMonth(@, MonthOf(@) + (size[1] \div 4))]
    [] size[2] = "year" -> [d EXCEPT !.v = SetMonth(@, MonthOf(@) + 3 * size[1])]
    [] OTHER -> [d EXCEPT !.v = @ + StepOf(size)]

MaxTicks == 16          \* bounds the list of ticks; no axis has as many

\* tickGenerator: ticks from the first on, up to one that is not below max.
TimeTicks(min, max, size) ==
  LET tick[i \in 1 .. MaxTicks] ==
        IF i = 1 THEN [v |-> FirstTick(min + ZoneOffset, size), carry |-> 0]
                 ELSE Following(tick[i - 1], size)
      last == Min({i \in 1 .. MaxTicks : tick[i].v >= max + ZoneOffset} \cup {MaxTicks})
  IN  [i \in 1 .. last |-> tick[i].v - ZoneOffset]
-----------------------------------------------------------------------------
(* The labels: the fields of a time that a reader sees. *)

Field(t, c) ==
  CASE c = "%H" -> (t % Day) \div Hour
    [] c = "%M" -> (t % Hour) \div Minute
    [] c = "%S" -> (t % Minute) \div Second
    [] c = "%d" -> (t - MonthStart(MonthOf(t))) \div Day + 1
    [] c = "%b" -> MonthOf(t) % 12
    [] c = "%Y" -> YearZero + MonthOf(t) \div 12

formatDate(t, fmt) == [i \in 1 .. Len(fmt) |-> <<fmt[i], Field(t, fmt[i])>>]

\* tickFormatter: as much of the date as the tick size and the span call for.
TimeLabel(v, size, span) ==
  LET t == StepOf(size)
      fmt == CASE t < Minute -> <<"%H", "%M", "%S">>
               [] t >= Minute /\ t < Day ->
                    IF span < 2 * Day THEN <<"%H", "%M">> ELSE <<"%b", "%d", "%H", "%M">>
               [] t >= Day /\ t < timeUnitSize.month -> <<"%b", "%d">>
               [] t >= timeUnitSize.month /\ t < timeUnitSize.year ->
                    IF span < timeUnitSize.year THEN <<"%b">> ELSE <<"%b", "%Y">>
               [] t >= timeUnitSize.year -> <<"%Y">>
  IN  formatDate(v + ZoneOffset, fmt)
=============================================================================
