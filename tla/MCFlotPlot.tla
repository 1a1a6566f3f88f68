----------------------------- MODULE MCFlotPlot ------------------------------
(* Charts of the dashboard: rates over times that lie a minute to years apart, as far *)
(* as the browser's clock is from the database's, and counts by cluster.              *)
EXTENDS FlotPlot

\* New York, in the winter.
MCZoneOffset == -5 * Hour

At(month, day, rest) == MonthStart(month) + (day - 1) * Day + rest

\* The rate starts and ends at zero; the time is local.
Rates(start, span, most) ==
  [bars |-> FALSE,
   data |-> LET t == start - MCZoneOffset
            IN  <<[x |-> t, y |-> 0], [x |-> t + span \div 3, y |-> most], [x |-> t + span, y |-> 0]>>]

\* An afternoon in March, the night at the end of January, a leap day, New Year's Eve.
Night == At(24, 31, 23 * Hour + 59 * Minute + 41)
Starts == {At(26, 27, 13 * Hour + 37 * Minute + 90), Night, At(49, 29, 7 * Hour + 37 * Minute), At(35, 31, Hour + 1)}
Spans == {59 * Second, 65 * Second + 1, 5 * Minute, 50 * Minute, 3 * Hour, 20 * Hour, 3 * Day, 8 * Day,
          25 * Day, 44 * Day, 50 * Day, 100 * Day, 230 * Day, 400 * Day, 900 * Day, 2200 * Day}
Maxima == {0, 250, 1000, 9000, 10000, 33333, 5000000}

\* Counts by cluster, in the order of the query.
Counts(clusters, most) ==
  [bars |-> TRUE,
   data |-> [i \in 1 .. Len(clusters) |->
              [x |-> clusters[i] * One, y |-> (1 + (i * most) \div Len(clusters)) * One]]]

MCFirstSeries ==
  {Rates(start, span, 1234567) : start \in Starts, span \in Spans}
    \cup {Rates(Night, 59 * Second, most) : most \in Maxima}
    \cup {[bars |-> FALSE, data |-> <<[x |-> start - MCZoneOffset, y |-> 0]>>] : start \in Starts}
    \cup {Counts(c, most) : c \in {<<>>, <<0, 1, 2, 3>>, <<7>>}, most \in {1, 40, 900}}

MCLaterSeries ==
  {Rates(Night, 12 * Hour, 7300), Counts(<<0, 1, 2, 3>>, 40), Counts(<<>>, 1)}
=============================================================================
