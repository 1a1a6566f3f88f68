# TLA+ models of the VoltDB fast data application

This directory holds TLA+ modules that model the application in `src/`, TLC
configurations that check them on small instances, and proofs that TLAPS checks for
every value of the constants. `PROJECT.json` maps each definition to the lines of the
source it models.

    tlc -config es_session.cfg MCEventStore.tla   # a run
    tlapm EventStore_proofs.tla                   # the proofs of a module

## The system

Click events flow in a circle: a generator inserts them, the database scores each
against a model of clusters and exports one event per session, a job in the data
warehouse computes a new model from the exports and stores it back, the nibbler deletes
old events, and a dashboard in a browser polls the database.

| Component | Source | State | Operations |
|---|---|---|---|
| Database | `db/ddl.sql`, `db/procedures/events/` | `events` (partitioned by `src`), the stream `events_export`, the replicated `dests`, `agents`, `clusters`, `clusters_dsa`, and views | `NewEvent`, `DeleteAfterDate`, `DeleteOldestToTarget`, `LoadDsa`, `TruncateDsa`, queries |
| Nibbler | `nibbler/` | map of partitions, rows per partition, counter of deletes; per round a latch and a flag | tracker, deleter and reporter tasks on a thread pool; callbacks on the client's thread |
| Generator | `client/` | lines loaded, calls in flight, a latch for the servers | connect with retry, load, send for a duration, drain, close |
| Cluster pipeline | `hadoop/` | export directory, processing directory, staging table | seven steps of a shell script |
| Dashboard | `web/` | connection and metadata, a command queue, intervals, open requests and what is on the screen, the points of a chart | tests and retries, queued calls, refreshes |
| Chart library (vendored) | `web/js/jquery.flot.js`, `jquery.flot.time.js` | per plot: data, axes with ticks, a cache of labels, the elements over the canvas, a redraw timer | new plot, `setData`, `setupGrid`, `draw`, redraw of the overlay |
| Vertica variant | `vertica/` | none in the source | one SQL script that calls a binary library |

How they interact: the generator and the nibbler call stored procedures
asynchronously, the nibbler's callbacks release its latch, the export connector carries
`events_export` to a directory that the pipeline renames, the pipeline fills
`clusters_dsa` and has `LoadDsa` copy it into `clusters`, which `NewEvent` reads; the
dashboard sends JSONP requests, each raced by a timer, and makes a new plot of the chart
library, in the same place of the page, for every answer that a chart shows.

What is hard in it, and what makes each part correct:

* **Sessions against deletion.** `NewEvent` exports an event only when the view
  `events_sessions` shows none of the same pair in the last 30 seconds. That view is
  computed from a table which the nibbler keeps shrinking. Correct: each session is
  exported once, as if nothing had been deleted, provided that enough history is kept.
* **Chunked deletes.** The two procedures cut at the timestamp of a row found by
  position. Ties, and counts that just equal a bound, decide what goes. Correct: only
  old rows, the oldest first, a bounded number beyond the target, and always some.
  (A trim by count goes at least one row below its target, unless its chunk stops it.)
* **Rounds of asynchronous calls.** Correct: a round waits for exactly its calls, a
  failed one included; no verdict of a callback is lost; the counts reported are those
  of rows deleted; targets that are read while the tracker replaces them do no harm.
* **A script that checks nothing.** Correct: what failed runs leave behind does not
  spoil a clean one, no export is missed, and the events are never scored by part of a
  model.
* **Late, lost and reordered answers in the browser.** Correct: every call is answered
  once, one at a time within a queue; the page connects once; the
  chart shows rates that make sense in bounded memory; what is on the screen came over a
  loaded connection, and is overtaken by less than a time-out.
* **Charts of any data, made over and over.** From a minute of rates to years, from no
  cluster to many, a chart picks a range, a tick size, ticks and labels, fits them into the
  canvas, and reuses what it laid out before. Correct: ticks reach over the data and
  read exactly, labels lie inside, the page shows those asked for last and no others, and the
  overlay is redrawn after each draw although a plot forgets its first timer.
* **Start and end of the generator.** Correct: rows before the events that need them,
  and an end.

`PROJECT.json` lists these hazards line by line, with the properties that cover them.

## Modules

| Module | Models | Builds on |
|---|---|---|
| `EventsTable` | the rows of one partition and the two deletion procedures, as operators | |
| `EventStore` | the database: one action per transaction, and the dashboard's queries | `EventsTable` |
| `Nibbler` | tracker, deleters, callbacks, reporter, and the database as the calls see it | `EventsTable`, `Retention` |
| `Retention` | abstract: what the nibbler promises about the events table | |
| `ClusterPipeline` | the job, step by step, with the export connector beside it | |
| `CommandQueue` | call wrapper, command queue and `LoadConnectionMetadata` | |
| `Dashboard` | connection tests, connecting, refresh intervals | `CommandQueue` |
| `Refresh` | the refreshes of tables and bar chart, with overlapping answers, and which calls the metadata admits | `Dashboard` |
| `TpsChart` | the throughput chart and its overlapping requests | |
| `FlotTime` | the time axis: tick sizes, ticks, labels, as operators on local dates | |
| `FlotAxis` | from the data of a chart to ranges, ticks and labels | `FlotTime` |
| `FlotCanvas` | the text overlay with its cache and render pass, as operators on a canvas | |
| `FlotPlot` | the plots of one place of the page: one action per operation | `FlotAxis`, `FlotCanvas`, `TextOverlay` |
| `TextOverlay` | abstract: what the labels of a chart promise the reader | |
| `LogGenerator` | connector threads, main thread, client library | |
| `EventsTable_proofs`, `EventStore_proofs`, `Nibbler_proofs` | lemmas and theorems of the database and the nibbler | each its module; the other two use the first |
| `ClusterPipeline_proofs`, `Refresh_proofs`, `TpsChart_proofs`, `FlotPlot_proofs`, `LogGenerator_proofs` | theorems of the other parts; `Refresh_proofs` has those of `CommandQueue` and `Dashboard` as well | each its module |

The modules named `MC...` give constants their small values.

Actions carry the names of the procedures, functions and methods that they model. The
definitions that a comment calls a fault are variants of the definition after them;
substituting one for the other shows that a property notices that bug. No
specification uses them.

### EventsTable and EventStore

A transaction is an operator from rows to a result (`ok`, `rows`, `deleted`), so that
the nibbler and the database share one definition. VoltDB executes the transactions of
a partition one after the other, and an aborted transaction changes nothing; hence one
action is one transaction. The table `events` is one set, cut by `PartitionOf`; rows
carry the number of their insert because SQL tables are bags. The variable `inserted`
is a history of all inserts: properties compare what the procedures see (`events`) with
what happened (`inserted`). Timestamps are given by the client and reach the database
up to `MaxDelay` ticks later, in any order; `TicksPerSecond` makes truncation to
seconds visible. `NewEvent` reads the cluster model of the moment, any of the nearest
centers if several tie.

Two conditions on the configuration appear in the properties, because the code needs
them and does not enforce them: `DashboardExact` assumes `historyseconds` greater than
the 60 seconds of the dashboard's window, `SessionExact` assumes a history one second and
a click's delay longer than the 30 seconds of a session (`RetentionCoversSession`).
`run.sh` starts the nibbler with 180; the nibbler's own default is 30, with which neither
holds.

### Nibbler and Retention

The actions cut the tasks where threads can interleave: the two reads of shared
references in a deleter's `run`, each send, the database's execution, each callback,
the tracker's two calls and its two writes. Faults are calls that throw, calls that
abort, and answers lost after the commit. `Retention` says in three actions what a
reader of the table may rely on; `ImplementsRetention` checks that every step of the
nibbler is one of its steps or leaves the table alone, `now`, `cluster` and `rows` being
the same variables in both. `leftover` is a history: of a deleter's round, whether a
call left rows that it could have deleted, and whether one failed. The command line is a
variable, `config`, chosen at the start and never changed, so that one run covers both modes
(`Configs`). The nibbler's clock is taken to be the clients' clock. The code schedules one deleter, and so do
the runs; a comment says that two may be scheduled (`ContinuousDeleter.java:157-159`), and the
theorems hold for any number of them.

### ClusterPipeline

`clean` records whether every step of the run in progress has succeeded. A step fails
for want of its input, or without need (`MaxFaults`), and the script goes on. A center
is marked with the data that it was computed from, so that models can be told apart. `nested`
is set when the export directory was moved into an old `$PROCESSBASE`, where the pig script does
not look; the next move into it is refused.

`ModelNeverTorn` is stated for runs without faults, in which steps may still fail for want
of input. With a fault the script can tear the model: a `STORE` that stops midway is followed by
`LOAD` (`compute_clusters.sh:81-86`), until the next run that is clean. `CleanRunInstallsItsModel`
says what holds with faults; in it only a `LOAD` that fails leaves the old model.

### CommandQueue, Dashboard, Refresh, TpsChart

A browser runs one turn at a time, so an action is a turn with every call it makes: a
callback of the queue pops the stack, sends the next call or completes the batch, and the
completion handler, whose own queue is empty, in the same turn. Requests and timers are
separate, so that an answer may come after its timer has fired. `Dashboard` extends
`CommandQueue`: `ConnectToDatabase` is the turn in which a connection is made, with a queue of
its own that starts: `LoadConnectionMetadata` has no guard, a second one would replace everything
the first has loaded, and that it does not happen is `ConnectsOnce`. The page's script also binds
handlers to a drop-down of refresh periods (`voltdb-dashboard.js:79-95`), but `index.html` has none
of its elements, so that only connecting sets the interval. `Refresh` extends
`Dashboard`: from that turn on the interval makes calls, although the procedures can be called
only once the queue has completed, so the first refreshes end in errors that are answered within
the call. `catalog` is what the database says of the procedures: there, with another
number of parameters, or absent; `BuildURI` looks up both. The answers are rows, empty or an error,
which a table and the bar chart treat differently (`Drawn`). A tick is the interval's
second, and `Patience` counts those in the twenty seconds of a timer. Timers are taken to be
punctual, in `Refresh` and in `TpsChart`: where a busy browser fires one late, an answer may be
overtaken by so much more. `DrawnMeansLoaded` speaks of what is drawn; that an error of the bar
chart skips the calls after it (`demo.js:48`) is in the model (`Made`), and no property is about it.

In `TpsChart` a tick is a millisecond, the resolution of the time stamps that the code compares,
and a refresh period is any number of ticks (`Period`); the minute is `Kept` periods. A call is
executed by the database some time after it was sent, and answered some time after that; each point
keeps, as a history, when it was asked for. The database's counter of calls is taken never to fall.
It does when the database restarts while the page goes on, and the page then draws one negative
rate, which `RatesMakeSense` does not cover.

### FlotTime, FlotAxis, FlotCanvas, FlotPlot, TextOverlay

The library is vendored; the modules hold the part of it that the options of the two charts
reach. `FlotTime` and `FlotAxis` are pure: times are integers in half seconds, local dates are
computed from a leap year on, a value is an integer of thousandths. `FlotCanvas` turns the cache
(`text`), the elements (`css`) and the page (`dom`) into one record, so that sharing an element
between two positions of a label, or leaving one behind, is visible. How wide a text is, and how
it wraps, is the browser's and given by a simple rule (`Measured`). `FlotPlot` makes plots one
after the other in one place: the constructor (`NewPlot`) shuts the old one down, draws, and only
then initialises `redrawTimeout`, as the code does. The page itself makes a new plot for
every answer, and so draws each once; `SetData`, `SetupGrid` and `Draw` are the library's public functions, which the
constructor is built from, and the model calls them in any order. `ImplementsOverlay` checks
that a chart implements `TextOverlay` under a mapping from the cache to the labels asked for
(`AskedFor`) and from the elements to those the reader sees (`Shown`).
The positions of a label are a set, because no two of them have the same place.

### LogGenerator

The client library is modelled by what the generator uses of it: calls in flight that
are executed in any order, callbacks, `drain`, connections that come and go.

## Runs

| Run | Instance | Shows |
|---|---|---|
| `es_session` | two users, two pages, three late events, clock 7 at 2 ticks a second, chunk 1, a model | sessions are exported exactly once; only aged rows leave; the dashboard's queries are exact; bounds and progress of deletes by date |
| `es_count` | two users in two partitions, four events with ties, target 2 rows, chunk 2, a model | order and progress of deletes by count: the surplus and exactly one row more, but for ties and the chunk; types |
| `nibbler` | one deleter; by date, and by count with shares of 2 that become 1 and of 1 that become 0 when a partition joins; 3 rows, clock 1, chunk 1, one fault | latch, flag and retention under any order of answers; stale and half-published targets do no harm |
| `nibbler_joining` | one deleter by date, a partition that joins, 2 rows, one fault | the reports lose nothing from the counter; the deleter keeps running; aged rows leave, from the partition that joined too |
| `pipeline` | 3 batches, 2 centers, 2 faults | clean runs install their model, whole; without faults no run tears it; nothing exported is missed |
| `dashboard` | 3 tests, 3 queued calls of which 2 are needed, both modes of `Start`; 3 refreshes of the bar chart and a table, with three catalogs | connects once, keeps testing; order, one call at a time, completion; what is drawn came over a loaded connection and is overtaken by less than a time-out |
| `tps` | periods of 2 ticks, a window of 2 periods, time-outs of 2 ticks, a cache of 1, clock 9, three skews | rates; memory |
| `generator` | 2 servers, 2 agents, 1 url, 3 refusals, 2 faults | order of loads and events, draining, ending |
| `plot` | 64 rates over times of a minute to six years from four starts, rates of a single point, seven ranges of values, none, one and four clusters; 2 plots, 3 calls of public functions | ticks, labels and layout; the labels shown are those asked for; overlay and timers |

The bounds, and why they suffice. The deletion procedures compare a count with a target and
with zero; chunks of 1 and 2 with up to four rows reach below, at and above each,
with and without ties. A session needs two events and a third that is late; a second pair
and a second user make the group-by visible. The nibbler's races are between one task and
another: two partitions give two answers in either order, one fault each kind of failure, and a
share of zero the abort of a trim that finds as many rows as its chunk. The
queue of the code has seven calls; with three every case (first, middle, last, needed or not) occurs.
A refresh makes five calls; the bar chart, whose error stops the refresh, with a table behind it
is what distinguishes them, and three refreshes with a patience of two let an answer be overtaken
in time, and come too late. The spans of `plot` reach fourteen tick sizes
from ten seconds (the page's `minTickSize`) to two years, with every unit and both parts of a month
among them, the starts the ends of a month, of a leap February and of a year;
two plots are one that takes the place of another; three calls allow for a label that is laid
out, dropped and laid out again between two draws. In
the pipeline two faults let a leftover of one run meet a failure of the next. In the throughput
chart, a period of two ticks gives answers within one period different time stamps, a time-out of
two lets two requests overlap, be answered in a burst and overtake each other; in nine ticks the
window of two periods fills, stalls and moves on. `MaxTests` only stops a repetition; `IntSize` and `Millis` scale an
`int` and a second down. Runs that come to a natural end
(the dashboard, the runs of the charts and the generator) are checked without the deadlock check;
the others with it.

Three runs end in a counterexample. Each checks one sentence that a comment or a document
states about the program and that the code does not fulfil:

| Run | Sentence | What the code does |
|---|---|---|
| `es_stuck_at_chunk` | a delete "is guaranteed to make progress" (`DeleteOldestToTarget.java:109-110`) | with a target of zero and as many rows as a chunk, it aborts |
| `es_unpersisted` | events are aged out "after they are persisted" (`README.md:30-31`) | nothing relates the two |
| `pipeline_no_exports` | the job stores "the computed clusters" (`compute_clusters.sh:18`) | without exports it empties the model |

More sentences differ from the code in a way that reading shows and no run is spent on:

* rows are deleted "until it's the right size" (`DeleteOldestToTarget.java:31-32`): the row
  that OFFSET finds goes as well, so a trim that its chunk does not stop leaves one row fewer
  than the target, ties or not (`TrimTakesSurplusAndOne` says it exactly, in `es_count`);
* "Only keep the last minute's data to bound memory usage" (`voltdb-dashboard.js:141`): one
  point leaves for each that comes, so after a gap the others stay; `MemoryBounded` says what
  bound there is;
* a table is trimmed when larger than `maxTotalRows` (`DeleteOldestToTarget.java:31-32`): one
  that is exactly as large is trimmed as well;
* "Refresh drop-down" (`voltdb-dashboard.js:79`): the page has no element that its handlers are
  bound to;
* "If we're re-using a plot object, shut down the old one" (`jquery.flot.js:1271`): the timer of
  the constructor's draw is forgotten (`:2745`), so it goes off after the shutdown, which would
  have cleared it, and redraws the overlay that the next plot has taken over;
* "for each row" (`demo.js:96`): when an answer has none, `.html(undefined)` reads instead of
  writing, and the table keeps the rows of an earlier answer;
* clusters are computed "on the full historical dataset" (`README.md:20-22`): the script
  removes the data of the run before, so each model comes from what was exported since;
* "Skip cached old results" (`voltdb-dashboard.js:120`): an answer is skipped when it is as old
  as the last one drawn; one that is older, because it was overtaken, is drawn;
* "Duration, in seconds." (`LogGenerator.java:49`): the product of `:233` is computed in `int`
  and overflows from 2147484 seconds on (`AsInt`).

## Fairness

* `Nibbler`: `scheduleWithFixedDelay` and the `finally` block rerun the tasks, so each is
  weakly fair; so is the answer to a call, because the client library ends every call in a
  callback, with an error after its timeout. Faults are bounded: a tracker that always
  fails learns no partition.
* `ClusterPipeline`: a run goes on to its end, and the job is run again; the code leaves the
  second to the operator, who is told to run it periodically.
* `Dashboard`, `Refresh`: the browser fires the timers of the queue's calls. Nothing is assumed of
  the server, and `CommandQueue` alone states no fairness.
* `LogGenerator`: threads run, servers accept in the end (the code retries for ever), calls
  are answered, time passes.

## Proofs

Every theorem is for all values of the constants that satisfy the named assumptions of the
modules (`ASSUME`, which TLC evaluates in the runs): any number of users, rows, partitions,
servers, calls, plots and faults, any data in a chart within the scale of the model, and clocks without
a useful bound. The bounds of the runs are constants too, and the theorems hold whatever they are. With
them every invariant and every action property of a passing run is a theorem, and both refinements are.

| Component | Theorems (the property of a run that each states) |
|---|---|
| Database | `TypeOK`, `AgedOutOnly`, `EverySessionExported`, `SessionExact`, `DashboardExact`, `OldestFirst`, `BoundedOvershoot`, `TrimTakesSurplusAndOne`, `DeleteMakesProgress` |
| Nibbler | `TypeOK`, `RoundsDoNotOverlap`, `ReportsAddUp`, `PauseMeansDone`, `ImplementsRetention` |
| Pipeline | `TypeOK`, `ModelNeverTorn`, `CleanRunInstallsItsModel` |
| Dashboard | `RefreshTypeOK`, `AnsweredInOrder`, `ConnectsOnce`, `DrawnMeansLoaded`, `OvertakenWithinTimeout` |
| Throughput chart | `TypeOK`, `RatesMakeSense`, `MemoryBounded` |
| Chart library | `PlotTypeOK`, `TicksCoverTheData`, `LabelsAreExact`, `LabelsInsideCanvas`, `OverlayRedrawn`, `ImplementsOverlay` |
| Generator | `TypeOK`, `EventsFindTheirRows` |

### The deletion procedures

`EventsTable_proofs` proves what the procedures do for every finite set of rows, every
target and date: the timestamp at a position is unique, and there is one at every position below
the number of rows; a cut found by position is not later than the date whenever more rows than
the target are that old; both procedures delete rows only, and the oldest; the rest is as it was.
`DeleteAfterDateEffect` and `DeleteOldestEffect` say what a committed call is: a delete
of all rows up to some timestamp, with at most a chunk of rows strictly older. From them follow
progress (a call with rows to delete deletes some) and what the nibbler relies on: a call that
leaves rows to delete has deleted at least a chunk (`...Chunk`).

### The database

`EventStore_proofs` proves, for every value of the constants that satisfies the
module's assumptions (so for any number of users, events, models and any clock), that
the specification implies every property of the runs `es_session` and `es_count`.

The argument. None of the properties about exports and queries is inductive alone.
`IInv` joins the type invariant and three facts about the history: what is gone from
`events` is old enough (`AgedOutOnly`), every event has an exported one of its pair at or
before it, and every event is exported exactly when no earlier one of its pair is in its window.
The step that matters is `NewEvent`: `checkSession` sees only `events`, and the invariant
speaks of `inserted`. `SessionBeforeHistory` closes the gap: a row that has been deleted is
older than `now - HistorySeconds`, the new click is stamped no earlier than `now - MaxDelay`,
so under `RetentionCoversSession` no deleted row can lie in the click's window.
`HasExportedIff` turns the view's maximum into an existential over rows; it needs the
finiteness of the table, for a maximum to exist. For the dashboard, the same bound shows that
the window of the query contains no deleted row, whence the three queries agree on `events`
and `inserted`. Deletes preserve the invariant by `DeleteAfterDateWithin`, for any chunk size.
The three properties that count rows follow from the effects above and the cardinality theorems of
the library. `DeleteMakesProgressHolds` has a hypothesis, a limit by age or a positive number
of rows, because without it the property fails: `es_stuck_at_chunk` shows where.
`TrimTakesSurplusAndOne` bounds a trim from both sides: the rows it takes, but for the newest and
its ties, are no more than the surplus, and all of them are more than the surplus, or than the chunk.

### The nibbler

`Nibbler_proofs` proves, for any number of partitions, deleters, rows and failures, that the
specification implies `TypeOK` (which says that the latch of a round counts the calls still to
be sent or answered), `RoundsDoNotOverlap`, `ReportsAddUp`, `PauseMeansDone` and the
refinement `ImplementsRetention`.

The argument. `IInv` is `Types`, `Rounds` and `TargetInv`. `Rounds` is local to a deleter: the
latch is the number of partitions to do plus the number of its calls, the calls are to distinct
partitions that are done, and outside of `sending` there are none; a send that throws and an
answer both take one from either side. `TargetInv` is what makes old targets harmless: a deleter
may act on a target that the tracker computed when the cluster was smaller, from statistics
older still, but partitions only join, so a share only shrinks (`ShareShrinks`, division is
monotone) and an old target is never below the present share; likewise an old date is never
later than the present cut. `ExecuteDiscards` then shows that each delete that a call executes is
a `Discard` of `Retention`, by the lemmas of `EventsTable_proofs`, and `StepRefines` that every
other step is a stutter, an `Add`, a `Join` or a `Pass`. (`SameCardinality` is there because an
`INSTANCE` has its own copies of the operators it extends.)

Two more invariants follow an answer on its way. `AccountInv`: the rows reported, those in the
counter and those that answers under way count are at most the rows removed, and exactly those as
long as no call has failed. The sum over the calls is the cardinality of a set of pairs
(`Pending`), so that it needs no recursion; a callback moves its pairs into the counter, and an
executed call, whose answer differs from every other because a round has one call for a
partition, adds as many as it removes. `PauseInv`: as long as no call of a deleter's
round has failed, a call that left rows to delete is remembered in the deleter's flag or in an
answer under way that will set it; a pause is taken only without the flag, and then, by `Rounds`, no answer is under way.

`NibblerAssumption` is all that is assumed: finitely many partitions, some of them there at the
start, and configurations with a positive chunk size, at most one of the two limits set, and a
`maxRows` that fits a Java `long`.

### The pipeline

`IInv` of `ClusterPipeline_proofs` follows the rows from k-means to the table: the directory holds
no centers or the whole model of one harvest; before `STORE` the staging table is empty in a
clean run, and in any run as long as nothing has failed without need; before `LOAD` a clean run has
staged exactly the centers of the directory. What a failed run leaves behind is not excluded by
the invariant, and need not be: it concerns `clean` alone, which every run starts with.

### The dashboard

`Refresh_proofs` has the layers of the model. `QueueInv` says where the batch stands: there is a
front `h`, the stack is the tail of the batch from it on, every call before it has been answered
once and its timer is no longer running, the call at it waits, and none behind it has been made.
A late answer finds its timer over and changes nothing but the request; the answer or the timer of
the front moves it by one (`Advance`). `PageInv` adds that of all tests just the last has its
timer running, until the page connects, and that connecting is what fills the queue. `RefreshInv`
adds that an open request is younger than its timer allows unless its timer has
spoken, that there are requests, and answers on the screen, only over a loaded connection, and that
what is shown is behind the newest by less than `Patience`. A step of an outer layer is a step or a stutter of
the inner ones, so an invariant proved of a layer is used unchanged.

### The throughput chart

The rates rest on `Consistent`: of any two answers that exist, in flight, cached, drawn or yet to be
given, the one that is not earlier counts no fewer calls. That is an invariant of all pairs and not of
the pair drawn next, because any answer may be drawn after any other. The bound on the memory
does not count answers, which may come in any burst, but the calls that they answer. `Spread`: the
calls, and the points that they become, were asked for a period apart. `Reach`: a point is no later than
the call of any point behind it and a time-out. When the chart grows it has its window from the first
point to the last, at most; so all its points were asked for within the minute, a time-out on either
side, the age of the cache and the lead of the browser's clock (`Timed`), and `FewApart` counts how many
moments a period apart there can be. With the code's numbers, a fresh cache and clocks that agree, 101 points; the
minute alone has 61. `MaxTime` is positive because the clock starts at one.

### The chart library

A plot forgets the timer of its first draw, so what it knows does not tell how many are pending.
`OneForgotten` does: besides the timer that it knows of, a plot never has more than one.
With it `TimersOK` (at most two timers of a plot) and `OverlayRedrawn` are inductive.

That a draw leaves in the page exactly the labels asked for (`ImplementsOverlay`) rests on `Sound`,
which relates the cache, the elements and the page: every element belongs to one label and to at most
one of its positions, it stands where that position says, and the page holds just the elements of
the positions that were rendered. The first clause is what `addText` could break: a second position
of a label needs a clone, and the label's own element is free again only when no position is left. The render
pass looks at the positions one by one; only because no two share an element does dropping a
passive one not take an active one off the page (`RenderShows`). Between two draws, `Keeps`:
`measureTickLabels`, `removeText` and `drawAxisLabels` may move elements, but none that is in the page.
Both loops are folds over the ticks, and their states are unrolled by hand: `TurnsExist` and `TurnsChain` give the
sequence of canvases between the turns, and `BoundedInduction` (by the pigeonhole principle, as the
library's induction takes an operator) carries `Sound` and `Keeps` along it.

The loops need lists of ticks, and a plot needs axes. `AxisIs` follows an axis from the data
(`SeriesAreBounded`, `ExtentsAre`) to a range that is not empty (`SetRangeIs`), to ticks, and to the
snapping of the range to them. So no series, empty, of one value or with nulls among the numbers, makes
an axis that divides by zero, stops short of the data, or generates ticks without end.

*Ticks* (`TicksCoverTheData`). Those of numbers are multiples of the size, which is within a factor of the
distance asked for (`MagnitudeIs`, `TickSizeFits`), hence they rise, reach over the range and are few
(`NumberTicksRise`). Those of times need the calendar, whose two facts are that the starts of the months
rise by at least 28 days (`MonthsRise`) and that every time lies in exactly one month (`MonthOfIs`, so that
`setMonth` does what its name says). With them the first tick is not behind the data (`FirstOfLongStep`
for the steps of a month and more), each tick is behind the one before it, and `DozenOfChosen` says that
twelve ticks of the size chosen always reach the end, size by size: multiples of a constant, parts of
a month, months, years. The loop of the model is unrolled by `TicksExist`, and its cap `MaxTicks`
is never met (`TimeTicksRise`). Twelve is attained: quarters of a month over 44 days from 31 January,
a start that belongs to the run since the proof for eleven failed there.

*Labels* (`LabelsAreExact`). The precision divides the tick size, also for ticks at two and a half, so that a
multiple of the size is written out in full (`MultipleIsExact`). Which fields a label of a time has depends on the tick size
and on the span of the axis (`FormatIs`); those behind the last that it shows are zero because the first tick is
rounded down to the size, and the steps keep it there (`TimeLabelIsExact`).

*Room* (`LabelsInsideCanvas`). A label has one field, or four, so its width is bounded; under an axis it wraps into
nine lines at most, beside one it stays in one (`MeasuredFits`). The layout reserves the largest
label of either axis and half of the outermost ones (`LargestIs`, `LayoutIs`), which puts every label
between the edges of the canvas (`WithinAcross`, `WithinUp`), provided that the canvas has room for them
(`TicksHaveRoom`): each label of an axis with `n` ticks may take an `n`-th of the width. What the cache
says of a label must be what was measured, when it was first laid out: `Roomy` adds the sizes and places of
the cached labels to the invariant of the text, which every call keeps.

Assumed are: `NoTimer` is not a timer (`PlotAssumption`); the zone is any distance from UTC (`ZoneAssumption`);
the columns of a series are integers, the second perhaps `Null` (`SeriesAssumption`); `Null` is neither a
number nor a range (`NullAssumption`). Two more say what size things have.

* `ScaleAssumption`. The model counts values in thousandths, and its digits end there: a value other than zero
  is a tenth at least (one call between two answers ten seconds apart; the page asks every second)
  and at most 100000. Numbers of clusters are whole, as k-means numbers
  them. The times on one axis are at most thirty years apart; the page keeps a minute of them and the length of a gap.
* `RoomAssumption`. The page gives a chart two hundred pixels of height (`index.html:61, 82`). 240 of
  width is less than what a narrow telephone leaves; four for each cluster is less than such a chart has for
  the twenty that the job computes (`KMeansReferral.scala:51`). It is needed: in a place that
  is narrower than the labels of an axis, they cannot lie inside.

### The generator

`Loaded` is what makes `EventsFindTheirRows` inductive: until the client has drained, each line of the
table that is being loaded is still to be sent, in flight, or in the table; the drain leaves only the
last of the three, and no row is ever deleted. `ConnectorsOK` counts the latch. The sleeps of a connector are
bounded because the last sleep is the first doubled some number of times (`SleepAssumption`; 8000 is
1000 doubled three times): with another ratio a sleep would pass the bound.

### What stays with TLC

* Liveness (`DeletersKeepRunning`, `AgedRowsLeave`, `ExportsReachAModel`, `ConnectedLoads`,
  `Finishes`): the proof system does not treat fairness or `ENABLED`.

## Not modelled

* `Utils.java`, `formatIntegerAsIp` and the choice of addresses: pure conversions (planned).
* `GetTopSources` and `GetTopSrcDests`: read-only sums over the stream.
* The numbers of k-means, the layout of answers, tables and the metadata.
* Of the charts: what is painted on the canvases, the legend, colours, highlights and mouse events
  (neither chart is hoverable or clickable), options that the page does not set, fonts, and daylight
  saving time: the zone is a constant distance from UTC.
* Clock skew between hosts, and recovery of the database (no deployment file enables the
  command log; the templates of the demos disable it).
* `hdp_*` scripts: a variant of the modelled pipeline. `vertica/`: one SQL script around a
  binary library. `run.sh`, build files. Of the vendored browser
  libraries jQuery and bootstrap (minified) and holder.js (placeholder images, which the page has none of).

## Plan

The order followed the weight of the behaviour: database and deletes, their proofs, nibbler,
pipeline, browser, generator, charts. Next:

1. *Extend.* A composition of generator, database and nibbler in which the date is computed on
   one host and the click stamped on another (skew as a constant); the address conversions as
   operators on bytes, checked against each other; daylight saving time in `FlotTime`; an
   abstract specification of the export stream (one event per session) that `EventStore` refines.
