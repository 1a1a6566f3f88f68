---------------------------- MODULE CommandQueue ----------------------------
(***************************************************************************)
(* The command queue of web/js/voltdb.js (IQueue), which sends the calls   *)
(* of a batch to the database one after the other, with the wrapper that   *)
(* races every answer against a timer (CallbackWrapper), and the user of   *)
(* the queue, LoadConnectionMetadata, which makes a connection ready.      *)
(*                                                                         *)
(* A browser runs one turn at a time: an action is a turn, with all the    *)
(* calls it makes.  Answers come from a JSONP request: they may be late or *)
(* never come, and a late one may come after the timer has spoken for it.  *)
(***************************************************************************)
EXTENDS Naturals, Sequences

CONSTANTS
  Items,       \* how many calls the batch has
  Needed,      \* the items whose results the completion handler reads
  Modes        \* the arguments that Start may be called with; this batch has none

ASSUME QueueAssumption ==
  Items \in Nat \ {0} /\ Needed \subseteq 1 .. Items /\ Modes \subseteq BOOLEAN

VARIABLES
  stack,       \* IQueue.Stack
  continueOnFailure, executing, success, handler,  \* the other fields of IQueue
  request,     \* of each item: "none", "open" or "over" with the server
  timer,       \* of each item: "none", "running", "cleared", "fired"
  metadata,    \* the items whose results are in connection.Metadata
  ready,       \* connection.Ready
  answered,    \* history: how often each item's callback ran
  completions  \* history: how often the completion handler ran

vars == <<stack, continueOnFailure, executing, success, handler, request, timer,
          metadata, ready, answered, completions>>

Init ==
  /\ stack = <<>> /\ continueOnFailure = FALSE /\ executing = FALSE
  /\ success = FALSE /\ handler = FALSE
  /\ request = [i \in 1 .. Items |-> "none"] /\ timer = [i \in 1 .. Items |-> "none"]
  /\ metadata = {} /\ ready = FALSE
  /\ answered = [i \in 1 .. Items |-> 0] /\ completions = 0

\* The front entry has been called, and what the wrapper holds for it.
Call(i, requests, timers) ==
  /\ request' = [requests EXCEPT ![i] = "open"]
  /\ timer' = [timers EXCEPT ![i] = "running"]
  /\ executing' = TRUE
  /\ UNCHANGED <<ready, completions>>

\* Fault the run must notice: the completion handler reads nothing it may miss.
CompleteBlind(loaded, requests, timers) ==
  /\ request' = requests /\ timer' = timers
  /\ executing' = FALSE
  /\ completions' = completions + 1
  /\ ready' = TRUE

\* The completion handler throws when a result it reads is missing; that is
\* swallowed, and Ready stays.  Its own queue is empty and completes in this turn.
Complete(loaded, requests, timers) ==
  /\ request' = requests /\ timer' = timers
  /\ executing' = FALSE
  /\ completions' = completions + 1
  /\ ready' = (ready \/ Needed \subseteq loaded)

\* EndExecute, with what the turn has made of the stack, Success, the argument of
\* Start, the metadata, the requests and the timers: the front entry goes and the
\* next is called, or the batch completes.
EndExecute(entries, ok, go, loaded, requests, timers) ==
  LET rest == IF entries = <<>> THEN <<>> ELSE Tail(entries)
  IN  /\ stack' = rest /\ success' = ok /\ metadata' = loaded
      /\ IF rest # <<>> /\ (ok \/ go) THEN Call(Head(rest), requests, timers)
                                     ELSE Complete(loaded, requests, timers)

\* LoadConnectionMetadata, of a connection made for it, with a queue of its own: the
\* entry that Start pushes goes in End's first EndExecute, which calls the first of
\* the batch.  The page keeps the connection that it made last.
LoadConnectionMetadata ==
  /\ continueOnFailure' \in Modes
  /\ stack' = [i \in 1 .. Items |-> i]
  /\ executing' = TRUE /\ success' = TRUE /\ handler' = TRUE
  /\ request' = [i \in 1 .. Items |-> IF i = 1 THEN "open" ELSE "none"]
  /\ timer' = [i \in 1 .. Items |-> IF i = 1 THEN "running" ELSE "none"]
  /\ metadata' = {} /\ ready' = FALSE
  /\ answered' = [i \in 1 .. Items |-> 0] /\ completions' = 0

\* The callback the queue hands to the wrapper.
UserCallback(i, ok, requests, timers) ==
  /\ answered' = [answered EXCEPT ![i] = @ + 1]
  /\ EndExecute(stack, success /\ ok, continueOnFailure,
                IF ok THEN metadata \cup {i} ELSE metadata, requests, timers)
  /\ UNCHANGED <<handler, continueOnFailure>>

\* Fault the run must notice: a late answer is passed on after the timeout.
AnswerLate(i, ok) ==
  /\ request[i] = "open"
  /\ UserCallback(i, ok, [request EXCEPT ![i] = "over"],
       [timer EXCEPT ![i] = IF @ = "running" THEN "cleared" ELSE @])

\* The wrapper's Callback: the answer, good or bad, stops the timer, and counts
\* unless the timer has already answered.
Answer(i, ok) ==
  /\ request[i] = "open"
  /\ \/ /\ timer[i] = "running"
        /\ UserCallback(i, ok, [request EXCEPT ![i] = "over"],
                        [timer EXCEPT ![i] = "cleared"])
     \/ /\ timer[i] = "fired"
        /\ request' = [request EXCEPT ![i] = "over"]
        /\ UNCHANGED <<stack, continueOnFailure, executing, success, handler, timer,
                       metadata, ready, answered, completions>>

\* Fault the run must notice: the timer only notes that it fired.
TimeoutSilent(i) ==
  /\ timer[i] = "running"
  /\ timer' = [timer EXCEPT ![i] = "fired"]
  /\ UNCHANGED <<stack, continueOnFailure, executing, success, handler, request,
                 metadata, ready, answered, completions>>

\* The wrapper's timer, after twenty seconds.
Timeout(i) ==
  /\ timer[i] = "running"
  /\ UserCallback(i, FALSE, request, [timer EXCEPT ![i] = "fired"])

\* The turns of the queue once it has started.
Turn == \E i \in 1 .. Items : Timeout(i) \/ \E ok \in BOOLEAN : Answer(i, ok)

Next == LoadConnectionMetadata \/ Turn

Spec == Init /\ [][Next]_vars

-----------------------------------------------------------------------------
(* Properties. *)

\* The type invariant.
TypeOK ==
  /\ stack \in Seq(1 .. Items) /\ Len(stack) <= Items
  /\ {continueOnFailure, executing, success, handler, ready} \subseteq BOOLEAN
  /\ request \in [1 .. Items -> {"none", "open", "over"}]
  /\ timer \in [1 .. Items -> {"none", "running", "cleared", "fired"}]
  /\ metadata \subseteq 1 .. Items
  /\ answered \in [1 .. Items -> 0 .. 1] /\ completions \in 0 .. 1

\* Each call of a batch is answered at most once, by the server or by the timer,
\* and the calls are answered in the order they were queued, none skipped; one call
\* is under way while the queue executes and none when it does not, so that the late
\* answer of a call given up does not move the queue (voltdb.js:130-138, 167-192).
AnsweredInOrder ==
  LET running == {i \in 1 .. Items : timer[i] = "running"}
  IN  /\ \A i \in 1 .. Items : answered[i] <= 1
      /\ \A i \in 1 .. Items : answered[i] > 0 => \A j \in 1 .. i - 1 : answered[j] > 0
      /\ IF executing THEN \E i \in running : running = {i} /\ stack # <<>> /\ Head(stack) = i
                      ELSE running = {}
=============================================================================
