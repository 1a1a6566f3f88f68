---------------------------- MODULE LogGenerator ----------------------------
(***************************************************************************)
(* The client that generates the click stream: a thread per server that    *)
(* connects with retry, a main thread that waits for them on a latch,      *)
(* loads the two dimension tables and sends events until its time is up,   *)
(* and the client library between it and the database, which executes the  *)
(* calls in flight in any order, reconnects when it loses a server, and    *)
(* answers a call with an error when it has lost the answer.               *)
(***************************************************************************)
EXTENDS Integers, FiniteSets

CONSTANTS
  Servers,     \* config.servers
  AgentIds, UrlIds,  \* the lines of agents.txt and of urls.txt
  NoUrl,       \* the empty referrer, loaded after the urls
  Duration,    \* config.duration, in seconds; validate() wants it positive
  Millis,      \* milliseconds in a second
  IntSize,     \* how many values an int has
  FirstSleep, LastSleep,  \* 1000 and 8000
  MaxTime, MaxRefusals, MaxFaults  \* bounds: clock while loading, refusals, faults

ASSUME GeneratorAssumption ==
  /\ Servers # {} /\ IsFiniteSet(Servers)
  /\ {Duration, Millis, IntSize, FirstSleep} \subseteq Nat \ {0}
  /\ LastSleep \in Nat /\ MaxTime \in Nat /\ MaxRefusals \in Nat /\ MaxFaults \in Nat

\* A sleep that is doubled below the last one: it never passes it.
DoublesInto(sleeps) ==
  FirstSleep \in sleeps /\ \A d \in sleeps : d < LastSleep => d + d \in sleeps

\* 8000 is 1000 doubled three times.
ASSUME SleepAssumption ==
  \E sleeps \in SUBSET (FirstSleep .. LastSleep) : DoublesInto(sleeps)

VARIABLES
  clock,
  thread,      \* of each server, its connector: pc and local sleep
  connected,   \* the servers that the client is connected to
  latch,       \* connections.getCount()
  pc,          \* where the main thread is
  todo,        \* the lines it has still to load
  endTs,
  inFlight,    \* calls whose callback has not run: [table, row]
  dests, agents,  \* the tables of the database
  refusals, faults,
  unfound      \* history: has an event not found its rows

database == <<dests, agents, unfound>>
connectors == <<thread, connected, latch, refusals>>
main == <<pc, todo, endTs>>
vars == <<clock, connectors, main, inFlight, database, faults>>

\* Java's int: the value modulo IntSize that is nearest to zero.
AsInt(x) == ((x + IntSize \div 2) % IntSize) - IntSize \div 2

Event == [url : UrlIds, referrer : UrlIds \cup {NoUrl}, agent : AgentIds]

Init ==
  /\ clock = 0
  /\ thread = [s \in Servers |-> [pc |-> "connecting", sleep |-> FirstSleep]]
  /\ connected = {} /\ latch = Cardinality(Servers)
  /\ pc = "await" /\ todo = {} /\ endTs = 0
  /\ inFlight = {} /\ dests = {} /\ agents = {}
  /\ refusals = 0 /\ faults = 0 /\ unfound = FALSE

-----------------------------------------------------------------------------
(* The connector threads. *)

\* Fault the run must notice: the sleep is doubled once more.
RefusedLate(s) ==
  /\ thread[s].pc = "connecting" /\ refusals < MaxRefusals
  /\ refusals' = refusals + 1
  /\ thread' = [thread EXCEPT ![s].sleep = IF @ <= LastSleep THEN @ + @ ELSE @]
  /\ UNCHANGED <<clock, connected, latch, main, inFlight, database, faults>>

\* createConnection throws: the thread sleeps, and longer the next time.
Refused(s) ==
  /\ thread[s].pc = "connecting" /\ refusals < MaxRefusals
  /\ refusals' = refusals + 1
  /\ thread' = [thread EXCEPT ![s].sleep = IF @ < LastSleep THEN @ + @ ELSE @]
  /\ UNCHANGED <<clock, connected, latch, main, inFlight, database, faults>>

\* Fault the run must notice: only a first attempt releases the latch.
AcceptedFirst(s) ==
  /\ thread[s].pc = "connecting"
  /\ thread' = [thread EXCEPT ![s].pc = "done"]
  /\ connected' = connected \cup {s}
  /\ latch' = IF thread[s].sleep = FirstSleep THEN latch - 1 ELSE latch
  /\ UNCHANGED <<clock, refusals, main, inFlight, database, faults>>

\* createConnection returns, and the latch is released.
Accepted(s) ==
  /\ thread[s].pc = "connecting"
  /\ thread' = [thread EXCEPT ![s].pc = "done"]
  /\ connected' = connected \cup {s}
  /\ latch' = latch - 1
  /\ UNCHANGED <<clock, refusals, main, inFlight, database, faults>>

\* External: a server goes, and the library connects to it again.
Lose(s) ==
  /\ s \in connected /\ faults < MaxFaults
  /\ faults' = faults + 1 /\ connected' = connected \ {s}
  /\ UNCHANGED <<clock, thread, latch, refusals, main, inFlight, database>>

Reconnect(s) ==
  /\ s \notin connected /\ thread[s].pc = "done"
  /\ connected' = connected \cup {s}
  /\ UNCHANGED <<clock, thread, latch, refusals, main, inFlight, database, faults>>

-----------------------------------------------------------------------------
(* The main thread. *)

rest == <<clock, connectors, database, faults>>

\* callProcedure throws when no server is connected; nothing catches it, and the
\* main thread ends.
CallProcedure(call) ==
  \/ connected # {} /\ inFlight' = inFlight \cup {call} /\ pc' = pc
  \/ connected = {} /\ pc' = "dead" /\ UNCHANGED inFlight

\* connections.await(), then loadAgents.
Await ==
  /\ pc = "await" /\ latch = 0
  /\ pc' = "agents" /\ todo' = AgentIds
  /\ UNCHANGED <<rest, endTs, inFlight>>

\* A line is read and its row sent, without waiting for the last.
LoadAgent ==
  /\ pc = "agents"
  /\ \E i \in todo : CallProcedure([table |-> "agents", row |-> i]) /\ todo' = todo \ {i}
  /\ UNCHANGED <<rest, endTs>>

\* client.drain(), then loadUrls.
AgentsLoaded ==
  /\ pc = "agents" /\ todo = {} /\ inFlight = {}
  /\ pc' = "urls" /\ todo' = UrlIds \cup {NoUrl}
  /\ UNCHANGED <<rest, endTs, inFlight>>

\* The urls in turn, and the empty referrer when they are all sent.
LoadUrl ==
  /\ pc = "urls"
  /\ \E u \in todo :
       /\ u = NoUrl => todo = {NoUrl}
       /\ CallProcedure([table |-> "dests", row |-> u]) /\ todo' = todo \ {u}
  /\ UNCHANGED <<rest, endTs>>

\* Fault the run must notice: the rows are sent but not waited for.
UrlsLoadedNoDrain ==
  /\ pc = "urls" /\ todo = {}
  /\ pc' = "events" /\ endTs' = clock + AsInt(Duration * Millis)
  /\ UNCHANGED <<rest, todo, inFlight>>

\* client.drain(); the end is computed with an int product.
UrlsLoaded ==
  /\ pc = "urls" /\ todo = {} /\ inFlight = {}
  /\ pc' = "events" /\ endTs' = clock + AsInt(Duration * Millis)
  /\ UNCHANGED <<rest, todo, inFlight>>

\* One event is sent: one that has not been answered yet, or another.
SendEvent ==
  /\ pc = "events" /\ clock < endTs
  /\ \E e \in Event : CallProcedure([table |-> "events", row |-> e])
  /\ UNCHANGED <<rest, todo, endTs>>

TimeUp ==
  /\ pc = "events" /\ clock >= endTs
  /\ pc' = "drain"
  /\ UNCHANGED <<rest, todo, endTs, inFlight>>

\* client.drain() and close().
Close ==
  /\ pc = "drain" /\ inFlight = {}
  /\ pc' = "closed"
  /\ UNCHANGED <<rest, todo, endTs, inFlight>>

-----------------------------------------------------------------------------
(* The database, and time. *)

\* NewEvent looks up both urls and the agent, and aborts without them.
Found(e) == {e.url, e.referrer} \subseteq dests /\ e.agent \in agents

\* A call is executed and its callback runs; or it is lost, before or after, and
\* the callback, which looks at nothing, runs with an error.
Execute(c) ==
  LET commits ==
        /\ dests' = IF c.table = "dests" THEN dests \cup {c.row} ELSE dests
        /\ agents' = IF c.table = "agents" THEN agents \cup {c.row} ELSE agents
        /\ unfound' = (unfound \/ (c.table = "events" /\ ~Found(c.row)))
  IN  /\ inFlight' = inFlight \ {c}
      /\ \/ commits /\ UNCHANGED faults
         \/ /\ faults < MaxFaults /\ faults' = faults + 1
            /\ commits \/ UNCHANGED database
      /\ UNCHANGED <<clock, connectors, main>>

\* Time is bounded until the events start.
Tick ==
  /\ clock < MaxTime \/ (pc = "events" /\ clock < endTs)
  /\ clock' = clock + 1
  /\ UNCHANGED <<connectors, main, inFlight, database, faults>>

Main ==
  \/ Await \/ LoadAgent \/ AgentsLoaded \/ LoadUrl \/ UrlsLoaded
  \/ SendEvent \/ TimeUp \/ Close

Next ==
  \/ Main \/ Tick
  \/ \E s \in Servers : Refused(s) \/ Accepted(s) \/ Lose(s) \/ Reconnect(s)
  \/ \E c \in inFlight : Execute(c)

\* Every thread is scheduled, the servers accept in the end, calls are answered
\* and time passes.
Spec ==
  /\ Init /\ [][Next]_vars
  /\ WF_vars(Main) /\ WF_vars(Tick) /\ WF_vars(\E c \in inFlight : Execute(c))
  /\ \A s \in Servers : WF_vars(Accepted(s))
-----------------------------------------------------------------------------
(* Properties. *)

\* The type invariant; the sleeps double up to the last, and the latch counts the
\* threads that are still connecting.
TypeOK ==
  /\ clock \in Nat
  /\ \A s \in Servers : thread[s].pc \in {"connecting", "done"}
                        /\ thread[s].sleep \in FirstSleep .. LastSleep
  /\ latch = Cardinality({s \in Servers : thread[s].pc = "connecting"})
  /\ connected \subseteq {s \in Servers : thread[s].pc = "done"}
  /\ pc \in {"await", "agents", "urls", "events", "drain", "closed", "dead"}
  /\ inFlight \subseteq [table : {"agents"}, row : AgentIds]
       \cup [table : {"dests"}, row : UrlIds \cup {NoUrl}]
       \cup [table : {"events"}, row : Event]
  /\ dests \subseteq UrlIds \cup {NoUrl} /\ agents \subseteq AgentIds

\* As long as nothing is lost, no event is executed before the rows that it
\* looks up, though inserts and events are sent without waiting for each other
\* and executed in any order (LogGenerator.java:109-110, 123).
EventsFindTheirRows == faults = 0 => ~unfound

\* The run ends: when nothing is lost the generator connects, loads, sends and
\* closes, whatever the order in which the servers accept.
Finishes == <>(pc = "closed" \/ faults > 0)
=============================================================================
