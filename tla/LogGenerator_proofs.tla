------------------------- MODULE LogGenerator_proofs -------------------------
(***************************************************************************)
(* Proofs about the event generator, for any servers, lines, duration and  *)
(* width of an int, and any number of refusals and faults.                 *)
(*                                                                         *)
(* That no event misses its rows rests on Loaded: until the client has     *)
(* drained, every line of the table being loaded is still to be sent, in   *)
(* flight or in the table; the drain leaves only the last of the three,    *)
(* and rows are never deleted.  The same invariant covers a main thread    *)
(* that has died with events in flight.                                    *)
(***************************************************************************)
EXTENDS LogGenerator, FiniteSetTheorems, TLAPS

Sleeps == CHOOSE sleeps \in SUBSET (FirstSleep .. LastSleep) : DoublesInto(sleeps)

Urls == UrlIds \cup {NoUrl}
AgentCall(i) == [table |-> "agents", row |-> i]
DestCall(u) == [table |-> "dests", row |-> u]

Calls ==
  [table : {"agents"}, row : AgentIds] \cup [table : {"dests"}, row : Urls]
    \cup [table : {"events"}, row : Event]

Connecting == {s \in Servers : thread[s].pc = "connecting"}

ConnectorsOK ==
  /\ thread \in [Servers -> [pc : {"connecting", "done"}, sleep : Sleeps]]
  /\ latch = Cardinality(Connecting)
  /\ connected \subseteq {s \in Servers : thread[s].pc = "done"}

MainOK ==
  /\ clock \in Nat /\ faults \in Nat
  /\ pc \in {"await", "agents", "urls", "events", "drain", "closed", "dead"}
  /\ pc = "agents" => todo \subseteq AgentIds
  /\ pc = "urls" => todo \subseteq Urls
  /\ inFlight \subseteq Calls
  /\ dests \subseteq Urls /\ agents \subseteq AgentIds

\* The lines of the two tables, while they are loaded and after.
AgentsUnderWay == \A i \in AgentIds : i \in todo \/ AgentCall(i) \in inFlight \/ i \in agents
UrlsUnderWay == \A u \in Urls : u \in todo \/ DestCall(u) \in inFlight \/ u \in dests
AgentsIn == AgentIds \subseteq agents
UrlsIn == Urls \subseteq dests
EventInFlight == \E c \in inFlight : c.table = "events"

Loaded ==
  faults = 0 =>
    /\ ~unfound
    /\ pc = "agents" => AgentsUnderWay
    /\ pc = "urls" => AgentsIn /\ UrlsUnderWay
    /\ pc = "events" \/ EventInFlight => AgentsIn /\ UrlsIn

IInv == ConnectorsOK /\ MainOK /\ Loaded

-----------------------------------------------------------------------------
LEMMA SleepsDouble == Sleeps \subseteq FirstSleep .. LastSleep /\ DoublesInto(Sleeps)
BY SleepAssumption DEF Sleeps

LEMMA InitIInv == Init => IInv
<1> SUFFICES ASSUME Init PROVE IInv
  OBVIOUS
<1>1. ConnectorsOK
  <2>1. FirstSleep \in Sleeps
    BY SleepsDouble DEF DoublesInto
  <2>2. Connecting = Servers
    BY DEF Init, Connecting
  <2> QED BY <2>1, <2>2 DEF Init, ConnectorsOK
<1>2. MainOK /\ Loaded
  BY DEF Init, MainOK, Loaded, EventInFlight
<1> QED BY <1>1, <1>2 DEF IInv

-----------------------------------------------------------------------------
(* The connector threads and the library. *)

LEMMA ConnectorKeepsConnectorsOK ==
  ASSUME ConnectorsOK, NEW s \in Servers,
         Refused(s) \/ Accepted(s) \/ Lose(s) \/ Reconnect(s)
  PROVE  ConnectorsOK'
<1> USE DEF ConnectorsOK
<1>1. CASE Refused(s)
  <2>1. /\ thread[s].sleep \in Sleeps
        /\ thread[s].sleep < LastSleep => thread[s].sleep + thread[s].sleep \in Sleeps
    BY SleepsDouble DEF DoublesInto
  <2>2. thread' \in [Servers -> [pc : {"connecting", "done"}, sleep : Sleeps]]
    BY <1>1, <2>1 DEF Refused
  <2>3. \A t \in Servers : thread'[t].pc = thread[t].pc
    BY <1>1 DEF Refused
  <2>4. Connecting' = Connecting
    BY <2>3 DEF Connecting
  <2> QED BY <1>1, <2>2, <2>3, <2>4 DEF Refused
<1>2. CASE Accepted(s)
  <2>1. /\ thread' \in [Servers -> [pc : {"connecting", "done"}, sleep : Sleeps]]
        /\ \A t \in Servers : thread'[t].pc = IF t = s THEN "done" ELSE thread[t].pc
    BY <1>2 DEF Accepted
  <2>2. Connecting' = Connecting \ {s} /\ s \in Connecting
    BY <1>2, <2>1 DEF Connecting, Accepted
  <2>3. IsFiniteSet(Connecting)
    BY GeneratorAssumption, FS_Subset DEF Connecting
  <2>4. Cardinality(Connecting \ {s}) = Cardinality(Connecting) - 1
    BY <2>2, <2>3, FS_RemoveElement
  <2>5. connected' \subseteq {t \in Servers : thread'[t].pc = "done"}
    BY <1>2, <2>1 DEF Accepted
  <2> QED BY <1>2, <2>1, <2>2, <2>4, <2>5 DEF Accepted
<1>3. CASE Lose(s)
  BY <1>3 DEF Lose, Connecting
<1>4. CASE Reconnect(s)
  BY <1>4 DEF Reconnect, Connecting
<1> QED BY <1>1, <1>2, <1>3, <1>4

LEMMA ConnectorKeepsIInv ==
  ASSUME IInv, NEW s \in Servers, Refused(s) \/ Accepted(s) \/ Lose(s) \/ Reconnect(s)
  PROVE  IInv'
<1>1. ConnectorsOK'
  BY ConnectorKeepsConnectorsOK DEF IInv
<1>2. /\ UNCHANGED <<clock, pc, todo, inFlight, dests, agents, unfound>>
      /\ faults' = faults \/ (faults < MaxFaults /\ faults' = faults + 1)
  BY DEF Refused, Accepted, Lose, Reconnect, main, database
<1>3. MainOK'
  BY <1>2 DEF IInv, MainOK
<1>4. faults' = 0 => faults = 0
  BY <1>2 DEF IInv, MainOK
<1>5. Loaded'
  BY <1>2, <1>4 DEF IInv, Loaded, AgentsUnderWay, UrlsUnderWay, AgentsIn, UrlsIn, EventInFlight
<1> QED BY <1>1, <1>3, <1>5 DEF IInv

-----------------------------------------------------------------------------
(* The main thread. *)

LEMMA ConnectorsUntouched ==
  ASSUME IInv, UNCHANGED connectors
  PROVE  ConnectorsOK'
BY DEF IInv, ConnectorsOK, Connecting, connectors

LEMMA MainKeepsIInv ==
  ASSUME IInv, Main
  PROVE  IInv'
<1> USE DEF IInv, rest, database
<1>1. CASE Await
  <2>1. MainOK' /\ ConnectorsOK'
    BY <1>1, ConnectorsUntouched DEF Await, MainOK
  <2>2. Loaded'
    BY <1>1 DEF Await, Loaded, AgentsUnderWay, AgentsIn, UrlsIn, EventInFlight
  <2> QED BY <2>1, <2>2
<1>2. CASE LoadAgent
  <2>1. PICK i \in todo : CallProcedure(AgentCall(i)) /\ todo' = todo \ {i}
    BY <1>2 DEF LoadAgent, AgentCall
  <2>2. pc = "agents" /\ i \in AgentIds /\ UNCHANGED <<clock, dests, agents, unfound, faults>>
    BY <1>2 DEF LoadAgent, MainOK
  <2>3. ConnectorsOK'
    BY <1>2, ConnectorsUntouched DEF LoadAgent
  <2>4. CASE pc' = "dead" /\ inFlight' = inFlight
    BY <2>2, <2>3, <2>4 DEF MainOK, Loaded, EventInFlight, AgentsIn, UrlsIn
  <2>5. CASE pc' = pc /\ inFlight' = inFlight \cup {AgentCall(i)}
    <3>1. AgentCall(i) \in Calls /\ AgentCall(i).table = "agents"
      BY <2>2 DEF AgentCall, Calls
    <3>2. MainOK'
      BY <2>1, <2>2, <2>5, <3>1 DEF MainOK
    <3>3. EventInFlight' => EventInFlight
      BY <2>5, <3>1 DEF EventInFlight
    <3>4. AgentsUnderWay => AgentsUnderWay'
      BY <2>1, <2>2, <2>5 DEF AgentsUnderWay
    <3>5. Loaded'
      BY <2>2, <2>5, <3>3, <3>4 DEF Loaded, AgentsIn, UrlsIn
    <3> QED BY <2>3, <3>2, <3>5
  <2> QED BY <2>1, <2>4, <2>5 DEF CallProcedure
<1>3. CASE AgentsLoaded
  <2>1. MainOK' /\ ConnectorsOK'
    BY <1>3, ConnectorsUntouched DEF AgentsLoaded, MainOK, Urls
  <2>2. Loaded'
    BY <1>3 DEF AgentsLoaded, Loaded, AgentsUnderWay, UrlsUnderWay, AgentsIn, UrlsIn,
                EventInFlight, Urls
  <2> QED BY <2>1, <2>2
<1>4. CASE LoadUrl
  <2>1. PICK u \in todo : CallProcedure(DestCall(u)) /\ todo' = todo \ {u}
    BY <1>4 DEF LoadUrl, DestCall
  <2>2. pc = "urls" /\ u \in Urls /\ UNCHANGED <<clock, dests, agents, unfound, faults>>
    BY <1>4 DEF LoadUrl, MainOK
  <2>3. ConnectorsOK'
    BY <1>4, ConnectorsUntouched DEF LoadUrl
  <2>4. CASE pc' = "dead" /\ inFlight' = inFlight
    BY <2>2, <2>3, <2>4 DEF MainOK, Loaded, EventInFlight, AgentsIn, UrlsIn
  <2>5. CASE pc' = pc /\ inFlight' = inFlight \cup {DestCall(u)}
    <3>1. DestCall(u) \in Calls /\ DestCall(u).table = "dests"
      BY <2>2 DEF DestCall, Calls
    <3>2. MainOK'
      BY <2>1, <2>2, <2>5, <3>1 DEF MainOK
    <3>3. EventInFlight' => EventInFlight
      BY <2>5, <3>1 DEF EventInFlight
    <3>4. UrlsUnderWay => UrlsUnderWay'
      BY <2>1, <2>2, <2>5 DEF UrlsUnderWay
    <3>5. Loaded'
      BY <2>2, <2>5, <3>3, <3>4 DEF Loaded, AgentsIn, UrlsIn
    <3> QED BY <2>3, <3>2, <3>5
  <2> QED BY <2>1, <2>4, <2>5 DEF CallProcedure
<1>5. CASE UrlsLoaded
  <2>1. MainOK' /\ ConnectorsOK'
    BY <1>5, ConnectorsUntouched DEF UrlsLoaded, MainOK
  <2>2. Loaded'
    BY <1>5 DEF UrlsLoaded, Loaded, UrlsUnderWay, AgentsIn, UrlsIn, EventInFlight
  <2> QED BY <2>1, <2>2
<1>6. CASE SendEvent
  <2>1. PICK e \in Event : CallProcedure([table |-> "events", row |-> e])
    BY <1>6 DEF SendEvent
  <2>2. /\ pc = "events" /\ UNCHANGED <<clock, todo, dests, agents, unfound, faults>>
        /\ \/ pc' = "dead" /\ inFlight' = inFlight
           \/ pc' = pc /\ inFlight' = inFlight \cup {[table |-> "events", row |-> e]}
    BY <1>6, <2>1 DEF SendEvent, CallProcedure
  <2>3. ConnectorsOK'
    BY <1>6, ConnectorsUntouched DEF SendEvent
  <2>4. [table |-> "events", row |-> e] \in Calls
    BY DEF Calls
  <2>5. MainOK'
    BY <2>2, <2>4 DEF MainOK
  <2>6. Loaded'
    BY <2>2 DEF Loaded, AgentsIn, UrlsIn
  <2> QED BY <2>3, <2>5, <2>6
<1>7. CASE TimeUp \/ Close
  <2>1. MainOK' /\ ConnectorsOK'
    BY <1>7, ConnectorsUntouched DEF TimeUp, Close, MainOK
  <2>2. Loaded'
    BY <1>7 DEF TimeUp, Close, Loaded, AgentsIn, UrlsIn, EventInFlight
  <2> QED BY <2>1, <2>2
<1> QED BY <1>1, <1>2, <1>3, <1>4, <1>5, <1>6, <1>7 DEF Main

-----------------------------------------------------------------------------
(* The database, and time. *)

LEMMA ExecuteKeepsIInv ==
  ASSUME IInv, NEW c \in inFlight, Execute(c)
  PROVE  IInv'
<1> DEFINE commits ==
      /\ dests' = IF c.table = "dests" THEN dests \cup {c.row} ELSE dests
      /\ agents' = IF c.table = "agents" THEN agents \cup {c.row} ELSE agents
      /\ unfound' = (unfound \/ (c.table = "events" /\ ~Found(c.row)))
<1>1. /\ inFlight' = inFlight \ {c} /\ UNCHANGED <<clock, connectors, pc, todo>>
      /\ \/ commits /\ faults' = faults
         \/ faults' = faults + 1 /\ (commits \/ UNCHANGED database)
  BY DEF Execute, main
<1>2. c \in Calls /\ faults \in Nat
  BY DEF IInv, MainOK
<1>3. /\ c.table = "agents" => c.row \in AgentIds /\ c = AgentCall(c.row)
      /\ c.table = "dests" => c.row \in Urls /\ c = DestCall(c.row)
      /\ c.table = "events" => c.row \in Event
  BY <1>2 DEF Calls, AgentCall, DestCall
<1>4. /\ dests \subseteq dests' /\ agents \subseteq agents'
      /\ dests' \subseteq Urls /\ agents' \subseteq AgentIds
  BY <1>1, <1>3 DEF IInv, MainOK, database
<1>5. ConnectorsOK'
  BY <1>1, ConnectorsUntouched
<1>6. MainOK'
  BY <1>1, <1>2, <1>4 DEF IInv, MainOK
<1>7. Loaded'
  <2> SUFFICES ASSUME faults' = 0
               PROVE  /\ ~unfound'
                      /\ pc' = "agents" => AgentsUnderWay'
                      /\ pc' = "urls" => AgentsIn' /\ UrlsUnderWay'
                      /\ pc' = "events" \/ EventInFlight' => AgentsIn' /\ UrlsIn'
    BY DEF Loaded
  <2>1. faults = 0 /\ commits
    BY <1>1, <1>2
  <2>2. EventInFlight' => EventInFlight
    BY <1>1 DEF EventInFlight
  <2>3. (AgentsIn => AgentsIn') /\ (UrlsIn => UrlsIn')
    BY <1>4 DEF AgentsIn, UrlsIn
  <2>4. AgentsUnderWay => AgentsUnderWay'
    <3> SUFFICES ASSUME AgentsUnderWay, NEW i \in AgentIds
                 PROVE  i \in todo' \/ AgentCall(i) \in inFlight' \/ i \in agents'
      BY DEF AgentsUnderWay, AgentCall
    <3>1. CASE AgentCall(i) = c
      BY <2>1, <3>1 DEF AgentCall
    <3>2. CASE AgentCall(i) # c
      BY <1>1, <1>4, <3>2 DEF AgentsUnderWay
    <3> QED BY <3>1, <3>2
  <2>5. UrlsUnderWay => UrlsUnderWay'
    <3> SUFFICES ASSUME UrlsUnderWay, NEW u \in Urls
                 PROVE  u \in todo' \/ DestCall(u) \in inFlight' \/ u \in dests'
      BY DEF UrlsUnderWay, DestCall, Urls
    <3>1. CASE DestCall(u) = c
      BY <2>1, <3>1 DEF DestCall
    <3>2. CASE DestCall(u) # c
      BY <1>1, <1>4, <3>2 DEF UrlsUnderWay
    <3> QED BY <3>1, <3>2
  <2>6. ~unfound'
    <3>1. CASE c.table = "events"
      <4>1. AgentsIn /\ UrlsIn
        BY <2>1, <3>1 DEF IInv, Loaded, EventInFlight
      <4>2. Found(c.row)
        BY <1>3, <3>1, <4>1 DEF Found, Event, AgentsIn, UrlsIn, Urls
      <4> QED BY <2>1, <4>2 DEF IInv, Loaded
    <3>2. CASE c.table # "events"
      BY <2>1, <3>2 DEF IInv, Loaded
    <3> QED BY <3>1, <3>2
  <2> QED BY <1>1, <2>1, <2>2, <2>3, <2>4, <2>5, <2>6 DEF IInv, Loaded
<1> QED BY <1>5, <1>6, <1>7 DEF IInv

LEMMA NextKeepsIInv == IInv /\ [Next]_vars => IInv'
<1> SUFFICES ASSUME IInv, [Next]_vars PROVE IInv'
  OBVIOUS
<1>1. ASSUME clock' \in Nat, UNCHANGED <<connectors, main, inFlight, database, faults>>
      PROVE  IInv'
  <2>1. UNCHANGED <<connectors, pc, todo, inFlight, dests, agents, unfound, faults>>
    BY <1>1 DEF main, database
  <2>2. ConnectorsOK'
    BY <2>1, ConnectorsUntouched
  <2>3. MainOK'
    BY <1>1, <2>1 DEF IInv, MainOK
  <2>4. Loaded'
    BY <2>1 DEF IInv, Loaded, AgentsUnderWay, UrlsUnderWay, AgentsIn, UrlsIn, EventInFlight
  <2> QED BY <2>2, <2>3, <2>4 DEF IInv
<1>2. clock \in Nat
  BY DEF IInv, MainOK
<1>3. CASE Tick
  BY <1>1, <1>2, <1>3 DEF Tick
<1>4. CASE UNCHANGED vars
  BY <1>1, <1>2, <1>4 DEF vars
<1> QED BY <1>3, <1>4, MainKeepsIInv, ConnectorKeepsIInv, ExecuteKeepsIInv DEF Next

LEMMA IInvHolds == Spec => []IInv
BY InitIInv, NextKeepsIInv, PTL DEF Spec

-----------------------------------------------------------------------------
\* The latch counts the threads that are still connecting, a sleep never passes the
\* last, and what is in flight and in the tables are lines of the two files
\* (LogGenerator.java:149-195).
THEOREM GeneratorTypeCorrect == Spec => []TypeOK
<1>1. IInv => TypeOK
  <2> SUFFICES ASSUME IInv PROVE TypeOK
    OBVIOUS
  <2>1. \A s \in Servers : thread[s].pc \in {"connecting", "done"}
                           /\ thread[s].sleep \in FirstSleep .. LastSleep
    BY SleepsDouble DEF IInv, ConnectorsOK
  <2> QED BY <2>1 DEF IInv, ConnectorsOK, MainOK, TypeOK, Connecting, Calls, Urls
<1> QED BY <1>1, IInvHolds, PTL

\* As long as no call and no server is lost, no event is executed before the rows that it
\* looks up, for any number of lines and of calls in flight
\* (LogGenerator.java:109-110, 123).
THEOREM GeneratorEventsFindTheirRows == Spec => []EventsFindTheirRows
<1>1. IInv => EventsFindTheirRows
  BY DEF IInv, Loaded, EventsFindTheirRows
<1> QED BY <1>1, IInvHolds, PTL
=============================================================================
