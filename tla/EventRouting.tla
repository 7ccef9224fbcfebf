---------------------------- MODULE EventRouting ----------------------------
(***************************************************************************)
(* Where session events go (src/core/agent/EventRouter.hpp and             *)
(* EventQueue.hpp), composed with the election of the active provider, as  *)
(* the handlers of src/core/Agent.cpp compose them.                        *)
(*                                                                         *)
(* An event is pushed to the active provider, or to every subscriber while *)
(* there is none, and is kept for the clients that fetch events one by one *)
(* with "next".  Events are numbered in the order they are emitted; what   *)
(* they say matters only as far as a session is opened or closed.          *)
(* The connections of the programs that ask for a secret are left out: a   *)
(* request or a disconnect of theirs shows here as the sessions it changes.*)
(***************************************************************************)
EXTENDS ProviderRegistry, Sequences

CONSTANTS
    Ids,         \* session ids
    MaxQueue,    \* EventQueue::m_maxSize
    MaxEmitted,  \* bound: events emitted
    MaxWaiters   \* bound: "next" requests outstanding

ASSUME MaxQueueAssumption == MaxQueue \in Nat \ {0}
ASSUME BoundsAssumption == MaxEmitted \in Nat /\ MaxWaiters \in Nat

VARIABLES
    open,     \* ids in SessionStore::m_sessions
    queue,    \* EventQueue::m_eventQueue, as event numbers
    waiters,  \* EventQueue::m_nextWaiters
    emitted,  \* history: number of the last event emitted
    handed,   \* history: number of the last event handed to a "next"
    view,     \* history: sessions each socket was told are open, by its last
              \* replay and the events pushed since
    synced    \* history: sockets that have had every event since a replay

queueVars   == <<queue, waiters, emitted, handed>>
historyVars == <<view, synced>>
routingVars == <<registryVars, open, queueVars, historyVars>>

-----------------------------------------------------------------------------
(* EventRouter::route.                                                     *)

\* The sockets session events are pushed to.
Listeners == IF HasActiveProvider THEN {active} ELSE subscribers

\* Defective variant: a full queue keeps its oldest event and loses the new one.
Rejecting(events, n) ==
    IF Len(events) >= MaxQueue THEN events ELSE Append(events, n)

Enqueue(events, n) ==
    Append(IF Len(events) >= MaxQueue THEN Tail(events) ELSE events, n)

\* Defective variant: an event is kept even though somebody waits for it.
KeepQueued(q, n) == [q EXCEPT !.events = Enqueue(q.events, n)]

\* enqueue and drainToWaiters for event n.
RouteOne(q, n) ==
    LET events == Enqueue(q.events, n)
        served == IF Len(q.waiters) < Len(events)
                  THEN Len(q.waiters) ELSE Len(events)
    IN  [events  |-> SubSeq(events, served + 1, Len(events)),
         waiters |-> SubSeq(q.waiters, served + 1, Len(q.waiters)),
         handed  |-> IF served = 0 THEN q.handed ELSE events[served]]

\* The m events a handler emits, one after the other.
Route(m) ==
    LET after[i \in 0..m] ==
            IF i = 0
            THEN [events |-> queue, waiters |-> waiters, handed |-> handed]
            ELSE RouteOne(after[i - 1], emitted + i)
    IN  /\ emitted + m <= MaxEmitted
        /\ emitted' = emitted + m
        /\ queue' = after[m].events
        /\ waiters' = after[m].waiters
        /\ handed' = after[m].handed

\* A socket that is no longer pushed events is out of step until it subscribes.
FallOutOfStep == synced' = synced \cap Listeners'

-----------------------------------------------------------------------------
(* Handlers of the UI clients.                                             *)

RoutingInit ==
    /\ RegistryInit
    /\ open = {}
    /\ queue = <<>> /\ waiters = <<>>
    /\ emitted = 0 /\ handed = 0
    /\ view = [s \in Sockets |-> {}]
    /\ synced = {}

ClientConnects(s) ==
    /\ OnNewConnection(s)
    /\ view' = [view EXCEPT ![s] = {}]
    /\ FallOutOfStep
    /\ UNCHANGED <<open, queueVars>>

WithoutWaiter(s) ==
    LET kept[i \in 0..Len(waiters)] ==
            IF i = 0 THEN <<>>
            ELSE IF waiters[i] = s THEN kept[i - 1]
            ELSE Append(kept[i - 1], waiters[i])
    IN  kept[Len(waiters)]

ClientDisconnects(s) ==
    /\ OnClientDisconnected(s)
    /\ waiters' = WithoutWaiter(s)
    /\ FallOutOfStep
    /\ UNCHANGED <<open, queue, emitted, handed, view>>

\* Defective variant: an active provider that subscribes gets no replay.
OnlyUnregistered(s) == s \notin DOMAIN providers

CanReceiveInteractiveEvents(s) == s \in DOMAIN providers => s = active

\* Every open session is replayed, unless the socket is an inactive provider.
ClientSubscribes(s) ==
    /\ HandleSubscribe(s)
    /\ IF CanReceiveInteractiveEvents(s)
       THEN view' = [view EXCEPT ![s] = open]
       ELSE UNCHANGED view
    /\ synced' = (synced \cup {s}) \cap Listeners'
    /\ UNCHANGED <<open, queueVars>>

ClientRegisters(s, p) ==
    HandleUIRegister(s, p) /\ FallOutOfStep /\ UNCHANGED <<open, queueVars, view>>

ClientSendsHeartbeat(s) ==
    HandleUIHeartbeat(s) /\ FallOutOfStep /\ UNCHANGED <<open, queueVars, view>>

ClientUnregisters(s) ==
    HandleUIUnregister(s) /\ FallOutOfStep /\ UNCHANGED <<open, queueVars, view>>

HandleNext(s) ==
    /\ s \in connected
    /\ IF queue = <<>>
       THEN /\ Len(waiters) < MaxWaiters
            /\ waiters' = Append(waiters, s)
            /\ UNCHANGED <<queue, handed>>
       ELSE /\ queue' = Tail(queue)
            /\ handed' = Head(queue)
            /\ UNCHANGED waiters
    /\ UNCHANGED <<registryVars, open, emitted, historyVars>>

MaintenanceTimer ==
    PruneStaleProviders /\ FallOutOfStep /\ UNCHANGED <<open, queueVars, view>>

TimePasses == Tick /\ UNCHANGED <<open, queueVars, historyVars>>

-----------------------------------------------------------------------------
(* What the requests and decisions of AuthSessions do to the sessions.     *)

\* createSession: polkit emits session.created alone, the managers go on with
\* the prompt and, for a pinentry request that carries one, an error.
OpenSession(id, m) ==
    /\ id \notin open
    /\ m \in 1..3
    /\ open' = open \cup {id}
    /\ Route(m)
    /\ view' = [s \in Sockets |->
                   IF s \in Listeners THEN view[s] \cup {id} ELSE view[s]]
    /\ UNCHANGED <<registryVars, synced>>

\* A new prompt, an error, an info text; a pinentry flow that asks again may
\* change all three things the prompt shows.
UpdateSession(id, m) ==
    /\ id \in open
    /\ m \in 1..3
    /\ Route(m)
    /\ UNCHANGED <<registryVars, open, historyVars>>

\* Defective variant: closing the last session resets the active provider.
ResetIfEmpty ==
    /\ active' = IF open' = {} THEN NoSocket ELSE active
    /\ UNCHANGED <<connected, subscribers, providers, sinceMaintenance, toldActive>>

\* The election that follows when the store has become empty.
ElectIfEmpty ==
    IF open' = {} THEN RecomputeOnEmptyStore ELSE UNCHANGED registryVars

(***************************************************************************)
(* closeSession, for the sessions a handler closes one after the other (a  *)
(* requester that disconnects may have several).  When the last one leaves *)
(* the store empty, the election comes before its event, so the event goes *)
(* to the newly elected provider.  An error text may precede each close.   *)
(***************************************************************************)
CloseSession(ids, last, m) ==
    /\ ids \subseteq open
    /\ last \in ids
    /\ m \in Cardinality(ids)..(2 * Cardinality(ids))
    /\ open' = open \ ids
    /\ Route(m)
    /\ ElectIfEmpty
    /\ view' = [s \in Sockets |->
                   view[s] \ ((IF s \in Listeners THEN ids \ {last} ELSE {})
                              \cup (IF s \in Listeners' THEN {last} ELSE {}))]
    /\ FallOutOfStep

\* onSessionComplete, for polkit: the event comes before the election.
OnSessionComplete(id, m) ==
    /\ id \in open
    /\ m \in 1..3
    /\ open' = open \ {id}
    /\ Route(m)
    /\ ElectIfEmpty
    /\ view' = [s \in Sockets |->
                   IF s \in Listeners THEN view[s] \ {id} ELSE view[s]]
    /\ FallOutOfStep

RoutingNext ==
    \/ \E s \in Sockets :
           \/ ClientConnects(s) \/ ClientDisconnects(s) \/ ClientSubscribes(s)
           \/ \E p \in Priorities : ClientRegisters(s, p)
           \/ ClientSendsHeartbeat(s) \/ ClientUnregisters(s)
           \/ HandleNext(s)
    \/ MaintenanceTimer
    \/ TimePasses
    \/ \E id \in Ids, m \in 1..3 :
           OpenSession(id, m) \/ UpdateSession(id, m) \/ OnSessionComplete(id, m)
    \/ \E ids \in SUBSET open : \E last \in ids, m \in 1..(2 * Cardinality(ids)) :
           CloseSession(ids, last, m)

RoutingSpec == RoutingInit /\ [][RoutingNext]_routingVars

-----------------------------------------------------------------------------
(* Properties.                                                             *)

\* Nobody waits in "next" while there is an event to be had, nor after its
\* connection is closed, where the next event would be spent on it.
NobodyWaitsInVain ==
    /\ waiters # <<>> => queue = <<>>
    /\ waiters \in Seq(connected)

\* The queue holds the events that no "next" has had, in the order they were
\* emitted and without a gap: the latest MaxQueue of them when there are more.
QueueHoldsTheRest ==
    LET left == emitted - handed
        kept == IF left < MaxQueue THEN left ELSE MaxQueue
    IN  queue = [i \in 1..kept |-> emitted - kept + i]

\* A socket that is pushed events since its last replay (the active provider
\* that has subscribed, a subscriber while there is no provider) has been told
\* of exactly the sessions that are open, through elections, replays and the
\* two orders in which a session is closed and its provider elected.
ListenersAreUpToDate == \A s \in synced : view[s] = open

\* Routing leaves the election to ProviderRegistry: what holds of it holds here.
KeepsRegistry == RegistrySpec
=============================================================================
