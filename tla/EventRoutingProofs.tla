------------------------- MODULE EventRoutingProofs -------------------------
(***************************************************************************)
(* Proofs about EventRouting, for any clients, sessions and queue size,    *)
(* and any number of events that a handler emits.                          *)
(***************************************************************************)
EXTENDS EventRouting, ProviderRegistryProofs, WellFoundedInduction

-----------------------------------------------------------------------------
(* Routing implements the registry.                                        *)

LEMMA StepKeepsRegistry ==
    [RoutingNext]_routingVars => [RegistryNext]_registryVars
<1> SUFFICES ASSUME [RoutingNext]_routingVars
             PROVE  RegistryNext \/ UNCHANGED registryVars
  OBVIOUS
<1>1. ASSUME NEW s \in Sockets,
             \/ ClientConnects(s) \/ ClientDisconnects(s) \/ ClientSubscribes(s)
             \/ ClientSendsHeartbeat(s) \/ ClientUnregisters(s)
      PROVE  RegistryNext
  BY <1>1 DEF ClientConnects, ClientDisconnects, ClientSubscribes,
              ClientSendsHeartbeat, ClientUnregisters, RegistryNext
<1>2. ASSUME NEW s \in Sockets, NEW p \in Priorities, ClientRegisters(s, p)
      PROVE  RegistryNext
  BY <1>2 DEF ClientRegisters, RegistryNext
<1>3. ASSUME NEW s \in Sockets, HandleNext(s)
      PROVE  UNCHANGED registryVars
  BY <1>3 DEF HandleNext
<1>4. ASSUME MaintenanceTimer \/ TimePasses
      PROVE  RegistryNext
  BY <1>4 DEF MaintenanceTimer, TimePasses, RegistryNext
<1>5. ElectIfEmpty => RegistryNext \/ UNCHANGED registryVars
  BY DEF ElectIfEmpty, RegistryNext
<1>6. ASSUME NEW id \in Ids, NEW m \in 1..3,
             OpenSession(id, m) \/ UpdateSession(id, m) \/ OnSessionComplete(id, m)
      PROVE  RegistryNext \/ UNCHANGED registryVars
  BY <1>5, <1>6 DEF OpenSession, UpdateSession, OnSessionComplete
<1>7. ASSUME NEW ids \in SUBSET open, NEW last \in ids,
             NEW m \in 1..(2 * Cardinality(ids)), CloseSession(ids, last, m)
      PROVE  RegistryNext \/ UNCHANGED registryVars
  BY <1>5, <1>7 DEF CloseSession
<1>8. CASE UNCHANGED routingVars
  BY <1>8 DEF routingVars
<1> QED
  BY <1>1, <1>2, <1>3, <1>4, <1>6, <1>7, <1>8 DEF RoutingNext

\* Every behaviour of the router is a behaviour of the registry: a session, an
\* event or a replay never changes an election.  KeepsRegistry is that claim.
THEOREM RoutingKeepsRegistry == RoutingSpec => KeepsRegistry
<1>1. RoutingInit => RegistryInit
  BY DEF RoutingInit
<1> QED
  BY <1>1, StepKeepsRegistry, PTL DEF RoutingSpec, RegistrySpec, KeepsRegistry

LEMMA RegistryInvHolds == RoutingSpec => []RegistryInv
  BY RoutingKeepsRegistry, Invariance DEF KeepsRegistry

-----------------------------------------------------------------------------
(* What the listeners know.                                                *)

\* The inductive invariant: the sockets in step are among the listeners, so a
\* socket that connects, or falls silent, is not one of them.
ViewsOK == view \in [Sockets -> SUBSET Ids]

KnowledgeInv ==
    /\ open \subseteq Ids
    /\ ViewsOK
    /\ synced \subseteq Listeners
    /\ ListenersAreUpToDate

LEMMA ListenersAreConnected ==
    ASSUME RegistryInv
    PROVE  Listeners \subseteq connected /\ Listeners \subseteq Sockets
BY DEF RegistryInv, RegistryTypeOK, Listeners, HasActiveProvider

LEMMA InitKnowledge == RoutingInit => KnowledgeInv
BY DEF RoutingInit, KnowledgeInv, ViewsOK, ListenersAreUpToDate

\* A step that changes neither the sessions nor what anybody was told.
LEMMA NothingTold ==
    ASSUME KnowledgeInv, UNCHANGED <<open, view>>, FallOutOfStep
    PROVE  KnowledgeInv'
BY DEF KnowledgeInv, ViewsOK, ListenersAreUpToDate, FallOutOfStep

\* The registry does not move: neither do the listeners.
LEMMA SameListeners == UNCHANGED registryVars => Listeners' = Listeners
BY DEF registryVars, Listeners, HasActiveProvider

LEMMA KnowledgeStep ==
    RegistryInv /\ KnowledgeInv /\ [RoutingNext]_routingVars => KnowledgeInv'
<1> SUFFICES ASSUME RegistryInv, KnowledgeInv, [RoutingNext]_routingVars
             PROVE  KnowledgeInv'
  OBVIOUS
<1> USE DEF KnowledgeInv, ViewsOK
<1>0. synced \subseteq Sockets /\ synced \subseteq connected
  BY ListenersAreConnected
<1>1. ASSUME NEW s \in Sockets, ClientConnects(s)
      PROVE  KnowledgeInv'
  <2>1. s \notin synced
    BY <1>0, <1>1 DEF ClientConnects, OnNewConnection
  <2>2. view' = [view EXCEPT ![s] = {}] /\ open' = open /\ FallOutOfStep
    BY <1>1 DEF ClientConnects
  <2> QED
    BY <1>0, <2>1, <2>2 DEF FallOutOfStep, ListenersAreUpToDate
<1>2. ASSUME NEW s \in Sockets, ClientSubscribes(s)
      PROVE  KnowledgeInv'
  <2>1. UNCHANGED <<active, providers>> /\ open' = open
    BY <1>2 DEF ClientSubscribes, HandleSubscribe
  <2>2. synced' = (synced \cup {s}) \cap Listeners'
    BY <1>2 DEF ClientSubscribes
  <2>3. CASE CanReceiveInteractiveEvents(s)
    <3>1. view' = [view EXCEPT ![s] = open]
      BY <1>2, <2>3 DEF ClientSubscribes
    <3> QED
      BY <1>0, <2>1, <2>2, <3>1 DEF ListenersAreUpToDate
  <2>4. CASE ~CanReceiveInteractiveEvents(s)
    <3>1. view' = view
      BY <1>2, <2>4 DEF ClientSubscribes
    <3>2. HasActiveProvider
      BY <2>4, NoSocketAssumption
         DEF CanReceiveInteractiveEvents, HasActiveProvider, RegistryInv,
             RegistryTypeOK, ElectionIsTotal
    <3>3. HasActiveProvider'
      BY <2>1, <3>2 DEF HasActiveProvider
    <3>4. s \notin Listeners'
      BY <2>1, <2>4, <3>3 DEF Listeners, CanReceiveInteractiveEvents
    <3> QED
      BY <2>1, <2>2, <3>1, <3>4 DEF ListenersAreUpToDate
  <2> QED
    BY <2>3, <2>4
<1>3. ASSUME NEW s \in Sockets,
             ClientDisconnects(s) \/ ClientSendsHeartbeat(s) \/ ClientUnregisters(s)
      PROVE  KnowledgeInv'
  BY <1>3, NothingTold DEF ClientDisconnects, ClientSendsHeartbeat, ClientUnregisters
<1>4. ASSUME NEW s \in Sockets, NEW p \in Priorities, ClientRegisters(s, p)
      PROVE  KnowledgeInv'
  BY <1>4, NothingTold DEF ClientRegisters
<1>5. ASSUME MaintenanceTimer
      PROVE  KnowledgeInv'
  BY <1>5, NothingTold DEF MaintenanceTimer
<1>6. ASSUME NEW s \in Sockets, HandleNext(s)
      PROVE  KnowledgeInv'
  BY <1>6, SameListeners DEF HandleNext, historyVars, ListenersAreUpToDate
<1>7. ASSUME TimePasses
      PROVE  KnowledgeInv'
  <2>1. UNCHANGED <<active, subscribers, open, view, synced>>
    BY <1>7 DEF TimePasses, Tick, historyVars
  <2>2. DOMAIN providers' = DOMAIN providers
    BY <1>7 DEF TimePasses, Tick
  <2>3. Listeners' = Listeners
    BY <2>1, <2>2 DEF Listeners, HasActiveProvider
  <2> QED
    BY <2>1, <2>3 DEF ListenersAreUpToDate
<1>8. ASSUME NEW id \in Ids, NEW m \in 1..3, OpenSession(id, m)
      PROVE  KnowledgeInv'
  <2>1. /\ open' = open \cup {id} /\ synced' = synced
        /\ view' = [s \in Sockets |->
                       IF s \in Listeners THEN view[s] \cup {id} ELSE view[s]]
        /\ UNCHANGED registryVars
    BY <1>8 DEF OpenSession
  <2> QED
    BY <1>0, <2>1, SameListeners DEF ListenersAreUpToDate
<1>9. ASSUME NEW id \in Ids, NEW m \in 1..3, UpdateSession(id, m)
      PROVE  KnowledgeInv'
  BY <1>9, SameListeners DEF UpdateSession, historyVars, ListenersAreUpToDate
<1>10. ASSUME NEW id \in Ids, NEW m \in 1..3, OnSessionComplete(id, m)
       PROVE  KnowledgeInv'
  <2>1. /\ open' = open \ {id}
        /\ view' = [s \in Sockets |->
                       IF s \in Listeners THEN view[s] \ {id} ELSE view[s]]
        /\ synced' = synced \cap Listeners'
    BY <1>10 DEF OnSessionComplete, FallOutOfStep
  <2> QED
    BY <1>0, <2>1 DEF ListenersAreUpToDate
<1>11. ASSUME NEW ids \in SUBSET open, NEW last \in ids,
              NEW m \in 1..(2 * Cardinality(ids)), CloseSession(ids, last, m)
       PROVE  KnowledgeInv'
  <2>1. /\ open' = open \ ids
        /\ view' = [s \in Sockets |->
                       view[s] \ ((IF s \in Listeners THEN ids \ {last} ELSE {})
                                  \cup (IF s \in Listeners' THEN {last} ELSE {}))]
        /\ synced' = synced \cap Listeners'
    BY <1>11 DEF CloseSession, FallOutOfStep
  <2> QED
    BY <1>0, <2>1 DEF ListenersAreUpToDate
<1>12. CASE UNCHANGED routingVars
  BY <1>12, SameListeners DEF routingVars, historyVars, ListenersAreUpToDate
<1> QED
  BY <1>1, <1>2, <1>3, <1>4, <1>5, <1>6, <1>7, <1>8, <1>9, <1>10, <1>11, <1>12
     DEF RoutingNext

\* A socket that is pushed events since its last replay knows exactly the open
\* sessions, whatever elections and replays happened (ListenersAreUpToDate).
THEOREM ListenersKnow == RoutingSpec => []ListenersAreUpToDate
<1>1. KnowledgeInv => ListenersAreUpToDate
  BY DEF KnowledgeInv
<1> QED
  BY <1>1, InitKnowledge, KnowledgeStep, RegistryInvHolds, PTL DEF RoutingSpec

-----------------------------------------------------------------------------
(* Induction, over the numbers that form a set.                            *)

LEMMA LeastElement ==
    ASSUME NEW T, T \subseteq Nat, T # {}
    PROVE  \E x \in T : \A y \in T : x <= y
<1>1. PICK x \in T : \A y \in T : ~ (<<y, x>> \in OpToRel(<, Nat))
  BY NatLessThanWellFounded, WFMin
<1>2. \A y \in T : ~ (y < x)
  BY <1>1 DEF OpToRel
<1> QED
  BY <1>2

\* A set with 0 and the successors of its numbers has them all.
LEMMA InductionOnSet ==
    ASSUME NEW S, 0 \in S, \A n \in Nat : n \in S => n + 1 \in S
    PROVE  Nat \subseteq S
<1> SUFFICES ASSUME Nat \ S # {}
             PROVE  FALSE
  OBVIOUS
<1>1. PICK x \in Nat \ S : \A y \in Nat \ S : x <= y
  <2> DEFINE T == Nat \ S
  <2>1. T \subseteq Nat /\ T # {}
    OBVIOUS
  <2> HIDE DEF T
  <2>2. \E x \in T : \A y \in T : x <= y
    BY <2>1, LeastElement
  <2> QED
    BY <2>2 DEF T
<1>2. x # 0 /\ x - 1 \in Nat
  OBVIOUS
<1>3. x - 1 \in S
  BY <1>1, <1>2
<1> QED
  BY <1>2, <1>3

-----------------------------------------------------------------------------
(* The queue.                                                              *)

\* The events that are left of those up to number e.
Kept(left) == IF left < MaxQueue THEN left ELSE MaxQueue
Rest(h, e) == [i \in 1..Kept(e - h) |-> e - Kept(e - h) + i]

\* What the queue and its waiters look like once e events were emitted.
InOrder(q, e) ==
    /\ q.waiters \in Seq(connected)
    /\ q.waiters # <<>> => q.events = <<>>
    /\ q.handed \in 0..e
    /\ q.events = Rest(q.handed, e)

QueueInv ==
    /\ emitted \in Nat /\ handed \in 0..emitted
    /\ waiters \in Seq(connected)
    /\ waiters # <<>> => queue = <<>>
    /\ queue = Rest(handed, emitted)

LEMMA RestFacts ==
    ASSUME NEW e \in Nat, NEW h \in 0..e
    PROVE  /\ Rest(h, e) \in Seq(Nat) /\ Len(Rest(h, e)) = Kept(e - h)
           /\ Kept(e - h) \in 0..(e - h) /\ Kept(e - h) <= MaxQueue
           /\ \A i \in 1..Kept(e - h) : Rest(h, e)[i] = e - Kept(e - h) + i
           /\ Rest(h, e) = <<>> => h = e
<1>1. Kept(e - h) \in 0..(e - h) /\ Kept(e - h) <= MaxQueue
  BY MaxQueueAssumption DEF Kept
<1> QED
  BY <1>1, MaxQueueAssumption DEF Rest, Kept

\* A sequence is what its length and elements are.
LEMMA SameSequence ==
    ASSUME NEW q \in Seq(Nat), NEW r \in Seq(Nat), Len(q) = Len(r),
           \A i \in 1..Len(q) : q[i] = r[i]
    PROVE  q = r
OBVIOUS

LEMMA EnqueueKeepsOrder ==
    ASSUME NEW e \in Nat, NEW h \in 0..e
    PROVE  Enqueue(Rest(h, e), e + 1) = Rest(h, e + 1)
<1> DEFINE q == Rest(h, e)
           r == Rest(h, e + 1)
           k == Kept(e - h)
<1>1. /\ q \in Seq(Nat) /\ Len(q) = k /\ k \in 0..(e - h) /\ k <= MaxQueue
      /\ \A i \in 1..k : q[i] = e - k + i
  BY RestFacts
<1>2. /\ r \in Seq(Nat) /\ Len(r) = Kept(e + 1 - h)
      /\ \A i \in 1..Kept(e + 1 - h) : r[i] = e + 1 - Kept(e + 1 - h) + i
  <2> DEFINE f == e + 1
  <2>1. f \in Nat /\ h \in 0..f
    OBVIOUS
  <2> HIDE DEF f
  <2>2. /\ Rest(h, f) \in Seq(Nat) /\ Len(Rest(h, f)) = Kept(f - h)
        /\ \A i \in 1..Kept(f - h) : Rest(h, f)[i] = f - Kept(f - h) + i
    BY <2>1, RestFacts
  <2> QED
    BY <2>2 DEF f
<1>3. CASE k < MaxQueue
  <2>1. Kept(e + 1 - h) = k + 1
    BY <1>1, <1>3, MaxQueueAssumption DEF Kept
  <2>2. Enqueue(q, e + 1) = Append(q, e + 1)
    BY <1>1, <1>3, MaxQueueAssumption DEF Enqueue
  <2> HIDE DEF q, r, k
  <2>3. Append(q, e + 1) = r
    <3>1. Append(q, e + 1) \in Seq(Nat) /\ Len(Append(q, e + 1)) = Len(r)
      BY <1>1, <1>2, <2>1
    <3>2. \A i \in 1..Len(r) : Append(q, e + 1)[i] = r[i]
      <4> SUFFICES ASSUME NEW i \in 1..(k + 1)
                   PROVE  Append(q, e + 1)[i] = r[i]
        BY <1>2, <2>1
      <4>1. r[i] = e - k + i
        BY <1>1, <1>2, <2>1
      <4>2. CASE i = k + 1
        BY <1>1, <4>1, <4>2
      <4>3. CASE i # k + 1
        BY <1>1, <4>1, <4>3
      <4> QED
        BY <4>2, <4>3
    <3> QED
      BY <1>2, <3>1, <3>2, SameSequence
  <2> QED
    BY <2>2, <2>3 DEF q, r
<1>4. CASE k = MaxQueue
  <2>1. Kept(e + 1 - h) = k /\ k >= 1
    BY <1>1, <1>4, MaxQueueAssumption DEF Kept
  <2>2. Enqueue(q, e + 1) = Append(Tail(q), e + 1)
    BY <1>1, <1>4, MaxQueueAssumption DEF Enqueue
  <2> HIDE DEF q, r, k
  <2>3. Append(Tail(q), e + 1) = r
    <3>0. /\ Tail(q) \in Seq(Nat) /\ Len(Tail(q)) = k - 1
          /\ \A i \in 1..(k - 1) : Tail(q)[i] = q[i + 1]
      BY <1>1, <2>1
    <3>1. Append(Tail(q), e + 1) \in Seq(Nat) /\ Len(Append(Tail(q), e + 1)) = Len(r)
      BY <1>1, <1>2, <2>1, <3>0
    <3>2. \A i \in 1..Len(r) : Append(Tail(q), e + 1)[i] = r[i]
      <4> SUFFICES ASSUME NEW i \in 1..k
                   PROVE  Append(Tail(q), e + 1)[i] = r[i]
        BY <1>2, <2>1
      <4>1. r[i] = e + 1 - k + i
        BY <1>1, <1>2, <2>1
      <4>2. CASE i = k
        BY <1>1, <2>1, <3>0, <4>1, <4>2
      <4>3. CASE i # k
        <5>1. i \in 1..(k - 1) /\ i + 1 \in 1..k
          BY <1>1, <4>3
        <5>2. Tail(q)[i] = e - k + (i + 1)
          BY <1>1, <3>0, <5>1
        <5>3. Append(Tail(q), e + 1)[i] = Tail(q)[i]
          BY <3>0, <5>1
        <5> QED
          BY <1>1, <4>1, <5>2, <5>3
      <4> QED
        BY <4>2, <4>3
    <3> QED
      BY <1>2, <3>1, <3>2, SameSequence
  <2> QED
    BY <2>2, <2>3 DEF q, r
<1> QED
  BY <1>1, <1>3, <1>4, MaxQueueAssumption

\* One event more: nobody waited, and it is kept; or the queue was empty, and it
\* goes to the first who waits.
LEMMA RouteOneKeepsOrder ==
    ASSUME NEW e \in Nat, NEW q, InOrder(q, e)
    PROVE  InOrder(RouteOne(q, e + 1), e + 1)
<1> DEFINE h == q.handed
           events == Enqueue(q.events, e + 1)
           w == q.waiters
           r == RouteOne(q, e + 1)
<1>1. /\ w \in Seq(connected) /\ h \in 0..e
      /\ q.events = Rest(h, e) /\ events = Rest(h, e + 1)
      /\ w # <<>> => Rest(h, e) = <<>>
  BY EnqueueKeepsOrder DEF InOrder
<1>2. /\ events \in Seq(Nat) /\ Len(events) = Kept(e + 1 - h) /\ Len(events) >= 1
      /\ \A i \in 1..Kept(e + 1 - h) : events[i] = e + 1 - Kept(e + 1 - h) + i
  <2> DEFINE f == e + 1
  <2>1. f \in Nat /\ h \in 0..f /\ events = Rest(h, f)
    BY <1>1
  <2> HIDE DEF f, h, events
  <2>2. /\ Rest(h, f) \in Seq(Nat) /\ Len(Rest(h, f)) = Kept(f - h)
        /\ \A i \in 1..Kept(f - h) : Rest(h, f)[i] = f - Kept(f - h) + i
    BY <2>1, RestFacts
  <2>3. Kept(f - h) >= 1
    BY <1>1, MaxQueueAssumption DEF Kept, f
  <2> QED
    BY <2>1, <2>2, <2>3 DEF f
<1> DEFINE served == IF Len(w) < Len(events) THEN Len(w) ELSE Len(events)
<1>3. /\ r.events = SubSeq(events, served + 1, Len(events))
      /\ r.waiters = SubSeq(w, served + 1, Len(w))
      /\ r.handed = IF served = 0 THEN h ELSE events[served]
  BY Zenon DEF RouteOne
<1>4. /\ r.waiters \in Seq(connected)
      /\ r.waiters # <<>> => r.events = <<>>
      /\ r.handed \in 0..(e + 1)
      /\ r.events = Rest(r.handed, e + 1)
  <2>1. Len(w) \in Nat /\ (w = <<>> <=> Len(w) = 0)
    BY <1>1
  <2>2. events = Rest(h, e + 1) /\ (w # <<>> => h = e)
    BY <1>1, RestFacts
  <2>3. w # <<>> => Kept(e + 1 - h) = 1
    <3>1. ASSUME h = e PROVE Kept(e + 1 - h) = 1
      <4> HIDE DEF h
      <4>1. e + 1 - h = 1
        BY <3>1
      <4> QED
        BY <4>1, MaxQueueAssumption DEF Kept
    <3> QED
      BY <2>2, <3>1
  <2>4. Rest(e + 1, e + 1) = <<>>
    <3>1. Kept((e + 1) - (e + 1)) = 0
      BY MaxQueueAssumption DEF Kept
    <3> QED
      BY <3>1 DEF Rest
  <2> HIDE DEF r, events, w, h
  <2>5. CASE w = <<>>
    <3>1. served = 0
      BY <1>2, <2>1, <2>5
    <3>2. r.handed = h /\ r.events = events /\ r.waiters = <<>>
      BY <1>1, <1>2, <1>3, <2>1, <2>5, <3>1
    <3> QED
      BY <1>1, <2>2, <3>2
  <2>6. CASE w # <<>>
    <3>1. Len(events) = 1 /\ events[1] = e + 1
      BY <1>2, <2>2, <2>3, <2>6
    <3>2. served = 1
      BY <2>1, <2>6, <3>1
    <3>3. r.handed = e + 1 /\ r.events = <<>> /\ r.waiters \in Seq(connected)
      BY <1>1, <1>2, <1>3, <2>1, <2>6, <3>1, <3>2
    <3> QED
      BY <2>4, <3>3
  <2> QED
    BY <2>5, <2>6
<1> QED
  BY <1>4 DEF InOrder

\* The steps of a handler that emits m events, as the recursion of Route.
Stages(f, n) ==
    f = [i \in 0..n |->
            IF i = 0
            THEN [events |-> queue, waiters |-> waiters, handed |-> handed]
            ELSE RouteOne(f[i - 1], emitted + i)]

LEMMA StagesExist ==
    ASSUME NEW m \in Nat
    PROVE  \E f : Stages(f, m)
<1> DEFINE S == {n \in Nat : \E f : Stages(f, n)}
           start == [events |-> queue, waiters |-> waiters, handed |-> handed]
<1>1. 0 \in S
  <2>1. Stages([i \in 0..0 |-> start], 0)
    BY DEF Stages
  <2> QED
    BY <2>1
<1>2. ASSUME NEW n \in Nat, n \in S
      PROVE  n + 1 \in S
  <2>1. PICK f : Stages(f, n)
    BY <1>2
  <2> DEFINE h == [i \in 0..(n + 1) |->
                      IF i = n + 1 THEN RouteOne(f[n], emitted + i) ELSE f[i]]
  <2>2. ASSUME NEW i \in 0..(n + 1)
        PROVE  h[i] = IF i = 0 THEN start ELSE RouteOne(h[i - 1], emitted + i)
    <3>1. \A j \in 0..n : f[j] = IF j = 0 THEN start ELSE RouteOne(f[j - 1], emitted + j)
      BY <2>1 DEF Stages
    <3>2. CASE i = n + 1
      BY <3>2
    <3>3. CASE i # n + 1
      BY <3>1, <3>3
    <3> QED
      BY <3>2, <3>3
  <2>3. h = [i \in 0..(n + 1) |-> h[i]]
    OBVIOUS
  <2> HIDE DEF h
  <2>4. h = [i \in 0..(n + 1) |-> IF i = 0 THEN start ELSE RouteOne(h[i - 1], emitted + i)]
    BY <2>2, <2>3
  <2>5. Stages(h, n + 1)
    BY <2>4 DEF Stages
  <2> QED
    BY <2>5
<1>3. Nat \subseteq S
  <2> HIDE DEF S
  <2> QED
    BY <1>1, <1>2, InductionOnSet
<1> QED
  BY <1>3

\* However many events a handler emits, the queue is in order after each.
LEMMA StagesKeepOrder ==
    ASSUME QueueInv, NEW m \in Nat, NEW f, Stages(f, m)
    PROVE  \A i \in 0..m : InOrder(f[i], emitted + i)
<1> DEFINE S == {n \in Nat : n <= m => InOrder(f[n], emitted + n)}
<1>0. \A i \in 0..m : f[i] = IF i = 0
            THEN [events |-> queue, waiters |-> waiters, handed |-> handed]
            ELSE RouteOne(f[i - 1], emitted + i)
  BY DEF Stages
<1>1. 0 \in S
  BY <1>0 DEF QueueInv, InOrder
<1>2. ASSUME NEW n \in Nat, n \in S
      PROVE  n + 1 \in S
  <2> SUFFICES ASSUME n + 1 <= m
               PROVE  InOrder(f[n + 1], emitted + (n + 1))
    OBVIOUS
  <2>1. InOrder(f[n], emitted + n)
    BY <1>2
  <2>2. f[n + 1] = RouteOne(f[n], emitted + (n + 1))
    BY <1>0
  <2>3. emitted + n \in Nat /\ emitted + (n + 1) = (emitted + n) + 1
    BY DEF QueueInv
  <2> QED
    BY <2>1, <2>2, <2>3, RouteOneKeepsOrder
<1>3. Nat \subseteq S
  <2> HIDE DEF S
  <2> QED
    BY <1>1, <1>2, InductionOnSet
<1> QED
  BY <1>3

LEMMA RouteKeepsOrder ==
    ASSUME QueueInv, NEW m \in Nat, Route(m), connected' = connected
    PROVE  QueueInv'
<1> DEFINE after == CHOOSE f : Stages(f, m)
<1>1. Stages(after, m)
  BY StagesExist
<1>2. /\ emitted' = emitted + m
      /\ queue' = after[m].events
      /\ waiters' = after[m].waiters
      /\ handed' = after[m].handed
  BY DEF Route, Stages
<1> HIDE DEF after
<1>3. InOrder(after[m], emitted + m)
  BY <1>1, StagesKeepOrder
<1> QED
  BY <1>2, <1>3 DEF QueueInv, InOrder

\* removeWaiter leaves sockets that wait, and not the one that is gone.
LEMMA WithoutWaiterFacts ==
    ASSUME waiters \in Seq(connected), NEW s
    PROVE  /\ WithoutWaiter(s) \in Seq(connected \ {s})
           /\ waiters = <<>> => WithoutWaiter(s) = <<>>
<1> DEFINE Scan(f, n) == f = [i \in 0..n |->
                            IF i = 0 THEN <<>>
                            ELSE IF waiters[i] = s THEN f[i - 1]
                            ELSE Append(f[i - 1], waiters[i])]
           S == {n \in Nat : \E f : Scan(f, n)}
<1>1. 0 \in S
  <2>1. Scan([i \in 0..0 |-> <<>>], 0)
    OBVIOUS
  <2> QED
    BY <2>1
<1>2. ASSUME NEW n \in Nat, n \in S
      PROVE  n + 1 \in S
  <2>1. PICK f : Scan(f, n)
    BY <1>2
  <2> DEFINE last == IF waiters[n + 1] = s THEN f[n] ELSE Append(f[n], waiters[n + 1])
             h == [i \in 0..(n + 1) |-> IF i = n + 1 THEN last ELSE f[i]]
  <2>2. ASSUME NEW i \in 0..(n + 1)
        PROVE  h[i] = IF i = 0 THEN <<>>
                      ELSE IF waiters[i] = s THEN h[i - 1] ELSE Append(h[i - 1], waiters[i])
    <3>1. \A j \in 0..n : f[j] = IF j = 0 THEN <<>>
                                 ELSE IF waiters[j] = s THEN f[j - 1]
                                 ELSE Append(f[j - 1], waiters[j])
      BY <2>1
    <3>2. CASE i = n + 1
      BY <3>2
    <3>3. CASE i # n + 1
      BY <3>1, <3>3
    <3> QED
      BY <3>2, <3>3
  <2>3. h = [i \in 0..(n + 1) |-> h[i]]
    OBVIOUS
  <2> HIDE DEF h
  <2>4. h = [i \in 0..(n + 1) |->
                IF i = 0 THEN <<>>
                ELSE IF waiters[i] = s THEN h[i - 1] ELSE Append(h[i - 1], waiters[i])]
    BY <2>2, <2>3, Zenon
  <2>5. Scan(h, n + 1)
    BY <2>4
  <2> HIDE DEF Scan
  <2> QED
    BY <2>5
<1>3. Nat \subseteq S
  <2> HIDE DEF S
  <2> QED
    BY <1>1, <1>2, InductionOnSet
<1> DEFINE kept == CHOOSE f : Scan(f, Len(waiters))
<1>4. Len(waiters) \in Nat
  OBVIOUS
<1>5. Scan(kept, Len(waiters))
  BY <1>3, <1>4
<1>6. WithoutWaiter(s) = kept[Len(waiters)]
  BY DEF WithoutWaiter
<1> HIDE DEF kept
<1>7. \A i \in 0..Len(waiters) :
          kept[i] = IF i = 0 THEN <<>>
                    ELSE IF waiters[i] = s THEN kept[i - 1] ELSE Append(kept[i - 1], waiters[i])
  BY <1>5
<1> DEFINE T == {n \in Nat : n <= Len(waiters) => kept[n] \in Seq(connected \ {s})}
<1>8. 0 \in T
  <2>1. kept[0] = <<>> /\ <<>> \in Seq(connected \ {s})
    BY <1>4, <1>7
  <2> HIDE DEF Scan
  <2> QED
    BY <2>1
<1>9. ASSUME NEW n \in Nat, n \in T
      PROVE  n + 1 \in T
  <2> SUFFICES ASSUME n + 1 <= Len(waiters)
               PROVE  kept[n + 1] \in Seq(connected \ {s})
    OBVIOUS
  <2>1. kept[n] \in Seq(connected \ {s})
    BY <1>4, <1>9
  <2>2. waiters[n + 1] \in connected
    BY <1>4
  <2>3. kept[n + 1] = IF waiters[n + 1] = s THEN kept[n] ELSE Append(kept[n], waiters[n + 1])
    BY <1>4, <1>7
  <2>4. CASE waiters[n + 1] = s
    BY <2>1, <2>3, <2>4
  <2>5. CASE waiters[n + 1] # s
    <3>1. waiters[n + 1] \in connected \ {s}
      BY <2>2, <2>5
    <3>2. Append(kept[n], waiters[n + 1]) \in Seq(connected \ {s})
      BY <2>1, <3>1
    <3> QED
      BY <2>3, <2>5, <3>2
  <2> QED
    BY <2>4, <2>5
<1>10. Nat \subseteq T
  <2> HIDE DEF T
  <2> QED
    BY <1>8, <1>9, InductionOnSet
<1>11. WithoutWaiter(s) \in Seq(connected \ {s})
  BY <1>4, <1>6, <1>10
<1>12. ASSUME waiters = <<>> PROVE WithoutWaiter(s) = <<>>
  BY <1>6, <1>7, <1>12
<1> QED
  BY <1>11, <1>12

LEMMA QueueInvInit == RoutingInit => QueueInv
<1> SUFFICES ASSUME RoutingInit
             PROVE  QueueInv
  OBVIOUS
<1>1. Rest(0, 0) = <<>>
  <2>1. Kept(0 - 0) = 0
    BY MaxQueueAssumption DEF Kept
  <2> QED
    BY <2>1 DEF Rest
<1> QED
  BY <1>1 DEF RoutingInit, QueueInv

\* A client that asks with "next" gets the oldest event, or waits.
LEMMA NextKeepsQueueInv ==
    ASSUME QueueInv, NEW s \in Sockets, HandleNext(s)
    PROVE  QueueInv'
<1> DEFINE k == Kept(emitted - handed)
<1>1. s \in connected /\ connected' = connected /\ emitted' = emitted
  BY DEF HandleNext, registryVars
<1>2. CASE queue = <<>>
  <2>1. waiters' = Append(waiters, s) /\ queue' = queue /\ handed' = handed
    BY <1>2 DEF HandleNext
  <2>2. waiters' \in Seq(connected')
    BY <1>1, <2>1 DEF QueueInv
  <2> QED
    BY <1>1, <1>2, <2>1, <2>2 DEF QueueInv
<1>3. CASE queue # <<>>
  <2>1. queue' = Tail(queue) /\ handed' = Head(queue) /\ waiters' = waiters
    BY <1>3 DEF HandleNext
  <2>2. /\ queue \in Seq(Nat) /\ Len(queue) = k /\ k \in 0..(emitted - handed)
        /\ k <= MaxQueue /\ \A i \in 1..k : queue[i] = emitted - k + i
    BY RestFacts DEF QueueInv
  <2>3. k >= 1 /\ Head(queue) = emitted - k + 1 /\ waiters = <<>>
    <3> HIDE DEF k
    <3>1. k >= 1
      BY <1>3, <2>2
    <3>2. Head(queue) = queue[1]
      BY <1>3, <2>2
    <3> QED
      BY <1>3, <2>2, <3>1, <3>2 DEF QueueInv
  <2> DEFINE h == emitted - k + 1
             r == Rest(h, emitted)
  <2>4. h \in 0..emitted /\ emitted \in Nat
    BY <2>2, <2>3 DEF QueueInv
  <2>5. Kept(emitted - h) = k - 1
    <3>1. emitted - h = k - 1
      BY <2>2, <2>4
    <3> QED
      BY <2>2, <3>1, MaxQueueAssumption DEF Kept
  <2> HIDE DEF h
  <2>6. r \in Seq(Nat) /\ Len(r) = k - 1 /\ \A i \in 1..(k - 1) : r[i] = emitted - (k - 1) + i
    BY <2>4, <2>5, RestFacts
  <2> HIDE DEF k, r
  <2>7. /\ Tail(queue) \in Seq(Nat) /\ Len(Tail(queue)) = k - 1
        /\ \A i \in 1..(k - 1) : Tail(queue)[i] = queue[i + 1]
    BY <2>2, <2>3
  <2>8. \A i \in 1..(k - 1) : Tail(queue)[i] = r[i]
    <3> SUFFICES ASSUME NEW i \in 1..(k - 1)
                 PROVE  Tail(queue)[i] = r[i]
      OBVIOUS
    <3>1. queue[i + 1] = emitted - k + (i + 1)
      BY <2>2
    <3> QED
      BY <2>2, <2>4, <2>6, <2>7, <3>1
  <2>9. Tail(queue) = r
    BY <2>6, <2>7, <2>8, SameSequence
  <2> QED
    BY <1>1, <2>1, <2>3, <2>4, <2>9 DEF QueueInv, h, r
<1> QED
  BY <1>2, <1>3

\* Steps that leave the queue alone and close no connection.
LEMMA QueueStays ==
    ASSUME QueueInv, UNCHANGED queueVars, connected \subseteq connected'
    PROVE  QueueInv'
<1>1. waiters' \in Seq(connected')
  <2>1. Seq(connected) \subseteq Seq(connected')
    OBVIOUS
  <2> QED
    BY <2>1 DEF QueueInv, queueVars
<1> QED
  BY <1>1 DEF QueueInv, queueVars

LEMMA QueueInvNext == QueueInv /\ [RoutingNext]_routingVars => QueueInv'
<1> SUFFICES ASSUME QueueInv, [RoutingNext]_routingVars
             PROVE  QueueInv'
  OBVIOUS
<1>1. ASSUME NEW s \in Sockets, ClientConnects(s)
      PROVE  QueueInv'
  BY <1>1, QueueStays DEF ClientConnects, OnNewConnection
<1>2. ASSUME NEW s \in Sockets, ClientDisconnects(s)
      PROVE  QueueInv'
  <2>1. /\ connected' = connected \ {s} /\ waiters' = WithoutWaiter(s)
        /\ UNCHANGED <<queue, emitted, handed>>
    BY <1>2 DEF ClientDisconnects, OnClientDisconnected
  <2>2. /\ WithoutWaiter(s) \in Seq(connected \ {s})
        /\ waiters = <<>> => WithoutWaiter(s) = <<>>
    BY WithoutWaiterFacts DEF QueueInv
  <2> QED
    BY <2>1, <2>2 DEF QueueInv
<1>3. ASSUME NEW s \in Sockets,
             ClientSubscribes(s) \/ ClientSendsHeartbeat(s) \/ ClientUnregisters(s)
      PROVE  QueueInv'
  <2>1. connected' = connected /\ UNCHANGED queueVars
    BY <1>3 DEF ClientSubscribes, ClientSendsHeartbeat, ClientUnregisters,
      HandleSubscribe, HandleUIHeartbeat, HandleUIUnregister
  <2> QED
    BY <2>1, QueueStays
<1>4. ASSUME NEW s \in Sockets, NEW p \in Priorities, ClientRegisters(s, p)
      PROVE  QueueInv'
  BY <1>4, QueueStays DEF ClientRegisters, HandleUIRegister
<1>5. ASSUME MaintenanceTimer \/ TimePasses
      PROVE  QueueInv'
  BY <1>5, QueueStays DEF MaintenanceTimer, TimePasses, PruneStaleProviders, Tick
<1>6. ASSUME NEW s \in Sockets, HandleNext(s)
      PROVE  QueueInv'
  BY <1>6, NextKeepsQueueInv
<1>7. ElectIfEmpty => connected' = connected
  BY DEF ElectIfEmpty, RecomputeOnEmptyStore, registryVars
<1>8. ASSUME NEW id \in Ids, NEW m \in 1..3,
             OpenSession(id, m) \/ UpdateSession(id, m) \/ OnSessionComplete(id, m)
      PROVE  QueueInv'
  <2>1. m \in Nat /\ Route(m) /\ connected' = connected
    BY <1>7, <1>8 DEF OpenSession, UpdateSession, OnSessionComplete, registryVars
  <2> QED
    BY <2>1, RouteKeepsOrder
<1>9. ASSUME NEW ids \in SUBSET open, NEW last \in ids,
             NEW m \in 1..(2 * Cardinality(ids)), CloseSession(ids, last, m)
      PROVE  QueueInv'
  <2>1. m \in Nat
    OBVIOUS
  <2>2. Route(m) /\ connected' = connected
    BY <1>7, <1>9 DEF CloseSession
  <2> QED
    BY <2>1, <2>2, RouteKeepsOrder
<1>10. CASE UNCHANGED routingVars
  BY <1>10, QueueStays DEF routingVars, registryVars
<1> QED
  BY <1>1, <1>2, <1>3, <1>4, <1>5, <1>6, <1>8, <1>9, <1>10 DEF RoutingNext

LEMMA QueueInvariance == RoutingSpec => []QueueInv
BY QueueInvInit, QueueInvNext, PTL DEF RoutingSpec

\* Nobody waits while there is an event, and nobody's connection is closed while it
\* waits (EventQueue::drainToWaiters, removeWaiter): NobodyWaitsInVain.
THEOREM EventsAreHandedOut == RoutingSpec => []NobodyWaitsInVain
<1>1. QueueInv => NobodyWaitsInVain
  BY DEF QueueInv, NobodyWaitsInVain
<1> QED
  BY <1>1, QueueInvariance, PTL

\* The queue holds the latest events no "next" has had, in their order and without
\* a gap, however many each handler emits (EventQueue::enqueue): QueueHoldsTheRest.
THEOREM NoEventIsLost == RoutingSpec => []QueueHoldsTheRest
<1>1. QueueInv => QueueHoldsTheRest
  BY DEF QueueInv, QueueHoldsTheRest, Rest, Kept
<1> QED
  BY <1>1, QueueInvariance, PTL
=============================================================================
