--------------------------- MODULE FallbackUiProofs ---------------------------
(***************************************************************************)
(* Proofs about FallbackUi.  What the window shows is explained by what it *)
(* has still to read, so the inductive invariant looks into the channel: a *)
(* session it will show is open or will be closed behind, and a provider   *)
(* that will lose its place to a rival has that message under way.         *)
(* The choice of what is launched (ProviderLaunch) is at the end.          *)
(***************************************************************************)
EXTENDS FallbackUi, FiniteSetTheorems, WellFoundedInduction, TLAPS

Event ==
    [type : {"active", "inactive"}] \cup [type : {"created", "updated"}, id : Sessions]
        \cup [type : {"closed"}, id : Sessions, result : Results]

\* After the i-th message, one comes that takes the place away, or that ends a
\* session.
Silenced(evs, i) == \E j \in DOMAIN evs : j > i /\ evs[j].type = "inactive"
Ended(evs, i, id) == \E j \in DOMAIN evs : j > i /\ evs[j].type = "closed" /\ evs[j].id = id

FlagsOK ==
    /\ rival \in BOOLEAN /\ cooldown \in BOOLEAN /\ backoff \in BOOLEAN
    /\ running \in BOOLEAN /\ believes \in BOOLEAN
    /\ busy \in BOOLEAN /\ idle \in BOOLEAN

DataOK ==
    /\ open \subseteq Sessions /\ IsFiniteSet(open)
    /\ conn \in {"none", "live", "dead"}
    /\ starting \in Nat /\ subscribes \in Nat
    /\ events \in Seq(Event)
    /\ current \in Sessions \cup {None}
    /\ action \in {"none", "submit", "cancel"}
    /\ successTimers \in Nat /\ failTimers \subseteq Sessions

UiTypeOK == FlagsOK /\ DataOK

\* A prompt is only shown by a client that thinks it is active, which takes a
\* connection, which takes a process.
ConnectionInv ==
    /\ current # None => believes
    /\ believes => conn = "live"
    /\ IF conn = "live" THEN running ELSE events = <<>> /\ subscribes = 0

\* While there is a rival, whatever makes the client active, or shows it a
\* prompt, is followed by the message that it is not active.
RivalInv ==
    rival => /\ believes => Silenced(events, 0)
             /\ \A i \in DOMAIN events :
                    events[i].type \in {"active", "created"} => Silenced(events, i)

\* A session that is, or will be, in the window is open, or its end will be read
\* or was.
ShownInv ==
    /\ current # None =>
        \/ current \in open \/ successTimers > 0 \/ current \in failTimers
        \/ Ended(events, 0, current) \/ Silenced(events, 0)
    /\ \A i \in DOMAIN events :
        events[i].type = "created" =>
            \/ events[i].id \in open
            \/ Ended(events, i, events[i].id) \/ Silenced(events, i)

\* An empty window leaves, or will hear of a session that is open, or that it is
\* no longer active.
HiddenInv ==
    /\ idle => current = None
    /\ believes /\ current = None /\ open # {} /\ ~idle =>
        \/ subscribes > 0
        \/ \E i \in DOMAIN events : events[i].type = "created"
        \/ Silenced(events, 0)

UiInv == UiTypeOK /\ ConnectionInv /\ RivalInv /\ ShownInv /\ HiddenInv

-----------------------------------------------------------------------------
(* What is under way.                                                      *)

\* Messages that are appended take nothing back.
LEMMA AfterAppend ==
    ASSUME NEW evs \in Seq(Event), NEW es \in Seq(Event), NEW i \in Nat
    PROVE  /\ evs \o es \in Seq(Event)
           /\ i \in DOMAIN evs => i \in DOMAIN (evs \o es) /\ (evs \o es)[i] = evs[i]
           /\ i \in DOMAIN es => /\ i + Len(evs) \in DOMAIN (evs \o es)
                                 /\ (evs \o es)[i + Len(evs)] = es[i]
           /\ i \in DOMAIN (evs \o es) => i \in DOMAIN evs \/ i - Len(evs) \in DOMAIN es
OBVIOUS

LEMMA AppendKeeps ==
    ASSUME NEW evs \in Seq(Event), NEW es \in Seq(Event), NEW i \in Nat, NEW id
    PROVE  /\ Silenced(evs, i) => Silenced(evs \o es, i)
           /\ Ended(evs, i, id) => Ended(evs \o es, i, id)
<1>1. \A j \in DOMAIN evs : j \in DOMAIN (evs \o es) /\ (evs \o es)[j] = evs[j]
  OBVIOUS
<1> QED
  BY <1>1 DEF Silenced, Ended

LEMMA AppendAdds ==
    ASSUME NEW evs \in Seq(Event), NEW es \in Seq(Event), NEW i \in Nat, i <= Len(evs),
           NEW j \in DOMAIN es
    PROVE  /\ es[j].type = "inactive" => Silenced(evs \o es, i)
           /\ es[j].type = "closed" => Ended(evs \o es, i, es[j].id)
<1>1. /\ j + Len(evs) \in DOMAIN (evs \o es) /\ j + Len(evs) > i
      /\ (evs \o es)[j + Len(evs)] = es[j]
  OBVIOUS
<1> QED
  BY <1>1 DEF Silenced, Ended

\* Reading the first message only moves the others up.
LEMMA TailKeeps ==
    ASSUME NEW evs \in Seq(Event), evs # <<>>, NEW i \in Nat, NEW id
    PROVE  /\ Silenced(evs, i + 1) => Silenced(Tail(evs), i)
           /\ Ended(evs, i + 1, id) => Ended(Tail(evs), i, id)
<1>1. ASSUME NEW j \in DOMAIN evs, j > i + 1
      PROVE  j - 1 \in DOMAIN Tail(evs) /\ j - 1 > i /\ Tail(evs)[j - 1] = evs[j]
  BY <1>1
<1> QED
  BY <1>1 DEF Silenced, Ended

LEMMA HeadOrTail ==
    ASSUME NEW evs \in Seq(Event), evs # <<>>, NEW id
    PROVE  /\ Silenced(evs, 0) => Head(evs).type = "inactive" \/ Silenced(Tail(evs), 0)
           /\ Ended(evs, 0, id) => \/ Head(evs).type = "closed" /\ Head(evs).id = id
                                   \/ Ended(Tail(evs), 0, id)
<1>1. \A j \in DOMAIN evs : j = 1 \/ j > 1
  OBVIOUS
<1>2. Head(evs) = evs[1]
  OBVIOUS
<1>3. /\ Silenced(evs, 0) => evs[1].type = "inactive" \/ Silenced(evs, 1)
      /\ Ended(evs, 0, id) => (evs[1].type = "closed" /\ evs[1].id = id) \/ Ended(evs, 1, id)
  BY <1>1 DEF Silenced, Ended
<1>4. /\ Silenced(evs, 1) => Silenced(Tail(evs), 0)
      /\ Ended(evs, 1, id) => Ended(Tail(evs), 0, id)
  BY TailKeeps, 0 + 1 = 1
<1> QED
  BY <1>2, <1>3, <1>4

-----------------------------------------------------------------------------
(* Types.                                                                  *)

LEMMA EventTypes ==
    /\ \A t \in {"active", "inactive"} : [type |-> t] \in Event
    /\ \A t \in {"created", "updated"}, id \in Sessions : [type |-> t, id |-> id] \in Event
    /\ \A id \in Sessions, r \in Results :
          [type |-> "closed", id |-> id, result |-> r] \in Event
BY DEF Event

LEMMA LaunchTypes ==
    ASSUME DataOK, EnsureFallbackUiRunning
    PROVE  starting' \in Nat
BY DEF DataOK, EnsureFallbackUiRunning, TryLaunch

\* A replay holds the open sessions, and them only.
LEMMA ReplayFacts ==
    ASSUME DataOK, NEW order \in SetToSeqs(open),
           NEW es, es = [i \in DOMAIN order |-> [type |-> "created", id |-> order[i]]]
    PROVE  /\ es \in Seq(Event)
           /\ \A i \in DOMAIN es : es[i].type = "created" /\ es[i].id \in open
           /\ open # {} => 1 \in DOMAIN es
<1>1. Cardinality(open) \in Nat /\ (open # {} => Cardinality(open) # 0)
  BY FS_CardinalityType, FS_EmptySet DEF DataOK
<1>2. order \in [1..Cardinality(open) -> open]
  BY DEF SetToSeqs
<1>3. DOMAIN es = 1..Cardinality(open)
  BY <1>2
<1>4. \A i \in DOMAIN es : es[i] = [type |-> "created", id |-> order[i]] /\ order[i] \in open
  BY <1>2, <1>3
<1>5. \A i \in DOMAIN es : es[i] \in Event
  BY <1>4, EventTypes DEF DataOK
<1>6. es \in [1..Cardinality(open) -> Event]
  BY <1>3, <1>5
<1> QED
  BY <1>1, <1>3, <1>4, <1>6

LEMMA DataInit == UiInit => DataOK
BY FS_EmptySet DEF UiInit, DataOK

LEMMA DaemonTypes ==
    ASSUME DataOK,
           \/ \E id \in Sessions : \/ CreateSession(id) \/ UpdateSession(id)
                                   \/ \E result \in Results : CloseSession(id, result)
           \/ RivalArrives \/ RivalLeaves \/ DaemonReplays \/ DaemonSeesHangup
           \/ Maintenance \/ CooldownEnds \/ BackoffEnds
    PROVE  DataOK'
<1> USE DEF uiVars, daemonVars, channelVars, windowVars
<1>1. ASSUME NEW id \in Sessions, CreateSession(id)
      PROVE  DataOK'
  <2>1. IsFiniteSet(open')
    BY <1>1, FS_AddElement DEF DataOK, CreateSession
  <2>2. events' \in Seq(Event)
    BY <1>1, EventTypes DEF DataOK, CreateSession, EmitSession, Emit
  <2> QED
    BY <1>1, <2>1, <2>2, LaunchTypes DEF DataOK, CreateSession
<1>2. ASSUME NEW id \in Sessions, UpdateSession(id)
      PROVE  DataOK'
  <2>1. events' \in Seq(Event)
    BY <1>2, EventTypes DEF DataOK, UpdateSession, EmitSession, Emit
  <2> QED
    BY <1>2, <2>1 DEF DataOK, UpdateSession
<1>3. ASSUME NEW id \in Sessions, NEW result \in Results, CloseSession(id, result)
      PROVE  DataOK'
  <2>1. IsFiniteSet(open')
    BY <1>3, FS_RemoveElement DEF DataOK, CloseSession
  <2>2. events' \in Seq(Event)
    BY <1>3, EventTypes DEF DataOK, CloseSession, EmitSession, Emit
  <2> QED
    BY <1>3, <2>1, <2>2 DEF DataOK, CloseSession
<1>4. CASE RivalArrives
  <2>1. events' \in Seq(Event)
    BY <1>4, EventTypes DEF DataOK, RivalArrives, Emit
  <2> QED
    BY <1>4, <2>1 DEF DataOK, RivalArrives
<1>5. CASE RivalLeaves
  <2>1. events' \in Seq(Event)
    BY <1>5, EventTypes DEF DataOK, RivalLeaves, Emit
  <2> QED
    BY <1>5, <2>1, LaunchTypes DEF DataOK, RivalLeaves
<1>6. CASE DaemonReplays
  <2>1. PICK order \in SetToSeqs(open) :
            EmitSession([i \in DOMAIN order |-> [type |-> "created", id |-> order[i]]])
    BY <1>6 DEF DaemonReplays
  <2>2. events' \in Seq(Event)
    BY <2>1, ReplayFacts DEF EmitSession, Emit, DataOK
  <2>3. subscribes' \in Nat
    BY <1>6 DEF DataOK, DaemonReplays
  <2> QED
    BY <1>6, <2>2, <2>3 DEF DataOK, DaemonReplays
<1>7. CASE DaemonSeesHangup
  BY <1>7, LaunchTypes DEF DataOK, DaemonSeesHangup
<1>8. CASE Maintenance
  BY <1>8, LaunchTypes DEF DataOK, Maintenance
<1>9. CASE CooldownEnds \/ BackoffEnds
  BY <1>9 DEF DataOK, CooldownEnds, BackoffEnds
<1> QED
  BY <1>1, <1>2, <1>3, <1>4, <1>5, <1>6, <1>7, <1>8, <1>9

\* What a message does to the window, where the client heeds it.
Shows(e) ==
    \/ e.type = "created" /\ ReadCreated(e.id)
    \/ e.type = "updated" /\ ReadUpdated(e.id)
    \/ e.type = "closed" /\ ReadClosed(e.id, e.result)

LEMMA ReadEventCases ==
    ASSUME DataOK, ReadEvent
    PROVE  /\ events # <<>> /\ events' = Tail(events) /\ Head(events) \in Event
           /\ UNCHANGED <<daemonVars, conn, running>>
           /\ \/ Head(events).type \in {"active", "inactive"}
                 /\ ReadProviderState(Head(events).type = "active")
              \/ /\ Head(events).type \in {"created", "updated", "closed"}
                 /\ Head(events).id \in Sessions
                 /\ UNCHANGED <<subscribes, believes>>
                 /\ IF believes THEN Shows(Head(events)) ELSE UNCHANGED windowVars
<1>1. Head(events) \in Event
  BY DEF DataOK, ReadEvent
<1>2. Head(events).type \notin {"active", "inactive"} =>
          Head(events).type \in {"created", "updated", "closed"} /\ Head(events).id \in Sessions
  BY <1>1 DEF Event
<1> QED
  BY <1>1, <1>2 DEF ReadEvent, Shows

LEMMA WindowTypes ==
    ASSUME DataOK,
           \/ Start \/ StartMeetsProbe \/ Connect \/ Crash \/ DaemonRestarts
           \/ ReadEvent \/ SuccessTimer \/ IdleExit \/ ActionTimeout
           \/ Submit \/ HandleCancelRequest \/ CloseWindow
           \/ \E id \in Sessions : FailTimer(id)
    PROVE  DataOK'
<1> USE DEF uiVars, daemonVars, channelVars, windowVars
<1>1. CASE Start \/ StartMeetsProbe
  BY <1>1 DEF DataOK, Start, StartMeetsProbe, NewWindow
<1>2. CASE Connect
  <2>1. events' \in Seq(Event)
    BY <1>2, EventTypes DEF DataOK, Connect
  <2> QED
    BY <1>2, <2>1 DEF DataOK, Connect
<1>3. CASE Crash \/ IdleExit \/ CloseWindow
  <2>1. Exit
    BY <1>3 DEF Crash, IdleExit, CloseWindow
  <2>2. conn' \in {"none", "live", "dead"} /\ events' \in Seq(Event)
    BY <2>1 DEF DataOK, Exit
  <2> QED
    BY <2>1, <2>2 DEF DataOK, Exit, NewWindow
<1>4. CASE DaemonRestarts
  <2>1. IsFiniteSet(open')
    BY <1>4, FS_EmptySet DEF DaemonRestarts
  <2> QED
    BY <1>4, <2>1 DEF DataOK, DaemonRestarts
<1>5. CASE ReadEvent
  <2>1. Tail(events) \in Seq(Event)
    BY <1>5 DEF DataOK, ReadEvent
  <2>2. UNCHANGED <<daemonVars, conn, running>> /\ events' \in Seq(Event)
    BY <1>5, <2>1, ReadEventCases
  <2>3. CASE ReadProviderState(Head(events).type = "active")
    <3>2. subscribes' \in Nat
      BY <2>3 DEF ReadProviderState, DataOK
    <3>3. /\ current' \in Sessions \cup {None}
          /\ action' \in {"none", "submit", "cancel"}
      BY <2>3 DEF ReadProviderState, DataOK, ClearSession
    <3> QED
      BY <2>2, <2>3, <3>2, <3>3 DEF DataOK, ReadProviderState
  <2>4. CASE /\ Head(events).id \in Sessions /\ UNCHANGED <<subscribes, believes>>
             /\ IF believes THEN Shows(Head(events)) ELSE UNCHANGED windowVars
    BY <2>2, <2>4 DEF DataOK, Shows, ReadCreated, ReadUpdated, ReadClosed, Dismiss, ClearSession
  <2> QED
    BY <1>5, <2>3, <2>4, ReadEventCases
<1>6. CASE SuccessTimer \/ \E id \in Sessions : FailTimer(id)
  BY <1>6 DEF DataOK, SuccessTimer, FailTimer, Dismiss, ClearSession
<1>7. CASE Submit \/ HandleCancelRequest \/ ActionTimeout
  BY <1>7 DEF DataOK, Submit, HandleCancelRequest, ActionTimeout, Dismiss, ClearSession
<1> QED
  BY <1>1, <1>2, <1>3, <1>4, <1>5, <1>6, <1>7

LEMMA FlagsNext ==
    ASSUME FlagsOK, UiNext
    PROVE  FlagsOK'
<1> USE DEF uiVars, daemonVars, channelVars, windowVars
<1>0. EnsureFallbackUiRunning => cooldown' \in BOOLEAN /\ backoff' \in BOOLEAN
  BY DEF FlagsOK, EnsureFallbackUiRunning, TryLaunch
<1>1. CASE \E id \in Sessions : \/ CreateSession(id) \/ UpdateSession(id)
                                \/ \E result \in Results : CloseSession(id, result)
  BY <1>0, <1>1 DEF FlagsOK, CreateSession, UpdateSession, CloseSession
<1>2. CASE \/ RivalArrives \/ RivalLeaves \/ DaemonReplays \/ DaemonSeesHangup
           \/ Maintenance \/ CooldownEnds \/ BackoffEnds
  BY <1>0, <1>2
     DEF FlagsOK, RivalArrives, RivalLeaves, DaemonReplays, DaemonSeesHangup, Maintenance,
         CooldownEnds, BackoffEnds
<1>3. CASE Start \/ StartMeetsProbe
  BY <1>3 DEF FlagsOK, Start, StartMeetsProbe, NewWindow
<1>4. CASE Connect \/ Crash \/ IdleExit \/ CloseWindow
  BY <1>4 DEF FlagsOK, Connect, Crash, IdleExit, CloseWindow, Exit, NewWindow
<1>5. CASE DaemonRestarts
  BY <1>5 DEF FlagsOK, DaemonRestarts
<1>6. CASE ReadEvent
  <2>1. CASE ReadProviderState(Head(events).type = "active")
    BY <1>6, <2>1 DEF FlagsOK, ReadEvent, ReadProviderState, ClearSession
  <2>2. CASE /\ UNCHANGED believes
             /\ IF believes THEN Shows(Head(events)) ELSE UNCHANGED windowVars
    BY <1>6, <2>2
       DEF FlagsOK, ReadEvent, Shows, ReadCreated, ReadUpdated, ReadClosed, Dismiss, ClearSession
  <2> QED
    BY <1>6, <2>1, <2>2 DEF ReadEvent, Shows
<1>7. CASE \/ SuccessTimer \/ ActionTimeout \/ Submit \/ HandleCancelRequest
           \/ \E id \in Sessions : FailTimer(id)
  BY <1>7 DEF FlagsOK, SuccessTimer, FailTimer, ActionTimeout, Submit, HandleCancelRequest,
              Dismiss, ClearSession
<1> QED
  BY <1>1, <1>2, <1>3, <1>4, <1>5, <1>6, <1>7 DEF UiNext

LEMMA UiTypeInit == UiInit => UiTypeOK
<1>1. UiInit => FlagsOK
  BY Zenon DEF UiInit, FlagsOK
<1> QED
  BY <1>1, DataInit DEF UiTypeOK

LEMMA DataNext == DataOK /\ [UiNext]_uiVars => DataOK'
<1> SUFFICES ASSUME DataOK, [UiNext]_uiVars
             PROVE  DataOK'
  OBVIOUS
<1>1. CASE UNCHANGED uiVars
  BY <1>1 DEF DataOK, uiVars, daemonVars, channelVars, windowVars
<1> QED
  BY <1>1, DaemonTypes, WindowTypes DEF UiNext

LEMMA UiTypeNext == UiTypeOK /\ [UiNext]_uiVars => UiTypeOK'
<1>1. FlagsOK /\ UNCHANGED uiVars => FlagsOK'
  BY DEF FlagsOK, uiVars, daemonVars, channelVars, windowVars
<1> QED
  BY <1>1, FlagsNext, DataNext DEF UiTypeOK

-----------------------------------------------------------------------------
(* The daemon sends.                                                       *)

\* What every step of the daemon on a connection comes to: it appends messages,
\* and those do not make the client active, or show it a session, which is then
\* not so.
Appends(es) ==
    /\ events' = IF conn = "live" THEN events \o es ELSE events
    /\ UNCHANGED <<conn, running, believes, windowVars>>
    /\ rival' => /\ \A i \in DOMAIN es : es[i].type \notin {"active", "created"}
                 /\ rival \/ \E i \in DOMAIN es : es[i].type = "inactive"
    /\ \A id \in open \ open' :
           rival \/ \E i \in DOMAIN es : es[i].type = "closed" /\ es[i].id = id
    /\ \A i \in DOMAIN es : es[i].type = "created" => es[i].id \in open'
    /\ IF conn = "live" THEN subscribes' \in Nat ELSE subscribes' = subscribes
    /\ open' # {} =>
           \/ open # {} /\ subscribes' = subscribes
           \/ rival
           \/ \E i \in DOMAIN es : es[i].type = "created"

\* A message under way is an old one or a new one.
LEMMA OldOrNew ==
    ASSUME NEW evs \in Seq(Event), NEW es \in Seq(Event), NEW i \in DOMAIN (evs \o es)
    PROVE  \/ i \in DOMAIN evs /\ (evs \o es)[i] = evs[i]
           \/ \E k \in DOMAIN es : (evs \o es)[i] = es[k]
<1>1. CASE i \in DOMAIN evs
  BY <1>1
<1>2. CASE i \notin DOMAIN evs
  <2>1. i - Len(evs) \in DOMAIN es /\ (evs \o es)[i] = es[i - Len(evs)]
    BY <1>2
  <2> QED
    BY <2>1
<1> QED
  BY <1>1, <1>2

LEMMA AppendingKeeps ==
    ASSUME UiInv, NEW es \in Seq(Event), Appends(es)
    PROVE  (ConnectionInv /\ RivalInv /\ ShownInv /\ HiddenInv)'
<1>1. CASE conn # "live"
  <2>1. /\ ~believes /\ current = None /\ events = <<>> /\ events' = <<>>
        /\ UNCHANGED <<conn, running, believes, current, idle, subscribes>>
    BY <1>1 DEF UiInv, ConnectionInv, Appends, windowVars
  <2>2. ConnectionInv' /\ RivalInv' /\ ShownInv'
    BY <1>1, <2>1 DEF UiInv, ConnectionInv, RivalInv, ShownInv
  <2>3. HiddenInv'
    BY <2>1 DEF UiInv, HiddenInv
  <2> QED
    BY <2>2, <2>3
<1>2. CASE conn = "live"
  <2>1. /\ events \in Seq(Event) /\ events' = events \o es
        /\ UNCHANGED <<conn, running, believes, current, successTimers, failTimers, idle>>
        /\ subscribes' \in Nat
    BY <1>2 DEF UiInv, UiTypeOK, DataOK, Appends, windowVars
  <2>2. 0 \in Nat /\ DOMAIN events \subseteq Nat /\ \A i \in DOMAIN events : i <= Len(events)
    BY <2>1
  <2>3. /\ Silenced(events, 0) => Silenced(events', 0)
        /\ \A id : Ended(events, 0, id) => Ended(events', 0, id)
        /\ \A i \in DOMAIN events : Silenced(events, i) => Silenced(events', i)
        /\ \A id : \A i \in DOMAIN events : Ended(events, i, id) => Ended(events', i, id)
    BY <2>1, <2>2, AppendKeeps
  <2>4. /\ \A k \in DOMAIN es : es[k].type = "inactive" =>
               Silenced(events', 0) /\ \A i \in DOMAIN events : Silenced(events', i)
        /\ \A k \in DOMAIN es : es[k].type = "closed" =>
               /\ Ended(events', 0, es[k].id)
               /\ \A i \in DOMAIN events : Ended(events', i, es[k].id)
    <3>1. 0 <= Len(events)
      BY <2>1
    <3> QED
      BY <2>1, <2>2, <3>1, AppendAdds
  <2>5. \A i \in DOMAIN events' : \/ i \in DOMAIN events /\ events'[i] = events[i]
                                  \/ \E k \in DOMAIN es : events'[i] = es[k]
    BY <2>1, OldOrNew
  <2>6. ConnectionInv'
    BY <1>2, <2>1 DEF UiInv, ConnectionInv
  <2>7. RivalInv'
    <3> SUFFICES ASSUME rival'
                 PROVE  /\ believes' => Silenced(events', 0)
                        /\ \A i \in DOMAIN events' :
                               events'[i].type \in {"active", "created"} => Silenced(events', i)
      BY DEF RivalInv
    <3>1. \A k \in DOMAIN es : es[k].type \notin {"active", "created"}
      BY DEF Appends
    <3>2. rival \/ \E k \in DOMAIN es : es[k].type = "inactive"
      BY DEF Appends
    <3>3. CASE rival
      BY <2>1, <2>3, <2>5, <3>1, <3>3 DEF UiInv, RivalInv
    <3>4. CASE \E k \in DOMAIN es : es[k].type = "inactive"
      BY <2>4, <2>5, <3>1, <3>4
    <3> QED
      BY <3>2, <3>3, <3>4
  <2>8. ShownInv'
    <3>1. ASSUME current # None
          PROVE  \/ current \in open' \/ successTimers > 0 \/ current \in failTimers
                 \/ Ended(events', 0, current) \/ Silenced(events', 0)
      <4>1. current \in open \ open' =>
                \/ Silenced(events, 0)
                \/ \E k \in DOMAIN es : es[k].type = "closed" /\ es[k].id = current
        BY <3>1 DEF Appends, UiInv, ConnectionInv, RivalInv
      <4> QED
        BY <2>3, <2>4, <3>1, <4>1 DEF UiInv, ShownInv
    <3>2. ASSUME NEW i \in DOMAIN events, events[i].type = "created"
          PROVE  \/ events[i].id \in open'
                 \/ Ended(events', i, events[i].id) \/ Silenced(events', i)
      <4>1. events[i].id \in open \ open' =>
                \/ Silenced(events, i)
                \/ \E k \in DOMAIN es : es[k].type = "closed" /\ es[k].id = events[i].id
        BY <3>2 DEF Appends, UiInv, RivalInv
      <4> QED
        BY <2>3, <2>4, <3>2, <4>1 DEF UiInv, ShownInv
    <3>3. \A k \in DOMAIN es : es[k].type = "created" => es[k].id \in open'
      BY DEF Appends
    <3> QED
      BY <2>1, <2>5, <3>1, <3>2, <3>3 DEF ShownInv
  <2>9. HiddenInv'
    <3>1. idle' => current' = None
      BY <2>1 DEF UiInv, HiddenInv
    <3>2. ASSUME believes, current = None, open' # {}, ~idle
          PROVE  \/ subscribes' > 0
                 \/ \E i \in DOMAIN events' : events'[i].type = "created"
                 \/ Silenced(events', 0)
      <4>1. CASE open # {} /\ subscribes' = subscribes
        <5>1. \A i \in DOMAIN events : i \in DOMAIN events' /\ events'[i] = events[i]
          BY <2>1
        <5> QED
          BY <2>3, <3>2, <4>1, <5>1 DEF UiInv, HiddenInv
      <4>2. CASE rival
        BY <2>3, <3>2, <4>2 DEF UiInv, RivalInv
      <4>3. CASE \E k \in DOMAIN es : es[k].type = "created"
        <5>1. PICK k \in DOMAIN es : es[k].type = "created"
          BY <4>3
        <5>2. k + Len(events) \in DOMAIN events' /\ events'[k + Len(events)] = es[k]
          BY <2>1, <5>1
        <5> QED
          BY <5>1, <5>2
      <4> QED
        BY <3>2, <4>1, <4>2, <4>3 DEF Appends
    <3> QED
      BY <2>1, <3>1, <3>2 DEF HiddenInv
  <2> QED
    BY <2>6, <2>7, <2>8, <2>9
<1> QED
  BY <1>1, <1>2

LEMMA DaemonAppends ==
    ASSUME UiTypeOK,
           \/ \E id \in Sessions : \/ CreateSession(id) \/ UpdateSession(id)
                                   \/ \E result \in Results : CloseSession(id, result)
           \/ RivalArrives \/ RivalLeaves \/ DaemonReplays
    PROVE  \E es \in Seq(Event) : Appends(es)
<1> USE DEF daemonVars, channelVars
<1>0. /\ <<>> \in Seq(Event) /\ DOMAIN <<>> = {}
      /\ \A e \in Event : /\ <<e>> \in Seq(Event) /\ DOMAIN <<e>> = {1}
                          /\ <<e>>[1] = e
  OBVIOUS
<1>1. ASSUME NEW id \in Sessions, CreateSession(id)
      PROVE  \E es \in Seq(Event) : Appends(es)
  <2> DEFINE e == [type |-> "created", id |-> id]
             es == IF rival THEN <<>> ELSE <<e>>
  <2>1. e \in Event /\ e.type = "created" /\ e.id = id
    BY EventTypes
  <2>2. es \in Seq(Event)
    BY <1>0, <2>1
  <2>3. Appends(es)
    BY <1>0, <1>1, <2>1 DEF CreateSession, EmitSession, Emit, Appends, UiTypeOK, DataOK
  <2> QED
    BY <2>2, <2>3
<1>2. ASSUME NEW id \in Sessions, UpdateSession(id)
      PROVE  \E es \in Seq(Event) : Appends(es)
  <2> DEFINE e == [type |-> "updated", id |-> id]
             es == IF rival THEN <<>> ELSE <<e>>
  <2>1. e \in Event /\ e.type = "updated"
    BY EventTypes
  <2>2. es \in Seq(Event)
    BY <1>0, <2>1
  <2>3. Appends(es)
    BY <1>0, <1>2, <2>1 DEF UpdateSession, EmitSession, Emit, Appends, UiTypeOK, DataOK
  <2> QED
    BY <2>2, <2>3
<1>3. ASSUME NEW id \in Sessions, NEW result \in Results, CloseSession(id, result)
      PROVE  \E es \in Seq(Event) : Appends(es)
  <2> DEFINE e == [type |-> "closed", id |-> id, result |-> result]
             es == IF rival THEN <<>> ELSE <<e>>
  <2>1. e \in Event /\ e.type = "closed" /\ e.id = id
    BY EventTypes
  <2>2. es \in Seq(Event)
    BY <1>0, <2>1
  <2>3. Appends(es)
    BY <1>0, <1>3, <2>1 DEF CloseSession, EmitSession, Emit, Appends, UiTypeOK, DataOK
  <2> QED
    BY <2>2, <2>3
<1>4. ASSUME RivalArrives \/ RivalLeaves
      PROVE  \E es \in Seq(Event) : Appends(es)
  <2> DEFINE e == [type |-> IF rival THEN "active" ELSE "inactive"]
  <2>1. e \in Event /\ e.type = IF rival THEN "active" ELSE "inactive"
    BY EventTypes
  <2>2. <<e>> \in Seq(Event)
    BY <1>0, <2>1
  <2>3. Appends(<<e>>)
    BY <1>0, <1>4, <2>1 DEF RivalArrives, RivalLeaves, Emit, Appends, UiTypeOK, DataOK
  <2> QED
    BY <2>2, <2>3
<1>5. ASSUME DaemonReplays
      PROVE  \E es \in Seq(Event) : Appends(es)
  <2>1. PICK order \in SetToSeqs(open) :
            EmitSession([i \in DOMAIN order |-> [type |-> "created", id |-> order[i]]])
    BY <1>5 DEF DaemonReplays
  <2> DEFINE created == [i \in DOMAIN order |-> [type |-> "created", id |-> order[i]]]
             es == IF rival THEN <<>> ELSE created
  <2>2. /\ created \in Seq(Event)
        /\ \A i \in DOMAIN created : created[i].type = "created" /\ created[i].id \in open
        /\ open # {} => 1 \in DOMAIN created
    BY ReplayFacts DEF UiTypeOK
  <2>3. es \in Seq(Event)
    BY <1>0, <2>2
  <2> HIDE DEF created
  <2>4. events' = IF conn = "live" THEN events \o es ELSE events
    BY <2>1 DEF EmitSession, Emit, created
  <2>5. Appends(es)
    BY <1>0, <1>5, <2>2, <2>4 DEF DaemonReplays, Appends, UiTypeOK, DataOK
  <2> QED
    BY <2>3, <2>5
<1> QED
  BY <1>1, <1>2, <1>3, <1>4, <1>5

\* The steps of the daemon that send nothing.
LEMMA SilentStepsKeep ==
    ASSUME UiInv,
           \/ DaemonSeesHangup \/ Maintenance \/ CooldownEnds \/ BackoffEnds
           \/ StartMeetsProbe
    PROVE  (ConnectionInv /\ RivalInv /\ ShownInv /\ HiddenInv)'
<1>1. /\ UNCHANGED <<open, rival, subscribes, events, running, believes, windowVars>>
      /\ conn' = conn \/ (conn # "live" /\ conn' # "live")
  <2>1. CASE DaemonSeesHangup
    BY <2>1 DEF DaemonSeesHangup
  <2>2. CASE Maintenance \/ CooldownEnds \/ BackoffEnds \/ StartMeetsProbe
    BY <2>2 DEF Maintenance, CooldownEnds, BackoffEnds, StartMeetsProbe, channelVars
  <2> QED
    BY <2>1, <2>2
<1>2. ConnectionInv'
  BY <1>1 DEF UiInv, ConnectionInv, windowVars
<1>3. RivalInv' /\ ShownInv' /\ HiddenInv'
  BY <1>1 DEF UiInv, RivalInv, ShownInv, HiddenInv, windowVars
<1> QED
  BY <1>2, <1>3

-----------------------------------------------------------------------------
(* The process and its window.                                             *)

\* Whatever ends a process or its connection leaves nothing to explain.
LEMMA FreshStartKeeps ==
    ASSUME UiInv,
           Start \/ Connect \/ Exit \/ DaemonRestarts
    PROVE  (ConnectionInv /\ RivalInv /\ ShownInv /\ HiddenInv)'
<1> USE DEF daemonVars, channelVars
<1>1. CASE Start
  <2>1. CASE running
    BY <1>1, <2>1 DEF Start, UiInv, ConnectionInv, RivalInv, ShownInv, HiddenInv, windowVars
  <2>2. CASE ~running
    <3>1. ~believes /\ conn # "live" /\ events = <<>> /\ subscribes = 0
      BY <2>2 DEF UiInv, ConnectionInv
    <3>2. /\ ~believes' /\ current' = None /\ ~idle' /\ running'
          /\ UNCHANGED <<conn, events, subscribes, rival, open>>
      BY <1>1, <2>2 DEF Start, NewWindow
    <3> QED
      BY <3>1, <3>2 DEF ConnectionInv, RivalInv, ShownInv, HiddenInv
  <2> QED
    BY <2>1, <2>2
<1>2. CASE Connect
  <2>1. ~believes /\ current = None /\ running
    BY <1>2 DEF Connect, UiInv, ConnectionInv
  <2>2. /\ conn' = "live" /\ UNCHANGED <<believes, running, current, idle, rival, open>>
        /\ events' = <<[type |-> IF rival THEN "inactive" ELSE "active"]>>
    BY <1>2 DEF Connect, windowVars
  <2>3. /\ rival' => \A i \in DOMAIN events' : events'[i].type = "inactive"
        /\ \A i \in DOMAIN events' : events'[i].type # "created"
    BY <2>2
  <2> QED
    BY <1>2, <2>1, <2>2, <2>3 DEF UiInv, ConnectionInv, RivalInv, ShownInv, HiddenInv
<1>3. CASE Exit \/ DaemonRestarts
  <2>1. ~believes' /\ current' = None /\ events' = <<>> /\ subscribes' = 0
    BY <1>3 DEF Exit, NewWindow, DaemonRestarts
  <2>2. conn' # "live"
    BY <1>3 DEF Exit, DaemonRestarts, UiInv, UiTypeOK, DataOK
  <2> QED
    BY <2>1, <2>2 DEF ConnectionInv, RivalInv, ShownInv, HiddenInv
<1> QED
  BY <1>1, <1>2, <1>3

\* Timers and the user hide the prompt together with the start of the exit timer,
\* or change nothing that matters here.
LEMMA WindowKeeps ==
    ASSUME UiInv,
           \/ SuccessTimer \/ Submit \/ HandleCancelRequest \/ ActionTimeout
           \/ \E id \in Sessions : FailTimer(id)
    PROVE  (ConnectionInv /\ RivalInv /\ ShownInv /\ HiddenInv)'
<1>1. UNCHANGED <<open, rival, conn, subscribes, events, running, believes>>
  BY DEF SuccessTimer, Submit, HandleCancelRequest, ActionTimeout, FailTimer, daemonVars,
         channelVars
<1>2. \/ current' = None /\ idle'
      \/ /\ UNCHANGED <<current, idle, successTimers>>
         /\ current \in failTimers => current \in failTimers'
  BY DEF SuccessTimer, Submit, HandleCancelRequest, ActionTimeout, FailTimer, Dismiss, ClearSession
<1>3. ConnectionInv' /\ RivalInv'
  BY <1>1, <1>2 DEF UiInv, ConnectionInv, RivalInv
<1>4. ShownInv' /\ HiddenInv'
  BY <1>1, <1>2 DEF UiInv, ShownInv, HiddenInv
<1> QED
  BY <1>3, <1>4

\* The message that is read was accounted for by those behind it.
LEMMA ReadingFacts ==
    ASSUME UiInv, ReadEvent
    PROVE  /\ events' \in Seq(Event)
           /\ \A i \in DOMAIN events' : i + 1 \in DOMAIN events /\ events'[i] = events[i + 1]
           /\ \A i \in DOMAIN events' : Silenced(events, i + 1) => Silenced(events', i)
           /\ \A id : \A i \in DOMAIN events' : Ended(events, i + 1, id) => Ended(events', i, id)
           /\ Silenced(events, 1) => Silenced(events', 0)
           /\ \A id : Ended(events, 1, id) => Ended(events', 0, id)
           /\ Silenced(events, 0) => Head(events).type = "inactive" \/ Silenced(events', 0)
           /\ \A id : Ended(events, 0, id) =>
                  (Head(events).type = "closed" /\ Head(events).id = id) \/ Ended(events', 0, id)
           /\ 1 \in DOMAIN events /\ Head(events) = events[1]
           /\ \A i \in DOMAIN events : i # 1 => i - 1 \in DOMAIN events' /\ events'[i - 1] = events[i]
<1>1. events \in Seq(Event) /\ events # <<>> /\ events' = Tail(events)
  BY DEF UiInv, UiTypeOK, DataOK, ReadEvent
<1>2. events' \in Seq(Event) /\ DOMAIN events' \subseteq Nat /\ 0 \in Nat /\ 0 + 1 = 1
  BY <1>1
<1>3. /\ \A i \in DOMAIN events' : i + 1 \in DOMAIN events /\ events'[i] = events[i + 1]
      /\ \A i \in DOMAIN events : i # 1 => i - 1 \in DOMAIN events' /\ events'[i - 1] = events[i]
      /\ 1 \in DOMAIN events /\ Head(events) = events[1]
  <2>1. /\ DOMAIN events = 1..Len(events) /\ Len(events) \in Nat \ {0}
        /\ DOMAIN events' = 1..(Len(events) - 1)
        /\ \A i \in DOMAIN events' : events'[i] = events[i + 1]
    BY <1>1
  <2>2. 1 \in DOMAIN events /\ Head(events) = events[1]
    BY <1>1, <2>1
  <2>3. \A i \in DOMAIN events : i # 1 => i - 1 \in DOMAIN events' /\ events'[i - 1] = events[i]
    <3> SUFFICES ASSUME NEW i \in DOMAIN events, i # 1
                 PROVE  i - 1 \in DOMAIN events' /\ events'[i - 1] = events[i]
      OBVIOUS
    <3>1. i - 1 \in DOMAIN events' /\ (i - 1) + 1 = i
      BY <2>1
    <3> QED
      BY <2>1, <3>1
  <2> QED
    BY <2>1, <2>2, <2>3
<1>4. /\ \A i \in DOMAIN events' : Silenced(events, i + 1) => Silenced(events', i)
      /\ \A id : \A i \in DOMAIN events' : Ended(events, i + 1, id) => Ended(events', i, id)
      /\ Silenced(events, 1) => Silenced(events', 0)
      /\ \A id : Ended(events, 1, id) => Ended(events', 0, id)
  BY <1>1, <1>2, TailKeeps
<1>5. /\ Silenced(events, 0) => Head(events).type = "inactive" \/ Silenced(events', 0)
      /\ \A id : Ended(events, 0, id) =>
             (Head(events).type = "closed" /\ Head(events).id = id) \/ Ended(events', 0, id)
  BY <1>1, HeadOrTail
<1> QED
  BY <1>2, <1>3, <1>4, <1>5

\* What is still under way after the first message is explained as before.
LEMMA RestKeeps ==
    ASSUME UiInv, ReadEvent
    PROVE  /\ rival => \A i \in DOMAIN events' :
                  events'[i].type \in {"active", "created"} => Silenced(events', i)
           /\ \A i \in DOMAIN events' : events'[i].type = "created" =>
                  \/ events'[i].id \in open
                  \/ Ended(events', i, events'[i].id) \/ Silenced(events', i)
           /\ rival /\ Head(events).type \in {"active", "created"} => Silenced(events', 0)
           /\ Head(events).type = "created" =>
                  \/ Head(events).id \in open
                  \/ Ended(events', 0, Head(events).id) \/ Silenced(events', 0)
BY ReadingFacts DEF UiInv, RivalInv, ShownInv

LEMMA ReadEventKeeps ==
    ASSUME UiInv, ReadEvent
    PROVE  (ConnectionInv /\ RivalInv /\ ShownInv /\ HiddenInv)'
<1> DEFINE e == Head(events)
<1>1. UNCHANGED <<open, rival, conn, running>> /\ events # <<>> /\ conn = "live" /\ running
  BY DEF ReadEvent, daemonVars, UiInv, ConnectionInv
<1>2. CASE e.type = "active" /\ ReadProviderState(TRUE)
  <2>1. /\ believes' /\ UNCHANGED <<current, idle, successTimers, failTimers>>
        /\ IF believes THEN UNCHANGED subscribes ELSE subscribes' = subscribes + 1
    BY <1>2 DEF ReadProviderState, windowVars, UiInv, UiTypeOK, FlagsOK
  <2>2. ConnectionInv'
    BY <1>1, <2>1 DEF ConnectionInv
  <2>3. RivalInv'
    BY <1>1, <1>2, RestKeeps DEF RivalInv
  <2>4. ShownInv'
    BY <1>1, <1>2, <2>1, ReadingFacts, RestKeeps DEF ShownInv, UiInv
  <2>5. HiddenInv'
    <3>1. CASE ~believes
      BY <2>1, <3>1 DEF HiddenInv, UiInv, UiTypeOK, DataOK
    <3>2. CASE believes
      <4>1. \A i \in DOMAIN events : events[i].type = "created" =>
                \E k \in DOMAIN events' : events'[k].type = "created"
        BY <1>2, ReadingFacts
      <4> QED
        BY <1>1, <1>2, <2>1, <3>2, <4>1, ReadingFacts DEF HiddenInv, UiInv
    <3> QED
      BY <3>1, <3>2
  <2> QED
    BY <2>2, <2>3, <2>4, <2>5
<1>3. CASE e.type = "inactive" /\ ReadProviderState(FALSE)
  <2>1. ~believes' /\ current' = None /\ (idle' \/ UNCHANGED idle)
    <3>1. CASE ~believes
      BY <1>3, <3>1 DEF ReadProviderState, windowVars, UiInv, UiTypeOK, FlagsOK, ConnectionInv
    <3>2. CASE believes
      BY <1>3, <3>2 DEF ReadProviderState, ClearSession, UiInv, UiTypeOK, FlagsOK
    <3> QED
      BY <3>1, <3>2
  <2> QED
    BY <1>1, <2>1, RestKeeps DEF ConnectionInv, RivalInv, ShownInv, HiddenInv
<1>4. CASE ~believes /\ UNCHANGED <<subscribes, believes, windowVars>>
  <2>1. ~believes' /\ current' = None
    BY <1>4 DEF windowVars, UiInv, ConnectionInv
  <2> QED
    BY <1>1, <2>1, RestKeeps DEF ConnectionInv, RivalInv, ShownInv, HiddenInv
<1>5. CASE /\ e.type \in {"created", "updated", "closed"} /\ e.id \in Sessions
           /\ UNCHANGED <<subscribes, believes>> /\ believes /\ Shows(e)
  <2>1. /\ e.id # None /\ e.type # "inactive"
        /\ e.type # "created" => \A i \in DOMAIN events : events[i].type = "created" =>
               \E k \in DOMAIN events' : events'[k].type = "created"
    BY <1>5, NoneAssumption, ReadingFacts
  <2>2. ConnectionInv'
    BY <1>1, <1>5 DEF ConnectionInv
  <2>3. RivalInv'
    BY <1>1, <1>5, <2>1, ReadingFacts, RestKeeps DEF RivalInv, UiInv
  <2>4. CASE e.type = "created" /\ ReadCreated(e.id)
    BY <1>1, <2>1, <2>2, <2>3, <2>4, RestKeeps DEF ReadCreated, ShownInv, HiddenInv
  <2>5. CASE /\ e.type \in {"updated", "closed"}
             /\ UNCHANGED <<current, successTimers, failTimers, idle>>
             /\ e.type = "closed" => e.id # current
    <3>1. ShownInv'
      BY <1>1, <2>1, <2>5, ReadingFacts, RestKeeps DEF ShownInv, UiInv
    <3>2. HiddenInv'
      BY <1>1, <1>5, <2>1, <2>5, ReadingFacts DEF HiddenInv, UiInv
    <3> QED
      BY <2>2, <2>3, <3>1, <3>2
  <2>6. CASE e.type = "closed" /\ e.id = current /\ ReadClosed(e.id, e.result)
    <3>1. \/ current' = None /\ idle'
          \/ successTimers' > 0 /\ current' = current /\ UNCHANGED idle
          \/ current \in failTimers' /\ current' = current /\ UNCHANGED idle
      BY <2>6 DEF ReadClosed, Dismiss, ClearSession, UiInv, UiTypeOK, DataOK
    <3>2. ShownInv'
      BY <1>1, <3>1, RestKeeps DEF ShownInv
    <3>3. HiddenInv'
      BY <2>1, <2>6, <3>1 DEF HiddenInv, UiInv
    <3> QED
      BY <2>2, <2>3, <3>2, <3>3
  <2> QED
    BY <1>5, <2>4, <2>5, <2>6 DEF Shows, ReadUpdated, ReadClosed, windowVars
<1> QED
  BY <1>2, <1>3, <1>4, <1>5, ReadEventCases DEF UiInv, UiTypeOK

-----------------------------------------------------------------------------
(* The theorems.                                                           *)

LEMMA UiInvInit == UiInit => UiInv
<1> SUFFICES ASSUME UiInit
             PROVE  UiInv
  OBVIOUS
<1>1. ~rival /\ conn # "live" /\ events = <<>> /\ subscribes = 0 /\ ~believes /\ current = None
      /\ ~idle
  BY DEF UiInit
<1> QED
  BY <1>1, UiTypeInit DEF UiInv, ConnectionInv, RivalInv, ShownInv, HiddenInv

LEMMA UiInvNext == UiInv /\ [UiNext]_uiVars => UiInv'
<1> SUFFICES ASSUME UiInv, [UiNext]_uiVars
             PROVE  UiInv'
  OBVIOUS
<1>1. UiTypeOK'
  BY UiTypeNext DEF UiInv
<1> SUFFICES (ConnectionInv /\ RivalInv /\ ShownInv /\ HiddenInv)'
  BY <1>1 DEF UiInv
<1>2. CASE UNCHANGED uiVars
  BY <1>2 DEF UiInv, ConnectionInv, RivalInv, ShownInv, HiddenInv, uiVars, daemonVars,
              channelVars, windowVars
<1>3. CASE \/ \E id \in Sessions : \/ CreateSession(id) \/ UpdateSession(id)
                                   \/ \E result \in Results : CloseSession(id, result)
           \/ RivalArrives \/ RivalLeaves \/ DaemonReplays
  <2>1. \E es \in Seq(Event) : Appends(es)
    BY <1>3, DaemonAppends DEF UiInv
  <2> QED
    BY <2>1, AppendingKeeps
<1>4. CASE \/ DaemonSeesHangup \/ Maintenance \/ CooldownEnds \/ BackoffEnds
           \/ StartMeetsProbe
  BY <1>4, SilentStepsKeep
<1>5. CASE Start \/ Connect \/ Crash \/ IdleExit \/ CloseWindow \/ DaemonRestarts
  BY <1>5, FreshStartKeeps DEF Crash, IdleExit, CloseWindow
<1>6. CASE ReadEvent
  BY <1>6, ReadEventKeeps
<1>7. CASE \/ SuccessTimer \/ Submit \/ HandleCancelRequest \/ ActionTimeout
           \/ \E id \in Sessions : FailTimer(id)
  BY <1>7, WindowKeeps
<1> QED
  BY <1>2, <1>3, <1>4, <1>5, <1>6, <1>7 DEF UiNext

LEMMA UiInvariance == UiSpec => []UiInv
BY UiInvInit, UiInvNext, PTL DEF UiSpec

\* The window of FallbackWindow.cpp is hidden when nothing entitles it to a prompt:
\* m_currentSessionId is only set by a client that is registered, active and
\* connected, in a process that holds the lock.
THEOREM PromptNeedsAnActiveClient ==
    UiSpec => [](current # None => believes /\ conn = "live" /\ running)
<1>1. UiInv => (current # None => believes /\ conn = "live" /\ running)
  BY DEF UiInv, ConnectionInv
<1> QED
  BY <1>1, UiInvariance, PTL

\* FallbackWindow's handlers of session.created, session.closed and
\* providerStateChanged, with its timers: whatever has overtaken what, a window that
\* has read everything shows no session the daemon has forgotten.
THEOREM NoGhostPrompt == UiSpec => []DisplayedIsOpen
<1>1. UiInv => DisplayedIsOpen
  BY DEF UiInv, ShownInv, Ended, Silenced, DisplayedIsOpen, Settled
<1> QED
  BY <1>1, UiInvariance, PTL

\* startIdleExitTimer is called wherever the window is cleared: an active client
\* that has read everything and shows nothing, although a session is open, is about
\* to exit, and no exit timer is left running under a prompt.
THEOREM HiddenPromptHeals == UiSpec => []HiddenHeals
<1>1. UiInv => HiddenHeals
  BY DEF UiInv, HiddenInv, Silenced, HiddenHeals, Settled
<1> QED
  BY <1>1, UiInvariance, PTL
-----------------------------------------------------------------------------
(* The candidate that is launched.                                         *)

\* Induction, over the numbers that form a set.
LEMMA LeastElement ==
    ASSUME NEW T, T \subseteq Nat, T # {}
    PROVE  \E x \in T : \A y \in T : x <= y
<1>1. PICK x \in T : \A y \in T : ~ (<<y, x>> \in OpToRel(<, Nat))
  BY NatLessThanWellFounded, WFMin
<1>2. \A y \in T : ~ (y < x)
  BY <1>1 DEF OpToRel
<1> QED
  BY <1>2

\* A set with 0 and the successors of its numbers has them all.
LEMMA InductionOnSet ==
    ASSUME NEW S, 0 \in S, \A n \in Nat : n \in S => n + 1 \in S
    PROVE  Nat \subseteq S
<1> SUFFICES ASSUME Nat \ S # {}
             PROVE  FALSE
  OBVIOUS
<1>1. PICK x \in Nat \ S : \A y \in Nat \ S : x <= y
  <2> DEFINE T == Nat \ S
  <2>1. T \subseteq Nat /\ T # {}
    OBVIOUS
  <2> HIDE DEF T
  <2>2. \E x \in T : \A y \in T : x <= y
    BY <2>1, LeastElement
  <2> QED
    BY <2>2 DEF T
<1>2. x # 0 /\ x - 1 \in Nat
  OBVIOUS
<1>3. x - 1 \in S
  BY <1>1, <1>2
<1> QED
  BY <1>2, <1>3

\* What discover has found when it has seen f files of the d-th directory, and all
\* files of those before: what counts so far, and the id of every valid file.
Seen(p, d, f) == p[1] < d \/ (p[1] = d /\ p[2] <= f)
FoundInv(dirs, d, f, found) ==
    /\ found = {ManifestOf(FileAt(dirs, p)) : p \in {q \in Effective(dirs) : Seen(q, d, f)}}
    /\ \A p \in Places(dirs) :
          Seen(p, d, f) => \E m \in found : m.id = FileAt(dirs, p).id

LEMMA PlaceFacts ==
    ASSUME NEW dirs \in Layouts
    PROVE  /\ \A p \in Places(dirs) :
                 /\ p = <<p[1], p[2]>> /\ p[1] \in Nat /\ p[2] \in Nat
                 /\ p[1] \in DOMAIN dirs /\ p[2] \in DOMAIN dirs[p[1]]
                 /\ IsManifest(FileAt(dirs, p))
           /\ \A d \in DOMAIN dirs : \A f \in DOMAIN dirs[d] :
                 IsManifest(dirs[d][f]) => <<d, f>> \in Places(dirs)
<1>1. /\ Len(dirs) \in Nat /\ DOMAIN dirs = 1..Len(dirs)
      /\ \A d \in DOMAIN dirs : Len(dirs[d]) \in Nat /\ DOMAIN dirs[d] = 1..Len(dirs[d])
  BY LayoutsAssumption
<1>2. ASSUME NEW p \in Places(dirs)
      PROVE  /\ p = <<p[1], p[2]>> /\ p[1] \in Nat /\ p[2] \in Nat
             /\ p[1] \in DOMAIN dirs /\ p[2] \in DOMAIN dirs[p[1]]
             /\ IsManifest(FileAt(dirs, p))
  <2>1. PICK d \in DOMAIN dirs : p \in {d} \X DOMAIN dirs[d]
    BY DEF Places
  <2>2. p = <<p[1], p[2]>> /\ p[1] = d /\ p[2] \in DOMAIN dirs[d]
    BY <2>1
  <2>3. d \in Nat /\ p[2] \in Nat
    BY <1>1, <2>2
  <2> QED
    BY <2>2, <2>3 DEF Places
<1>3. ASSUME NEW d \in DOMAIN dirs, NEW f \in DOMAIN dirs[d], IsManifest(dirs[d][f])
      PROVE  <<d, f>> \in Places(dirs)
  <2>1. <<d, f>> \in {d} \X DOMAIN dirs[d]
    OBVIOUS
  <2>2. FileAt(dirs, <<d, f>>) = dirs[d][f]
    BY DEF FileAt
  <2> QED
    BY <1>3, <2>1, <2>2 DEF Places
<1> QED
  BY <1>2, <1>3

\* One file more.
LEMMA FileKeepsFound ==
    ASSUME NEW dirs \in Layouts, NEW d \in DOMAIN dirs,
           NEW f \in Nat, f + 1 \in DOMAIN dirs[d],
           NEW found, FoundInv(dirs, d, f, found)
    PROVE  FoundInv(dirs, d, f + 1, AddManifest(found, dirs[d][f + 1]))
<1> DEFINE q == <<d, f + 1>>
           file == dirs[d][f + 1]
           E(n) == {p \in Effective(dirs) : Seen(p, d, n)}
           After == AddManifest(found, file)
<1>0. d \in Nat /\ FileAt(dirs, q) = file
  BY LayoutsAssumption DEF FileAt
<1>1. \A p \in Places(dirs) : Seen(p, d, f + 1) <=> Seen(p, d, f) \/ p = q
  BY <1>0, PlaceFacts DEF Seen
<1>2. \A p \in Places(dirs) : Seen(p, d, f) <=> Earlier(p, q)
  BY <1>0, PlaceFacts DEF Seen, Earlier
<1>3. Effective(dirs) \subseteq Places(dirs)
  BY DEF Effective
<1>4. /\ found = {ManifestOf(FileAt(dirs, p)) : p \in E(f)}
      /\ \A p \in Places(dirs) :
            Seen(p, d, f) => \E m \in found : m.id = FileAt(dirs, p).id
  BY DEF FoundInv
<1>5. \A p : ManifestOf(p).id = p.id
  BY DEF ManifestOf
<1>6. q \in Places(dirs) <=> IsManifest(file)
  BY <1>0, PlaceFacts
<1>7. CASE IsManifest(file) /\ \A m \in found : m.id # file.id
  <2>1. After = found \cup {ManifestOf(file)}
    BY <1>7 DEF AddManifest
  <2>2. q \in Effective(dirs)
    BY <1>0, <1>2, <1>4, <1>6, <1>7 DEF Effective
  <2>3. E(f + 1) = E(f) \cup {q}
    <3>1. Seen(q, d, f + 1)
      BY <1>0 DEF Seen
    <3> QED
      BY <1>1, <1>3, <2>2, <3>1
  <2> HIDE DEF E
  <2>4. {ManifestOf(FileAt(dirs, p)) : p \in E(f + 1)} = After
    BY <1>0, <1>4, <2>1, <2>3
  <2>5. ASSUME NEW p \in Places(dirs), Seen(p, d, f + 1)
        PROVE  \E m \in After : m.id = FileAt(dirs, p).id
    <3>1. CASE Seen(p, d, f)
      BY <1>4, <2>1, <3>1
    <3>2. CASE p = q
      BY <1>0, <1>5, <2>1, <3>2
    <3> QED
      BY <1>1, <2>5, <3>1, <3>2
  <2> QED
    BY <2>4, <2>5 DEF FoundInv, E
<1>8. CASE ~(IsManifest(file) /\ \A m \in found : m.id # file.id)
  <2>1. After = found
    BY <1>8 DEF AddManifest
  <2>2. q \in Places(dirs) => \E m \in found : m.id = file.id
    BY <1>6, <1>8
  <2>3. q \notin Effective(dirs)
    <3> SUFFICES ASSUME q \in Effective(dirs)
                 PROVE  FALSE
      OBVIOUS
    <3>1. PICK m \in found : m.id = file.id
      BY <1>3, <2>2
    <3>2. PICK p \in E(f) : m = ManifestOf(FileAt(dirs, p))
      BY <1>4
    <3>3. p \in Places(dirs) /\ Earlier(p, q) /\ FileAt(dirs, p).id = FileAt(dirs, q).id
      BY <1>0, <1>2, <1>3, <1>5, <3>1, <3>2
    <3> QED
      BY <3>3 DEF Effective
  <2>4. E(f + 1) = E(f)
    BY <1>1, <1>3, <2>3
  <2> HIDE DEF E
  <2>5. ASSUME NEW p \in Places(dirs), Seen(p, d, f + 1)
        PROVE  \E m \in After : m.id = FileAt(dirs, p).id
    BY <1>0, <1>1, <1>4, <2>1, <2>2, <2>5
  <2> QED
    BY <1>4, <2>1, <2>4, <2>5 DEF FoundInv, E
<1> QED
  BY <1>7, <1>8

\* The files of a directory, one by one, and the directories, one by one.
FileScan(h, files, found, n) ==
    h = [f \in 0..n |-> IF f = 0 THEN found ELSE AddManifest(h[f - 1], files[f])]
DirScan(h, dirs, n) ==
    h = [d \in 0..n |-> IF d = 0 THEN {} ELSE DiscoverIn(dirs[d], h[d - 1])]

LEMMA FileScanExists ==
    ASSUME NEW files, NEW found
    PROVE  \A n \in Nat : \E h : FileScan(h, files, found, n)
<1> DEFINE S == {n \in Nat : \E h : FileScan(h, files, found, n)}
<1>1. 0 \in S
  <2>1. FileScan([f \in 0..0 |-> found], files, found, 0)
    BY DEF FileScan
  <2> QED
    BY <2>1
<1>2. ASSUME NEW n \in Nat, n \in S
      PROVE  n + 1 \in S
  <2>1. PICK h : FileScan(h, files, found, n)
    BY <1>2
  <2> DEFINE g == [f \in 0..(n + 1) |->
                      IF f = n + 1 THEN AddManifest(h[n], files[f]) ELSE h[f]]
  <2>2. ASSUME NEW f \in 0..(n + 1)
        PROVE  g[f] = IF f = 0 THEN found ELSE AddManifest(g[f - 1], files[f])
    <3>1. \A i \in 0..n : h[i] = IF i = 0 THEN found ELSE AddManifest(h[i - 1], files[i])
      BY <2>1 DEF FileScan
    <3>2. CASE f = n + 1
      BY <3>2
    <3>3. CASE f # n + 1
      BY <3>1, <3>3
    <3> QED
      BY <3>2, <3>3
  <2>3. g = [f \in 0..(n + 1) |-> g[f]]
    OBVIOUS
  <2> HIDE DEF g
  <2>4. g = [f \in 0..(n + 1) |->
                IF f = 0 THEN found ELSE AddManifest(g[f - 1], files[f])]
    BY <2>2, <2>3
  <2>5. FileScan(g, files, found, n + 1)
    BY <2>4 DEF FileScan
  <2> QED
    BY <2>5
<1>3. Nat \subseteq S
  <2> HIDE DEF S
  <2> QED
    BY <1>1, <1>2, InductionOnSet
<1> QED
  BY <1>3

LEMMA DirScanExists ==
    ASSUME NEW dirs
    PROVE  \A n \in Nat : \E h : DirScan(h, dirs, n)
<1> DEFINE S == {n \in Nat : \E h : DirScan(h, dirs, n)}
<1>1. 0 \in S
  <2>1. DirScan([d \in 0..0 |-> {}], dirs, 0)
    BY DEF DirScan
  <2> QED
    BY <2>1
<1>2. ASSUME NEW n \in Nat, n \in S
      PROVE  n + 1 \in S
  <2>1. PICK h : DirScan(h, dirs, n)
    BY <1>2
  <2> DEFINE g == [d \in 0..(n + 1) |->
                      IF d = n + 1 THEN DiscoverIn(dirs[d], h[n]) ELSE h[d]]
  <2>2. ASSUME NEW d \in 0..(n + 1)
        PROVE  g[d] = IF d = 0 THEN {} ELSE DiscoverIn(dirs[d], g[d - 1])
    <3>1. \A i \in 0..n : h[i] = IF i = 0 THEN {} ELSE DiscoverIn(dirs[i], h[i - 1])
      BY <2>1 DEF DirScan
    <3>2. CASE d = n + 1
      BY <3>2
    <3>3. CASE d # n + 1
      BY <3>1, <3>3
    <3> QED
      BY <3>2, <3>3
  <2>3. g = [d \in 0..(n + 1) |-> g[d]]
    OBVIOUS
  <2> HIDE DEF g
  <2>4. g = [d \in 0..(n + 1) |-> IF d = 0 THEN {} ELSE DiscoverIn(dirs[d], g[d - 1])]
    BY <2>2, <2>3
  <2>5. DirScan(g, dirs, n + 1)
    BY <2>4 DEF DirScan
  <2> QED
    BY <2>5
<1>3. Nat \subseteq S
  <2> HIDE DEF S
  <2> QED
    BY <1>1, <1>2, InductionOnSet
<1> QED
  BY <1>3

\* One directory.
LEMMA DirectoryFound ==
    ASSUME NEW dirs \in Layouts, NEW d \in DOMAIN dirs, NEW found,
           FoundInv(dirs, d, 0, found)
    PROVE  FoundInv(dirs, d, Len(dirs[d]), DiscoverIn(dirs[d], found))
<1> DEFINE files == dirs[d]
           len == Len(files)
           scan == CHOOSE h : FileScan(h, files, found, len)
           S == {n \in Nat : n <= len => FoundInv(dirs, d, n, scan[n])}
<1>1. len \in Nat /\ DOMAIN files = 1..len
  BY LayoutsAssumption
<1>2. DiscoverIn(files, found) = scan[len]
  BY DEF DiscoverIn, FileScan
<1> HIDE DEF len
<1>3. FileScan(scan, files, found, len)
  BY <1>1, FileScanExists
<1> HIDE DEF scan
<1>4. \A f \in 0..len : scan[f] = IF f = 0 THEN found ELSE AddManifest(scan[f - 1], files[f])
  BY <1>3 DEF FileScan
<1>5. 0 \in S
  BY <1>1, <1>4
<1>6. ASSUME NEW n \in Nat, n \in S
      PROVE  n + 1 \in S
  <2> SUFFICES ASSUME n + 1 <= len
               PROVE  FoundInv(dirs, d, n + 1, scan[n + 1])
    OBVIOUS
  <2>1. FoundInv(dirs, d, n, scan[n])
    BY <1>1, <1>6
  <2>2. n + 1 \in DOMAIN dirs[d] /\ scan[n + 1] = AddManifest(scan[n], dirs[d][n + 1])
    BY <1>1, <1>4
  <2> QED
    BY <2>1, <2>2, FileKeepsFound
<1>7. Nat \subseteq S
  <2> HIDE DEF S
  <2> QED
    BY <1>5, <1>6, InductionOnSet
<1>8. FoundInv(dirs, d, len, scan[len])
  BY <1>1, <1>7
<1> QED
  BY <1>2, <1>8 DEF len

\* All directories.
LEMMA DiscoverFindsTheEffective ==
    ASSUME NEW dirs \in Layouts
    PROVE  Discover(dirs) = {ManifestOf(FileAt(dirs, p)) : p \in Effective(dirs)}
<1> DEFINE len == Len(dirs)
           scan == CHOOSE h : DirScan(h, dirs, len)
           S == {n \in Nat : n <= len => FoundInv(dirs, n + 1, 0, scan[n])}
<1>1. /\ len \in Nat /\ DOMAIN dirs = 1..len
      /\ \A d \in DOMAIN dirs : Len(dirs[d]) \in Nat /\ DOMAIN dirs[d] = 1..Len(dirs[d])
  BY LayoutsAssumption
<1>2. Discover(dirs) = scan[len]
  BY DEF Discover, DirScan
<1> HIDE DEF len
<1>3. DirScan(scan, dirs, len)
  BY <1>1, DirScanExists
<1> HIDE DEF scan
<1>4. \A d \in 0..len : scan[d] = IF d = 0 THEN {} ELSE DiscoverIn(dirs[d], scan[d - 1])
  BY <1>3 DEF DirScan
<1>5. 0 \in S
  <2>1. \A p \in Places(dirs) : ~Seen(p, 1, 0)
    BY <1>1, PlaceFacts DEF Seen
  <2>2. scan[0] = {}
    BY <1>1, <1>4
  <2>3. Effective(dirs) \subseteq Places(dirs)
    BY DEF Effective
  <2>4. FoundInv(dirs, 1, 0, scan[0])
    BY <2>1, <2>2, <2>3 DEF FoundInv
  <2> QED
    BY <2>4
<1>6. ASSUME NEW n \in Nat, n \in S
      PROVE  n + 1 \in S
  <2> SUFFICES ASSUME n + 1 <= len
               PROVE  FoundInv(dirs, n + 2, 0, scan[n + 1])
    OBVIOUS
  <2> DEFINE d == n + 1
  <2>1. d \in DOMAIN dirs /\ scan[d] = DiscoverIn(dirs[d], scan[n])
    BY <1>1, <1>4
  <2>2. FoundInv(dirs, d, 0, scan[n])
    BY <1>1, <1>6
  <2>3. FoundInv(dirs, d, Len(dirs[d]), scan[d])
    BY <2>1, <2>2, DirectoryFound
  <2>4. \A p \in Places(dirs) : Seen(p, d, Len(dirs[d])) <=> Seen(p, n + 2, 0)
    BY <1>1, PlaceFacts DEF Seen
  <2>5. Effective(dirs) \subseteq Places(dirs)
    BY DEF Effective
  <2> HIDE DEF d
  <2>6. {q \in Effective(dirs) : Seen(q, d, Len(dirs[d]))}
        = {q \in Effective(dirs) : Seen(q, n + 2, 0)}
    BY <2>4, <2>5
  <2>7. FoundInv(dirs, n + 2, 0, scan[d])
    BY <2>3, <2>4, <2>6 DEF FoundInv
  <2> QED
    BY <2>7 DEF d
<1>7. Nat \subseteq S
  <2> HIDE DEF S
  <2> QED
    BY <1>5, <1>6, InductionOnSet
<1>8. FoundInv(dirs, len + 1, 0, scan[len])
  BY <1>1, <1>7
<1>9. \A p \in Effective(dirs) : Seen(p, len + 1, 0)
  BY <1>1, PlaceFacts DEF Seen, Effective
<1> QED
  BY <1>2, <1>8, <1>9 DEF FoundInv

\* The order of selectCandidate has a first: priorities are bounded, and ids are
\* numbered.
LEMMA SomeManifestIsFirst ==
    ASSUME NEW M, M # {},
           \A m \in M : m.priority \in Int /\ m.priority <= 1000 /\ m.id \in Nat
    PROVE  \E m \in M : \A n \in M : ~Before(n, m)
<1> DEFINE P == {1000 - m.priority : m \in M}
<1>1. PICK x \in P : \A y \in P : x <= y
  <2>1. P \subseteq Nat /\ P # {}
    OBVIOUS
  <2> HIDE DEF P
  <2> QED
    BY <2>1, LeastElement
<1>2. PICK a \in M : x = 1000 - a.priority
  OBVIOUS
<1>3. \A n \in M : n.priority <= a.priority
  <2> SUFFICES ASSUME NEW n \in M
               PROVE  n.priority <= a.priority
    OBVIOUS
  <2>1. 1000 - n.priority \in P
    OBVIOUS
  <2> HIDE DEF P
  <2> QED
    BY <1>1, <1>2, <2>1
<1> HIDE DEF P
<1> DEFINE I == {m.id : m \in {n \in M : n.priority = a.priority}}
<1>4. PICK z \in I : \A y \in I : z <= y
  <2>1. I \subseteq Nat /\ I # {}
    OBVIOUS
  <2> HIDE DEF I
  <2> QED
    BY <2>1, LeastElement
<1>5. PICK m \in M : m.priority = a.priority /\ m.id = z
  OBVIOUS
<1>6. ASSUME NEW n \in M
      PROVE  ~Before(n, m)
  <2>1. n.priority <= m.priority
    BY <1>3, <1>5
  <2>2. n.priority = m.priority => n.id >= m.id
    BY <1>4, <1>5
  <2>3. n.id \in Nat /\ n.priority \in Int
    OBVIOUS
  <2>4. m.id \in Nat /\ m.priority \in Int
    OBVIOUS
  <2> QED
    BY <2>1, <2>2, <2>3, <2>4 DEF Before
<1> QED
  BY <1>6

\* ProviderDiscovery and ProviderLauncher together.
LEMMA BestCandidateChosen == ChoosesTheBestCandidate
<1> SUFFICES ASSUME NEW dirs \in Layouts, NEW override \in Programs, NEW default \in Programs
             PROVE  LET chosen == SelectCandidate(Discover(dirs), override, default) IN
                    CASE chosen.source = "override" -> chosen.exec = override
                      [] chosen.source = "manifest" ->
                            override = Absent /\ IsBest(dirs, chosen.exec)
                      [] chosen.source = "default"  -> override = Absent /\ Able(dirs) = {}
                      [] chosen = NoCandidate ->
                            IF override # Absent THEN override \notin Executables
                            ELSE Able(dirs) = {} /\ default \notin Executables
  BY DEF ChoosesTheBestCandidate
<1> DEFINE found == Discover(dirs)
           able == Able(dirs)
           first == CHOOSE m \in able : \A n \in able : ~Before(n, m)
           chosen == SelectCandidate(found, override, default)
<1>1. able = {m \in found : m.autostart /\ m.exec \in Executables}
  BY DiscoverFindsTheEffective DEF Able
<1>2. chosen = IF override # Absent
               THEN IF override \in Executables
                    THEN [source |-> "override", exec |-> override] ELSE NoCandidate
               ELSE IF able # {} THEN [source |-> "manifest", exec |-> first.exec]
               ELSE IF default \in Executables
               THEN [source |-> "default", exec |-> default] ELSE NoCandidate
  BY <1>1 DEF SelectCandidate
<1>3. \A m \in able : m.priority \in Int /\ m.priority <= 1000 /\ m.id \in Nat
  <2> SUFFICES ASSUME NEW m \in able
               PROVE  m.priority \in Int /\ m.priority <= 1000 /\ m.id \in Nat
    OBVIOUS
  <2>1. PICK p \in Effective(dirs) : m = ManifestOf(FileAt(dirs, p))
    BY DEF Able
  <2>2. p \in Places(dirs)
    BY DEF Effective
  <2>3. /\ IsManifest(FileAt(dirs, p))
        /\ p[1] \in DOMAIN dirs /\ p[2] \in DOMAIN dirs[p[1]]
    BY <2>2, PlaceFacts
  <2>4. FileAt(dirs, p).id \in Nat
    BY <2>3, LayoutsAssumption DEF FileAt, IsManifest
  <2>5. PriorityOf(FileAt(dirs, p)) \in -1000..1000
    BY <2>3 DEF IsManifest
  <2>6. m.id = FileAt(dirs, p).id /\ m.priority = PriorityOf(FileAt(dirs, p))
    BY <2>1 DEF ManifestOf
  <2> QED
    BY <2>4, <2>5, <2>6
<1> HIDE DEF found, able, chosen
<1>4. ASSUME able # {}
      PROVE  first \in able /\ \A n \in able : ~Before(n, first)
  BY <1>3, <1>4, SomeManifestIsFirst
<1> HIDE DEF first
<1>5. ASSUME able # {}
      PROVE  IsBest(dirs, first.exec)
  <2>1. ASSUME NEW n \in able
        PROVE  \/ n.priority < first.priority
               \/ n.priority = first.priority /\ n.id >= first.id
    <3>1. first \in able /\ ~Before(n, first)
      BY <1>4, <1>5
    <3>2. /\ n.priority \in Int /\ first.priority \in Int
          /\ n.id \in Nat /\ first.id \in Nat
      BY <1>3, <3>1
    <3> QED
      BY <3>1, <3>2 DEF Before
  <2> QED
    BY <1>4, <1>5, <2>1 DEF IsBest, able
<1>6. ASSUME chosen.source = "override"
      PROVE  chosen.exec = override
  BY <1>2, <1>6 DEF NoCandidate
<1>7. ASSUME chosen.source = "manifest"
      PROVE  override = Absent /\ IsBest(dirs, chosen.exec)
  <2>1. override = Absent /\ able # {} /\ chosen.exec = first.exec
    BY <1>2, <1>7 DEF NoCandidate
  <2> QED
    BY <1>5, <2>1
<1>8. ASSUME chosen.source = "default"
      PROVE  override = Absent /\ able = {}
  BY <1>2, <1>8 DEF NoCandidate
<1>9. ASSUME chosen = NoCandidate
      PROVE  IF override # Absent THEN override \notin Executables
             ELSE able = {} /\ default \notin Executables
  BY <1>2, <1>9 DEF NoCandidate
<1>10. \/ chosen.source \in {"override", "manifest", "default"}
       \/ chosen = NoCandidate /\ chosen.source = "none"
  BY <1>2 DEF NoCandidate
<1> QED
  BY <1>6, <1>7, <1>8, <1>9, <1>10 DEF chosen, found, able

\* When ensureFallbackUiRunning has launched something, it was the candidate that
\* precedence, autostart and priority give, whatever the search directories hold
\* (LaunchesTheBestCandidate).
THEOREM BestCandidateLaunched == UiSpec => []LaunchesTheBestCandidate
<1>1. LaunchesTheBestCandidate
  BY BestCandidateChosen DEF LaunchesTheBestCandidate
<1> QED
  BY <1>1, PTL
=============================================================================
