-------------------------- MODULE ProviderFailover --------------------------
(***************************************************************************)
(* The built-in UI provider and the daemon over their connection: the      *)
(* state machine of src/fallback/FallbackClient.cpp composed with the      *)
(* daemon's registry, with other providers that come and go, and with one  *)
(* authentication session.  A connection delivers messages in order.  The  *)
(* process of the client can die, and so can the daemon.                   *)
(*                                                                         *)
(* Only messages that change something are kept: the "ok" replies, the     *)
(* error for a heartbeat of an unregistered socket and session.updated are *)
(* not.  The daemon always sends the active flag with ui.registered, so    *)
(* the client's m_pendingProvider fields never take effect and are left    *)
(* out.  The provider id of an entry is its socket here: ui.registered     *)
(* reaches the client before any ui.active with the id of a new entry.     *)
(***************************************************************************)
EXTENDS ProviderRegistry, Sequences

CONSTANTS
    Rivals,            \* sockets of other providers
    FallbackPriority,  \* priority in registerProvider
    MaxToDaemon,       \* bound: a timer or the user adds to fewer messages
    MaxToClient        \* bound: the daemon adds to no more messages

ASSUME RivalsAssumption == Rivals \subseteq Sockets
ASSUME FallbackAssumption == FallbackPriority \in Int
ASSUME ChannelsAssumption == MaxToDaemon \in Nat /\ MaxToClient \in Nat

UiSockets == Sockets \ Rivals

VARIABLES
    client,      \* the connection of the client, NoSocket when it has none
    toDaemon,    \* what the daemon has still to read from each connection
    toClient,    \* what the client has still to read
    registered,  \* m_registered
    subscribed,  \* m_subscribed
    believes,    \* m_providerActive
    open,        \* the session is in the daemon's store
    shown        \* the client's window shows it

clientVars   == <<client, registered, subscribed, believes, shown>>
failoverVars == <<registryVars, toDaemon, toClient, clientVars, open>>

\* A message to the client.  who: the active provider in ui.active; the client
\* or NoSocket for the active flag of a reply, Absent where there is none.
Absent == "absent"
ASSUME AbsentAssumption == Absent \notin Sockets \cup {NoSocket}
Message(type, who) == [type |-> type, who |-> who]
Flag(s) == IF active' = s THEN s ELSE NoSocket

FailoverInit ==
    /\ RegistryInit
    /\ client = NoSocket
    /\ toDaemon = [s \in UiSockets |-> <<>>]
    /\ toClient = <<>>
    /\ registered = FALSE /\ subscribed = FALSE /\ believes = FALSE
    /\ open = FALSE /\ shown = FALSE

-----------------------------------------------------------------------------
(* The daemon.                                                             *)

\* What the daemon writes to the client in one step: on a request or a hang-up,
\* or of its own accord, which waits until little else is under way.
Answer(messages) == toClient' = toClient \o messages
Deliver(messages) ==
    /\ Answer(messages)
    /\ Len(toClient') <= MaxToClient
    /\ \A s \in UiSockets : Len(toDaemon[s]) <= MaxToDaemon + 1

Status(emitted) ==
    IF emitted /\ client \in Audience THEN <<Message("ui.active", active')>> ELSE <<>>

StatusIfChanged == Status(active' # active)

ToClient(s, messages) == IF s = client THEN messages ELSE <<>>

\* EventRouter: a session event goes to the active provider, or else to the
\* subscribers.
Hears(elected, conns) ==
    IF elected # NoSocket THEN client = elected ELSE client \in conns
SessionEvent(type, elected, conns) ==
    IF Hears(elected, conns) THEN <<Message(type, Absent)>> ELSE <<>>

ReceiveRegister(s) ==
    /\ HandleUIRegister(s, FallbackPriority)
    /\ Answer(ToClient(s, <<Message("ui.registered", Flag(s))>>)
                   \o Status(active' # active \/ active' = s))

\* Defective variant: an active provider that subscribes again gets no replay.
SubscribeWithoutReplay(s) ==
    /\ HandleSubscribe(s)
    /\ Answer(ToClient(s, <<Message("subscribed",
                   IF s \in DOMAIN providers THEN Flag(s) ELSE Absent)>>))

\* The open session is replayed, unless an inactive provider asks.
ReceiveSubscribe(s) ==
    LET isProvider == s \in DOMAIN providers
        replay == IF open /\ (isProvider => s = active)
                  THEN <<Message("session.created", Absent)>> ELSE <<>>
        reply == Message("subscribed", IF isProvider THEN Flag(s) ELSE Absent)
    IN  /\ HandleSubscribe(s)
        /\ Answer(ToClient(s, Append(replay, reply)))

ReceiveHeartbeat(s) ==
    IF s \in DOMAIN providers
    THEN HandleUIHeartbeat(s) /\ Answer(StatusIfChanged)
    ELSE UNCHANGED <<registryVars, toClient>>

\* What an authorized response does to the session is left to CloseSession.
ReceiveRespond(s) ==
    /\ UNCHANGED registryVars
    /\ Answer(IF IsAuthorized(s) THEN <<>>
               ELSE ToClient(s, <<Message("error", Absent)>>))

DaemonReceives(s) ==
    /\ toDaemon[s] # <<>>
    /\ Len(toClient) <= MaxToClient
    /\ toDaemon' = [toDaemon EXCEPT ![s] = Tail(@)]
    /\ \/ Head(toDaemon[s]) = "ui.register" /\ ReceiveRegister(s)
       \/ Head(toDaemon[s]) = "subscribe" /\ ReceiveSubscribe(s)
       \/ Head(toDaemon[s]) = "ui.heartbeat" /\ ReceiveHeartbeat(s)
       \/ Head(toDaemon[s]) = "session.respond" /\ ReceiveRespond(s)
    /\ UNCHANGED <<clientVars, open>>

\* The connection of a client that died is noticed, sooner or later.
DaemonSeesHangup(s) ==
    /\ s # client
    /\ OnClientDisconnected(s)
    /\ toDaemon' = [toDaemon EXCEPT ![s] = <<>>]
    /\ Answer(StatusIfChanged)
    /\ UNCHANGED <<clientVars, open>>

\* Other providers do what they like.  That they subscribe is of no concern to
\* the client.
RivalActs(r) ==
    /\ \/ /\ \E p \in Priorities : HandleUIRegister(r, p)
          /\ Deliver(Status(active' # active \/ active' = r))
       \/ /\ \/ OnNewConnection(r)
             \/ HandleUIHeartbeat(r)
             \/ HandleUIUnregister(r)
             \/ OnClientDisconnected(r)
          /\ Deliver(StatusIfChanged)
    /\ UNCHANGED <<toDaemon, clientVars, open>>

Maintenance ==
    /\ PruneStaleProviders
    /\ Deliver(StatusIfChanged)
    /\ UNCHANGED <<toDaemon, clientVars, open>>

\* The daemon is prompt: what it was sent does not wait for a whole tick.
TimePasses ==
    /\ \A s \in UiSockets : toDaemon[s] = <<>>
    /\ Tick
    /\ UNCHANGED <<toDaemon, toClient, clientVars, open>>

OpenSession ==
    /\ ~open
    /\ open' = TRUE
    /\ Deliver(SessionEvent("session.created", active, subscribers))
    /\ UNCHANGED <<registryVars, toDaemon, clientVars>>

\* closeSession elects first: a new provider hears of the close of a session it
\* was never shown.
CloseSession ==
    /\ open
    /\ open' = FALSE
    /\ RecomputeOnEmptyStore
    /\ Deliver(StatusIfChanged \o SessionEvent("session.closed", active', subscribers))
    /\ UNCHANGED <<toDaemon, clientVars>>

\* onSessionComplete elects afterwards.
OnSessionComplete ==
    /\ open
    /\ open' = FALSE
    /\ RecomputeOnEmptyStore
    /\ Deliver(SessionEvent("session.closed", active, subscribers) \o StatusIfChanged)
    /\ UNCHANGED <<toDaemon, clientVars>>

-----------------------------------------------------------------------------
(* The client.                                                             *)

Send(s, requests) == toDaemon' = [toDaemon EXCEPT ![s] = @ \o requests]

\* What timers and the user send waits until little else is under way.
SendLater(requests) ==
    /\ client # NoSocket
    /\ Len(toDaemon[client]) < MaxToDaemon
    /\ Send(client, requests)

\* Defective variant: the client does not subscribe again when it becomes active.
SetActiveQuietly(isActive, isRegistered) ==
    /\ believes' = isActive
    /\ shown' = (shown /\ (believes => isActive))
    /\ UNCHANGED toDaemon

\* setProviderActive and the window's handler of providerStateChanged.
SetProviderActive(isActive, isRegistered) ==
    /\ believes' = isActive
    /\ IF isActive /\ ~believes /\ isRegistered
       THEN Send(client, <<"subscribe">>)
       ELSE UNCHANGED toDaemon
    /\ shown' = (shown /\ (believes => isActive))

\* The process starts, or its reconnect timer fires.
Connected(s) ==
    /\ client = NoSocket
    /\ toDaemon[s] = <<>>
    /\ OnNewConnection(s)
    /\ client' = s
    /\ Send(s, <<"ui.register", "subscribe">>)
    /\ UNCHANGED <<toClient, registered, subscribed, believes, shown, open>>

\* The process ends; the daemon still has to notice.
ClientDies ==
    /\ client # NoSocket
    /\ client' = NoSocket
    /\ toClient' = <<>>
    /\ registered' = FALSE /\ subscribed' = FALSE /\ believes' = FALSE
    /\ shown' = FALSE
    /\ UNCHANGED <<registryVars, toDaemon, open>>

\* Everything the daemon knows is gone.  The client clears its window if it was
\* the active provider.  (It keeps m_buffer, with the start of a message if the
\* daemon died in the middle of one; here messages arrive whole.)
DaemonRestarts ==
    /\ connected # {}
    /\ connected' = {} /\ subscribers' = {}
    /\ providers' = [s \in {} |-> [priority |-> 0, idle |-> 0]]
    /\ active' = NoSocket
    /\ sinceMaintenance' = 0
    /\ toldActive' = [s \in Sockets |-> FALSE]
    /\ open' = FALSE
    /\ toDaemon' = [s \in UiSockets |-> <<>>]
    /\ toClient' = <<>>
    /\ client' = NoSocket
    /\ registered' = FALSE /\ subscribed' = FALSE /\ believes' = FALSE
    /\ shown' = (shown /\ ~believes)

\* A message the client understands.
HandleMessage(m) ==
    \/ /\ m.type = "ui.registered"
       /\ registered' = TRUE
       /\ SetProviderActive(m.who = client, TRUE)
       /\ UNCHANGED subscribed
    \/ /\ m.type = "subscribed"
       /\ subscribed' = TRUE
       /\ IF m.who = Absent THEN UNCHANGED <<believes, shown, toDaemon>>
          ELSE SetProviderActive(m.who = client, registered)
       /\ UNCHANGED registered
    \/ /\ m.type = "ui.active"
       /\ IF registered THEN SetProviderActive(m.who \in {client, NoSocket}, TRUE)
          ELSE UNCHANGED <<believes, shown, toDaemon>>
       /\ UNCHANGED <<registered, subscribed>>
    \/ /\ m.type = "error"
       /\ SetProviderActive(FALSE, registered)
       /\ UNCHANGED <<registered, subscribed>>
    \/ /\ m.type \in {"session.created", "session.closed"}
       /\ shown' = IF registered /\ ~believes THEN shown ELSE m.type = "session.created"
       /\ UNCHANGED <<registered, subscribed, believes, toDaemon>>

ClientReads ==
    /\ toClient # <<>>
    /\ toClient' = Tail(toClient)
    /\ HandleMessage(Head(toClient))
    /\ UNCHANGED <<registryVars, client, open>>

\* m_subscribeWatchdog, every 1200 ms.
Watchdog ==
    /\ ~registered \/ ~subscribed
    /\ SendLater((IF registered THEN <<>> ELSE <<"ui.register">>)
                  \o (IF subscribed THEN <<>> ELSE <<"subscribe">>))
    /\ UNCHANGED <<registryVars, toClient, clientVars, open>>

\* m_heartbeatTimer, every 4000 ms.
Heartbeat ==
    /\ registered
    /\ SendLater(<<"ui.heartbeat">>)
    /\ UNCHANGED <<registryVars, toClient, clientVars, open>>

\* The user answers or cancels.
Responds ==
    /\ shown
    /\ SendLater(<<"session.respond">>)
    /\ UNCHANGED <<registryVars, toClient, clientVars, open>>

FailoverNext ==
    \/ \E s \in UiSockets : DaemonReceives(s) \/ DaemonSeesHangup(s) \/ Connected(s)
    \/ \E r \in Rivals : RivalActs(r)
    \/ Maintenance \/ TimePasses
    \/ OpenSession \/ CloseSession \/ OnSessionComplete
    \/ ClientDies \/ DaemonRestarts
    \/ ClientReads \/ Watchdog \/ Heartbeat \/ Responds

FailoverSpec == FailoverInit /\ [][FailoverNext]_failoverVars

\* Both event loops run: what arrived is read, hang-ups are noticed, and the
\* reconnect and watchdog timers fire.
FairFailoverSpec ==
    /\ FailoverSpec
    /\ \A s \in UiSockets : /\ WF_failoverVars(DaemonReceives(s))
                            /\ WF_failoverVars(DaemonSeesHangup(s))
    /\ WF_failoverVars(\E s \in UiSockets : Connected(s))
    /\ WF_failoverVars(ClientReads)
    /\ WF_failoverVars(Watchdog)

-----------------------------------------------------------------------------
(* Properties.                                                             *)

\* Nothing is under way on the client's connection.
Quiet == client # NoSocket /\ toClient = <<>> /\ toDaemon[client] = <<>>

\* Once everything under way has arrived, a registered client believes that it
\* may answer exactly when isAuthorized says so, after any mix of replies,
\* broadcasts and refusals, and of entries left by connections of dead clients.
BeliefIsAuthority ==
    Quiet /\ registered => (believes <=> IsAuthorized(client))

\* Then the window shows the session if and only if it is open and the client may
\* answer: a provider that takes over shows what was open before, and one that was
\* refused stops interactive submission (PROVIDER_CONTRACT.md, 9).
ShownAfterFailover ==
    Quiet /\ registered => (shown <=> open /\ believes)

\* PLAN.md: "Provider failover returns to usable UI without manual restart".
\* Unless the processes die again and again, or another provider is there, the
\* client comes to be authorized, to know it, and to show what is open.
Usable == client # NoSocket /\ IsAuthorized(client) /\ believes /\ (open => shown)
ReturnsToUsableUI ==
    \/ []<><<ClientDies \/ DaemonRestarts>>_failoverVars
    \/ []<>(DOMAIN providers \cap Rivals # {})
    \/ []<>Usable
=============================================================================
