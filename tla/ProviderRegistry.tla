-------------------------- MODULE ProviderRegistry --------------------------
(***************************************************************************)
(* Selection of the UI provider that may answer authentication prompts.    *)
(*                                                                         *)
(* The daemon keeps one entry per registered UI socket and elects one of   *)
(* them, the active provider (src/core/agent/ProviderRegistry.cpp).  Every *)
(* handler of src/core/Agent.cpp that changes the registry recomputes the  *)
(* election in the same turn of the event loop and tells the sockets       *)
(* concerned, so a handler is one action here.                             *)
(*                                                                         *)
(* Time is counted in ticks.  The code compares wall-clock time stamps;    *)
(* this module keeps their distance to now, which is all it looks at: idle *)
(* is nowMs - lastHeartbeatMs.                                             *)
(***************************************************************************)
EXTENDS Integers, FiniteSets

CONSTANTS
    Sockets,              \* client connections of UI processes
    NoSocket,             \* the null QPointer
    Priorities,           \* priorities a registration may carry
    HeartbeatTimeout,     \* PROVIDER_HEARTBEAT_TIMEOUT_MS, in ticks
    MaintenanceInterval   \* PROVIDER_MAINTENANCE_INTERVAL_MS, in ticks

ASSUME NoSocketAssumption == NoSocket \notin Sockets
ASSUME PrioritiesAssumption == Priorities \subseteq Int
ASSUME TimesAssumption == /\ HeartbeatTimeout \in Nat
                          /\ MaintenanceInterval \in Nat \ {0}

VARIABLES
    connected,         \* sockets in ConnectedState
    subscribers,       \* m_subscribers
    providers,         \* m_uiProviders: socket -> [priority, idle]
    active,            \* m_activeProvider
    sinceMaintenance,  \* ticks since m_providerMaintenanceTimer fired
    toldActive         \* the last active flag each socket was sent

registryVars == <<connected, subscribers, providers, active, sinceMaintenance,
                  toldActive>>

Provider == [priority : Int, idle : Nat]

-----------------------------------------------------------------------------
(* The registry's queries.                                                 *)

HasActiveProvider == active # NoSocket /\ active \in DOMAIN providers

\* Without any provider every socket may answer (the legacy mode).
IsAuthorized(s) ==
    \/ DOMAIN providers = {}
    \/ s \in DOMAIN providers /\ s = active

(***************************************************************************)
(* The election.  p outranks q when its priority is higher or, at equal    *)
(* priority, its heartbeat is more recent.  Several providers can be best; *)
(* the code keeps the first one its hash table yields, which is any of     *)
(* them.                                                                   *)
(***************************************************************************)
Outranks(p, q) ==
    \/ p.priority > q.priority
    \/ p.priority = q.priority /\ p.idle < q.idle

\* Defective variant: a heartbeat exactly as old as the timeout is too old.
LiveStrictly(reg, conn) ==
    {s \in DOMAIN reg : s \in conn /\ reg[s].idle < HeartbeatTimeout}

Live(reg, conn) ==
    {s \in DOMAIN reg : s \in conn /\ reg[s].idle <= HeartbeatTimeout}

Best(reg, live) ==
    {s \in live : \A t \in live : ~Outranks(reg[t], reg[s])}

\* Defective variant: an election keeps the incumbent while it is alive.
StickyElection(reg, conn) ==
    LET live == Live(reg, conn)
    IN  /\ providers' = [s \in live |-> reg[s]]
        /\ \/ live = {} /\ active' = NoSocket
           \/ active \in live /\ active' = active
           \/ active \notin live /\ active' \in Best(reg, live)

\* Drops the dead entries of reg and elects among the others.
RecomputeActiveProvider(reg, conn) ==
    LET live == Live(reg, conn)
    IN  /\ providers' = [s \in live |-> reg[s]]
        /\ \/ live = {} /\ active' = NoSocket
           \/ active' \in Best(reg, live)

(***************************************************************************)
(* What the sockets hear.  emitProviderStatus sends ui.active to every     *)
(* registered provider and to every subscriber; a provider compares the id *)
(* in it with its own.  A reply to one socket carries its own flag.        *)
(***************************************************************************)
\* Defective variant: subscribers that are not registered hear nothing.
RegisteredAudience == DOMAIN providers'

Audience == DOMAIN providers' \cup subscribers'

Tell(emitted, replyTo) ==
    toldActive' = [s \in Sockets |->
        IF s \in replyTo \/ (emitted /\ s \in Audience)
        THEN active' = s
        ELSE toldActive[s]]

\* Defective variant: only the socket that asked hears of a change.
ReplyOnly(replyTo) == Tell(FALSE, replyTo)

EmitProviderStatusIfChanged(replyTo) == Tell(active' # active, replyTo)

-----------------------------------------------------------------------------
(* The handlers.                                                           *)

RegistryInit ==
    /\ connected = {}
    /\ subscribers = {}
    /\ providers = [s \in {} |-> [priority |-> 0, idle |-> 0]]
    /\ active = NoSocket
    /\ sinceMaintenance = 0
    /\ toldActive = [s \in Sockets |-> FALSE]

OnNewConnection(s) ==
    /\ s \notin connected
    /\ connected' = connected \cup {s}
    /\ toldActive' = [toldActive EXCEPT ![s] = FALSE]
    /\ UNCHANGED <<subscribers, providers, active, sinceMaintenance>>

\* Defective variant: a disconnect removes the entry without an election.
DisconnectWithoutElection(s) ==
    /\ s \in connected
    /\ connected' = connected \ {s}
    /\ subscribers' = subscribers \ {s}
    /\ providers' = [t \in DOMAIN providers \ {s} |-> providers[t]]
    /\ UNCHANGED <<active, toldActive, sinceMaintenance>>

OnClientDisconnected(s) ==
    /\ s \in connected
    /\ connected' = connected \ {s}
    /\ subscribers' = subscribers \ {s}
    /\ IF s \in DOMAIN providers
       THEN /\ RecomputeActiveProvider(
                   [t \in DOMAIN providers \ {s} |-> providers[t]], connected')
            /\ EmitProviderStatusIfChanged({})
       ELSE UNCHANGED <<providers, active, toldActive>>
    /\ UNCHANGED sinceMaintenance

HandleSubscribe(s) ==
    /\ s \in connected
    /\ subscribers' = subscribers \cup {s}
    /\ toldActive' = IF s \in DOMAIN providers
                     THEN [toldActive EXCEPT ![s] = (active = s)]
                     ELSE toldActive
    /\ UNCHANGED <<connected, providers, active, sinceMaintenance>>

\* A second ui.register on a socket replaces its priority and its heartbeat.
HandleUIRegister(s, p) ==
    /\ s \in connected
    /\ UNCHANGED <<connected, subscribers, sinceMaintenance>>
    /\ RecomputeActiveProvider(
           [t \in DOMAIN providers \cup {s} |->
               IF t = s THEN [priority |-> p, idle |-> 0] ELSE providers[t]],
           connected)
    /\ Tell(active' # active \/ active' = s, {s})

\* An unregistered socket gets an error and changes nothing.
HandleUIHeartbeat(s) ==
    /\ s \in connected
    /\ s \in DOMAIN providers
    /\ UNCHANGED <<connected, subscribers, sinceMaintenance>>
    /\ RecomputeActiveProvider([providers EXCEPT ![s].idle = 0], connected)
    /\ EmitProviderStatusIfChanged({s})

HandleUIUnregister(s) ==
    /\ s \in connected
    /\ s \in DOMAIN providers
    /\ UNCHANGED <<connected, subscribers, sinceMaintenance>>
    /\ RecomputeActiveProvider(
           [t \in DOMAIN providers \ {s} |-> providers[t]], connected)
    /\ EmitProviderStatusIfChanged({})

\* Defective variant: the maintenance timer fires in vain.
PruneNothing ==
    /\ sinceMaintenance' = 0
    /\ UNCHANGED <<connected, subscribers, providers, active, toldActive>>

\* The maintenance timer fires.
PruneStaleProviders ==
    /\ sinceMaintenance' = 0
    /\ UNCHANGED <<connected, subscribers>>
    /\ RecomputeActiveProvider(providers, connected)
    /\ EmitProviderStatusIfChanged({})

\* Closing the last session elects again.
RecomputeOnEmptyStore ==
    /\ UNCHANGED <<connected, subscribers, sinceMaintenance>>
    /\ RecomputeActiveProvider(providers, connected)
    /\ EmitProviderStatusIfChanged({})

(***************************************************************************)
(* Time passes.  The event loop serves an expired timer before it sleeps   *)
(* again, so no tick starts while the maintenance timer is due.            *)
(***************************************************************************)
Tick ==
    /\ sinceMaintenance < MaintenanceInterval
    /\ sinceMaintenance' = sinceMaintenance + 1
    /\ providers' = [s \in DOMAIN providers |->
                        [providers[s] EXCEPT !.idle = @ + 1]]
    /\ UNCHANGED <<connected, subscribers, active, toldActive>>

RegistryNext ==
    \/ \E s \in Sockets : \/ OnNewConnection(s)
                          \/ OnClientDisconnected(s)
                          \/ HandleSubscribe(s)
                          \/ \E p \in Priorities : HandleUIRegister(s, p)
                          \/ HandleUIHeartbeat(s)
                          \/ HandleUIUnregister(s)
    \/ PruneStaleProviders
    \/ RecomputeOnEmptyStore
    \/ Tick

RegistrySpec == RegistryInit /\ [][RegistryNext]_registryVars

-----------------------------------------------------------------------------
(* Properties.                                                             *)

\* Type correctness.  No pointer to a closed socket stays behind in
\* m_subscribers, m_uiProviders or m_activeProvider once
\* onClientDisconnected has run.
RegistryTypeOK ==
    /\ connected \subseteq Sockets
    /\ subscribers \subseteq connected
    /\ DOMAIN providers \subseteq connected
    /\ \A s \in DOMAIN providers : providers[s] \in Provider
    /\ providers = [s \in DOMAIN providers |-> providers[s]]
    /\ active \in DOMAIN providers \cup {NoSocket}
    /\ sinceMaintenance \in 0..MaintenanceInterval
    /\ toldActive \in [Sockets -> BOOLEAN]

\* While a provider is registered, exactly one socket is authorized to answer
\* (isAuthorized): never two, and never none, which would lock every prompt.
ExactlyOneDecider ==
    DOMAIN providers # {} =>
        \E s \in connected : \A t \in Sockets : IsAuthorized(t) <=> t = s

\* The active provider outranks or ties with every registered one in every
\* state, between elections too: no handler leaves a better provider waiting.
ActiveIsBest ==
    HasActiveProvider =>
        \A s \in DOMAIN providers : ~Outranks(providers[s], providers[active])

\* What the daemon last told a registered provider about being active is what
\* isAuthorized would answer it now, whatever mix of replies and ui.active
\* broadcasts it got.
ToldTheTruth ==
    \A s \in DOMAIN providers : toldActive[s] <=> active = s

\* A provider that stops sending heartbeats without closing its socket keeps
\* its place, and so its authority, no longer than the heartbeat timeout plus
\* one maintenance interval.
SilenceIsBounded ==
    \A s \in DOMAIN providers :
        providers[s].idle <= HeartbeatTimeout + sinceMaintenance

\* A provider whose heartbeats are in time is only ever removed at its own
\* request or with its connection, whatever the other sockets do.
LiveProviderIsKept ==
    [][\A s \in DOMAIN providers :
           \/ s \in DOMAIN providers'
           \/ providers[s].idle > HeartbeatTimeout
           \/ s \notin connected'
           \/ HandleUIUnregister(s)]_registryVars
=============================================================================
