----------------------- MODULE ProviderRegistryProofs -----------------------
(***************************************************************************)
(* Proofs about ProviderRegistry, for any sockets, priorities and times.   *)
(***************************************************************************)
EXTENDS ProviderRegistry, TLAPS

\* The inductive invariant.  ElectionIsTotal is the part no run states on its
\* own: the null active pointer means an empty registry.
ElectionIsTotal == active = NoSocket => DOMAIN providers = {}

RegistryInv ==
    /\ RegistryTypeOK
    /\ ElectionIsTotal
    /\ ActiveIsBest
    /\ ToldTheTruth
    /\ SilenceIsBounded

-----------------------------------------------------------------------------

\* What an election leaves behind (recomputeActiveProvider): only live entries,
\* unchanged, all of the live ones, and one of the best of them active.
LEMMA ElectionFacts ==
    ASSUME NEW reg, NEW conn,
           DOMAIN reg \subseteq Sockets,
           RecomputeActiveProvider(reg, conn)
    PROVE  /\ DOMAIN providers' = Live(reg, conn)
           /\ DOMAIN providers' \subseteq conn
           /\ providers' = [s \in DOMAIN providers' |-> providers'[s]]
           /\ \A s \in DOMAIN providers' :
                 providers'[s] = reg[s] /\ reg[s].idle <= HeartbeatTimeout
           /\ active' \in DOMAIN providers' \cup {NoSocket}
           /\ active' = NoSocket => DOMAIN providers' = {}
           /\ active' # NoSocket =>
                 \A s \in DOMAIN providers' :
                     ~Outranks(providers'[s], providers'[active'])
<1> DEFINE live == Live(reg, conn)
<1>1. providers' = [s \in live |-> reg[s]]
  BY DEF RecomputeActiveProvider
<1>2. \/ live = {} /\ active' = NoSocket
      \/ active' \in Best(reg, live)
  BY DEF RecomputeActiveProvider
<1>3. live \subseteq conn /\ live \subseteq Sockets
  BY DEF Live
<1>4. \A s \in live : reg[s].idle <= HeartbeatTimeout
  BY DEF Live
<1>5. ASSUME active' \in Best(reg, live)
      PROVE  active' \in live /\ \A s \in live : ~Outranks(reg[s], reg[active'])
  BY <1>5 DEF Best
<1>6. NoSocket \notin live
  BY <1>3, NoSocketAssumption
<1>7. DOMAIN providers' = live
  BY <1>1
<1> HIDE DEF live
<1>8. \A s \in live : providers'[s] = reg[s]
  BY <1>1
<1>9. active' \in live \cup {NoSocket}
  BY <1>2, <1>5
<1>10. active' = NoSocket => live = {}
  BY <1>2, <1>5, <1>6
<1>11. active' # NoSocket => \A s \in live : ~Outranks(providers'[s], providers'[active'])
  BY <1>2, <1>5, <1>8
<1>12. providers' = [s \in live |-> providers'[s]]
  BY <1>1, <1>8
<1> QED
  BY <1>3, <1>4, <1>7, <1>8, <1>9, <1>10, <1>11, <1>12 DEF live

\* Initially nothing is registered.
LEMMA InitInv == RegistryInit => RegistryInv
BY TimesAssumption DEF RegistryInit, RegistryInv, RegistryTypeOK, ElectionIsTotal,
    ActiveIsBest, HasActiveProvider, ToldTheTruth, SilenceIsBounded

(***************************************************************************)
(* Every handler that elects does so over entries that are well typed and  *)
(* at most as silent as before, and tells every socket whose flag moved.   *)
(***************************************************************************)
LEMMA ElectionPreservesInv ==
    ASSUME RegistryInv,
           NEW reg, NEW conn \in SUBSET Sockets, NEW replyTo, NEW emitted \in BOOLEAN,
           connected' = conn,
           subscribers' \subseteq conn,
           DOMAIN reg \subseteq Sockets,
           \A s \in DOMAIN reg : reg[s] \in Provider,
           \A s \in DOMAIN reg : s \in DOMAIN providers \/ s \in replyTo,
           RecomputeActiveProvider(reg, conn),
           active' # active => emitted,
           Tell(emitted, replyTo),
           sinceMaintenance' \in 0..MaintenanceInterval
    PROVE  RegistryInv'
<1>1. /\ DOMAIN providers' = Live(reg, conn)
      /\ DOMAIN providers' \subseteq conn
      /\ providers' = [s \in DOMAIN providers' |-> providers'[s]]
      /\ \A s \in DOMAIN providers' :
            providers'[s] = reg[s] /\ reg[s].idle <= HeartbeatTimeout
      /\ active' \in DOMAIN providers' \cup {NoSocket}
      /\ active' = NoSocket => DOMAIN providers' = {}
      /\ active' # NoSocket =>
            \A s \in DOMAIN providers' :
                ~Outranks(providers'[s], providers'[active'])
  BY ElectionFacts
<1>2. DOMAIN providers' \subseteq DOMAIN reg
  BY <1>1 DEF Live
<1>3. \A s \in DOMAIN providers' : providers'[s] \in Provider
  BY <1>1, <1>2
<1>4. toldActive' \in [Sockets -> BOOLEAN]
  BY DEF Tell, RegistryInv, RegistryTypeOK
<1>5. RegistryTypeOK'
  BY <1>1, <1>3, <1>4 DEF RegistryTypeOK
<1>6. ElectionIsTotal'
  BY <1>1 DEF ElectionIsTotal
<1>7. ActiveIsBest'
  BY <1>1 DEF ActiveIsBest, HasActiveProvider
<1>8. ToldTheTruth'
  <2> SUFFICES ASSUME NEW s \in DOMAIN providers'
               PROVE  toldActive'[s] <=> active' = s
    BY DEF ToldTheTruth
  <2>1. s \in Sockets /\ s \in Audience
    BY <1>1, <1>2 DEF Audience
  <2>2. CASE s \in replyTo \/ emitted
    BY <2>1, <2>2 DEF Tell
  <2>3. CASE ~(s \in replyTo \/ emitted)
    <3>1. toldActive'[s] = toldActive[s]
      BY <2>1, <2>3 DEF Tell
    <3>2. active' = active
      BY <2>3
    <3>3. s \in DOMAIN providers
      BY <1>2, <2>3
    <3>4. toldActive[s] <=> active = s
      BY <3>3 DEF RegistryInv, ToldTheTruth
    <3> QED
      BY <3>1, <3>2, <3>4
  <2> QED
    BY <2>2, <2>3
<1>9. SilenceIsBounded'
  <2> SUFFICES ASSUME NEW s \in DOMAIN providers'
               PROVE  providers'[s].idle <= HeartbeatTimeout + sinceMaintenance'
    BY DEF SilenceIsBounded
  <2>1. providers'[s].idle <= HeartbeatTimeout /\ providers'[s].idle \in Nat
    BY <1>1, <1>3 DEF Provider
  <2>2. sinceMaintenance' \in Nat
    BY TimesAssumption
  <2> QED
    BY <2>1, <2>2, TimesAssumption
<1> QED
  BY <1>5, <1>6, <1>7, <1>8, <1>9 DEF RegistryInv

\* A registration may carry any priority, not only those of Priorities.
LEMMA RegisterKeepsInv ==
    ASSUME RegistryInv, NEW s \in Sockets, NEW p \in Int, HandleUIRegister(s, p)
    PROVE  RegistryInv'
<1>0. /\ connected \subseteq Sockets
      /\ DOMAIN providers \subseteq connected
      /\ \A t \in DOMAIN providers : providers[t] \in Provider
  BY DEF RegistryInv, RegistryTypeOK
<1> DEFINE reg == [t \in DOMAIN providers \cup {s} |->
                      IF t = s THEN [priority |-> p, idle |-> 0] ELSE providers[t]]
<1>1. RecomputeActiveProvider(reg, connected)
  BY DEF HandleUIRegister
<1>2. Tell(active' # active \/ active' = s, {s})
  BY DEF HandleUIRegister
<1>3. /\ connected' = connected
      /\ subscribers' \subseteq connected
      /\ sinceMaintenance' \in 0..MaintenanceInterval
  BY DEF HandleUIRegister, RegistryInv, RegistryTypeOK
<1>4. /\ DOMAIN reg \subseteq Sockets
      /\ \A t \in DOMAIN reg : t \in DOMAIN providers \/ t \in {s}
  BY <1>0
<1>5. \A t \in DOMAIN reg : reg[t] \in Provider
  BY <1>0 DEF Provider
<1> HIDE DEF reg
<1> QED
  BY <1>0, <1>1, <1>2, <1>3, <1>4, <1>5, ElectionPreservesInv

\* Every handler preserves the invariant; the ones that elect do so by the
\* lemma above, each with its own table of entries.
LEMMA NextInv == RegistryInv /\ [RegistryNext]_registryVars => RegistryInv'
<1> SUFFICES ASSUME RegistryInv, [RegistryNext]_registryVars
             PROVE  RegistryInv'
  OBVIOUS
<1> USE NoSocketAssumption, TimesAssumption
<1>0. /\ connected \subseteq Sockets
      /\ subscribers \subseteq connected
      /\ DOMAIN providers \subseteq connected
      /\ \A s \in DOMAIN providers : providers[s] \in Provider
      /\ sinceMaintenance \in 0..MaintenanceInterval
      /\ toldActive \in [Sockets -> BOOLEAN]
  BY DEF RegistryInv, RegistryTypeOK
<1>1. ASSUME NEW s \in Sockets, OnNewConnection(s)
      PROVE  RegistryInv'
  <2>1. s \notin DOMAIN providers
    BY <1>1, <1>0 DEF OnNewConnection
  <2> QED
    BY <1>1, <1>0, <2>1 DEF OnNewConnection, RegistryInv, RegistryTypeOK, ElectionIsTotal,
       ActiveIsBest, HasActiveProvider, ToldTheTruth, SilenceIsBounded
<1>2. ASSUME NEW s \in Sockets, OnClientDisconnected(s)
      PROVE  RegistryInv'
  <2>1. CASE s \in DOMAIN providers
    <3> DEFINE reg == [t \in DOMAIN providers \ {s} |-> providers[t]]
    <3>1. RecomputeActiveProvider(reg, connected')
      BY <1>2, <2>1 DEF OnClientDisconnected
    <3>2. Tell(active' # active, {})
      BY <1>2, <2>1 DEF OnClientDisconnected, EmitProviderStatusIfChanged
    <3>3. /\ connected' \in SUBSET Sockets
          /\ subscribers' \subseteq connected'
          /\ sinceMaintenance' \in 0..MaintenanceInterval
      BY <1>2, <1>0 DEF OnClientDisconnected
    <3>4. /\ DOMAIN reg \subseteq Sockets
          /\ \A t \in DOMAIN reg : reg[t] \in Provider /\ t \in DOMAIN providers
      BY <1>0
    <3> HIDE DEF reg
    <3> QED
      BY <3>1, <3>2, <3>3, <3>4, ElectionPreservesInv
  <2>2. CASE s \notin DOMAIN providers
    BY <1>2, <1>0, <2>2 DEF OnClientDisconnected, RegistryInv, RegistryTypeOK,
       ElectionIsTotal, ActiveIsBest, HasActiveProvider, ToldTheTruth, SilenceIsBounded
  <2> QED
    BY <2>1, <2>2
<1>3. ASSUME NEW s \in Sockets, HandleSubscribe(s)
      PROVE  RegistryInv'
  BY <1>3, <1>0 DEF HandleSubscribe, RegistryInv, RegistryTypeOK, ElectionIsTotal,
     ActiveIsBest, HasActiveProvider, ToldTheTruth, SilenceIsBounded
<1>4. ASSUME NEW s \in Sockets, NEW p \in Priorities, HandleUIRegister(s, p)
      PROVE  RegistryInv'
  BY <1>4, RegisterKeepsInv, PrioritiesAssumption
<1>5. ASSUME NEW s \in Sockets, HandleUIHeartbeat(s)
      PROVE  RegistryInv'
  <2> DEFINE reg == [providers EXCEPT ![s].idle = 0]
  <2>1. RecomputeActiveProvider(reg, connected)
    BY <1>5 DEF HandleUIHeartbeat
  <2>2. Tell(active' # active, {s})
    BY <1>5 DEF HandleUIHeartbeat, EmitProviderStatusIfChanged
  <2>3. /\ connected' = connected
        /\ subscribers' \subseteq connected
        /\ sinceMaintenance' \in 0..MaintenanceInterval
    BY <1>5, <1>0 DEF HandleUIHeartbeat
  <2>4. /\ DOMAIN reg \subseteq Sockets
        /\ \A t \in DOMAIN reg : t \in DOMAIN providers
    BY <1>0
  <2>5. \A t \in DOMAIN reg : reg[t] \in Provider
    BY <1>0, <1>5 DEF Provider, HandleUIHeartbeat
  <2> HIDE DEF reg
  <2> QED
    BY <1>0, <2>1, <2>2, <2>3, <2>4, <2>5, ElectionPreservesInv
<1>6. ASSUME NEW s \in Sockets, HandleUIUnregister(s)
      PROVE  RegistryInv'
  <2> DEFINE reg == [t \in DOMAIN providers \ {s} |-> providers[t]]
  <2>1. RecomputeActiveProvider(reg, connected)
    BY <1>6 DEF HandleUIUnregister
  <2>2. Tell(active' # active, {})
    BY <1>6 DEF HandleUIUnregister, EmitProviderStatusIfChanged
  <2>3. /\ connected' = connected
        /\ subscribers' \subseteq connected
        /\ sinceMaintenance' \in 0..MaintenanceInterval
    BY <1>6, <1>0 DEF HandleUIUnregister
  <2>4. /\ DOMAIN reg \subseteq Sockets
        /\ \A t \in DOMAIN reg : reg[t] \in Provider /\ t \in DOMAIN providers
    BY <1>0
  <2> HIDE DEF reg
  <2> QED
    BY <1>0, <2>1, <2>2, <2>3, <2>4, ElectionPreservesInv
<1>7. ASSUME PruneStaleProviders \/ RecomputeOnEmptyStore
      PROVE  RegistryInv'
  <2>1. /\ RecomputeActiveProvider(providers, connected)
        /\ Tell(active' # active, {})
        /\ connected' = connected
        /\ subscribers' \subseteq connected
        /\ sinceMaintenance' \in 0..MaintenanceInterval
    BY <1>7, <1>0 DEF PruneStaleProviders, RecomputeOnEmptyStore, EmitProviderStatusIfChanged
  <2>2. DOMAIN providers \subseteq Sockets
    BY <1>0
  <2> QED
    BY <1>0, <2>1, <2>2, ElectionPreservesInv
<1>8. ASSUME Tick
      PROVE  RegistryInv'
  <2>1. /\ DOMAIN providers' = DOMAIN providers
        /\ \A s \in DOMAIN providers :
              /\ providers'[s].priority = providers[s].priority
              /\ providers'[s].idle = providers[s].idle + 1
              /\ providers'[s] \in Provider
        /\ providers' = [s \in DOMAIN providers' |-> providers'[s]]
    BY <1>8, <1>0 DEF Tick, Provider
  <2>2. /\ UNCHANGED <<connected, subscribers, active, toldActive>>
        /\ sinceMaintenance' = sinceMaintenance + 1
        /\ sinceMaintenance' \in 0..MaintenanceInterval
    BY <1>8, <1>0 DEF Tick
  <2>3. RegistryTypeOK'
    BY <1>0, <2>1, <2>2 DEF RegistryInv, RegistryTypeOK
  <2>4. ElectionIsTotal' /\ ToldTheTruth'
    BY <2>1, <2>2 DEF RegistryInv, ElectionIsTotal, ToldTheTruth
  <2>5. ActiveIsBest'
    BY <1>0, <2>1, <2>2 DEF RegistryInv, ActiveIsBest, HasActiveProvider, Outranks, Provider
  <2>6. SilenceIsBounded'
    BY <1>0, <2>1, <2>2 DEF RegistryInv, SilenceIsBounded, Provider
  <2> QED
    BY <2>3, <2>4, <2>5, <2>6 DEF RegistryInv
<1>9. CASE UNCHANGED registryVars
  BY <1>9 DEF registryVars, RegistryInv, RegistryTypeOK, ElectionIsTotal,
     ActiveIsBest, HasActiveProvider, ToldTheTruth, SilenceIsBounded
<1> QED
  BY <1>1, <1>2, <1>3, <1>4, <1>5, <1>6, <1>7, <1>8, <1>9 DEF RegistryNext

-----------------------------------------------------------------------------

LEMMA Invariance == RegistrySpec => []RegistryInv
BY InitInv, NextInv, PTL DEF RegistrySpec

\* No registry, subscriber list or active pointer ever holds a socket whose
\* connection is gone (onClientDisconnected cleans all three).
THEOREM RegistryTypeCorrect == RegistrySpec => []RegistryTypeOK
<1>1. RegistryInv => RegistryTypeOK
  BY DEF RegistryInv
<1> QED
  BY <1>1, Invariance, PTL

\* With any provider registered, isAuthorized holds of exactly one socket.
THEOREM OneDecider == RegistrySpec => []ExactlyOneDecider
<1>1. RegistryInv => ExactlyOneDecider
  <2> SUFFICES ASSUME RegistryInv, DOMAIN providers # {}
               PROVE  \E s \in connected : \A t \in Sockets : IsAuthorized(t) <=> t = s
    BY DEF ExactlyOneDecider
  <2>1. active \in DOMAIN providers /\ active \in connected
    BY DEF RegistryInv, RegistryTypeOK, ElectionIsTotal
  <2>2. \A t \in Sockets : IsAuthorized(t) <=> t = active
    BY <2>1 DEF IsAuthorized
  <2> QED
    BY <2>1, <2>2
<1> QED
  BY <1>1, Invariance, PTL

\* The active provider is a best one in every state.
THEOREM BestProviderActive == RegistrySpec => []ActiveIsBest
<1>1. RegistryInv => ActiveIsBest
  BY DEF RegistryInv
<1> QED
  BY <1>1, Invariance, PTL

\* Every registered provider knows whether it is the active one.
THEOREM ProvidersKnow == RegistrySpec => []ToldTheTruth
<1>1. RegistryInv => ToldTheTruth
  BY DEF RegistryInv
<1> QED
  BY <1>1, Invariance, PTL

\* A silent provider is gone within the timeout and one maintenance interval.
THEOREM SilentProviderGoes == RegistrySpec => []SilenceIsBounded
<1>1. RegistryInv => SilenceIsBounded
  BY DEF RegistryInv
<1> QED
  BY <1>1, Invariance, PTL

\* An election keeps every entry that is connected and not stale.
LEMMA ElectionKeepsLive ==
    ASSUME NEW reg, NEW conn, DOMAIN reg \subseteq Sockets,
           RecomputeActiveProvider(reg, conn),
           NEW s \in DOMAIN reg, s \in conn, reg[s].idle <= HeartbeatTimeout
    PROVE  s \in DOMAIN providers'
<1>1. DOMAIN providers' = Live(reg, conn)
  BY ElectionFacts
<1>2. s \in Live(reg, conn)
  BY DEF Live
<1> QED
  BY <1>1, <1>2

\* A provider that beats in time is never removed by another socket's message.
THEOREM LiveProviderStays == RegistrySpec => LiveProviderIsKept
<1> DEFINE Kept(s) == \/ s \in DOMAIN providers'
                      \/ providers[s].idle > HeartbeatTimeout
                      \/ s \notin connected'
                      \/ HandleUIUnregister(s)
<1>1. ASSUME RegistryInv, RegistryNext, NEW s \in DOMAIN providers,
             providers[s].idle <= HeartbeatTimeout,
             s \in connected', ~HandleUIUnregister(s)
      PROVE  s \in DOMAIN providers'
  <2>0. /\ DOMAIN providers \subseteq Sockets
        /\ connected \subseteq Sockets
        /\ s \in connected
    BY <1>1 DEF RegistryInv, RegistryTypeOK
  <2>1. ASSUME NEW t \in Sockets, OnNewConnection(t) \/ HandleSubscribe(t)
        PROVE  s \in DOMAIN providers'
    BY <1>1, <2>1 DEF OnNewConnection, HandleSubscribe
  <2>2. ASSUME NEW t \in Sockets, OnClientDisconnected(t)
        PROVE  s \in DOMAIN providers'
    <3>1. s # t
      BY <1>1, <2>2 DEF OnClientDisconnected
    <3>2. CASE t \in DOMAIN providers
      <4> DEFINE reg == [u \in DOMAIN providers \ {t} |-> providers[u]]
      <4>1. RecomputeActiveProvider(reg, connected')
        BY <2>2, <3>2 DEF OnClientDisconnected
      <4>2. s \in DOMAIN reg /\ reg[s] = providers[s] /\ DOMAIN reg \subseteq Sockets
        BY <2>0, <3>1
      <4> HIDE DEF reg
      <4> QED
        BY <1>1, <4>1, <4>2, ElectionKeepsLive
    <3> QED
      BY <1>1, <2>2, <3>2 DEF OnClientDisconnected
  <2>3. ASSUME NEW t \in Sockets, NEW p \in Priorities, HandleUIRegister(t, p)
        PROVE  s \in DOMAIN providers'
    <3> DEFINE reg == [u \in DOMAIN providers \cup {t} |->
                          IF u = t THEN [priority |-> p, idle |-> 0] ELSE providers[u]]
    <3>1. RecomputeActiveProvider(reg, connected)
      BY <2>3 DEF HandleUIRegister
    <3>2. s \in DOMAIN reg /\ DOMAIN reg \subseteq Sockets
      BY <2>0
    <3>3. reg[s].idle <= HeartbeatTimeout
      BY <1>1, TimesAssumption
    <3> HIDE DEF reg
    <3> QED
      BY <2>0, <3>1, <3>2, <3>3, ElectionKeepsLive
  <2>4. ASSUME NEW t \in Sockets, HandleUIHeartbeat(t)
        PROVE  s \in DOMAIN providers'
    <3> DEFINE reg == [providers EXCEPT ![t].idle = 0]
    <3>1. RecomputeActiveProvider(reg, connected)
      BY <2>4 DEF HandleUIHeartbeat
    <3>2. s \in DOMAIN reg /\ DOMAIN reg \subseteq Sockets
      BY <2>0, <1>1
    <3>3. reg[s].idle <= HeartbeatTimeout
      <4>1. providers[s] \in Provider
        BY <1>1 DEF RegistryInv, RegistryTypeOK
      <4> QED
        BY <1>1, <4>1, TimesAssumption DEF Provider
    <3> HIDE DEF reg
    <3> QED
      BY <2>0, <3>1, <3>2, <3>3, ElectionKeepsLive
  <2>5. ASSUME NEW t \in Sockets, HandleUIUnregister(t)
        PROVE  s \in DOMAIN providers'
    <3> DEFINE reg == [u \in DOMAIN providers \ {t} |-> providers[u]]
    <3>1. RecomputeActiveProvider(reg, connected)
      BY <2>5 DEF HandleUIUnregister
    <3>2. s # t
      BY <1>1, <2>5
    <3>3. s \in DOMAIN reg /\ reg[s] = providers[s] /\ DOMAIN reg \subseteq Sockets
      BY <2>0, <3>2
    <3> HIDE DEF reg
    <3> QED
      BY <1>1, <2>0, <3>1, <3>3, ElectionKeepsLive
  <2>6. ASSUME PruneStaleProviders \/ RecomputeOnEmptyStore
        PROVE  s \in DOMAIN providers'
    <3>1. RecomputeActiveProvider(providers, connected)
      BY <2>6 DEF PruneStaleProviders, RecomputeOnEmptyStore
    <3> QED
      BY <1>1, <2>0, <3>1, ElectionKeepsLive
  <2>7. ASSUME Tick
        PROVE  s \in DOMAIN providers'
    BY <1>1, <2>7 DEF Tick
  <2> QED
    BY <1>1, <2>1, <2>2, <2>3, <2>4, <2>5, <2>6, <2>7 DEF RegistryNext
<1>2. ASSUME RegistryInv, [RegistryNext]_registryVars
      PROVE  [\A s \in DOMAIN providers : Kept(s)]_registryVars
  <2>1. ASSUME RegistryNext, NEW s \in DOMAIN providers
        PROVE  Kept(s)
    <3>1. providers[s].idle \in Int
      BY <1>2, <2>1 DEF RegistryInv, RegistryTypeOK, Provider
    <3> QED
      BY <1>1, <1>2, <2>1, <3>1, TimesAssumption
  <2> QED
    BY <1>2, <2>1
<1> QED
  BY <1>2, Invariance, PTL DEF RegistrySpec, LiveProviderIsKept
=============================================================================
