------------------------ MODULE PolkitListenerProofs ------------------------
(***************************************************************************)
(* Proofs about PolkitListener, for any number of authentications, helper  *)
(* objects and attempts.                                                   *)
(***************************************************************************)
EXTENDS PolkitListener, TLAPS

Store == [Cookies -> Session \cup {NoSession}]

\* An attempt that is under way has a helper.
LEMMA StateHasHelper ==
    /\ \A s \in State : s.session \in Helpers /\ s # NoState
    /\ NoState.session = NoHelper
<1>1. NoState.session = NoHelper
  BY DEF NoState
<1>2. \A s \in State : s.session \in Helpers
  BY DEF State
<1> QED
  BY <1>1, <1>2, NoHelperAssumption

\* No update opens or closes a session.
LEMMA UpdatesKeepSessions ==
    ASSUME NEW old \in Store, NEW c \in Cookies
    PROVE  /\ UpdateError(old, c) \in Store
           /\ \A d \in Cookies : UpdateError(old, c)[d].source = old[d].source
           /\ UpdatePrompt(old, c, TRUE) \in Store
           /\ \A d \in Cookies : UpdatePrompt(old, c, TRUE)[d].source = old[d].source
<1>1. CASE ~IsOpen(old, c)
  BY <1>1 DEF UpdateError, UpdatePrompt
<1>2. CASE IsOpen(old, c)
  <2>1. old[c] \in Session
    BY <1>2 DEF Store, IsOpen, NoSession
  <2> QED
    BY <1>2, <2>1 DEF UpdateError, UpdatePrompt, Store, Session
<1> QED
  BY <1>1, <1>2

-----------------------------------------------------------------------------
(* The inductive invariant: the three properties, and that an              *)
(* authentication in progress has a prompt.                                *)

Tables ==
    /\ states \in [Cookies -> State \cup {NoState}]
    /\ sessionState \in [Helpers -> Cookies \cup {NoCookie}]
    /\ running \subseteq Helpers
    /\ store \in Store
    /\ replies \in [Cookies -> {0, 1}]

PromptsOpen == \A c \in InProgress : IsOpen(store, c)

ListenerInv ==
    Tables /\ CurrentSessionOnly /\ RepliedExactlyOnce /\ HelpersBelong /\ PromptsOpen

LEMMA ListenerInitInv == ListenerInit => ListenerInv
<1> SUFFICES ASSUME ListenerInit PROVE ListenerInv
  OBVIOUS
<1>1. Tables
  BY DEF ListenerInit, Tables, Store
<1>2. InProgress = {}
  BY DEF ListenerInit, InProgress
<1>3. CurrentSessionOnly
  BY NoCookieAssumption DEF ListenerInit, CurrentSessionOnly
<1>4. RepliedExactlyOnce
  BY DEF ListenerInit, RepliedExactlyOnce
<1> QED
  BY <1>1, <1>2, <1>3, <1>4 DEF ListenerInit, ListenerInv, HelpersBelong, PromptsOpen

\* Whoever finishes authentications keeps the invariant, whichever helpers it
\* has just started.
LEMMA FinishAuthKeeps ==
    ASSUME ListenerInv, NEW cs \in SUBSET InProgress, NEW extra \in SUBSET Helpers,
           FinishAuth(cs, extra), running' \subseteq running \cup extra
    PROVE  ListenerInv'
<1> USE DEF InProgress
<1>1. Tables'
  <2>1. CloseSessions(store, cs) \in Store
    BY DEF ListenerInv, Tables, Store, CloseSessions
  <2>2. replies' \in [Cookies -> {0, 1}]
    BY DEF ListenerInv, Tables, FinishAuth, RepliedExactlyOnce
  <2> QED
    BY <2>1, <2>2 DEF ListenerInv, Tables, FinishAuth
<1>2. CurrentSessionOnly'
  <2> SUFFICES ASSUME NEW h \in Helpers, NEW c \in Cookies
               PROVE  sessionState'[h] = c <=> states'[c] # NoState /\ states'[c].session = h
    BY DEF CurrentSessionOnly
  <2>1. sessionState[h] = c <=> states[c] # NoState /\ states[c].session = h
    BY DEF ListenerInv, CurrentSessionOnly
  <2>2. CASE c \in cs
    BY <2>1, <2>2, NoCookieAssumption DEF ListenerInv, Tables, FinishAuth
  <2>3. CASE c \notin cs
    BY <2>1, <2>3, NoCookieAssumption DEF ListenerInv, Tables, FinishAuth
  <2> QED
    BY <2>2, <2>3
<1>3. RepliedExactlyOnce'
  BY DEF ListenerInv, Tables, FinishAuth, RepliedExactlyOnce
<1>4. HelpersBelong'
  <2> SUFFICES ASSUME NEW h \in running', h \notin doomed'
               PROVE  \E c \in InProgress' : states'[c].session = h /\ IsOpen(store', c)
    BY DEF HelpersBelong
  <2>1. h \in running \ doomed /\ h \notin HelpersOf(cs)
    BY DEF FinishAuth
  <2>2. PICK c \in InProgress : states[c].session = h /\ IsOpen(store, c)
    BY <2>1 DEF ListenerInv, HelpersBelong
  <2>3. c \notin cs
    BY <2>1, <2>2 DEF ListenerInv, Tables, CurrentSessionOnly, HelpersOf
  <2> QED
    BY <2>2, <2>3 DEF ListenerInv, Tables, Store, FinishAuth, CloseSessions, IsOpen
<1>5. PromptsOpen'
  BY DEF ListenerInv, Tables, Store, PromptsOpen, FinishAuth, CloseSessions, IsOpen
<1> QED
  BY <1>1, <1>2, <1>3, <1>4, <1>5 DEF ListenerInv

\* A new attempt takes over the entry of the last one.
LEMMA ReattemptKeeps ==
    ASSUME ListenerInv, NEW c \in InProgress, NEW r \in 0..(MaxAuthRetries - 1),
           NEW g \in Unused, Reattempt(c, r, g), running' \subseteq running \cup {g}
    PROVE  ListenerInv'
<1> USE DEF InProgress
<1>0. /\ g \in Helpers /\ sessionState[g] = NoCookie
      /\ states' = [states EXCEPT ![c] = [retryCount |-> r, session |-> g]]
      /\ [retryCount |-> r, session |-> g] \in State
  BY DEF Unused, State, Reattempt
<1>1. Tables'
  BY <1>0, UpdatesKeepSessions DEF ListenerInv, Tables, Reattempt
<1>2. CurrentSessionOnly'
  <2> SUFFICES ASSUME NEW h \in Helpers, NEW d \in Cookies
               PROVE  sessionState'[h] = d <=> states'[d] # NoState /\ states'[d].session = h
    BY DEF CurrentSessionOnly
  <2>1. sessionState[h] = d <=> states[d] # NoState /\ states[d].session = h
    BY DEF ListenerInv, CurrentSessionOnly
  <2>2. CASE d = c
    BY <1>0, <2>2, StateHasHelper, NoCookieAssumption DEF ListenerInv, Tables, Reattempt
  <2>3. CASE d # c
    BY <1>0, <2>1, <2>3, NoCookieAssumption DEF ListenerInv, Tables, Reattempt
  <2> QED
    BY <2>2, <2>3
<1>3. RepliedExactlyOnce'
  BY <1>0, StateHasHelper DEF ListenerInv, Tables, Reattempt, RepliedExactlyOnce
<1>4. HelpersBelong'
  <2> SUFFICES ASSUME NEW h \in running', h \notin doomed'
               PROVE  \E d \in InProgress' : states'[d].session = h /\ IsOpen(store', d)
    BY DEF HelpersBelong
  <2>1. \A d \in Cookies : IsOpen(store', d) <=> IsOpen(store, d)
    BY UpdatesKeepSessions DEF ListenerInv, Tables, Reattempt, IsOpen
  <2>2. CASE h = g
    BY <1>0, <2>1, <2>2, StateHasHelper DEF ListenerInv, Tables, PromptsOpen
  <2>3. CASE h # g
    <3>1. h \in running \ doomed /\ h \notin HelpersOf({c})
      BY <2>3 DEF Reattempt
    <3>2. PICK d \in InProgress : states[d].session = h /\ IsOpen(store, d)
      BY <3>1 DEF ListenerInv, HelpersBelong
    <3>3. d # c
      BY <3>1, <3>2 DEF ListenerInv, Tables, CurrentSessionOnly, HelpersOf
    <3> QED
      BY <1>0, <2>1, <3>2, <3>3 DEF ListenerInv, Tables
  <2> QED
    BY <2>2, <2>3
<1>5. PromptsOpen'
  BY <1>0, UpdatesKeepSessions DEF ListenerInv, Tables, PromptsOpen, Reattempt, IsOpen
<1> QED
  BY <1>1, <1>2, <1>3, <1>4, <1>5 DEF ListenerInv

\* A helper that still has an entry works for an authentication in progress.
LEMMA EntryIsInProgress ==
    ASSUME ListenerInv, NEW h \in Helpers, sessionState[h] # NoCookie
    PROVE  /\ sessionState[h] \in InProgress
           /\ states[sessionState[h]].session = h
           /\ states[sessionState[h]].retryCount \in 0..(MaxAuthRetries - 1)
<1>1. sessionState[h] \in Cookies
  BY DEF ListenerInv, Tables
<1>2. states[sessionState[h]] # NoState /\ states[sessionState[h]].session = h
  BY <1>1 DEF ListenerInv, CurrentSessionOnly
<1> QED
  BY <1>1, <1>2 DEF ListenerInv, Tables, InProgress, State

\* An attempt that is told to change only prompts.
LEMMA PromptUpdateKeeps ==
    ASSUME ListenerInv, NEW c \in Cookies,
           store' \in {UpdateError(store, c), UpdatePrompt(store, c, TRUE)},
           UNCHANGED <<states, sessionState, running, doomed, replies>>
    PROVE  ListenerInv'
<1>1. /\ store' \in Store
      /\ \A d \in Cookies : IsOpen(store', d) <=> IsOpen(store, d)
  <2>1. store \in Store
    BY DEF ListenerInv, Tables
  <2>2. CASE store' = UpdateError(store, c)
    BY <2>1, <2>2, UpdatesKeepSessions DEF IsOpen
  <2>3. CASE store' = UpdatePrompt(store, c, TRUE)
    BY <2>1, <2>3, UpdatesKeepSessions DEF IsOpen
  <2> QED
    BY <2>2, <2>3
<1>2. InProgress' = InProgress
  BY DEF InProgress
<1>3. Tables'
  BY <1>1 DEF ListenerInv, Tables
<1>4. CurrentSessionOnly' /\ RepliedExactlyOnce'
  BY DEF ListenerInv, CurrentSessionOnly, RepliedExactlyOnce
<1>5. HelpersBelong' /\ PromptsOpen'
  BY <1>1, <1>2 DEF ListenerInv, HelpersBelong, PromptsOpen, InProgress
<1> QED
  BY <1>3, <1>4, <1>5 DEF ListenerInv

\* A helper that ends, by itself or deleted.
LEMMA HelperEndsKeeps ==
    ASSUME ListenerInv, NEW h \in Helpers,
           doomed' = doomed \/ doomed' = doomed \ {h},
           running' = running \ {h},
           UNCHANGED <<states, sessionState, store, replies>>
    PROVE  ListenerInv'
<1>1. Tables'
  BY DEF ListenerInv, Tables
<1>2. CurrentSessionOnly' /\ RepliedExactlyOnce'
  BY DEF ListenerInv, CurrentSessionOnly, RepliedExactlyOnce
<1>3. HelpersBelong' /\ PromptsOpen'
  BY DEF ListenerInv, HelpersBelong, PromptsOpen, InProgress
<1> QED
  BY <1>1, <1>2, <1>3 DEF ListenerInv

LEMMA InitiateKeeps ==
    ASSUME ListenerInv, NEW c \in Cookies, InitiateAuthentication(c)
    PROVE  ListenerInv'
<1> USE DEF InProgress
<1> PICK r \in 0..(MaxAuthRetries - 1), h \in Unused :
        LET new == CreateSession(store, c, "polkit", 0)
        IN  /\ states' = [states EXCEPT ![c] = [retryCount |-> r, session |-> h]]
            /\ sessionState' = [sessionState EXCEPT ![h] = c]
            /\ running' = running \cup {h}
            /\ store' = IF r > 0 THEN UpdateError(new, c) ELSE new
  BY DEF InitiateAuthentication
<1> DEFINE new == CreateSession(store, c, "polkit", 0)
<1>0. /\ h \in Helpers /\ sessionState[h] = NoCookie /\ h \notin doomed
      /\ states[c] = NoState /\ ~IsOpen(store, c)
      /\ [retryCount |-> r, session |-> h] \in State
      /\ replies' = [replies EXCEPT ![c] = 0] /\ UNCHANGED doomed
  BY DEF Unused, State, InitiateAuthentication
<1>1. /\ new \in Store
      /\ IsOpen(new, c)
      /\ \A d \in Cookies : IsOpen(store, d) => IsOpen(new, d)
  BY <1>0 DEF ListenerInv, Tables, Store, CreateSession, IsOpen, Session, Sources, NoSession
<1>2. /\ store' \in Store
      /\ \A d \in Cookies : IsOpen(store', d) <=> IsOpen(new, d)
  BY <1>1, UpdatesKeepSessions DEF IsOpen
<1>3. Tables'
  BY <1>0, <1>2 DEF ListenerInv, Tables
<1>4. CurrentSessionOnly'
  <2> SUFFICES ASSUME NEW g \in Helpers, NEW d \in Cookies
               PROVE  sessionState'[g] = d <=> states'[d] # NoState /\ states'[d].session = g
    BY DEF CurrentSessionOnly
  <2>1. sessionState[g] = d <=> states[d] # NoState /\ states[d].session = g
    BY DEF ListenerInv, CurrentSessionOnly
  <2>2. CASE d = c
    BY <1>0, <2>1, <2>2, StateHasHelper, NoCookieAssumption DEF ListenerInv, Tables
  <2>3. CASE d # c
    BY <1>0, <2>1, <2>3, NoCookieAssumption DEF ListenerInv, Tables
  <2> QED
    BY <2>2, <2>3
<1>5. RepliedExactlyOnce'
  BY <1>0, StateHasHelper DEF ListenerInv, Tables, RepliedExactlyOnce
<1>6. HelpersBelong'
  <2> SUFFICES ASSUME NEW g \in running', g \notin doomed'
               PROVE  \E d \in InProgress' : states'[d].session = g /\ IsOpen(store', d)
    BY DEF HelpersBelong
  <2>1. CASE g = h
    BY <1>0, <1>1, <1>2, <2>1, StateHasHelper DEF ListenerInv, Tables
  <2>2. CASE g # h
    <3>1. PICK d \in InProgress : states[d].session = g /\ IsOpen(store, d)
      BY <1>0, <2>2 DEF ListenerInv, HelpersBelong
    <3>2. d # c
      BY <1>0, <3>1
    <3> QED
      BY <1>0, <1>1, <1>2, <3>1, <3>2 DEF ListenerInv, Tables
  <2> QED
    BY <2>1, <2>2
<1>7. PromptsOpen'
  BY <1>0, <1>1, <1>2 DEF ListenerInv, Tables, PromptsOpen
<1> QED
  BY <1>3, <1>4, <1>5, <1>6, <1>7 DEF ListenerInv

LEMMA CancelKeeps ==
    ASSUME ListenerInv, NEW c \in Cookies, CancelPending(c)
    PROVE  ListenerInv'
<1>1. {c} \in SUBSET InProgress
  BY DEF CancelPending, InProgress
<1>2. CASE CancelSilently(c)
  BY <1>1, <1>2, FinishAuthKeeps DEF CancelSilently
<1>3. CASE CancelAfterReattempt(c)
  <2> PICK r \in NextTries(states[c].retryCount), g \in Unused :
          FinishAuth({c}, {g}) /\ running' = (running \ {states[c].session}) \cup {g}
    BY <1>3 DEF CancelAfterReattempt
  <2>1. {g} \in SUBSET Helpers /\ running' \subseteq running \cup {g}
    BY DEF Unused
  <2> QED
    BY <1>1, <2>1, FinishAuthKeeps
<1>4. CASE CancelLastAttempt(c)
  BY <1>1, <1>4, FinishAuthKeeps DEF CancelLastAttempt
<1> QED
  BY <1>2, <1>3, <1>4 DEF CancelPending

LEMMA CompletedKeeps ==
    ASSUME ListenerInv, NEW h \in Helpers, OnSessionCompleted(h)
    PROVE  ListenerInv'
<1>1. CASE IgnoredVerdict(h)
  BY <1>1, HelperEndsKeeps DEF IgnoredVerdict
<1>2. CASE AuthorizationGained(h)
  <2>1. {sessionState[h]} \in SUBSET InProgress
    BY <1>2, EntryIsInProgress DEF AuthorizationGained
  <2> QED
    BY <1>2, <2>1, FinishAuthKeeps DEF AuthorizationGained
<1>3. CASE AuthorizationFailed(h)
  <2> DEFINE c == sessionState[h]
  <2>1. /\ c \in InProgress
        /\ NextTries(states[c].retryCount) \subseteq 0..(MaxAuthRetries - 1)
    BY <1>3, EntryIsInProgress, RetriesAssumption DEF AuthorizationFailed, NextTries
  <2>2. CASE \E r \in NextTries(states[c].retryCount), g \in Unused :
                 Reattempt(c, r, g) /\ running' = (running \ {h}) \cup {g}
    <3> PICK r \in NextTries(states[c].retryCount), g \in Unused :
            Reattempt(c, r, g) /\ running' = (running \ {h}) \cup {g}
      BY <2>2
    <3>1. r \in 0..(MaxAuthRetries - 1) /\ running' \subseteq running \cup {g}
      BY <2>1
    <3> HIDE DEF c
    <3> QED
      BY <2>1, <3>1, ReattemptKeeps
  <2>3. CASE FinishAuth({c}, {}) /\ running' = running \ {h}
    BY <2>1, <2>3, FinishAuthKeeps
  <2> QED
    BY <1>3, <2>2, <2>3 DEF AuthorizationFailed
<1> QED
  BY <1>1, <1>2, <1>3 DEF OnSessionCompleted

-----------------------------------------------------------------------------
LEMMA ListenerNextInv == ListenerInv /\ [ListenerNext]_listenerVars => ListenerInv'
<1> SUFFICES ASSUME ListenerInv, [ListenerNext]_listenerVars PROVE ListenerInv'
  OBVIOUS
<1>1. ASSUME NEW c \in Cookies, InitiateAuthentication(c) PROVE ListenerInv'
  BY <1>1, InitiateKeeps
<1>2. ASSUME NEW c \in Cookies, CancelPending(c) PROVE ListenerInv'
  BY <1>2, CancelKeeps
<1>3. CASE CancelAuthentication
  BY <1>3, FinishAuthKeeps DEF CancelAuthentication
<1>4. ASSUME NEW h \in Helpers, OnSessionRequest(h) PROVE ListenerInv'
  <2>1. sessionState[h] \in Cookies
    BY <1>4, EntryIsInProgress DEF OnSessionRequest, InProgress
  <2> QED
    BY <1>4, <2>1, PromptUpdateKeeps DEF OnSessionRequest
<1>5. ASSUME NEW h \in Helpers, OnSessionError(h) PROVE ListenerInv'
  <2>1. sessionState[h] \in Cookies
    BY <1>5, EntryIsInProgress DEF OnSessionError, InProgress
  <2> QED
    BY <1>5, <2>1, PromptUpdateKeeps DEF OnSessionError
<1>6. ASSUME NEW h \in Helpers, OnSessionCompleted(h) PROVE ListenerInv'
  BY <1>6, CompletedKeeps
<1>7. ASSUME NEW h \in Helpers, DeferredDelete(h) PROVE ListenerInv'
  BY <1>7, HelperEndsKeeps DEF DeferredDelete
<1>8. CASE UNCHANGED listenerVars
  BY <1>8 DEF listenerVars, ListenerInv, Tables, CurrentSessionOnly, RepliedExactlyOnce,
              HelpersBelong, PromptsOpen, InProgress
<1> QED
  BY <1>1, <1>2, <1>3, <1>4, <1>5, <1>6, <1>7, <1>8 DEF ListenerNext

THEOREM ListenerInvHolds == ListenerSpec => []ListenerInv
BY ListenerInitInv, ListenerNextInv, PTL DEF ListenerSpec

\* The two tables of the listener agree: however verdicts, cancels inside
\* verdicts and deferred deletes interleave, an authentication hears the helper
\* of its last attempt and no other.
THEOREM HelperTablesAgree == ListenerSpec => []CurrentSessionOnly
<1>1. ListenerInv => CurrentSessionOnly
  BY DEF ListenerInv
<1> QED
  BY <1>1, ListenerInvHolds, PTL

\* polkitd gets exactly one answer per authentication, although the last
\* attempt's failure, the user's cancel and polkitd's own cancel may each end it.
THEOREM OneReply == ListenerSpec => []RepliedExactlyOnce
<1>1. ListenerInv => RepliedExactlyOnce
  BY DEF ListenerInv
<1> QED
  BY <1>1, ListenerInvHolds, PTL

\* No helper process outlives the attempt it was started for, other than until
\* its deferred deletion.
THEOREM NoHelperLeft == ListenerSpec => []HelpersBelong
<1>1. ListenerInv => HelpersBelong
  BY DEF ListenerInv
<1> QED
  BY <1>1, ListenerInvHolds, PTL

-----------------------------------------------------------------------------
(* The listener implements the polkit part of AuthSessions.  The helpers,  *)
(* the attempts and the deferred deletes are its own; what the rest of the *)
(* daemon sees is which cookies are in progress and their prompts.         *)

\* The refinement mapping uses the store's operators on the same values.
LEMMA SameStore ==
    /\ \A c : Auth!UpdateError(store, c) = UpdateError(store, c)
    /\ \A c : Auth!UpdatePrompt(store, c, TRUE) = UpdatePrompt(store, c, TRUE)
    /\ \A cs : Auth!CloseSessions(store, cs) = CloseSessions(store, cs)
    /\ \A c : Auth!CreateSession(store, c, "polkit", 0) = CreateSession(store, c, "polkit", 0)
    /\ \A new, c : Auth!UpdateError(new, c) = UpdateError(new, c)
BY DEF UpdateError, UpdatePrompt, CloseSessions, CreateSession, IsOpen, NoSession,
       Auth!UpdateError, Auth!UpdatePrompt, Auth!CloseSessions, Auth!CreateSession,
       Auth!IsOpen, Auth!NoSession

LEMMA FinishImplements ==
    ASSUME ListenerInv, NEW cs \in SUBSET InProgress, NEW extra, FinishAuth(cs, extra)
    PROVE  Auth!Next
<1>1. InProgress' = InProgress \ cs
  BY DEF ListenerInv, Tables, FinishAuth, InProgress
<1>2. cs \in SUBSET Cookies /\ cs \subseteq InProgress
  BY DEF InProgress
<1>3. Auth!PolkitComplete(cs)
  BY <1>1, <1>2, SameStore DEF FinishAuth, Auth!PolkitComplete, Auth!pinentryVars
<1> QED
  BY <1>2, <1>3 DEF Auth!Next

\* A prompt changes while the same authentications go on.
LEMMA UpdateImplements ==
    ASSUME NEW c \in InProgress, InProgress' = InProgress,
           store' \in {UpdateError(store, c), UpdatePrompt(store, c, TRUE)}
    PROVE  Auth!Next
<1>1. c \in Cookies
  BY DEF InProgress
<1>2. Auth!PolkitError(c) \/ Auth!PolkitPrompt(c)
  BY SameStore DEF Auth!PolkitError, Auth!PolkitPrompt, Auth!pinentryVars
<1> QED
  BY <1>1, <1>2 DEF Auth!Next

LEMMA InitiateImplements ==
    ASSUME ListenerInv, NEW c \in Cookies, InitiateAuthentication(c)
    PROVE  Auth!Next
<1> PICK r \in 0..(MaxAuthRetries - 1), h \in Unused :
        LET new == CreateSession(store, c, "polkit", 0)
        IN  /\ states' = [states EXCEPT ![c] = [retryCount |-> r, session |-> h]]
            /\ store' = IF r > 0 THEN UpdateError(new, c) ELSE new
  BY DEF InitiateAuthentication
<1>1. InProgress' = InProgress \cup {c} /\ c \notin InProgress
  <2>1. states[c] = NoState /\ h \in Helpers
    BY DEF InitiateAuthentication, Unused
  <2>2. [retryCount |-> r, session |-> h] # NoState
    BY <2>1, NoHelperAssumption DEF NoState
  <2> QED
    BY <2>1, <2>2 DEF ListenerInv, Tables, InProgress
<1>2. ~Auth!IsOpen(store, c)
  BY DEF InitiateAuthentication, IsOpen, Auth!IsOpen
<1>3. Auth!InitiateAuthentication(c, r > 0)
  BY <1>1, <1>2, SameStore DEF Auth!InitiateAuthentication, Auth!pinentryVars
<1>4. (r > 0) \in BOOLEAN
  OBVIOUS
<1> QED
  BY <1>3, <1>4 DEF Auth!Next

LEMMA ReattemptImplements ==
    ASSUME ListenerInv, NEW c \in InProgress, NEW r, NEW g \in Unused, Reattempt(c, r, g)
    PROVE  Auth!Next
<1>1. [retryCount |-> r, session |-> g] # NoState
  BY NoHelperAssumption DEF NoState, Unused
<1>2. InProgress' = InProgress
  BY <1>1 DEF ListenerInv, Tables, Reattempt, InProgress
<1> QED
  BY <1>2, UpdateImplements DEF Reattempt

LEMMA CompletedImplements ==
    ASSUME ListenerInv, NEW h \in Helpers, OnSessionCompleted(h)
    PROVE  Auth!Next \/ UNCHANGED Auth!vars
<1>1. CASE IgnoredVerdict(h)
  BY <1>1 DEF IgnoredVerdict, InProgress, Auth!vars, Auth!pinentryVars
<1>2. CASE AuthorizationGained(h)
  BY <1>2, EntryIsInProgress, FinishImplements DEF AuthorizationGained
<1>3. CASE AuthorizationFailed(h)
  <2>1. sessionState[h] \in InProgress
    BY <1>3, EntryIsInProgress DEF AuthorizationFailed
  <2> QED
    BY <1>3, <2>1, FinishImplements, ReattemptImplements DEF AuthorizationFailed
<1> QED
  BY <1>1, <1>2, <1>3 DEF OnSessionCompleted

LEMMA NextImplements ==
    ListenerInv /\ [ListenerNext]_listenerVars => Auth!Next \/ UNCHANGED Auth!vars
<1> SUFFICES ASSUME ListenerInv, [ListenerNext]_listenerVars
             PROVE  Auth!Next \/ UNCHANGED Auth!vars
  OBVIOUS
<1>1. ASSUME NEW c \in Cookies, InitiateAuthentication(c) PROVE Auth!Next
  BY <1>1, InitiateImplements
<1>2. ASSUME NEW c \in Cookies, CancelPending(c) PROVE Auth!Next
  <2>1. {c} \in SUBSET InProgress
    BY <1>2 DEF CancelPending, InProgress
  <2>2. \E extra : FinishAuth({c}, extra)
    BY <1>2 DEF CancelPending, CancelSilently, CancelAfterReattempt, CancelLastAttempt
  <2> QED
    BY <2>1, <2>2, FinishImplements
<1>3. CASE CancelAuthentication
  BY <1>3, FinishImplements DEF CancelAuthentication
<1>4. ASSUME NEW h \in Helpers, OnSessionRequest(h) \/ OnSessionError(h) PROVE Auth!Next
  <2>1. sessionState[h] \in InProgress /\ InProgress' = InProgress
    BY <1>4, EntryIsInProgress DEF OnSessionRequest, OnSessionError, InProgress
  <2> QED
    BY <1>4, <2>1, UpdateImplements DEF OnSessionRequest, OnSessionError
<1>5. ASSUME NEW h \in Helpers, OnSessionCompleted(h)
      PROVE  Auth!Next \/ UNCHANGED Auth!vars
  BY <1>5, CompletedImplements
<1>6. ASSUME NEW h \in Helpers, DeferredDelete(h) PROVE UNCHANGED Auth!vars
  BY <1>6 DEF DeferredDelete, InProgress, Auth!vars, Auth!pinentryVars
<1>7. CASE UNCHANGED listenerVars
  BY <1>7 DEF listenerVars, InProgress, Auth!vars, Auth!pinentryVars
<1> QED
  BY <1>1, <1>2, <1>3, <1>4, <1>5, <1>6, <1>7 DEF ListenerNext

\* Towards the sessions the listener is what AuthSessions takes it for: what
\* helpers, attempts and nested verdicts do amounts to the five polkit actions
\* there.
THEOREM ListenerImplementsSessions == ListenerSpec => KeepsSessions
<1>1. ListenerInit => Auth!Init
  BY DEF ListenerInit, Auth!Init, InProgress, NoSession, Auth!NoSession
<1>2. ListenerInv /\ [ListenerNext]_listenerVars => [Auth!Next]_(Auth!vars)
  BY NextImplements
<1> QED
  BY <1>1, <1>2, ListenerInvHolds, PTL DEF ListenerSpec, KeepsSessions, Auth!Spec
=============================================================================
