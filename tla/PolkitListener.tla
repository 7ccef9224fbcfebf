--------------------------- MODULE PolkitListener ---------------------------
(***************************************************************************)
(* The daemon as polkit's authentication agent                             *)
(* (src/core/PolkitListener.cpp).  For every authentication polkitd starts *)
(* the listener runs a helper process through a PolkitQt1::Agent::Session  *)
(* object, called a helper here, and replaces it when the attempt failed.  *)
(*                                                                         *)
(* Two tables must stay in step over handlers that call each other: the    *)
(* helpers are looked up by object, the authentications by cookie.  A      *)
(* replaced helper is deleted by the event loop later and may still signal *)
(* until then; and the polkit library completes a session inside the call  *)
(* that starts or cancels it.                                              *)
(***************************************************************************)
EXTENDS SessionStore, FiniteSets

CONSTANTS
    Cookies,         \* cookies polkitd draws
    NoCookie,        \* no entry in m_sessionToState
    Helpers,         \* session objects
    NoHelper,
    MaxAuthRetries   \* SessionState::MAX_AUTH_RETRIES

ASSUME NoCookieAssumption == NoCookie \notin Cookies
ASSUME NoHelperAssumption == NoHelper \notin Helpers
ASSUME RetriesAssumption == MaxAuthRetries \in Nat \ {0}

VARIABLES
    states,        \* m_cookieToState
    sessionState,  \* m_sessionToState: helper -> cookie
    running,       \* helpers that may still signal
    doomed,        \* helpers handed to deleteLater
    store,         \* the daemon's sessions
    replies,       \* history: setCompleted calls on the last result of a cookie
    stale,         \* history: finishAuth ran on a state that was finished
    alive          \* the daemon has not crashed

listenerVars == <<states, sessionState, running, doomed, store, replies, stale, alive>>

\* Between handlers inProgress is true, gainedAuth and cancelled are false.
State == [retryCount : 0..(MaxAuthRetries - 1), session : Helpers]
NoState == [retryCount |-> 0, session |-> NoHelper]

InProgress == {c \in Cookies : states[c] # NoState}

HelpersOf(cs) == {h \in Helpers : sessionState[h] \in cs}

Unused == {h \in Helpers : sessionState[h] = NoCookie /\ h \notin doomed}

ListenerInit ==
    /\ states = [c \in Cookies |-> NoState]
    /\ sessionState = [h \in Helpers |-> NoCookie]
    /\ running = {} /\ doomed = {}
    /\ store = [c \in Cookies |-> NoSession]
    /\ replies = [c \in Cookies |-> 1]
    /\ stale = FALSE /\ alive = TRUE

-----------------------------------------------------------------------------
(* finishAuth.                                                             *)

(***************************************************************************)
(* The attempts that can be under way after attempt r failed: initiate()   *)
(* reports a helper it cannot run at once, from inside reattempt, which is *)
(* one more failed attempt.  When all of them fail the authentication is   *)
(* over.                                                                   *)
(***************************************************************************)
NextTries(r) == (r + 1)..(MaxAuthRetries - 1)

\* Defective variants: the old helper keeps its entry; the result is completed
\* with every failed attempt.
ReattemptKeepEntry(c, r, h) ==
    /\ states' = [states EXCEPT ![c] = [retryCount |-> r, session |-> h]]
    /\ sessionState' = [sessionState EXCEPT ![h] = c]
    /\ doomed' = doomed \cup HelpersOf({c})
    /\ store' = UpdateError(store, c)
    /\ UNCHANGED replies

ReattemptAndReply(c, r, h) ==
    /\ states' = [states EXCEPT ![c] = [retryCount |-> r, session |-> h]]
    /\ sessionState' = [g \in Helpers |->
           IF g = h THEN c ELSE IF sessionState[g] = c THEN NoCookie ELSE sessionState[g]]
    /\ doomed' = doomed \cup HelpersOf({c})
    /\ store' = UpdateError(store, c)
    /\ replies' = [replies EXCEPT ![c] = @ + 1]

\* The next attempt, with helper h.
Reattempt(c, r, h) ==
    /\ states' = [states EXCEPT ![c] = [retryCount |-> r, session |-> h]]
    /\ sessionState' = [g \in Helpers |->
           IF g = h THEN c ELSE IF sessionState[g] = c THEN NoCookie ELSE sessionState[g]]
    /\ doomed' = doomed \cup HelpersOf({c})
    /\ store' = UpdateError(store, c)
    /\ UNCHANGED replies

\* Defective variants: helpers are not deleted; the agent is not told.
FinishAuthLeak(cs, extra) ==
    /\ states' = [c \in Cookies |-> IF c \in cs THEN NoState ELSE states[c]]
    /\ sessionState' = [h \in Helpers |->
           IF sessionState[h] \in cs THEN NoCookie ELSE sessionState[h]]
    /\ UNCHANGED doomed
    /\ store' = CloseSessions(store, cs)
    /\ replies' = [c \in Cookies |-> IF c \in cs THEN replies[c] + 1 ELSE replies[c]]

FinishAuthSilently(cs, extra) ==
    /\ states' = [c \in Cookies |-> IF c \in cs THEN NoState ELSE states[c]]
    /\ sessionState' = [h \in Helpers |->
           IF sessionState[h] \in cs THEN NoCookie ELSE sessionState[h]]
    /\ doomed' = doomed \cup HelpersOf(cs) \cup extra
    /\ UNCHANGED store
    /\ replies' = [c \in Cookies |-> IF c \in cs THEN replies[c] + 1 ELSE replies[c]]

\* The authentications are over: granted, cancelled or failed too often.
\* extra: helpers started in the same handler.
FinishAuth(cs, extra) ==
    /\ states' = [c \in Cookies |-> IF c \in cs THEN NoState ELSE states[c]]
    /\ sessionState' = [h \in Helpers |->
           IF sessionState[h] \in cs THEN NoCookie ELSE sessionState[h]]
    /\ doomed' = doomed \cup HelpersOf(cs) \cup extra
    /\ store' = CloseSessions(store, cs)
    /\ replies' = [c \in Cookies |-> IF c \in cs THEN replies[c] + 1 ELSE replies[c]]

-----------------------------------------------------------------------------
(* Calls of polkitd.                                                       *)

\* Refused without a trace when the cookie or its session id is in use, or
\* when not one attempt can be started.
InitiateAuthentication(c) ==
    /\ states[c] = NoState
    /\ ~IsOpen(store, c)
    /\ \E r \in 0..(MaxAuthRetries - 1), h \in Unused :
           LET new == CreateSession(store, c, "polkit", 0)
           IN  /\ states' = [states EXCEPT ![c] = [retryCount |-> r, session |-> h]]
               /\ sessionState' = [sessionState EXCEPT ![h] = c]
               /\ running' = running \cup {h}
               /\ store' = IF r > 0 THEN UpdateError(new, c) ELSE new
    /\ replies' = [replies EXCEPT ![c] = 0]
    /\ UNCHANGED <<doomed, stale, alive>>

\* polkitd cancels one authentication; the listener cancels all of them.
CancelAuthentication ==
    /\ FinishAuth(InProgress, {})
    /\ UNCHANGED <<running, stale, alive>>

-----------------------------------------------------------------------------
(* Signals of the helpers.                                                 *)

\* Each handler returns at once when the helper is not in m_sessionToState.
OnSessionRequest(h) ==
    /\ h \in running
    /\ sessionState[h] # NoCookie
    /\ store' = UpdatePrompt(store, sessionState[h], TRUE)
    /\ UNCHANGED <<states, sessionState, running, doomed, replies, stale, alive>>

OnSessionError(h) ==
    /\ h \in running
    /\ sessionState[h] # NoCookie
    /\ store' = UpdateError(store, sessionState[h])
    /\ UNCHANGED <<states, sessionState, running, doomed, replies, stale, alive>>

\* A helper is silent after its verdict.
IgnoredVerdict(h) ==
    /\ h \in running
    /\ sessionState[h] = NoCookie
    /\ running' = running \ {h}
    /\ UNCHANGED <<states, sessionState, doomed, store, replies, stale, alive>>

AuthorizationGained(h) ==
    /\ h \in running
    /\ sessionState[h] # NoCookie
    /\ FinishAuth({sessionState[h]}, {})
    /\ running' = running \ {h}
    /\ UNCHANGED <<stale, alive>>

AuthorizationFailed(h) ==
    LET c == sessionState[h]
    IN  /\ h \in running
        /\ c # NoCookie
        /\ \/ \E r \in NextTries(states[c].retryCount), g \in Unused :
                  /\ Reattempt(c, r, g)
                  /\ running' = (running \ {h}) \cup {g}
           \/ /\ FinishAuth({c}, {})
              /\ running' = running \ {h}
        /\ UNCHANGED <<stale, alive>>

OnSessionCompleted(h) ==
    IgnoredVerdict(h) \/ AuthorizationGained(h) \/ AuthorizationFailed(h)

\* The event loop deletes the object, which ends its helper process.
DeferredDelete(h) ==
    /\ h \in doomed
    /\ doomed' = doomed \ {h}
    /\ running' = running \ {h}
    /\ UNCHANGED <<states, sessionState, store, replies, stale, alive>>

-----------------------------------------------------------------------------
(***************************************************************************)
(* cancelPending, the user's cancel.  (submitPassword only feeds the       *)
(* helper.)  Session::cancel() belongs to the polkit library, which emits  *)
(* completed(false) from inside the call; a silent cancel is allowed for   *)
(* too.  So the handler of a failed attempt runs before "cancelled" is     *)
(* set: either it starts one more attempt, which is then cancelled, or it  *)
(* was the last attempt, and the handler frees the state that              *)
(* cancelPending goes on to use.  A freed state reads as finished, or the  *)
(* daemon does not survive.                                                *)
(***************************************************************************)
CancelSilently(c) ==
    FinishAuth({c}, {}) /\ UNCHANGED <<running, stale, alive>>

CancelAfterReattempt(c) ==
    /\ \E r \in NextTries(states[c].retryCount), g \in Unused :
           /\ FinishAuth({c}, {g})
           /\ running' = (running \ {states[c].session}) \cup {g}
    /\ UNCHANGED <<stale, alive>>

CancelLastAttempt(c) ==
    /\ FinishAuth({c}, {})
    /\ running' = running \ {states[c].session}
    /\ stale' = TRUE
    /\ alive' \in BOOLEAN

CancelPending(c) ==
    /\ states[c] # NoState
    /\ CancelSilently(c) \/ CancelAfterReattempt(c) \/ CancelLastAttempt(c)

ListenerNext ==
    /\ alive
    /\ \/ \E c \in Cookies : InitiateAuthentication(c) \/ CancelPending(c)
       \/ CancelAuthentication
       \/ \E h \in Helpers : \/ OnSessionRequest(h) \/ OnSessionError(h)
                             \/ OnSessionCompleted(h) \/ DeferredDelete(h)

ListenerSpec == ListenerInit /\ [][ListenerNext]_listenerVars

-----------------------------------------------------------------------------
(* Properties.                                                             *)

\* m_sessionToState and m_cookieToState agree: an authentication hears exactly
\* the helper of its last attempt, so the verdict of a helper that was replaced
\* or cancelled can neither end nor grant what came after it, not even a new
\* authentication under the same cookie.
CurrentSessionOnly ==
    \A h \in Helpers, c \in Cookies :
        sessionState[h] = c <=> states[c] # NoState /\ states[c].session = h

\* polkitd gets one answer per authentication: none while it is in progress and
\* never a second one, whether a verdict, a cancel inside a verdict, or a cancel
\* of everything ends it.
RepliedExactlyOnce ==
    \A c \in Cookies : replies[c] = IF states[c] = NoState THEN 1 ELSE 0

\* A helper process that is running works for an authentication whose prompt is
\* on display, or is about to be deleted: attempts leave no process behind.
HelpersBelong ==
    \A h \in running \ doomed :
        \E c \in InProgress : states[c].session = h /\ IsOpen(store, c)

\* Towards the sessions the listener does what AuthSessions says of it.
Auth == INSTANCE AuthSessions WITH
    Sockets <- {}, NoSocket <- NoHelper, Pids <- {}, NoPid <- NoHelper,
    PidOf <- [s \in {} |-> NoHelper],
    Requests <- {"polkit"} \X {NoHelper} \X Cookies,
    Keyinfos <- {}, NoKeyinfo <- NoHelper,
    KeyinfosOf <- [c \in Cookies |-> {}], Attempts <- {}, NoAttempt <- NoHelper,
    connected <- {}, sessions <- store,
    keyring <- [c \in Cookies |-> NoHelper], pending <- [c \in Cookies |-> NoHelper],
    awaiting <- {}, flowOwners <- [c \in Cookies |-> NoHelper],
    flowKeyinfos <- [c \in Cookies |-> NoHelper], retryInfo <- [k \in {} |-> NoHelper],
    retryReported <- {}, polkit <- InProgress, waiting <- {}, answered <- {}
KeepsSessions == Auth!Spec

\* finishAuth calls a state that is not in progress "ODD" (PolkitListener.cpp):
\* nothing finishes an authentication that is already finished.
FinishOnlyInProgress == ~stale
=============================================================================
