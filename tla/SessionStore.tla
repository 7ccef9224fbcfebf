---------------------------- MODULE SessionStore ----------------------------
(***************************************************************************)
(* The daemon's table of open prompts (src/core/agent/SessionStore.cpp)    *)
(* and the part of a session the other components read or depend on        *)
(* (src/core/Session.cpp).  A store maps every session id to a session, an *)
(* id without one to NoSession.  Prompt, echo, info and context texts are  *)
(* left out: nothing decides on them.                                      *)
(***************************************************************************)
EXTENDS Naturals

Sources == {"polkit", "keyring", "pinentry"}

\* error: whether the session carries an error text; retry: m_context.curRetry.
Session == [source : Sources, error : BOOLEAN, retry : Nat]

NoSession == [source |-> "none", error |-> FALSE, retry |-> 0]

IsOpen(store, id) == store[id].source # "none"

\* createSession answers nullopt for an id in use; callers test IsOpen first.
CreateSession(store, id, source, retry) ==
    [store EXCEPT ![id] = [source |-> source, error |-> FALSE, retry |-> retry]]

\* Defective variant: a new prompt always takes the error away.
UpdatePromptAndClear(store, id, clearError) ==
    IF IsOpen(store, id) THEN [store EXCEPT ![id].error = FALSE] ELSE store

\* The updates leave the store alone when the session does not exist.
UpdatePrompt(store, id, clearError) ==
    IF IsOpen(store, id) /\ clearError
    THEN [store EXCEPT ![id].error = FALSE]
    ELSE store

UpdateError(store, id) ==
    IF IsOpen(store, id) THEN [store EXCEPT ![id].error = TRUE] ELSE store

UpdatePinentryRetry(store, id, retry) ==
    IF store[id].source = "pinentry"
    THEN [store EXCEPT ![id].retry = retry]
    ELSE store

\* Closing a set of sessions; ids without a session are skipped.
CloseSessions(store, ids) ==
    [id \in DOMAIN store |-> IF id \in ids THEN NoSession ELSE store[id]]
=============================================================================
