---------------------------- MODULE AuthSessions ----------------------------
(***************************************************************************)
(* The life of an authentication request in the daemon: the session store, *)
(* the keyring manager, the pinentry manager and the polkit listener's     *)
(* table, with the handlers of src/core/Agent.cpp that tie them together.  *)
(* A handler runs to its end in one turn of the event loop, so it is one   *)
(* action.                                                                 *)
(*                                                                         *)
(* Whether the socket that responds or cancels is authorized is the        *)
(* subject of ProviderRegistry: here the decision has passed that test.    *)
(* PolkitListener models how a polkit authentication reaches its end.      *)
(***************************************************************************)
EXTENDS SessionStore, FiniteSets

CONSTANTS
    Sockets,     \* connections of the programs that ask for secrets
    NoSocket,    \* the null socket pointer
    Pids,        \* the processes behind the sockets
    NoPid,
    PidOf,       \* socket -> peer pid
    Cookies,     \* session ids
    Requests,    \* <<source, socket, cookie>> a client may send;
                 \* <<"polkit", NoSocket, cookie>> comes from polkitd
    Keyinfos,    \* keys a pinentry request may name
    NoKeyinfo,
    KeyinfosOf,  \* cookie -> what its requests give as their keyinfo
    Attempts,    \* attempt numbers a description may carry
    NoAttempt    \* no number in the description, none kept for the key

ASSUME NullsAssumption == /\ NoSocket \notin Sockets
                          /\ NoPid \notin Pids
                          /\ NoKeyinfo \notin Keyinfos
ASSUME PidOfAssumption == PidOf \in [Sockets -> Pids]
ASSUME RequestsAssumption ==
    Requests \subseteq ({"keyring", "pinentry"} \X Sockets \X Cookies)
                  \cup ({"polkit"} \X {NoSocket} \X Cookies)
ASSUME KeyinfosOfAssumption ==
    KeyinfosOf \in [Cookies -> SUBSET (Keyinfos \cup {NoKeyinfo})]
ASSUME AttemptsAssumption == Attempts \subseteq Nat /\ NoAttempt \notin Nat

VARIABLES
    connected,       \* requesters' sockets in ConnectedState
    sessions,        \* SessionStore::m_sessions
    keyring,         \* KeyringManager::m_pendingRequests: cookie -> socket
    pending,         \* PinentryManager::m_pendingRequests: cookie -> socket
    awaiting,        \* PinentryManager::m_awaitingOutcome, its timer running
    flowOwners,      \* m_flowOwners: cookie -> pid
    flowKeyinfos,    \* m_flowKeyinfos: cookie -> keyinfo
    retryInfo,       \* m_retryInfo: keyinfo -> curRetry
    retryReported,   \* m_retryReported
    polkit,          \* PolkitListener::m_cookieToState: cookies in progress
    waiting,         \* history: <<socket, cookie>> of requests without a reply
    answered         \* history: open pinentry sessions with a secret handed out

pinentryVars == <<pending, awaiting, flowOwners, flowKeyinfos, retryInfo,
                  retryReported>>
vars == <<connected, sessions, keyring, pinentryVars, polkit, waiting, answered>>

Init ==
    /\ connected = {}
    /\ sessions = [c \in Cookies |-> NoSession]
    /\ keyring = [c \in Cookies |-> NoSocket]
    /\ pending = [c \in Cookies |-> NoSocket]
    /\ awaiting = {}
    /\ flowOwners = [c \in Cookies |-> NoPid]
    /\ flowKeyinfos = [c \in Cookies |-> NoKeyinfo]
    /\ retryInfo = [k \in Keyinfos |-> NoAttempt]
    /\ retryReported = {}
    /\ polkit = {}
    /\ waiting = {}
    /\ answered = {}

-----------------------------------------------------------------------------
(* Connections.                                                            *)

Connect(s) ==
    /\ s \notin connected
    /\ connected' = connected \cup {s}
    /\ UNCHANGED <<sessions, keyring, pinentryVars, polkit, waiting, answered>>

\* A client process blocks in IpcClient::sendRequest until its reply: it asks
\* nothing more, and reports no end, about the cookie it waits for.
NotWaiting(pid, c) == \A s \in Sockets : PidOf[s] = pid => <<s, c>> \notin waiting

\* Defective variants of CloseFlows: the owner, or the attempts, are not forgotten.
CloseFlowsKeepOwner(cs) ==
    /\ pending' = [c \in Cookies |-> IF c \in cs THEN NoSocket ELSE pending[c]]
    /\ awaiting' = awaiting \ cs
    /\ retryInfo' = [k \in Keyinfos |-> IF \E c \in cs : flowKeyinfos[c] = k
                                       THEN NoAttempt ELSE retryInfo[k]]
    /\ retryReported' = retryReported \ cs
    /\ UNCHANGED <<flowOwners, flowKeyinfos>>

CloseFlowsKeepAttempts(cs) ==
    /\ pending' = [c \in Cookies |-> IF c \in cs THEN NoSocket ELSE pending[c]]
    /\ awaiting' = awaiting \ cs
    /\ flowOwners' = [c \in Cookies |-> IF c \in cs THEN NoPid ELSE flowOwners[c]]
    /\ flowKeyinfos' = [c \in Cookies |-> IF c \in cs THEN NoKeyinfo ELSE flowKeyinfos[c]]
    /\ retryReported' = retryReported \ cs
    /\ UNCHANGED retryInfo

(***************************************************************************)
(* closeFlow, for a set of cookies: the session is closed only when it is  *)
(* a pinentry one, everything the manager knows of the flow is forgotten,  *)
(* and so is the attempt count of its key.                                 *)
(***************************************************************************)
PinentrySessions == {c \in Cookies : sessions[c].source = "pinentry"}

CloseFlows(cs) ==
    /\ pending' = [c \in Cookies |-> IF c \in cs THEN NoSocket ELSE pending[c]]
    /\ awaiting' = awaiting \ cs
    /\ flowOwners' = [c \in Cookies |-> IF c \in cs THEN NoPid ELSE flowOwners[c]]
    /\ flowKeyinfos' =
           [c \in Cookies |-> IF c \in cs THEN NoKeyinfo ELSE flowKeyinfos[c]]
    /\ retryInfo' =
           [k \in Keyinfos |-> IF \E c \in cs : flowKeyinfos[c] = k
                               THEN NoAttempt ELSE retryInfo[k]]
    /\ retryReported' = retryReported \ cs

\* Defective variant: the pinentry manager is not told of a disconnect.
DisconnectKeyringOnly(s) ==
    LET ofKeyring == {c \in Cookies : keyring[c] = s}
    IN  /\ s \in connected
        /\ connected' = connected \ {s}
        /\ keyring' = [c \in Cookies |-> IF c \in ofKeyring THEN NoSocket ELSE keyring[c]]
        /\ sessions' = CloseSessions(sessions, ofKeyring)
        /\ waiting' = {w \in waiting : w[1] # s}
        /\ answered' = answered \ ofKeyring
        /\ UNCHANGED <<pinentryVars, polkit>>

\* Defective variant: the keyring manager is not told of a disconnect.
DisconnectPinentryOnly(s) ==
    LET ofPinentry == {c \in Cookies : pending[c] = s}
        closed     == ofPinentry \cap PinentrySessions
    IN  /\ s \in connected
        /\ connected' = connected \ {s}
        /\ CloseFlows(ofPinentry)
        /\ sessions' = CloseSessions(sessions, closed)
        /\ waiting' = {w \in waiting : w[1] # s}
        /\ answered' = answered \ closed
        /\ UNCHANGED <<keyring, polkit>>

\* onClientDisconnected: both managers drop the requests of the socket.
OnClientDisconnected(s) ==
    LET ofKeyring  == {c \in Cookies : keyring[c] = s}
        ofPinentry == {c \in Cookies : pending[c] = s}
        closed     == ofKeyring \cup (ofPinentry \cap PinentrySessions)
    IN  /\ s \in connected
        /\ connected' = connected \ {s}
        /\ keyring' = [c \in Cookies |-> IF c \in ofKeyring THEN NoSocket ELSE keyring[c]]
        /\ CloseFlows(ofPinentry)
        /\ sessions' = CloseSessions(sessions, closed)
        /\ waiting' = {w \in waiting : w[1] # s}
        /\ answered' = answered \ closed
        /\ UNCHANGED polkit

-----------------------------------------------------------------------------
(* Requests.                                                               *)

\* The request is entered before the session is created; when the id is taken
\* the entry is removed again and the client gets "Session ID collision".
HandleKeyringRequest(s, c) ==
    /\ s \in connected
    /\ <<"keyring", s, c>> \in Requests
    /\ NotWaiting(PidOf[s], c)
    /\ IF IsOpen(sessions, c)
       THEN /\ keyring' = [keyring EXCEPT ![c] = NoSocket]
            /\ UNCHANGED <<sessions, waiting>>
       ELSE /\ keyring' = [keyring EXCEPT ![c] = s]
            /\ sessions' = UpdatePrompt(CreateSession(sessions, c, "keyring", 0), c, TRUE)
            /\ waiting' = waiting \cup {<<s, c>>}
    /\ UNCHANGED <<connected, pinentryVars, polkit, answered>>

\* resolveRetryInfo: the attempt number in the description, or else the one
\* remembered for the key.
CurRetry(keyinfo, parsed) ==
    IF parsed # NoAttempt THEN parsed
    ELSE IF keyinfo \in Keyinfos /\ retryInfo[keyinfo] # NoAttempt
         THEN retryInfo[keyinfo] ELSE 0

\* A cookie that belongs to the flow of another process: the request is
\* dropped without a reply.
PinentryOwnerMismatch(s, c) ==
    /\ s \in connected
    /\ <<"pinentry", s, c>> \in Requests
    /\ NotWaiting(PidOf[s], c)
    /\ flowOwners[c] \notin {NoPid, PidOf[s]}
    /\ waiting' = waiting \cup {<<s, c>>}
    /\ UNCHANGED <<connected, sessions, keyring, pinentryVars, polkit, answered>>

\* A new question of a flow, the first or the next one.  parsed: the attempt
\* number found in the description; error: the request carries an error text.
HandlePinentryRequest(s, c, keyinfo, parsed, error) ==
    LET cur     == CurRetry(keyinfo, parsed)
        settled == IF c \in awaiting THEN UpdateError(sessions, c) ELSE sessions
        asked   == IF IsOpen(sessions, c)
                   THEN UpdatePinentryRetry(settled, c, cur)
                   ELSE CreateSession(settled, c, "pinentry", cur)
        shown   == UpdatePrompt(asked, c, FALSE)
    IN  /\ s \in connected
        /\ <<"pinentry", s, c>> \in Requests
        /\ NotWaiting(PidOf[s], c)
        /\ flowOwners[c] \in {NoPid, PidOf[s]}
        /\ flowOwners' = [flowOwners EXCEPT ![c] = PidOf[s]]
        /\ flowKeyinfos' = [flowKeyinfos EXCEPT ![c] =
               IF keyinfo = NoKeyinfo THEN @ ELSE keyinfo]
        /\ retryInfo' = [k \in Keyinfos |-> IF k = keyinfo THEN cur ELSE retryInfo[k]]
        /\ awaiting' = awaiting \ {c}
        /\ pending' = [pending EXCEPT ![c] = s]
        /\ retryReported' = retryReported \ {c}
        /\ sessions' = IF error /\ c \notin retryReported
                       THEN UpdateError(shown, c) ELSE shown
        /\ waiting' = waiting \cup {<<s, c>>}
        /\ UNCHANGED <<connected, keyring, polkit, answered>>

\* polkitd starts an authentication.  The listener refuses a cookie it is
\* working on, the agent one whose session id is taken; both change nothing.
\* error: the first attempt failed before the call returned.
InitiateAuthentication(c, error) ==
    /\ <<"polkit", NoSocket, c>> \in Requests
    /\ c \notin polkit
    /\ ~IsOpen(sessions, c)
    /\ polkit' = polkit \cup {c}
    /\ LET new == CreateSession(sessions, c, "polkit", 0)
       IN  sessions' = IF error THEN UpdateError(new, c) ELSE new
    /\ UNCHANGED <<connected, keyring, pinentryVars, waiting, answered>>

-----------------------------------------------------------------------------
(* Decisions of the active provider.                                       *)

\* Defective variant: the prompt stays when its request is settled.
SettleKeyringKeepSession(c) ==
    /\ keyring[c] # NoSocket
    /\ keyring' = [keyring EXCEPT ![c] = NoSocket]
    /\ waiting' = waiting \ {<<keyring[c], c>>}
    /\ UNCHANGED <<connected, sessions, pinentryVars, polkit, answered>>

\* A response and a cancel of a keyring request differ in the reply only.
SettleKeyring(c) ==
    /\ keyring[c] # NoSocket
    /\ keyring' = [keyring EXCEPT ![c] = NoSocket]
    /\ sessions' = CloseSessions(sessions, {c})
    /\ waiting' = waiting \ {<<keyring[c], c>>}
    /\ answered' = answered \ {c}
    /\ UNCHANGED <<connected, pinentryVars, polkit>>

\* Defective variants: the request stays in the table; no result timer.
RespondKeepRequest(c) ==
    /\ keyring[c] = NoSocket
    /\ pending[c] # NoSocket
    /\ awaiting' = awaiting \cup {c}
    /\ waiting' = waiting \ {<<pending[c], c>>}
    /\ answered' = answered \cup {c}
    /\ UNCHANGED <<connected, sessions, keyring, pending, flowOwners, flowKeyinfos,
                   retryInfo, retryReported, polkit>>

RespondWithoutTimer(c) ==
    /\ keyring[c] = NoSocket
    /\ pending[c] # NoSocket
    /\ pending' = [pending EXCEPT ![c] = NoSocket]
    /\ waiting' = waiting \ {<<pending[c], c>>}
    /\ answered' = answered \cup {c}
    /\ UNCHANGED <<connected, sessions, keyring, awaiting, flowOwners, flowKeyinfos,
                   retryInfo, retryReported, polkit>>

\* The secret goes to the pinentry process and its outcome is awaited.
RespondPinentry(c) ==
    /\ keyring[c] = NoSocket
    /\ pending[c] # NoSocket
    /\ pending' = [pending EXCEPT ![c] = NoSocket]
    /\ awaiting' = awaiting \cup {c}
    /\ waiting' = waiting \ {<<pending[c], c>>}
    /\ answered' = answered \cup {c}
    /\ UNCHANGED <<connected, sessions, keyring, flowOwners, flowKeyinfos, retryInfo,
                   retryReported, polkit>>

\* PinentryManager::hasRequest
HasPinentryRequest(c) ==
    pending[c] # NoSocket \/ c \in awaiting \/ c \in PinentrySessions

EndFlow(c) ==
    /\ CloseFlows({c})
    /\ IF c \in PinentrySessions
       THEN /\ sessions' = CloseSessions(sessions, {c})
            /\ answered' = answered \ {c}
       ELSE UNCHANGED <<sessions, answered>>

CancelPinentry(c) ==
    /\ keyring[c] = NoSocket
    /\ HasPinentryRequest(c)
    /\ EndFlow(c)
    /\ waiting' = waiting \ {<<pending[c], c>>}
    /\ UNCHANGED <<connected, keyring, polkit>>

(***************************************************************************)
(* Every other response or cancel is refused, or it is for a polkit        *)
(* session and goes to the polkit listener, whose answer comes back as one *)
(* of the next three actions.                                              *)
(***************************************************************************)

\* onSessionComplete, whatever led to it: success, a cancel, the last failure.
\* polkitd cancels all its authentications at once.
PolkitComplete(cs) ==
    /\ cs \subseteq polkit
    /\ polkit' = polkit \ cs
    /\ sessions' = CloseSessions(sessions, cs)
    /\ answered' = answered \ cs
    /\ UNCHANGED <<connected, keyring, pinentryVars, waiting>>

\* The polkit helper asks its next question, or reports an error.
PolkitPrompt(c) ==
    /\ c \in polkit
    /\ sessions' = UpdatePrompt(sessions, c, TRUE)
    /\ UNCHANGED <<connected, keyring, pinentryVars, polkit, waiting, answered>>

PolkitError(c) ==
    /\ c \in polkit
    /\ sessions' = UpdateError(sessions, c)
    /\ UNCHANGED <<connected, keyring, pinentryVars, polkit, waiting, answered>>

-----------------------------------------------------------------------------
(* The outcome of a pinentry flow.                                         *)

\* Defective variant: anybody may report on a flow.
AnyoneMayReport(s, c) == s \in connected /\ c \in PinentrySessions

\* Who a result is accepted from; any other sender gets an error.
MayReport(s, c) ==
    /\ s \in connected
    /\ flowOwners[c] \in {NoPid, PidOf[s]}
    /\ c \in PinentrySessions

\* Result "success", "cancelled" or "error".
TerminalResult(s, c) ==
    /\ NotWaiting(PidOf[s], c)
    /\ MayReport(s, c)
    /\ EndFlow(c)
    /\ UNCHANGED <<connected, keyring, polkit, waiting>>

\* Result "retry": the flow stays open for the next question, which the process
\* may have asked already, if it did not wait for the reply to the report.
RetryResult(s, c) ==
    /\ MayReport(s, c)
    /\ awaiting' = awaiting \ {c}
    /\ retryReported' = retryReported \cup {c}
    /\ sessions' = UpdateError(sessions, c)
    /\ UNCHANGED <<connected, keyring, pending, flowOwners, flowKeyinfos, retryInfo,
                   polkit, waiting, answered>>

HandlePinentryResult(s, c) == TerminalResult(s, c) \/ RetryResult(s, c)

\* PINENTRY_RESULT_TIMEOUT_MS after the secret was handed out.
ResultTimeout(c) ==
    /\ c \in awaiting
    /\ EndFlow(c)
    /\ UNCHANGED <<connected, keyring, polkit, waiting>>

Next ==
    \/ \E s \in Sockets : Connect(s) \/ OnClientDisconnected(s)
    \/ \E s \in Sockets, c \in Cookies :
           \/ HandleKeyringRequest(s, c)
           \/ PinentryOwnerMismatch(s, c)
           \/ \E keyinfo \in KeyinfosOf[c], parsed \in Attempts \cup {NoAttempt},
                 error \in BOOLEAN :
                  HandlePinentryRequest(s, c, keyinfo, parsed, error)
           \/ HandlePinentryResult(s, c)
    \/ \E c \in Cookies :
           \/ \E error \in BOOLEAN : InitiateAuthentication(c, error)
           \/ PolkitPrompt(c) \/ PolkitError(c)
           \/ SettleKeyring(c) \/ RespondPinentry(c) \/ CancelPinentry(c)
           \/ ResultTimeout(c)
    \/ \E cs \in SUBSET Cookies : PolkitComplete(cs)

Spec == Init /\ [][Next]_vars

\* The event loop runs and the result timer is single-shot: once it is due it
\* fires.  Nothing else is certain to happen.
FairSpec == Spec /\ \A c \in Cookies : WF_vars(ResultTimeout(c))

-----------------------------------------------------------------------------
(***************************************************************************)
(* Properties.  Those that need DistinctCookies say so: the clients of the *)
(* repository draw their ids at random, so an id belongs to one process    *)
(* and to one kind of request.                                             *)
(***************************************************************************)

DistinctCookies ==
    \A q, r \in Requests :
        q[3] = r[3] => /\ q[1] = r[1]
                       /\ q[1] = "polkit" \/ PidOf[q[2]] = PidOf[r[2]]

\* A flow may name its key in some of its requests, but only one key.
OneKeyPerFlow ==
    \A c \in Cookies : \A k, l \in KeyinfosOf[c] \ {NoKeyinfo} : k = l

\* Type correctness.  No request keeps a pointer to a closed socket once
\* cleanupForSocket has run for both managers.
AuthTypeOK ==
    /\ connected \subseteq Sockets
    /\ sessions \in [Cookies -> Session \cup {NoSession}]
    /\ keyring \in [Cookies -> connected \cup {NoSocket}]
    /\ pending \in [Cookies -> connected \cup {NoSocket}]
    /\ awaiting \subseteq Cookies
    /\ flowOwners \in [Cookies -> Pids \cup {NoPid}]
    /\ flowKeyinfos \in [Cookies -> Keyinfos \cup {NoKeyinfo}]
    /\ retryInfo \in [Keyinfos -> Nat \cup {NoAttempt}]
    /\ retryReported \subseteq Cookies
    /\ polkit \subseteq Cookies
    /\ waiting \subseteq Sockets \X Cookies
    /\ answered \subseteq Cookies

\* Under DistinctCookies: whoever waits for a reply is in the table from which
\* the reply is sent, however often the flow was asked again, and the other
\* way round: a reply never goes to a socket that has its answer.
NoRequestForgotten ==
    \A s \in Sockets, c \in Cookies :
        <<s, c>> \in waiting <=> keyring[c] = s \/ pending[c] = s

\* Under DistinctCookies: the prompt on display and the component that can end
\* it come and go together.  A session left behind by its manager could never
\* be answered or cancelled; a manager's entry without a session would wait
\* for an answer nobody is asked for.
EveryPromptHasItsManager ==
    \A c \in Cookies :
        /\ sessions[c].source = "keyring" <=> keyring[c] # NoSocket
        /\ sessions[c].source = "pinentry" <=> flowOwners[c] # NoPid
        /\ sessions[c].source = "polkit" <=> c \in polkit

\* A flow that is asking again has no result timer left from the question
\* before, which would close the prompt under the user's hands.
NoTimeoutWhileAsking ==
    \A c \in Cookies : pending[c] # NoSocket => c \notin awaiting

\* When a flow asks again after a secret was handed out, the prompt carries an
\* error, whether the pinentry process reported "retry" first or not.
RepeatedQuestionShowsError ==
    \A c \in answered : pending[c] # NoSocket => sessions[c].error

\* Under OneKeyPerFlow: the attempt count kept for a key belongs to an open
\* flow: it never leaks into the first question of a later one.
AttemptsDieWithTheFlow ==
    \A k \in Keyinfos : retryInfo[k] # NoAttempt =>
        \E c \in PinentrySessions : flowKeyinfos[c] = k

\* A result is only ever accepted from the process that owns the flow, although
\* validateResultOwner lets everybody report on a flow without an owner.
OnlyOwnerReports ==
    [][\A s \in Sockets, c \in Cookies :
           HandlePinentryResult(s, c) => flowOwners[c] = PidOf[s]]_vars

\* Under DistinctCookies: the daemon keeps the promise of PromptService.
Promise == INSTANCE PromptService WITH
    Requesters <- Sockets,
    Ids <- Cookies,
    present <- connected,
    shown <- {c \in Cookies : IsOpen(sessions, c)},
    waiting <- waiting
KeepsPromise == Promise!PromptSpec

\* A pinentry flow whose secret was handed out is closed, reported as a retry or
\* asked again, even when the pinentry process never says another word.
AnsweredFlowResolves ==
    \A c \in Cookies :
        c \in answered ~> \/ c \notin PinentrySessions
                          \/ pending[c] # NoSocket
                          \/ c \in retryReported

=============================================================================
