------------------------- MODULE AuthSessionsProofs -------------------------
(***************************************************************************)
(* Proofs about AuthSessions, for any clients, cookies and keys.           *)
(***************************************************************************)
EXTENDS AuthRequestor, TLAPS, WellFoundedInduction

Store == [Cookies -> Session \cup {NoSession}]

-----------------------------------------------------------------------------
(* What the operators on the session store return.                         *)

\* A created session has the source asked for and no error; no other changes.
LEMMA CreateSessionFacts ==
    ASSUME NEW store \in Store, NEW c \in Cookies, NEW source \in Sources,
           NEW retry \in Nat
    PROVE  LET new == CreateSession(store, c, source, retry)
           IN  /\ new \in Store
               /\ new[c].source = source
               /\ \A d \in Cookies \ {c} : new[d] = store[d]
BY DEF Store, CreateSession, Session

\* A session of a store has an error flag and a number of attempts.
LEMMA StoreFields ==
    ASSUME NEW store \in Store, NEW c \in Cookies
    PROVE  /\ store[c].error \in BOOLEAN
           /\ store[c].retry \in Nat
           /\ store[c].source \in Sources \cup {"none"}
           /\ IsOpen(store, c) => store[c] \in Session
<1>1. store[c] \in Session \/ store[c] = NoSession
  BY DEF Store
<1>2. CASE store[c] \in Session
  BY <1>2 DEF Session
<1>3. CASE store[c] = NoSession
  BY <1>3 DEF NoSession, IsOpen
<1> QED
  BY <1>1, <1>2, <1>3

\* The updates never open a session, close one or change its source, and only
\* UpdatePrompt can take an error away.
UpdateOf(store, c, new) ==
    /\ new \in Store
    /\ \A d \in Cookies : new[d].source = store[d].source
    /\ \A d \in Cookies \ {c} : new[d] = store[d]

LEMMA UpdatePromptFacts ==
    ASSUME NEW store \in Store, NEW c \in Cookies, NEW clear \in BOOLEAN
    PROVE  /\ UpdateOf(store, c, UpdatePrompt(store, c, clear))
           /\ UpdatePrompt(store, c, FALSE) = store
<1>1. CASE IsOpen(store, c) /\ clear
  <2>1. store[c] \in Session
    BY <1>1, StoreFields
  <2> QED
    BY <1>1, <2>1 DEF Store, UpdateOf, UpdatePrompt, Session
<1>2. CASE ~(IsOpen(store, c) /\ clear)
  BY <1>2 DEF UpdateOf, UpdatePrompt
<1> QED
  BY <1>1, <1>2 DEF UpdatePrompt

LEMMA UpdateErrorFacts ==
    ASSUME NEW store \in Store, NEW c \in Cookies
    PROVE  /\ UpdateOf(store, c, UpdateError(store, c))
           /\ IsOpen(store, c) => UpdateError(store, c)[c].error
<1>1. CASE IsOpen(store, c)
  <2>1. store[c] \in Session
    BY <1>1, StoreFields
  <2> QED
    BY <1>1, <2>1 DEF Store, UpdateOf, UpdateError, Session
<1>2. CASE ~IsOpen(store, c)
  BY <1>2 DEF UpdateOf, UpdateError
<1> QED
  BY <1>1, <1>2

LEMMA UpdateRetryFacts ==
    ASSUME NEW store \in Store, NEW c \in Cookies, NEW retry \in Nat
    PROVE  /\ UpdateOf(store, c, UpdatePinentryRetry(store, c, retry))
           /\ UpdatePinentryRetry(store, c, retry)[c].error = store[c].error
<1>1. CASE store[c].source = "pinentry"
  <2>1. store[c] \in Session
    BY <1>1, StoreFields DEF IsOpen
  <2> QED
    BY <1>1, <2>1 DEF Store, UpdateOf, UpdatePinentryRetry, Session
<1>2. CASE store[c].source # "pinentry"
  BY <1>2 DEF UpdateOf, UpdatePinentryRetry
<1> QED
  BY <1>1, <1>2

\* Closing removes the sessions named and no other.
LEMMA CloseSessionsFacts ==
    ASSUME NEW store \in Store, NEW ids
    PROVE  LET new == CloseSessions(store, ids)
           IN  /\ new \in Store
               /\ \A d \in Cookies : new[d] = IF d \in ids THEN NoSession ELSE store[d]
BY DEF Store, CloseSessions

LEMMA CloseOneFacts ==
    ASSUME NEW store \in Store, NEW c \in Cookies
    PROVE  /\ CloseSessions(store, {c}) \in Store
           /\ CloseSessions(store, {c})[c] = NoSession
           /\ \A d \in Cookies \ {c} : CloseSessions(store, {c})[d] = store[d]
BY DEF Store, CloseSessions

\* An authentication opens a polkit session, with or without an error.
LEMMA InitiateEffect ==
    ASSUME sessions \in Store, NEW c \in Cookies, NEW error \in BOOLEAN,
           InitiateAuthentication(c, error)
    PROVE  /\ sessions' \in Store
           /\ sessions'[c].source = "polkit"
           /\ \A d \in Cookies \ {c} : sessions'[d] = sessions[d]
<1> DEFINE new == CreateSession(sessions, c, "polkit", 0)
<1>1. /\ new \in Store
      /\ new[c].source = "polkit"
      /\ \A d \in Cookies \ {c} : new[d] = sessions[d]
  BY CreateSessionFacts DEF Sources
<1>2. sessions' = IF error THEN UpdateError(new, c) ELSE new
  BY DEF InitiateAuthentication
<1> HIDE DEF new
<1> QED
  BY <1>1, <1>2, UpdateErrorFacts DEF UpdateOf

-----------------------------------------------------------------------------
(* Type correctness, and what holds whatever ids the clients send.         *)

\* What the session store is after a pinentry request on c.
AskedSession(c, cur, error) ==
    LET settled == IF c \in awaiting THEN UpdateError(sessions, c) ELSE sessions
        asked   == IF IsOpen(sessions, c)
                   THEN UpdatePinentryRetry(settled, c, cur)
                   ELSE CreateSession(settled, c, "pinentry", cur)
        shown   == UpdatePrompt(asked, c, FALSE)
    IN  IF error THEN UpdateError(shown, c) ELSE shown

\* A pinentry request opens a pinentry session or keeps the one that is open;
\* an error it had stays, and a rejected secret adds one.
LEMMA AskedSessionFacts ==
    ASSUME AuthTypeOK, NEW c \in Cookies, NEW cur \in Nat, NEW error \in BOOLEAN
    PROVE  LET new == AskedSession(c, cur, error)
           IN  /\ new \in Store
               /\ \A d \in Cookies \ {c} : new[d] = sessions[d]
               /\ IsOpen(sessions, c) =>
                     /\ new[c].source = sessions[c].source
                     /\ c \in awaiting \/ sessions[c].error => new[c].error
               /\ ~IsOpen(sessions, c) => new[c].source = "pinentry"
<1> DEFINE settled == IF c \in awaiting THEN UpdateError(sessions, c) ELSE sessions
           asked   == IF IsOpen(sessions, c)
                      THEN UpdatePinentryRetry(settled, c, cur)
                      ELSE CreateSession(settled, c, "pinentry", cur)
           shown   == UpdatePrompt(asked, c, FALSE)
           new     == IF error THEN UpdateError(shown, c) ELSE shown
<1>1. sessions \in Store
  BY DEF AuthTypeOK, Store
<1>2. /\ UpdateOf(sessions, c, settled)
      /\ IsOpen(sessions, c) /\ (c \in awaiting \/ sessions[c].error) => settled[c].error
  <2>1. CASE c \in awaiting
    BY <1>1, <2>1, UpdateErrorFacts
  <2>2. CASE c \notin awaiting
    BY <1>1, <2>2 DEF UpdateOf
  <2> QED
    BY <2>1, <2>2
<1>3. settled \in Store /\ settled[c].source = sessions[c].source
  BY <1>2 DEF UpdateOf
<1> HIDE DEF settled
<1>4. CASE IsOpen(sessions, c)
  <2>1. UpdateOf(settled, c, asked) /\ asked[c].error = settled[c].error
    BY <1>3, <1>4, UpdateRetryFacts
  <2>2. asked \in Store
    BY <2>1 DEF UpdateOf
  <2>3. IsOpen(asked, c)
    BY <1>3, <1>4, <2>1 DEF UpdateOf, IsOpen
  <2> HIDE DEF asked
  <2>4. shown = asked
    BY <2>2, UpdatePromptFacts
  <2> HIDE DEF shown
  <2>5. UpdateOf(asked, c, new) /\ (asked[c].error => new[c].error)
    <3>1. CASE error
      BY <2>2, <2>3, <2>4, <3>1, UpdateErrorFacts
    <3>2. CASE ~error
      BY <2>2, <2>4, <3>2 DEF UpdateOf
    <3> QED
      BY <3>1, <3>2
  <2> HIDE DEF new
  <2>6. new = AskedSession(c, cur, error)
    BY DEF new, shown, asked, settled, AskedSession
  <2> QED
    BY <1>2, <1>4, <2>1, <2>5, <2>6 DEF UpdateOf
<1>5. CASE ~IsOpen(sessions, c)
  <2>1. /\ asked \in Store
        /\ asked[c].source = "pinentry"
        /\ \A d \in Cookies \ {c} : asked[d] = settled[d]
    BY <1>3, <1>5, CreateSessionFacts DEF Sources
  <2> HIDE DEF asked
  <2>2. shown = asked
    BY <2>1, UpdatePromptFacts
  <2> HIDE DEF shown
  <2>3. UpdateOf(asked, c, new)
    <3>1. CASE error
      BY <2>1, <2>2, <3>1, UpdateErrorFacts
    <3>2. CASE ~error
      BY <2>1, <2>2, <3>2 DEF UpdateOf
    <3> QED
      BY <3>1, <3>2
  <2> HIDE DEF new
  <2>4. new = AskedSession(c, cur, error)
    BY DEF new, shown, asked, settled, AskedSession
  <2> QED
    BY <1>2, <1>5, <2>1, <2>3, <2>4 DEF UpdateOf
<1> QED
  BY <1>4, <1>5

\* The attempt count of a request is a number.
LEMMA CurRetryIsNat ==
    ASSUME AuthTypeOK, NEW keyinfo, NEW parsed \in Attempts \cup {NoAttempt}
    PROVE  CurRetry(keyinfo, parsed) \in Nat
BY AttemptsAssumption DEF AuthTypeOK, CurRetry

\* Forgetting flows keeps the pinentry manager's tables well typed.
LEMMA CloseFlowsType ==
    ASSUME AuthTypeOK, NEW cs, CloseFlows(cs),
           NEW conn, \A c \in Cookies \ cs : pending[c] \in conn \cup {NoSocket}
    PROVE  /\ pending' \in [Cookies -> conn \cup {NoSocket}]
           /\ awaiting' \subseteq Cookies
           /\ flowOwners' \in [Cookies -> Pids \cup {NoPid}]
           /\ flowKeyinfos' \in [Cookies -> Keyinfos \cup {NoKeyinfo}]
           /\ retryInfo' \in [Keyinfos -> Nat \cup {NoAttempt}]
           /\ retryReported' \subseteq Cookies
<1> USE DEF AuthTypeOK, CloseFlows
<1>1. pending' \in [Cookies -> conn \cup {NoSocket}]
  OBVIOUS
<1>2. awaiting' \subseteq Cookies /\ retryReported' \subseteq Cookies
  OBVIOUS
<1>3. flowOwners' \in [Cookies -> Pids \cup {NoPid}]
  OBVIOUS
<1>4. flowKeyinfos' \in [Cookies -> Keyinfos \cup {NoKeyinfo}]
  OBVIOUS
<1>5. retryInfo' \in [Keyinfos -> Nat \cup {NoAttempt}]
  OBVIOUS
<1> QED
  BY <1>1, <1>2, <1>3, <1>4, <1>5

LEMMA EndFlowType ==
    ASSUME AuthTypeOK, NEW c \in Cookies, EndFlow(c),
           waiting' \subseteq waiting, UNCHANGED <<connected, keyring, polkit>>
    PROVE  AuthTypeOK'
<1>1. CloseFlows({c})
  BY DEF EndFlow
<1>2. /\ pending' \in [Cookies -> connected \cup {NoSocket}]
      /\ awaiting' \subseteq Cookies
      /\ flowOwners' \in [Cookies -> Pids \cup {NoPid}]
      /\ flowKeyinfos' \in [Cookies -> Keyinfos \cup {NoKeyinfo}]
      /\ retryInfo' \in [Keyinfos -> Nat \cup {NoAttempt}]
      /\ retryReported' \subseteq Cookies
  BY <1>1, CloseFlowsType DEF AuthTypeOK
<1>3. sessions' \in [Cookies -> Session \cup {NoSession}] /\ answered' \subseteq Cookies
  BY CloseSessionsFacts DEF EndFlow, AuthTypeOK, Store
<1> QED
  BY <1>2, <1>3 DEF AuthTypeOK

LEMMA DisconnectType ==
    ASSUME AuthTypeOK, NEW s \in Sockets, OnClientDisconnected(s)
    PROVE  AuthTypeOK'
<1> DEFINE ofKeyring  == {c \in Cookies : keyring[c] = s}
           ofPinentry == {c \in Cookies : pending[c] = s}
           closed     == ofKeyring \cup (ofPinentry \cap PinentrySessions)
<1>1. /\ connected' = connected \ {s}
      /\ keyring' = [c \in Cookies |-> IF c \in ofKeyring THEN NoSocket ELSE keyring[c]]
      /\ CloseFlows(ofPinentry)
      /\ sessions' = CloseSessions(sessions, closed)
      /\ waiting' \subseteq waiting
      /\ answered' = answered \ closed
      /\ polkit' = polkit
  BY DEF OnClientDisconnected
<1>2. \A c \in Cookies \ ofPinentry : pending[c] \in connected' \cup {NoSocket}
  BY <1>1 DEF AuthTypeOK
<1>3. keyring' \in [Cookies -> connected' \cup {NoSocket}]
  BY <1>1 DEF AuthTypeOK
<1> HIDE DEF ofKeyring, ofPinentry, closed
<1>4. sessions' \in [Cookies -> Session \cup {NoSession}]
  BY <1>1, CloseSessionsFacts DEF AuthTypeOK, Store
<1>5. /\ pending' \in [Cookies -> connected' \cup {NoSocket}]
      /\ awaiting' \subseteq Cookies
      /\ flowOwners' \in [Cookies -> Pids \cup {NoPid}]
      /\ flowKeyinfos' \in [Cookies -> Keyinfos \cup {NoKeyinfo}]
      /\ retryInfo' \in [Keyinfos -> Nat \cup {NoAttempt}]
      /\ retryReported' \subseteq Cookies
  BY <1>1, <1>2, CloseFlowsType
<1>6. connected' \subseteq Sockets /\ polkit' \subseteq Cookies
      /\ waiting' \subseteq Sockets \X Cookies /\ answered' \subseteq Cookies
  BY <1>1 DEF AuthTypeOK
<1> QED
  BY <1>3, <1>4, <1>5, <1>6 DEF AuthTypeOK

LEMMA PinentryRequestType ==
    ASSUME AuthTypeOK, NEW s \in Sockets, NEW c \in Cookies,
           NEW keyinfo \in KeyinfosOf[c], NEW parsed \in Attempts \cup {NoAttempt},
           NEW error \in BOOLEAN, HandlePinentryRequest(s, c, keyinfo, parsed, error)
    PROVE  /\ AuthTypeOK'
           /\ CurRetry(keyinfo, parsed) \in Nat
           /\ sessions' = AskedSession(c, CurRetry(keyinfo, parsed),
                                       error /\ c \notin retryReported)
<1> DEFINE cur == CurRetry(keyinfo, parsed)
<1>1. cur \in Nat
  BY CurRetryIsNat
<1>2. sessions' = AskedSession(c, cur, error /\ c \notin retryReported)
  BY DEF HandlePinentryRequest, AskedSession
<1>3. /\ s \in connected
      /\ flowOwners' = [flowOwners EXCEPT ![c] = PidOf[s]]
      /\ flowKeyinfos' = [flowKeyinfos EXCEPT ![c] =
             IF keyinfo = NoKeyinfo THEN @ ELSE keyinfo]
      /\ retryInfo' = [k \in Keyinfos |-> IF k = keyinfo THEN cur ELSE retryInfo[k]]
      /\ awaiting' = awaiting \ {c}
      /\ pending' = [pending EXCEPT ![c] = s]
      /\ retryReported' = retryReported \ {c}
      /\ waiting' = waiting \cup {<<s, c>>}
      /\ UNCHANGED <<connected, keyring, polkit, answered>>
  BY DEF HandlePinentryRequest
<1> HIDE DEF cur
<1>4. sessions' \in [Cookies -> Session \cup {NoSession}]
  BY <1>1, <1>2, AskedSessionFacts DEF Store
<1>5. flowKeyinfos' \in [Cookies -> Keyinfos \cup {NoKeyinfo}]
  BY <1>3, KeyinfosOfAssumption DEF AuthTypeOK
<1>6. retryInfo' \in [Keyinfos -> Nat \cup {NoAttempt}]
  BY <1>1, <1>3 DEF AuthTypeOK
<1>7. /\ flowOwners' \in [Cookies -> Pids \cup {NoPid}]
      /\ pending' \in [Cookies -> connected' \cup {NoSocket}]
      /\ keyring' \in [Cookies -> connected' \cup {NoSocket}]
  BY <1>3, PidOfAssumption DEF AuthTypeOK
<1>8. /\ connected' \subseteq Sockets /\ awaiting' \subseteq Cookies
      /\ retryReported' \subseteq Cookies /\ polkit' \subseteq Cookies
      /\ waiting' \subseteq Sockets \X Cookies /\ answered' \subseteq Cookies
  BY <1>3 DEF AuthTypeOK
<1>9. AuthTypeOK'
  BY <1>4, <1>5, <1>6, <1>7, <1>8 DEF AuthTypeOK
<1> QED
  BY <1>1, <1>2, <1>9 DEF cur

LEMMA InitType == Init => AuthTypeOK
BY DEF Init, AuthTypeOK, NoSession

LEMMA NextType == AuthTypeOK /\ [Next]_vars => AuthTypeOK'
<1> SUFFICES ASSUME AuthTypeOK, [Next]_vars
             PROVE  AuthTypeOK'
  OBVIOUS
<1> USE DEF pinentryVars
<1>0. sessions \in Store
  BY DEF AuthTypeOK, Store
<1>1. ASSUME NEW s \in Sockets, Connect(s) PROVE AuthTypeOK'
  BY <1>1 DEF Connect, AuthTypeOK
<1>2. ASSUME NEW s \in Sockets, OnClientDisconnected(s) PROVE AuthTypeOK'
  BY <1>2, DisconnectType
<1>3. ASSUME NEW s \in Sockets, NEW c \in Cookies, HandleKeyringRequest(s, c)
      PROVE  AuthTypeOK'
  <2>1. sessions' \in Store
    <3>1. CASE IsOpen(sessions, c)
      BY <1>0, <1>3, <3>1 DEF HandleKeyringRequest
    <3>2. CASE ~IsOpen(sessions, c)
      <4> DEFINE new == CreateSession(sessions, c, "keyring", 0)
      <4>1. new \in Store
        BY <1>0, CreateSessionFacts DEF Sources
      <4>2. sessions' = UpdatePrompt(new, c, TRUE)
        BY <1>3, <3>2 DEF HandleKeyringRequest
      <4> HIDE DEF new
      <4> QED
        BY <4>1, <4>2, UpdatePromptFacts DEF UpdateOf
    <3> QED
      BY <3>1, <3>2
  <2>2. waiting' \subseteq Sockets \X Cookies
    <3>1. waiting' = waiting \/ waiting' = waiting \cup {<<s, c>>}
      BY <1>3 DEF HandleKeyringRequest
    <3> QED
      BY <3>1 DEF AuthTypeOK
  <2>4. keyring' \in [Cookies -> connected \cup {NoSocket}]
    <3>1. /\ s \in connected
          /\ \/ keyring' = [keyring EXCEPT ![c] = NoSocket]
             \/ keyring' = [keyring EXCEPT ![c] = s]
      BY <1>3 DEF HandleKeyringRequest
    <3> QED
      BY <3>1 DEF AuthTypeOK
  <2>3. UNCHANGED <<connected, pinentryVars, polkit, answered>>
    BY <1>3 DEF HandleKeyringRequest
  <2> QED
    BY <2>1, <2>2, <2>3, <2>4 DEF AuthTypeOK, Store
<1>4. ASSUME NEW s \in Sockets, NEW c \in Cookies, PinentryOwnerMismatch(s, c)
      PROVE  AuthTypeOK'
  BY <1>4 DEF PinentryOwnerMismatch, AuthTypeOK
<1>5. ASSUME NEW s \in Sockets, NEW c \in Cookies, NEW keyinfo \in KeyinfosOf[c],
             NEW parsed \in Attempts \cup {NoAttempt}, NEW error \in BOOLEAN,
             HandlePinentryRequest(s, c, keyinfo, parsed, error)
      PROVE  AuthTypeOK'
  BY <1>5, PinentryRequestType
<1>6. ASSUME NEW s \in Sockets, NEW c \in Cookies, TerminalResult(s, c)
      PROVE  AuthTypeOK'
  BY <1>6, EndFlowType DEF TerminalResult
<1>7. ASSUME NEW s \in Sockets, NEW c \in Cookies, RetryResult(s, c)
      PROVE  AuthTypeOK'
  <2>1. sessions' \in Store
    BY <1>0, <1>7, UpdateErrorFacts DEF RetryResult, UpdateOf
  <2> QED
    BY <1>7, <2>1 DEF RetryResult, AuthTypeOK, Store
<1>8. ASSUME NEW c \in Cookies, NEW error \in BOOLEAN, InitiateAuthentication(c, error)
      PROVE  AuthTypeOK'
  <2>1. sessions' \in Store
    BY <1>0, <1>8, InitiateEffect
  <2> QED
    BY <1>8, <2>1 DEF InitiateAuthentication, AuthTypeOK, Store
<1>9. ASSUME NEW c \in Cookies, PolkitPrompt(c) \/ PolkitError(c)
      PROVE  AuthTypeOK'
  <2>1. sessions' \in Store
    BY <1>0, <1>9, UpdatePromptFacts, UpdateErrorFacts DEF PolkitPrompt, PolkitError, UpdateOf
  <2> QED
    BY <1>9, <2>1 DEF PolkitPrompt, PolkitError, AuthTypeOK, Store
<1>10. ASSUME NEW cs \in SUBSET Cookies, PolkitComplete(cs)
       PROVE  AuthTypeOK'
  <2>1. sessions' \in Store
    BY <1>0, <1>10, CloseSessionsFacts DEF PolkitComplete
  <2> QED
    BY <1>10, <2>1 DEF PolkitComplete, AuthTypeOK, Store
<1>11. ASSUME NEW c \in Cookies, SettleKeyring(c)
       PROVE  AuthTypeOK'
  <2>1. sessions' \in Store
    BY <1>0, <1>11, CloseSessionsFacts DEF SettleKeyring
  <2> QED
    BY <1>11, <2>1 DEF SettleKeyring, AuthTypeOK, Store
<1>12. ASSUME NEW c \in Cookies, RespondPinentry(c)
       PROVE  AuthTypeOK'
  BY <1>12 DEF RespondPinentry, AuthTypeOK
<1>13. ASSUME NEW c \in Cookies, CancelPinentry(c) \/ ResultTimeout(c)
       PROVE  AuthTypeOK'
  BY <1>13, EndFlowType DEF CancelPinentry, ResultTimeout
<1>14. CASE UNCHANGED vars
  BY <1>14 DEF vars, AuthTypeOK
<1> QED
  BY <1>1, <1>2, <1>3, <1>4, <1>5, <1>6, <1>7, <1>8, <1>9, <1>10, <1>11, <1>12,
     <1>13, <1>14 DEF Next, HandlePinentryResult

\* The tables of both managers and of the store stay well typed, and no request
\* keeps a closed socket (cleanupForSocket).
THEOREM AuthTypeCorrect == Spec => []AuthTypeOK
BY InitType, NextType, PTL DEF Spec

-----------------------------------------------------------------------------
(***************************************************************************)
(* What a step does to the cookies.  Every action but a disconnect and the *)
(* end of polkit authentications is about one cookie and leaves what is    *)
(* kept for the others alone.                                              *)
(***************************************************************************)

SameAt(d) ==
    /\ sessions'[d] = sessions[d]
    /\ keyring'[d] = keyring[d]
    /\ pending'[d] = pending[d]
    /\ flowOwners'[d] = flowOwners[d]
    /\ d \in awaiting' <=> d \in awaiting
    /\ d \in polkit' <=> d \in polkit
    /\ d \in answered' <=> d \in answered
    /\ \A t \in Sockets : <<t, d>> \in waiting' <=> <<t, d>> \in waiting

StepAt(c) ==
    \/ \E s \in Sockets :
          \/ HandleKeyringRequest(s, c)
          \/ PinentryOwnerMismatch(s, c)
          \/ \E keyinfo \in KeyinfosOf[c], parsed \in Attempts \cup {NoAttempt},
                error \in BOOLEAN :
                HandlePinentryRequest(s, c, keyinfo, parsed, error)
          \/ HandlePinentryResult(s, c)
    \/ \E error \in BOOLEAN : InitiateAuthentication(c, error)
    \/ PolkitPrompt(c) \/ PolkitError(c)
    \/ SettleKeyring(c) \/ RespondPinentry(c) \/ CancelPinentry(c)
    \/ ResultTimeout(c)

LEMMA NextByCookie ==
    Next => \/ \E s \in Sockets : Connect(s) \/ OnClientDisconnected(s)
            \/ \E cs \in SUBSET Cookies : PolkitComplete(cs)
            \/ \E c \in Cookies : StepAt(c)
BY DEF Next, StepAt

\* The end of a flow: at its cookie and elsewhere.
LEMMA EndFlowEffect ==
    ASSUME AuthTypeOK, NEW c \in Cookies, EndFlow(c)
    PROVE  /\ pending'[c] = NoSocket /\ flowOwners'[c] = NoPid /\ c \notin awaiting'
           /\ c \in PinentrySessions => sessions'[c] = NoSession /\ c \notin answered'
           /\ c \notin PinentrySessions =>
                 sessions'[c] = sessions[c] /\ answered' = answered
           /\ \A d \in Cookies \ {c} :
                 /\ sessions'[d] = sessions[d]
                 /\ pending'[d] = pending[d]
                 /\ flowOwners'[d] = flowOwners[d]
                 /\ d \in awaiting' <=> d \in awaiting
                 /\ d \in answered' <=> d \in answered
<1>1. CloseFlows({c})
  BY DEF EndFlow
<1>2. CASE c \in PinentrySessions
  <2>1. sessions' = CloseSessions(sessions, {c}) /\ answered' = answered \ {c}
    BY <1>2 DEF EndFlow
  <2>2. \A d \in Cookies : sessions'[d] = IF d = c THEN NoSession ELSE sessions[d]
    BY <2>1, CloseSessionsFacts DEF AuthTypeOK, Store
  <2> QED
    BY <1>1, <1>2, <2>1, <2>2 DEF CloseFlows
<1>3. CASE c \notin PinentrySessions
  BY <1>1, <1>3 DEF EndFlow, CloseFlows
<1> QED
  BY <1>2, <1>3

LEMMA KeyringRequestEffect ==
    ASSUME AuthTypeOK, NEW s \in Sockets, NEW c \in Cookies, HandleKeyringRequest(s, c),
           ~IsOpen(sessions, c)
    PROVE  /\ sessions' \in Store
           /\ sessions'[c].source = "keyring"
           /\ \A d \in Cookies \ {c} : sessions'[d] = sessions[d]
<1> DEFINE new == CreateSession(sessions, c, "keyring", 0)
<1>1. /\ new \in Store
      /\ new[c].source = "keyring"
      /\ \A d \in Cookies \ {c} : new[d] = sessions[d]
  BY CreateSessionFacts DEF Sources, AuthTypeOK, Store
<1>2. sessions' = UpdatePrompt(new, c, TRUE)
  BY DEF HandleKeyringRequest
<1> HIDE DEF new
<1> QED
  BY <1>1, <1>2, UpdatePromptFacts DEF UpdateOf

LEMMA ElsewhereNothing ==
    ASSUME AuthTypeOK, NEW c \in Cookies, StepAt(c), NEW d \in Cookies, d # c
    PROVE  SameAt(d)
<1> USE DEF pinentryVars
<1>0. sessions \in Store
  BY DEF AuthTypeOK, Store
<1>1. ASSUME NEW s \in Sockets, HandleKeyringRequest(s, c) PROVE SameAt(d)
  <2>1. CASE IsOpen(sessions, c)
    BY <1>1, <2>1 DEF HandleKeyringRequest, SameAt, AuthTypeOK
  <2>2. CASE ~IsOpen(sessions, c)
    <3>1. sessions'[d] = sessions[d]
      BY <1>1, <2>2, KeyringRequestEffect
    <3>2. keyring' = [keyring EXCEPT ![c] = s] /\ waiting' = waiting \cup {<<s, c>>}
      BY <1>1, <2>2 DEF HandleKeyringRequest
    <3>3. UNCHANGED <<pinentryVars, polkit, answered>>
      BY <1>1 DEF HandleKeyringRequest
    <3> QED
      BY <3>1, <3>2, <3>3 DEF SameAt, AuthTypeOK
  <2> QED
    BY <2>1, <2>2
<1>2. ASSUME NEW s \in Sockets, PinentryOwnerMismatch(s, c) PROVE SameAt(d)
  BY <1>2 DEF PinentryOwnerMismatch, SameAt
<1>3. ASSUME NEW s \in Sockets, NEW keyinfo \in KeyinfosOf[c],
             NEW parsed \in Attempts \cup {NoAttempt}, NEW error \in BOOLEAN,
             HandlePinentryRequest(s, c, keyinfo, parsed, error)
      PROVE  SameAt(d)
  <2>1. sessions'[d] = sessions[d]
    <3> DEFINE err == error /\ c \notin retryReported
    <3>1. sessions' = AskedSession(c, CurRetry(keyinfo, parsed), err)
          /\ CurRetry(keyinfo, parsed) \in Nat
      BY <1>3, PinentryRequestType
    <3>2. err \in BOOLEAN
      OBVIOUS
    <3> HIDE DEF err
    <3> QED
      BY <3>1, <3>2, AskedSessionFacts
  <2>2. /\ pending' = [pending EXCEPT ![c] = s]
        /\ flowOwners' = [flowOwners EXCEPT ![c] = PidOf[s]]
        /\ awaiting' = awaiting \ {c}
        /\ waiting' = waiting \cup {<<s, c>>}
        /\ UNCHANGED <<keyring, polkit, answered>>
    BY <1>3 DEF HandlePinentryRequest
  <2> QED
    BY <2>1, <2>2 DEF SameAt, AuthTypeOK
<1>4. ASSUME NEW s \in Sockets, HandlePinentryResult(s, c) PROVE SameAt(d)
  <2>1. CASE TerminalResult(s, c)
    BY <2>1, EndFlowEffect DEF TerminalResult, SameAt
  <2>2. CASE RetryResult(s, c)
    <3>1. sessions'[d] = sessions[d]
      BY <1>0, <2>2, UpdateErrorFacts DEF RetryResult, UpdateOf
    <3> QED
      BY <2>2, <3>1 DEF RetryResult, SameAt
  <2> QED
    BY <1>4, <2>1, <2>2 DEF HandlePinentryResult
<1>5. ASSUME NEW error \in BOOLEAN, InitiateAuthentication(c, error)
      PROVE  SameAt(d)
  <2>1. sessions'[d] = sessions[d]
    BY <1>0, <1>5, InitiateEffect
  <2> QED
    BY <1>5, <2>1 DEF InitiateAuthentication, SameAt
<1>6. CASE PolkitPrompt(c) \/ PolkitError(c)
  <2>1. UpdateOf(sessions, c, UpdatePrompt(sessions, c, TRUE))
    BY <1>0, UpdatePromptFacts
  <2>2. UpdateOf(sessions, c, UpdateError(sessions, c))
    BY <1>0, UpdateErrorFacts
  <2>3. UpdateOf(sessions, c, sessions')
    BY <1>6, <2>1, <2>2 DEF PolkitPrompt, PolkitError
  <2>4. sessions'[d] = sessions[d]
    BY <2>3 DEF UpdateOf
  <2> QED
    BY <1>6, <2>4 DEF PolkitPrompt, PolkitError, SameAt
<1>8. CASE SettleKeyring(c)
  <2>2. sessions' = CloseSessions(sessions, {c})
    BY <1>8 DEF SettleKeyring
  <2>1. sessions'[d] = sessions[d]
    BY <1>0, <2>2, CloseOneFacts
  <2> QED
    BY <1>8, <2>1 DEF SettleKeyring, SameAt, AuthTypeOK
<1>9. CASE RespondPinentry(c)
  BY <1>9 DEF RespondPinentry, SameAt, AuthTypeOK
<1>10. CASE CancelPinentry(c)
  BY <1>10, EndFlowEffect DEF CancelPinentry, SameAt
<1>11. CASE ResultTimeout(c)
  BY <1>11, EndFlowEffect DEF ResultTimeout, SameAt
<1> QED
  BY <1>1, <1>2, <1>3, <1>4, <1>5, <1>6, <1>8, <1>9, <1>10, <1>11 DEF StepAt

\* The end of authentications, cookie by cookie.
LEMMA PolkitCompleteEffect ==
    ASSUME AuthTypeOK, NEW cs \in SUBSET Cookies, PolkitComplete(cs), NEW d \in Cookies
    PROVE  /\ d \notin cs => SameAt(d)
           /\ d \in cs => /\ d \in polkit /\ d \notin polkit'
                          /\ sessions'[d] = NoSession /\ d \notin answered'
           /\ UNCHANGED <<keyring, pending, flowOwners, awaiting, waiting>>
<1>1. /\ cs \subseteq polkit
      /\ polkit' = polkit \ cs
      /\ sessions' = CloseSessions(sessions, cs)
      /\ answered' = answered \ cs
      /\ UNCHANGED <<keyring, pending, flowOwners, awaiting, waiting>>
  BY DEF PolkitComplete, pinentryVars
<1>2. sessions'[d] = IF d \in cs THEN NoSession ELSE sessions[d]
  BY <1>1, CloseSessionsFacts DEF AuthTypeOK, Store
<1> QED
  BY <1>1, <1>2 DEF SameAt

\* A disconnect, cookie by cookie.
LEMMA DisconnectEffect ==
    ASSUME AuthTypeOK, NEW s \in Sockets, OnClientDisconnected(s), NEW c \in Cookies
    PROVE  /\ keyring'[c] = IF keyring[c] = s THEN NoSocket ELSE keyring[c]
           /\ pending'[c] = IF pending[c] = s THEN NoSocket ELSE pending[c]
           /\ flowOwners'[c] = IF pending[c] = s THEN NoPid ELSE flowOwners[c]
           /\ c \in awaiting' <=> c \in awaiting /\ pending[c] # s
           /\ keyring[c] = s \/ (pending[c] = s /\ c \in PinentrySessions)
                => sessions'[c] = NoSession /\ c \notin answered'
           /\ ~(keyring[c] = s \/ (pending[c] = s /\ c \in PinentrySessions))
                => sessions'[c] = sessions[c] /\ (c \in answered' <=> c \in answered)
           /\ polkit' = polkit
           /\ \A t \in Sockets : <<t, c>> \in waiting' <=> <<t, c>> \in waiting /\ t # s
<1> DEFINE ofKeyring  == {d \in Cookies : keyring[d] = s}
           ofPinentry == {d \in Cookies : pending[d] = s}
           closed     == ofKeyring \cup (ofPinentry \cap PinentrySessions)
<1>1. /\ keyring' = [d \in Cookies |-> IF d \in ofKeyring THEN NoSocket ELSE keyring[d]]
      /\ CloseFlows(ofPinentry)
      /\ sessions' = CloseSessions(sessions, closed)
      /\ waiting' = {w \in waiting : w[1] # s}
      /\ answered' = answered \ closed
      /\ polkit' = polkit
  BY DEF OnClientDisconnected
<1>2. /\ keyring'[c] = IF keyring[c] = s THEN NoSocket ELSE keyring[c]
      /\ pending'[c] = IF pending[c] = s THEN NoSocket ELSE pending[c]
      /\ flowOwners'[c] = IF pending[c] = s THEN NoPid ELSE flowOwners[c]
      /\ c \in awaiting' <=> c \in awaiting /\ pending[c] # s
  BY <1>1 DEF CloseFlows
<1>3. c \in closed <=> keyring[c] = s \/ (pending[c] = s /\ c \in PinentrySessions)
  OBVIOUS
<1>4. \A t \in Sockets : <<t, c>> \in waiting' <=> <<t, c>> \in waiting /\ t # s
  BY <1>1
<1> HIDE DEF closed
<1>5. sessions'[c] = IF c \in closed THEN NoSession ELSE sessions[c]
  <2>1. sessions \in Store
    BY DEF AuthTypeOK, Store
  <2> QED
    BY <1>1, <2>1, CloseSessionsFacts
<1> QED
  BY <1>1, <1>2, <1>3, <1>4, <1>5

\* What holds of a cookie whatever ids the clients send.
FlowAt(c) ==
    /\ sessions[c].source = "pinentry" => flowOwners[c] # NoPid
    /\ pending[c] # NoSocket => c \notin awaiting

FlowInv == AuthTypeOK /\ \A c \in Cookies : FlowAt(c)

LEMMA FlowInvInit == Init => FlowInv
BY InitType DEF Init, FlowInv, FlowAt, NoSession

LEMMA FlowStepAt ==
    ASSUME FlowInv, NEW c \in Cookies, StepAt(c)
    PROVE  FlowAt(c)'
<1> USE DEF pinentryVars
<1>0. AuthTypeOK /\ FlowAt(c) /\ sessions \in Store
  BY DEF FlowInv, AuthTypeOK, Store
<1>1. ASSUME NEW s \in Sockets, HandleKeyringRequest(s, c) PROVE FlowAt(c)'
  <2>1. CASE IsOpen(sessions, c)
    BY <1>0, <1>1, <2>1 DEF HandleKeyringRequest, FlowAt
  <2>2. CASE ~IsOpen(sessions, c)
    <3>1. sessions'[c].source = "keyring"
      BY <1>0, <1>1, <2>2, KeyringRequestEffect
    <3> QED
      BY <1>0, <1>1, <3>1 DEF HandleKeyringRequest, FlowAt
  <2> QED
    BY <2>1, <2>2
<1>2. ASSUME NEW s \in Sockets, PinentryOwnerMismatch(s, c) PROVE FlowAt(c)'
  BY <1>0, <1>2 DEF PinentryOwnerMismatch, FlowAt
<1>3. ASSUME NEW s \in Sockets, NEW keyinfo \in KeyinfosOf[c],
             NEW parsed \in Attempts \cup {NoAttempt}, NEW error \in BOOLEAN,
             HandlePinentryRequest(s, c, keyinfo, parsed, error)
      PROVE  FlowAt(c)'
  <2>1. PidOf[s] # NoPid
    BY PidOfAssumption, NullsAssumption
  <2>2. flowOwners' = [flowOwners EXCEPT ![c] = PidOf[s]] /\ awaiting' = awaiting \ {c}
    BY <1>3 DEF HandlePinentryRequest
  <2> QED
    BY <1>0, <2>1, <2>2 DEF FlowAt, AuthTypeOK
<1>4. ASSUME NEW s \in Sockets, HandlePinentryResult(s, c) PROVE FlowAt(c)'
  <2>1. CASE TerminalResult(s, c)
    BY <1>0, <2>1, EndFlowEffect DEF TerminalResult, FlowAt, NoSession, PinentrySessions
  <2>2. CASE RetryResult(s, c)
    <3>1. sessions'[c].source = sessions[c].source
      BY <1>0, <2>2, UpdateErrorFacts DEF RetryResult, UpdateOf
    <3> QED
      BY <1>0, <2>2, <3>1 DEF RetryResult, FlowAt
  <2> QED
    BY <1>4, <2>1, <2>2 DEF HandlePinentryResult
<1>5. ASSUME NEW error \in BOOLEAN, InitiateAuthentication(c, error)
      PROVE  FlowAt(c)'
  <2>1. sessions'[c].source = "polkit"
    BY <1>0, <1>5, InitiateEffect
  <2> QED
    BY <1>0, <1>5, <2>1 DEF InitiateAuthentication, FlowAt
<1>6. CASE PolkitPrompt(c) \/ PolkitError(c)
  <2>1. UpdateOf(sessions, c, sessions')
    BY <1>0, <1>6, UpdatePromptFacts, UpdateErrorFacts DEF PolkitPrompt, PolkitError
  <2>2. sessions'[c].source = sessions[c].source
    BY <2>1 DEF UpdateOf
  <2> QED
    BY <1>0, <1>6, <2>2 DEF PolkitPrompt, PolkitError, FlowAt
<1>7. CASE SettleKeyring(c)
  <2>1. sessions' = CloseSessions(sessions, {c})
    BY <1>7 DEF SettleKeyring
  <2>2. sessions'[c] = NoSession
    BY <1>0, <2>1, CloseOneFacts
  <2> QED
    BY <1>0, <1>7, <2>2 DEF SettleKeyring, FlowAt, NoSession
<1>8. CASE RespondPinentry(c)
  BY <1>0, <1>8 DEF RespondPinentry, FlowAt, AuthTypeOK
<1>9. CASE CancelPinentry(c) \/ ResultTimeout(c)
  BY <1>0, <1>9, EndFlowEffect DEF CancelPinentry, ResultTimeout, FlowAt, NoSession,
     PinentrySessions
<1> QED
  BY <1>1, <1>2, <1>3, <1>4, <1>5, <1>6, <1>7, <1>8, <1>9 DEF StepAt

LEMMA FlowInvNext == FlowInv /\ [Next]_vars => FlowInv'
<1> SUFFICES ASSUME FlowInv, [Next]_vars
             PROVE  FlowInv'
  OBVIOUS
<1>1. AuthTypeOK /\ AuthTypeOK'
  BY NextType DEF FlowInv
<1> SUFFICES ASSUME NEW d \in Cookies
             PROVE  FlowAt(d)'
  BY <1>1 DEF FlowInv
<1>2. FlowAt(d)
  BY DEF FlowInv
<1>3. ASSUME NEW s \in Sockets, Connect(s) PROVE FlowAt(d)'
  BY <1>2, <1>3 DEF Connect, FlowAt, pinentryVars
<1>4. ASSUME NEW s \in Sockets, OnClientDisconnected(s) PROVE FlowAt(d)'
  BY <1>1, <1>2, <1>4, DisconnectEffect DEF FlowAt, NoSession, PinentrySessions
<1>5. ASSUME NEW c \in Cookies, StepAt(c) PROVE FlowAt(d)'
  <2>1. CASE c = d
    BY <1>5, <2>1, FlowStepAt
  <2>2. CASE c # d
    BY <1>1, <1>2, <1>5, <2>2, ElsewhereNothing DEF SameAt, FlowAt
  <2> QED
    BY <2>1, <2>2
<1>6. CASE UNCHANGED vars
  BY <1>2, <1>6 DEF vars, pinentryVars, FlowAt
<1>7. ASSUME NEW cs \in SUBSET Cookies, PolkitComplete(cs) PROVE FlowAt(d)'
  BY <1>1, <1>2, <1>7, PolkitCompleteEffect DEF SameAt, FlowAt, NoSession
<1> QED
  BY <1>3, <1>4, <1>5, <1>6, <1>7, NextByCookie

LEMMA FlowInvariance == Spec => []FlowInv
BY FlowInvInit, FlowInvNext, PTL DEF Spec

\* No result timer is left over from the question before (cleanupAwaiting in
\* handleRequest), whatever ids the clients send.
THEOREM NoStaleTimer == Spec => []NoTimeoutWhileAsking
<1>1. FlowInv => NoTimeoutWhileAsking
  BY DEF FlowInv, FlowAt, NoTimeoutWhileAsking
<1> QED
  BY <1>1, FlowInvariance, PTL

\* The branch of validateResultOwner that accepts a result on a flow without an
\* owner is never taken for an open pinentry session.
THEOREM OwnersReport == Spec => OnlyOwnerReports
<1>1. ASSUME FlowInv, NEW s \in Sockets, NEW c \in Cookies, HandlePinentryResult(s, c)
      PROVE  flowOwners[c] = PidOf[s]
  <2>1. MayReport(s, c)
    BY <1>1 DEF HandlePinentryResult, TerminalResult, RetryResult
  <2> QED
    BY <1>1, <2>1 DEF MayReport, FlowInv, FlowAt, PinentrySessions
<1>2. FlowInv /\ [Next]_vars =>
         [\A s \in Sockets, c \in Cookies :
             HandlePinentryResult(s, c) => flowOwners[c] = PidOf[s]]_vars
  BY <1>1
<1> QED
  BY <1>2, FlowInvariance, PTL DEF Spec, OnlyOwnerReports

-----------------------------------------------------------------------------
(***************************************************************************)
(* What holds when a cookie belongs to one process and one kind of         *)
(* request.  The strengthening says where the entries of the tables come   *)
(* from, so that two entries of one cookie can be traced to one client.    *)
(***************************************************************************)

ManagerAt(c) ==
    /\ sessions[c].source = "keyring" <=> keyring[c] # NoSocket
    /\ sessions[c].source = "pinentry" <=> flowOwners[c] # NoPid
    /\ sessions[c].source = "polkit" <=> c \in polkit

RequestedAt(c) ==
    /\ keyring[c] # NoSocket => <<"keyring", keyring[c], c>> \in Requests
    /\ flowOwners[c] # NoPid =>
          \E s \in Sockets : <<"pinentry", s, c>> \in Requests /\ PidOf[s] = flowOwners[c]
    /\ c \in polkit => <<"polkit", NoSocket, c>> \in Requests

WaitersAt(c) ==
    \A s \in Sockets : <<s, c>> \in waiting <=> keyring[c] = s \/ pending[c] = s

OwnerAt(c) == pending[c] # NoSocket => flowOwners[c] = PidOf[pending[c]]

OutcomeAt(c) ==
    /\ c \in awaiting => sessions[c].source = "pinentry"
    /\ c \in answered => /\ sessions[c].source = "pinentry"
                         /\ c \in awaiting \/ sessions[c].error

CookieAt(c) ==
    ManagerAt(c) /\ RequestedAt(c) /\ WaitersAt(c) /\ OwnerAt(c) /\ OutcomeAt(c)

CookieInv == FlowInv /\ \A c \in Cookies : CookieAt(c)

LEMMA CookieInit == Init => CookieInv
<1> SUFFICES ASSUME Init, NEW c \in Cookies PROVE CookieAt(c)
  BY FlowInvInit DEF CookieInv
<1> QED
  BY NullsAssumption DEF Init, CookieAt, ManagerAt, RequestedAt, WaitersAt, OwnerAt,
     OutcomeAt, NoSession

\* A request tells whose the cookie is: there is nothing of another kind or of
\* another process in the tables.
LEMMA OneKind ==
    ASSUME DistinctCookies, AuthTypeOK, NEW c \in Cookies, CookieAt(c), NEW s \in Sockets
    PROVE  /\ <<"keyring", s, c>> \in Requests =>
                 /\ flowOwners[c] = NoPid /\ pending[c] = NoSocket /\ c \notin polkit
                 /\ keyring[c] # NoSocket => PidOf[keyring[c]] = PidOf[s]
           /\ <<"pinentry", s, c>> \in Requests =>
                 /\ keyring[c] = NoSocket /\ c \notin polkit
                 /\ flowOwners[c] # NoPid => flowOwners[c] = PidOf[s]
           /\ <<"polkit", NoSocket, c>> \in Requests =>
                 keyring[c] = NoSocket /\ flowOwners[c] = NoPid /\ pending[c] = NoSocket
<1>1. \A k, l, t, u : <<k, t, c>> \in Requests /\ <<l, u, c>> \in Requests
         => k = l /\ (k = "polkit" \/ PidOf[t] = PidOf[u])
  <2> SUFFICES ASSUME NEW k, NEW l, NEW t, NEW u,
                      <<k, t, c>> \in Requests, <<l, u, c>> \in Requests
               PROVE  k = l /\ (k = "polkit" \/ PidOf[t] = PidOf[u])
    OBVIOUS
  <2> DEFINE q == <<k, t, c>>
             r == <<l, u, c>>
  <2>1. q[3] = r[3] /\ q[1] = k /\ r[1] = l /\ q[2] = t /\ r[2] = u
    OBVIOUS
  <2>2. q \in Requests /\ r \in Requests
    OBVIOUS
  <2> HIDE DEF q, r
  <2> QED
    BY <2>1, <2>2 DEF DistinctCookies
<1>2. pending[c] # NoSocket => flowOwners[c] \in Pids /\ flowOwners[c] # NoPid
  BY PidOfAssumption, NullsAssumption DEF CookieAt, OwnerAt, AuthTypeOK
<1>3. flowOwners[c] # NoPid =>
         \E u \in Sockets : <<"pinentry", u, c>> \in Requests /\ PidOf[u] = flowOwners[c]
  BY DEF CookieAt, RequestedAt
<1>4. /\ keyring[c] # NoSocket => <<"keyring", keyring[c], c>> \in Requests
      /\ c \in polkit => <<"polkit", NoSocket, c>> \in Requests
  BY DEF CookieAt, RequestedAt
<1>5. ASSUME <<"keyring", s, c>> \in Requests
      PROVE  /\ flowOwners[c] = NoPid /\ pending[c] = NoSocket /\ c \notin polkit
             /\ keyring[c] # NoSocket => PidOf[keyring[c]] = PidOf[s]
  <2>1. flowOwners[c] = NoPid
    BY <1>1, <1>3, <1>5
  <2>2. c \notin polkit /\ (keyring[c] # NoSocket => PidOf[keyring[c]] = PidOf[s])
    BY <1>1, <1>4, <1>5
  <2> QED
    BY <1>2, <2>1, <2>2
<1>6. ASSUME <<"pinentry", s, c>> \in Requests
      PROVE  /\ keyring[c] = NoSocket /\ c \notin polkit
             /\ flowOwners[c] # NoPid => flowOwners[c] = PidOf[s]
  <2>1. flowOwners[c] # NoPid => flowOwners[c] = PidOf[s]
    BY <1>1, <1>3, <1>6
  <2>2. keyring[c] = NoSocket /\ c \notin polkit
    BY <1>1, <1>4, <1>6
  <2> QED
    BY <2>1, <2>2
<1>7. ASSUME <<"polkit", NoSocket, c>> \in Requests
      PROVE  keyring[c] = NoSocket /\ flowOwners[c] = NoPid /\ pending[c] = NoSocket
  <2>1. flowOwners[c] = NoPid
    BY <1>1, <1>3, <1>7
  <2>2. keyring[c] = NoSocket
    BY <1>1, <1>4, <1>7
  <2> QED
    BY <1>2, <2>1, <2>2
<1> QED
  BY <1>5, <1>6, <1>7

\* A keyring request finds nothing under its cookie.
LEMMA KeyringRequestFinds ==
    ASSUME DistinctCookies, AuthTypeOK, NEW c \in Cookies, CookieAt(c),
           NEW s \in Sockets, HandleKeyringRequest(s, c)
    PROVE  /\ ~IsOpen(sessions, c)
           /\ keyring[c] = NoSocket /\ pending[c] = NoSocket
           /\ flowOwners[c] = NoPid /\ c \notin polkit
           /\ \A t \in Sockets : <<t, c>> \notin waiting
<1>1. /\ <<"keyring", s, c>> \in Requests
      /\ NotWaiting(PidOf[s], c)
  BY DEF HandleKeyringRequest
<1>2. /\ flowOwners[c] = NoPid /\ pending[c] = NoSocket /\ c \notin polkit
      /\ keyring[c] # NoSocket => PidOf[keyring[c]] = PidOf[s]
  BY <1>1, OneKind
<1>3. keyring[c] = NoSocket
  BY <1>1, <1>2 DEF NotWaiting, CookieAt, WaitersAt, AuthTypeOK
<1>4. ~IsOpen(sessions, c)
  <2>1. sessions[c].source \in Sources \cup {"none"}
    BY StoreFields DEF AuthTypeOK, Store
  <2> QED
    BY <1>2, <1>3, <2>1 DEF CookieAt, ManagerAt, IsOpen, Sources
<1>5. \A t \in Sockets : <<t, c>> \notin waiting
  BY <1>2, <1>3, NullsAssumption DEF CookieAt, WaitersAt
<1> QED
  BY <1>2, <1>3, <1>4, <1>5

\* A pinentry request finds its own flow, not waiting for input, or nothing.
LEMMA PinentryRequestFinds ==
    ASSUME DistinctCookies, AuthTypeOK, NEW c \in Cookies, CookieAt(c), NEW s \in Sockets,
           <<"pinentry", s, c>> \in Requests, NotWaiting(PidOf[s], c)
    PROVE  /\ keyring[c] = NoSocket /\ pending[c] = NoSocket /\ c \notin polkit
           /\ flowOwners[c] \in {NoPid, PidOf[s]}
           /\ IsOpen(sessions, c) => sessions[c].source = "pinentry"
           /\ \A t \in Sockets : <<t, c>> \notin waiting
<1>1. /\ keyring[c] = NoSocket /\ c \notin polkit
      /\ flowOwners[c] # NoPid => flowOwners[c] = PidOf[s]
  BY OneKind
<1>2. pending[c] # NoSocket => PidOf[pending[c]] = PidOf[s] /\ pending[c] \in Sockets
  BY <1>1, PidOfAssumption, NullsAssumption DEF CookieAt, OwnerAt, AuthTypeOK
<1>3. pending[c] = NoSocket
  BY <1>2 DEF NotWaiting, CookieAt, WaitersAt
<1>4. IsOpen(sessions, c) => sessions[c].source = "pinentry"
  <2>1. sessions[c].source \in Sources \cup {"none"}
    BY StoreFields DEF AuthTypeOK, Store
  <2> QED
    BY <1>1, <2>1 DEF CookieAt, ManagerAt, IsOpen, Sources
<1>5. \A t \in Sockets : <<t, c>> \notin waiting
  BY <1>1, <1>3, NullsAssumption DEF CookieAt, WaitersAt
<1> QED
  BY <1>1, <1>3, <1>4, <1>5

\* polkit starts with a cookie nobody uses.
LEMMA PolkitFinds ==
    ASSUME DistinctCookies, AuthTypeOK, NEW c \in Cookies, CookieAt(c),
           c \in polkit \/ <<"polkit", NoSocket, c>> \in Requests
    PROVE  /\ keyring[c] = NoSocket /\ flowOwners[c] = NoPid /\ pending[c] = NoSocket
           /\ c \notin awaiting /\ c \notin answered
           /\ \A t \in Sockets : <<t, c>> \notin waiting
<1>1. <<"polkit", NoSocket, c>> \in Requests
  BY DEF CookieAt, RequestedAt
<1>2. ASSUME NEW s \in Sockets
      PROVE  /\ keyring[c] = NoSocket /\ flowOwners[c] = NoPid /\ pending[c] = NoSocket
             /\ <<s, c>> \notin waiting
  BY <1>1, OneKind, NullsAssumption DEF CookieAt, WaitersAt
<1>3. keyring[c] = NoSocket /\ pending[c] = NoSocket
  BY <1>2 DEF AuthTypeOK
<1>4. flowOwners[c] = NoPid
  BY <1>2 DEF CookieAt, RequestedAt
<1> QED
  BY <1>2, <1>3, <1>4 DEF CookieAt, ManagerAt, OutcomeAt

\* A final result finds a flow that is not waiting for input.
LEMMA ResultFinds ==
    ASSUME AuthTypeOK, NEW c \in Cookies, CookieAt(c), FlowAt(c),
           NEW s \in Sockets, MayReport(s, c), NotWaiting(PidOf[s], c)
    PROVE  /\ sessions[c].source = "pinentry"
           /\ pending[c] = NoSocket
           /\ flowOwners[c] = PidOf[s]
           /\ \A t \in Sockets : <<t, c>> \notin waiting
<1>1. /\ sessions[c].source = "pinentry"
      /\ flowOwners[c] = PidOf[s]
  BY DEF MayReport, FlowAt, PinentrySessions
<1>2. pending[c] = NoSocket
  BY <1>1 DEF NotWaiting, CookieAt, OwnerAt, WaitersAt, AuthTypeOK
<1>3. keyring[c] = NoSocket
  BY <1>1 DEF CookieAt, ManagerAt
<1> QED
  BY <1>1, <1>2, <1>3, NullsAssumption DEF CookieAt, WaitersAt

\* What the end of a flow leaves at its cookie, once nobody waits there.
LEMMA EndFlowLeavesNothing ==
    ASSUME AuthTypeOK, NEW c \in Cookies, CookieAt(c), sessions[c].source = "pinentry",
           EndFlow(c), keyring' = keyring, polkit' = polkit,
           \A t \in Sockets : <<t, c>> \notin waiting'
    PROVE  CookieAt(c)'
<1>1. /\ sessions'[c] = NoSession /\ pending'[c] = NoSocket /\ flowOwners'[c] = NoPid
      /\ c \notin awaiting' /\ c \notin answered'
  BY EndFlowEffect DEF PinentrySessions
<1>2. keyring[c] = NoSocket /\ c \notin polkit
  BY DEF CookieAt, ManagerAt
<1> QED
  BY <1>1, <1>2, NullsAssumption
     DEF CookieAt, ManagerAt, RequestedAt, WaitersAt, OwnerAt, OutcomeAt, NoSession

LEMMA CookieStepAt ==
    ASSUME DistinctCookies, CookieInv, NEW c \in Cookies, StepAt(c)
    PROVE  CookieAt(c)'
<1> USE DEF pinentryVars
<1>0. AuthTypeOK /\ FlowAt(c) /\ CookieAt(c) /\ sessions \in Store
  BY DEF CookieInv, FlowInv, AuthTypeOK, Store
<1>1. ASSUME NEW s \in Sockets, HandleKeyringRequest(s, c) PROVE CookieAt(c)'
  <2>1. /\ ~IsOpen(sessions, c) /\ pending[c] = NoSocket /\ flowOwners[c] = NoPid
        /\ c \notin polkit
        /\ \A t \in Sockets : <<t, c>> \notin waiting
    BY <1>0, <1>1, KeyringRequestFinds
  <2>2. sessions'[c].source = "keyring"
    BY <1>0, <1>1, <2>1, KeyringRequestEffect
  <2>3. /\ <<"keyring", s, c>> \in Requests
        /\ keyring'[c] = s
        /\ waiting' = waiting \cup {<<s, c>>}
        /\ UNCHANGED <<pinentryVars, polkit, answered>>
    BY <1>0, <1>1, <2>1 DEF HandleKeyringRequest, AuthTypeOK
  <2>4. c \notin awaiting /\ c \notin answered
    BY <1>0, <2>1 DEF CookieAt, ManagerAt, OutcomeAt
  <2> QED
    BY <2>1, <2>2, <2>3, <2>4, NullsAssumption
       DEF CookieAt, ManagerAt, RequestedAt, WaitersAt, OwnerAt, OutcomeAt
<1>2. ASSUME NEW s \in Sockets, PinentryOwnerMismatch(s, c) PROVE CookieAt(c)'
  BY <1>0, <1>2, PinentryRequestFinds DEF PinentryOwnerMismatch
<1>3. ASSUME NEW s \in Sockets, NEW keyinfo \in KeyinfosOf[c],
             NEW parsed \in Attempts \cup {NoAttempt}, NEW error \in BOOLEAN,
             HandlePinentryRequest(s, c, keyinfo, parsed, error)
      PROVE  CookieAt(c)'
  <2>1. /\ <<"pinentry", s, c>> \in Requests
        /\ pending'[c] = s
        /\ flowOwners'[c] = PidOf[s]
        /\ c \notin awaiting'
        /\ waiting' = waiting \cup {<<s, c>>}
        /\ UNCHANGED <<keyring, polkit, answered>>
        /\ NotWaiting(PidOf[s], c)
    BY <1>0, <1>3 DEF HandlePinentryRequest, AuthTypeOK
  <2>2. /\ keyring[c] = NoSocket /\ c \notin polkit
        /\ IsOpen(sessions, c) => sessions[c].source = "pinentry"
        /\ \A t \in Sockets : <<t, c>> \notin waiting
    BY <1>0, <2>1, PinentryRequestFinds
  <2>3. /\ sessions'[c].source = "pinentry"
        /\ IsOpen(sessions, c) /\ (c \in awaiting \/ sessions[c].error) => sessions'[c].error
    <3> DEFINE err == error /\ c \notin retryReported
    <3>1. sessions' = AskedSession(c, CurRetry(keyinfo, parsed), err)
          /\ CurRetry(keyinfo, parsed) \in Nat
      BY <1>0, <1>3, PinentryRequestType
    <3>2. err \in BOOLEAN
      OBVIOUS
    <3> HIDE DEF err
    <3> QED
      BY <1>0, <2>2, <3>1, <3>2, AskedSessionFacts
  <2>4. PidOf[s] # NoPid
    BY PidOfAssumption, NullsAssumption
  <2>5. c \in answered => sessions'[c].error
    BY <1>0, <2>3 DEF CookieAt, OutcomeAt, IsOpen
  <2> QED
    BY <2>1, <2>2, <2>3, <2>4, <2>5, NullsAssumption
       DEF CookieAt, ManagerAt, RequestedAt, WaitersAt, OwnerAt, OutcomeAt
<1>4. ASSUME NEW s \in Sockets, TerminalResult(s, c) PROVE CookieAt(c)'
  BY <1>0, <1>4, ResultFinds, EndFlowLeavesNothing DEF TerminalResult
<1>5. ASSUME NEW s \in Sockets, RetryResult(s, c) PROVE CookieAt(c)'
  <2>1. sessions[c].source = "pinentry"
    BY <1>5 DEF RetryResult, MayReport, PinentrySessions
  <2>2. sessions'[c].source = sessions[c].source /\ sessions'[c].error
    BY <1>0, <1>5, <2>1, UpdateErrorFacts DEF RetryResult, UpdateOf, IsOpen
  <2>3. /\ awaiting' = awaiting \ {c}
        /\ UNCHANGED <<keyring, pending, flowOwners, polkit, waiting, answered>>
    BY <1>5 DEF RetryResult
  <2> QED
    BY <1>0, <2>1, <2>2, <2>3
       DEF CookieAt, ManagerAt, RequestedAt, WaitersAt, OwnerAt, OutcomeAt
<1>6. ASSUME NEW error \in BOOLEAN, InitiateAuthentication(c, error)
      PROVE  CookieAt(c)'
  <2>1. /\ keyring[c] = NoSocket /\ flowOwners[c] = NoPid /\ pending[c] = NoSocket
        /\ c \notin awaiting /\ c \notin answered
        /\ \A t \in Sockets : <<t, c>> \notin waiting
    BY <1>0, <1>6, PolkitFinds DEF InitiateAuthentication
  <2>4. sessions'[c].source = "polkit"
    BY <1>0, <1>6, InitiateEffect
  <2>5. /\ <<"polkit", NoSocket, c>> \in Requests
        /\ polkit' = polkit \cup {c}
        /\ UNCHANGED <<keyring, pinentryVars, waiting, answered>>
    BY <1>6 DEF InitiateAuthentication
  <2> QED
    BY <2>1, <2>4, <2>5, NullsAssumption
       DEF CookieAt, ManagerAt, RequestedAt, WaitersAt, OwnerAt, OutcomeAt
<1>7. CASE PolkitPrompt(c) \/ PolkitError(c)
  <2>1. UpdateOf(sessions, c, sessions')
    BY <1>0, <1>7, UpdatePromptFacts, UpdateErrorFacts DEF PolkitPrompt, PolkitError
  <2>2. sessions'[c].source = sessions[c].source
    BY <2>1 DEF UpdateOf
  <2>3. c \in polkit /\ UNCHANGED <<keyring, pinentryVars, polkit, waiting, answered>>
    BY <1>7 DEF PolkitPrompt, PolkitError
  <2>4. c \notin answered
    BY <1>0, <2>3, PolkitFinds
  <2> QED
    BY <1>0, <2>2, <2>3, <2>4
       DEF CookieAt, ManagerAt, RequestedAt, WaitersAt, OwnerAt, OutcomeAt
<1>9. CASE SettleKeyring(c)
  <2>1. keyring[c] \in Sockets /\ <<"keyring", keyring[c], c>> \in Requests
    BY <1>0, <1>9 DEF SettleKeyring, CookieAt, RequestedAt, AuthTypeOK
  <2>2. flowOwners[c] = NoPid /\ pending[c] = NoSocket /\ c \notin polkit
    BY <1>0, <2>1, OneKind
  <2>3. sessions' = CloseSessions(sessions, {c})
    BY <1>9 DEF SettleKeyring
  <2>4. sessions'[c] = NoSession
    BY <1>0, <2>3, CloseOneFacts
  <2>5. /\ keyring'[c] = NoSocket
        /\ waiting' = waiting \ {<<keyring[c], c>>}
        /\ answered' = answered \ {c}
        /\ UNCHANGED <<pinentryVars, polkit>>
    BY <1>0, <1>9 DEF SettleKeyring, AuthTypeOK
  <2>6. c \notin awaiting
    BY <1>0, <2>2 DEF CookieAt, ManagerAt, OutcomeAt
  <2>7. \A t \in Sockets : <<t, c>> \notin waiting'
    BY <1>0, <2>2, <2>5, NullsAssumption DEF CookieAt, WaitersAt
  <2> QED
    BY <2>2, <2>4, <2>5, <2>6, <2>7, NullsAssumption
       DEF CookieAt, ManagerAt, RequestedAt, WaitersAt, OwnerAt, OutcomeAt, NoSession
<1>10. CASE RespondPinentry(c)
  <2>1. sessions[c].source = "pinentry"
    BY <1>0, <1>10, PidOfAssumption, NullsAssumption
       DEF RespondPinentry, CookieAt, OwnerAt, ManagerAt, AuthTypeOK
  <2>2. /\ keyring[c] = NoSocket
        /\ pending'[c] = NoSocket
        /\ awaiting' = awaiting \cup {c}
        /\ waiting' = waiting \ {<<pending[c], c>>}
        /\ answered' = answered \cup {c}
        /\ UNCHANGED <<sessions, keyring, flowOwners, polkit>>
    BY <1>0, <1>10 DEF RespondPinentry, AuthTypeOK
  <2>3. \A t \in Sockets : <<t, c>> \notin waiting'
    BY <1>0, <2>2, NullsAssumption DEF CookieAt, WaitersAt
  <2> QED
    BY <1>0, <2>1, <2>2, <2>3, NullsAssumption
       DEF CookieAt, ManagerAt, RequestedAt, WaitersAt, OwnerAt, OutcomeAt
<1>11. CASE CancelPinentry(c)
  <2>1. sessions[c].source = "pinentry"
    BY <1>0, <1>11, PidOfAssumption, NullsAssumption DEF CancelPinentry, CookieAt,
       HasPinentryRequest, PinentrySessions, OwnerAt, OutcomeAt, ManagerAt, AuthTypeOK
  <2>2. /\ keyring[c] = NoSocket
        /\ waiting' = waiting \ {<<pending[c], c>>}
        /\ EndFlow(c) /\ keyring' = keyring /\ polkit' = polkit
    BY <1>11 DEF CancelPinentry
  <2>3. \A t \in Sockets : <<t, c>> \notin waiting'
    BY <1>0, <2>2, NullsAssumption DEF CookieAt, WaitersAt
  <2> QED
    BY <1>0, <2>1, <2>2, <2>3, EndFlowLeavesNothing
<1>12. CASE ResultTimeout(c)
  <2>1. sessions[c].source = "pinentry" /\ pending[c] = NoSocket
    BY <1>0, <1>12 DEF ResultTimeout, FlowAt, CookieAt, OutcomeAt
  <2>2. keyring[c] = NoSocket
    BY <1>0, <2>1 DEF CookieAt, ManagerAt
  <2>3. \A t \in Sockets : <<t, c>> \notin waiting'
    BY <1>0, <1>12, <2>1, <2>2, NullsAssumption DEF ResultTimeout, CookieAt, WaitersAt
  <2> QED
    BY <1>0, <1>12, <2>1, <2>3, EndFlowLeavesNothing DEF ResultTimeout
<1> QED
  BY <1>1, <1>2, <1>3, <1>4, <1>5, <1>6, <1>7, <1>9, <1>10, <1>11, <1>12
     DEF StepAt, HandlePinentryResult

\* A polkit authentication leaves nothing behind.
LEMMA CookieAfterPolkit ==
    ASSUME DistinctCookies, AuthTypeOK, NEW cs \in SUBSET Cookies, PolkitComplete(cs),
           NEW c \in cs, CookieAt(c)
    PROVE  CookieAt(c)'
<1>1. /\ c \in polkit /\ c \notin polkit'
      /\ sessions'[c] = NoSession /\ c \notin answered'
      /\ UNCHANGED <<keyring, pending, flowOwners, awaiting, waiting>>
  BY PolkitCompleteEffect
<1>2. /\ keyring[c] = NoSocket /\ flowOwners[c] = NoPid /\ pending[c] = NoSocket
      /\ c \notin awaiting
      /\ \A t \in Sockets : <<t, c>> \notin waiting
  BY <1>1, PolkitFinds
<1> QED
  BY <1>1, <1>2, NullsAssumption
     DEF CookieAt, ManagerAt, RequestedAt, WaitersAt, OwnerAt, OutcomeAt, NoSession

LEMMA CookieNext == ASSUME DistinctCookies, CookieInv, [Next]_vars PROVE CookieInv'
<1>1. FlowInv /\ FlowInv' /\ AuthTypeOK /\ AuthTypeOK'
  BY FlowInvNext DEF CookieInv, FlowInv
<1> SUFFICES ASSUME NEW d \in Cookies
             PROVE  CookieAt(d)'
  BY <1>1 DEF CookieInv
<1>2. CookieAt(d)
  BY DEF CookieInv
<1>3. ASSUME NEW s \in Sockets, Connect(s) PROVE CookieAt(d)'
  BY <1>2, <1>3 DEF Connect, pinentryVars, CookieAt, ManagerAt, RequestedAt, WaitersAt,
     OwnerAt, OutcomeAt
<1>4. ASSUME NEW s \in Sockets, OnClientDisconnected(s) PROVE CookieAt(d)'
  <2>1. /\ keyring'[d] = IF keyring[d] = s THEN NoSocket ELSE keyring[d]
        /\ pending'[d] = IF pending[d] = s THEN NoSocket ELSE pending[d]
        /\ flowOwners'[d] = IF pending[d] = s THEN NoPid ELSE flowOwners[d]
        /\ d \in awaiting' <=> d \in awaiting /\ pending[d] # s
        /\ keyring[d] = s \/ (pending[d] = s /\ d \in PinentrySessions)
              => sessions'[d] = NoSession /\ d \notin answered'
        /\ ~(keyring[d] = s \/ (pending[d] = s /\ d \in PinentrySessions))
              => sessions'[d] = sessions[d] /\ (d \in answered' <=> d \in answered)
        /\ polkit' = polkit
        /\ \A t \in Sockets : <<t, d>> \in waiting' <=> <<t, d>> \in waiting /\ t # s
    BY <1>1, <1>4, DisconnectEffect
  <2>2. s # NoSocket /\ PidOf[s] # NoPid
    BY PidOfAssumption, NullsAssumption
  <2>3. pending[d] = s => sessions[d].source = "pinentry"
    BY <1>2, <2>2 DEF CookieAt, OwnerAt, ManagerAt
  <2>4. CASE keyring[d] = s
    <3>1. pending[d] = NoSocket /\ flowOwners[d] = NoPid /\ d \notin polkit
      BY <1>2, <2>2, <2>4, <1>1, PidOfAssumption, NullsAssumption
         DEF CookieAt, ManagerAt, OwnerAt, AuthTypeOK
    <3>2. sessions'[d] = NoSession /\ d \notin answered' /\ d \notin awaiting'
      BY <1>2, <2>1, <2>2, <2>4, <3>1 DEF CookieAt, ManagerAt, OutcomeAt
    <3> QED
      BY <1>2, <2>1, <2>2, <2>4, <3>1, <3>2, NullsAssumption DEF CookieAt, ManagerAt,
         RequestedAt, WaitersAt, OwnerAt, OutcomeAt, NoSession
  <2>5. CASE pending[d] = s
    <3>1. keyring[d] = NoSocket /\ d \notin polkit
      BY <1>2, <2>3, <2>5 DEF CookieAt, ManagerAt
    <3>2. sessions'[d] = NoSession /\ d \notin answered' /\ d \notin awaiting'
      BY <2>1, <2>3, <2>5 DEF PinentrySessions
    <3> QED
      BY <1>2, <2>1, <2>2, <2>5, <3>1, <3>2, NullsAssumption DEF CookieAt, ManagerAt,
         RequestedAt, WaitersAt, OwnerAt, OutcomeAt, NoSession
  <2>6. CASE keyring[d] # s /\ pending[d] # s
    BY <1>2, <2>1, <2>6 DEF CookieAt, ManagerAt, RequestedAt, WaitersAt, OwnerAt, OutcomeAt
  <2> QED
    BY <2>4, <2>5, <2>6
<1>5. ASSUME NEW c \in Cookies, StepAt(c) PROVE CookieAt(d)'
  <2>1. CASE c = d
    BY <1>5, <2>1, CookieStepAt
  <2>2. CASE c # d
    <3>1. SameAt(d)
      BY <1>1, <1>5, <2>2, ElsewhereNothing
    <3> QED
      BY <1>2, <3>1 DEF SameAt, CookieAt, ManagerAt, RequestedAt, WaitersAt, OwnerAt, OutcomeAt
  <2> QED
    BY <2>1, <2>2
<1>6. CASE UNCHANGED vars
  BY <1>2, <1>6 DEF vars, pinentryVars, CookieAt, ManagerAt, RequestedAt, WaitersAt,
     OwnerAt, OutcomeAt
<1>7. ASSUME NEW cs \in SUBSET Cookies, PolkitComplete(cs) PROVE CookieAt(d)'
  <2>1. CASE d \in cs
    BY <1>1, <1>2, <1>7, <2>1, CookieAfterPolkit
  <2>2. CASE d \notin cs
    <3>1. SameAt(d)
      BY <1>1, <1>7, <2>2, PolkitCompleteEffect
    <3> QED
      BY <1>2, <3>1 DEF SameAt, CookieAt, ManagerAt, RequestedAt, WaitersAt, OwnerAt, OutcomeAt
  <2> QED
    BY <2>1, <2>2
<1> QED
  BY <1>3, <1>4, <1>5, <1>6, <1>7, NextByCookie

LEMMA CookieInvariance == ASSUME DistinctCookies PROVE Spec => []CookieInv
<1>1. Init => CookieInv
  BY CookieInit
<1>2. CookieInv /\ [Next]_vars => CookieInv'
  BY CookieNext
<1> QED
  BY <1>1, <1>2, PTL DEF Spec

\* Whoever waits for a reply can still get it, in every state.
THEOREM RequestsRemembered ==
    ASSUME DistinctCookies PROVE Spec => []NoRequestForgotten
<1>1. CookieInv => NoRequestForgotten
  BY DEF CookieInv, CookieAt, WaitersAt, NoRequestForgotten
<1> QED
  BY <1>1, CookieInvariance, PTL

\* No prompt outlives the component that can end it, nor the other way round.
THEOREM PromptsHaveManagers ==
    ASSUME DistinctCookies PROVE Spec => []EveryPromptHasItsManager
<1>1. CookieInv => EveryPromptHasItsManager
  BY DEF CookieInv, CookieAt, ManagerAt, EveryPromptHasItsManager
<1> QED
  BY <1>1, CookieInvariance, PTL

\* A question repeated after a secret was handed out shows an error.
THEOREM RepeatedQuestionsShowErrors ==
    ASSUME DistinctCookies PROVE Spec => []RepeatedQuestionShowsError
<1>1. CookieInv => RepeatedQuestionShowsError
  BY DEF CookieInv, FlowInv, AuthTypeOK, FlowAt, CookieAt, OutcomeAt,
     RepeatedQuestionShowsError
<1> QED
  BY <1>1, CookieInvariance, PTL

-----------------------------------------------------------------------------
(* The daemon implements PromptService, step by step.                      *)

Shown == {c \in Cookies : IsOpen(sessions, c)}

\* A step at c shows or hides c at most.
LEMMA ShownChange ==
    ASSUME AuthTypeOK, NEW c \in Cookies, StepAt(c)
    PROVE  /\ sessions'[c].source # "none" => Shown' = Shown \cup {c}
           /\ sessions'[c].source = "none" => Shown' = Shown \ {c}
<1>1. \A d \in Cookies \ {c} : sessions'[d] = sessions[d]
  BY ElsewhereNothing DEF SameAt
<1> QED
  BY <1>1 DEF Shown, IsOpen

\* Only connections that open or close change who is connected.
LEMMA StepKeepsConnections ==
    ASSUME NEW c \in Cookies, StepAt(c)
    PROVE  connected' = connected
<1>1. ASSUME NEW s \in Sockets, HandlePinentryResult(s, c) PROVE connected' = connected
  BY <1>1 DEF HandlePinentryResult, TerminalResult, RetryResult
<1> QED
  BY <1>1 DEF StepAt, HandleKeyringRequest, PinentryOwnerMismatch, HandlePinentryRequest,
     InitiateAuthentication, PolkitPrompt, PolkitError, SettleKeyring, RespondPinentry,
     CancelPinentry, ResultTimeout

\* A reply that ends the prompt goes to the only socket that waits for it.
LEMMA ReplyIsAnswer ==
    ASSUME NEW c \in Cookies, NEW s \in Sockets,
           \A t \in Sockets : <<t, c>> \in waiting <=> t = s,
           waiting' = waiting \ {<<s, c>>},
           Shown' = Shown \/ Shown' = Shown \ {c},
           connected' = connected
    PROVE  Promise!Answer(s, c)
BY DEF Promise!Answer, Promise!WaitersOf, Shown

\* Hanging up takes the caller's prompts away, and nobody else waits for them.
LEMMA DisconnectIsLeave ==
    ASSUME CookieInv, CookieInv', NEW s \in Sockets, OnClientDisconnected(s)
    PROVE  Promise!Leave(s)
<1> DEFINE ids == {d \in Cookies : <<s, d>> \in waiting}
<1>0. AuthTypeOK /\ s # NoSocket
  BY NullsAssumption DEF CookieInv, FlowInv
<1>1. waiting' = {w \in waiting : w[1] # s} /\ connected' = connected \ {s}
  BY DEF OnClientDisconnected
<1>2. ASSUME NEW d \in Cookies, <<s, d>> \in waiting
      PROVE  {t \in Sockets : <<t, d>> \in waiting} = {s} /\ ~IsOpen(sessions', d)
  <2>1. CookieAt(d) /\ (keyring[d] = s \/ pending[d] = s)
    BY <1>2 DEF CookieInv, CookieAt, WaitersAt
  <2>2. pending[d] # NoSocket => sessions[d].source = "pinentry" /\ keyring[d] = NoSocket
    BY <1>0, <2>1, PidOfAssumption, NullsAssumption
       DEF CookieAt, OwnerAt, ManagerAt, AuthTypeOK
  <2>3. \A t \in Sockets : <<t, d>> \in waiting => t = s
    BY <1>0, <2>1, <2>2, NullsAssumption DEF CookieAt, WaitersAt
  <2>4. sessions'[d] = NoSession
    BY <1>0, <2>1, <2>2, DisconnectEffect DEF PinentrySessions
  <2> QED
    BY <1>2, <2>3, <2>4 DEF IsOpen, NoSession
<1>3. ASSUME NEW d \in Cookies, <<s, d>> \notin waiting
      PROVE  IsOpen(sessions', d) <=> IsOpen(sessions, d)
  <2>1. keyring[d] # s /\ pending[d] # s
    BY <1>3 DEF CookieInv, CookieAt, WaitersAt
  <2> QED
    BY <1>0, <2>1, DisconnectEffect DEF IsOpen
<1>4. Shown' = Shown \ ids
  BY <1>2, <1>3 DEF Shown
<1> QED
  BY <1>1, <1>2, <1>4 DEF Promise!Leave, Promise!WaitersOf, Shown

LEMMA PromiseStepAt ==
    ASSUME DistinctCookies, CookieInv, CookieInv', NEW c \in Cookies, StepAt(c)
    PROVE  Promise!PromptNext \/ (Shown' = Shown /\ waiting' = waiting)
<1> USE DEF pinentryVars
<1>0. /\ AuthTypeOK /\ FlowAt(c) /\ CookieAt(c) /\ CookieAt(c)'
      /\ sessions[c].source # "none" <=> c \in Shown
      /\ connected' = connected
  BY StepKeepsConnections DEF CookieInv, FlowInv, Shown, IsOpen
<1>1. /\ sessions'[c].source # "none" => Shown' = Shown \cup {c}
      /\ sessions'[c].source = "none" => Shown' = Shown \ {c}
  BY <1>0, ShownChange
<1> DEFINE WaitingAt == {t \in Sockets : <<t, c>> \in waiting}
<1>2. ASSUME NEW s \in connected, waiting' = waiting \cup {<<s, c>>},
             sessions'[c].source # "none"
      PROVE  Promise!PromptNext
  <2>1. Promise!Ask(s, c)
    BY <1>0, <1>1, <1>2 DEF Promise!Ask, Shown
  <2> QED
    BY <1>0, <2>1 DEF Promise!PromptNext, AuthTypeOK
<1>3. ASSUME c \in Shown, WaitingAt = {}, sessions'[c].source = "none", waiting' = waiting
      PROVE  Promise!PromptNext
  <2>1. Promise!Settle({c})
    BY <1>0, <1>1, <1>3 DEF Promise!Settle, Promise!WaitersOf, Shown
  <2> QED
    BY <2>1 DEF Promise!PromptNext
<1>4. ASSUME NEW s \in Sockets, HandleKeyringRequest(s, c) PROVE Promise!PromptNext
  <2>1. ~IsOpen(sessions, c)
    BY <1>0, <1>4, KeyringRequestFinds
  <2>2. /\ sessions'[c].source = "keyring" /\ waiting' = waiting \cup {<<s, c>>}
        /\ s \in connected
    BY <1>0, <1>4, <2>1, KeyringRequestEffect DEF HandleKeyringRequest
  <2> QED
    BY <1>2, <2>2
<1>5. ASSUME NEW s \in Sockets, PinentryOwnerMismatch(s, c) PROVE FALSE
  BY <1>0, <1>5, PinentryRequestFinds DEF PinentryOwnerMismatch
<1>6. ASSUME NEW s \in Sockets, NEW keyinfo \in KeyinfosOf[c],
             NEW parsed \in Attempts \cup {NoAttempt}, NEW error \in BOOLEAN,
             HandlePinentryRequest(s, c, keyinfo, parsed, error)
      PROVE  Promise!PromptNext
  <2>1. /\ flowOwners'[c] = PidOf[s] /\ waiting' = waiting \cup {<<s, c>>}
        /\ s \in connected
    BY <1>0, <1>6 DEF HandlePinentryRequest, AuthTypeOK
  <2>2. sessions'[c].source = "pinentry"
    BY <1>0, <2>1, PidOfAssumption, NullsAssumption DEF CookieAt, ManagerAt
  <2> QED
    BY <1>2, <2>1, <2>2
<1>7. ASSUME NEW s \in Sockets, TerminalResult(s, c) PROVE Promise!PromptNext
  <2>1. sessions[c].source = "pinentry" /\ WaitingAt = {}
    BY <1>0, <1>7, ResultFinds DEF TerminalResult
  <2>2. sessions'[c].source = "none" /\ waiting' = waiting
    BY <1>0, <1>7, <2>1, EndFlowEffect DEF TerminalResult, NoSession, PinentrySessions
  <2> QED
    BY <1>0, <1>3, <2>1, <2>2
<1>8. ASSUME NEW s \in Sockets, RetryResult(s, c)
      PROVE  Shown' = Shown /\ waiting' = waiting
  <2>1. sessions[c].source = "pinentry" /\ waiting' = waiting /\ flowOwners' = flowOwners
    BY <1>8 DEF RetryResult, MayReport, PinentrySessions
  <2>2. sessions'[c].source = "pinentry"
    BY <1>0, <2>1 DEF CookieAt, ManagerAt
  <2> QED
    BY <1>0, <1>1, <2>1, <2>2
<1>9. ASSUME NEW error \in BOOLEAN, InitiateAuthentication(c, error)
      PROVE  Promise!PromptNext
  <2>1. c \in polkit' /\ waiting' = waiting
    BY <1>9 DEF InitiateAuthentication
  <2>2. sessions'[c].source = "polkit"
    BY <1>0, <2>1 DEF CookieAt, ManagerAt
  <2>3. Promise!Show(c)
    BY <1>0, <1>1, <2>1, <2>2 DEF Promise!Show, Shown
  <2> QED
    BY <2>3 DEF Promise!PromptNext
<1>10. CASE PolkitPrompt(c) \/ PolkitError(c)
  <2>1. c \in polkit /\ c \in polkit' /\ waiting' = waiting
    BY <1>10 DEF PolkitPrompt, PolkitError
  <2>2. sessions[c].source = "polkit" /\ sessions'[c].source = "polkit"
    BY <1>0, <2>1 DEF CookieAt, ManagerAt
  <2> QED
    BY <1>0, <1>1, <2>1, <2>2
<1>12. CASE SettleKeyring(c)
  <2>1. /\ keyring[c] \in Sockets /\ waiting' = waiting \ {<<keyring[c], c>>}
        /\ sessions' = CloseSessions(sessions, {c})
    BY <1>0, <1>12 DEF SettleKeyring, AuthTypeOK
  <2>2. sessions'[c] = NoSession
    BY <1>0, <2>1, CloseOneFacts DEF AuthTypeOK, Store
  <2>3. pending[c] = NoSocket
    BY <1>0, <2>1, NullsAssumption, PidOfAssumption
       DEF CookieAt, ManagerAt, OwnerAt, AuthTypeOK
  <2>4. \A t \in Sockets : <<t, c>> \in waiting <=> t = keyring[c]
    BY <1>0, <2>3, NullsAssumption DEF CookieAt, WaitersAt
  <2>5. Promise!Answer(keyring[c], c)
    BY <1>0, <1>1, <2>1, <2>2, <2>4, ReplyIsAnswer DEF NoSession
  <2> QED
    BY <2>1, <2>5 DEF Promise!PromptNext
<1>13. CASE RespondPinentry(c)
  <2>1. /\ pending[c] \in Sockets /\ keyring[c] = NoSocket
        /\ waiting' = waiting \ {<<pending[c], c>>} /\ sessions' = sessions
    BY <1>0, <1>13 DEF RespondPinentry, AuthTypeOK
  <2>2. \A t \in Sockets : <<t, c>> \in waiting <=> t = pending[c]
    BY <1>0, <2>1, NullsAssumption DEF CookieAt, WaitersAt
  <2>3. Promise!Answer(pending[c], c)
    BY <1>0, <2>1, <2>2, ReplyIsAnswer DEF Shown
  <2> QED
    BY <2>1, <2>3 DEF Promise!PromptNext
<1>14. CASE CancelPinentry(c)
  <2>1. sessions[c].source = "pinentry"
    BY <1>0, <1>14, PidOfAssumption, NullsAssumption DEF CancelPinentry, CookieAt,
       HasPinentryRequest, PinentrySessions, OwnerAt, OutcomeAt, ManagerAt, AuthTypeOK
  <2>2. /\ keyring[c] = NoSocket /\ waiting' = waiting \ {<<pending[c], c>>}
        /\ EndFlow(c)
    BY <1>14 DEF CancelPinentry
  <2>3. sessions'[c].source = "none"
    BY <1>0, <2>1, <2>2, EndFlowEffect DEF NoSession, PinentrySessions
  <2>4. CASE pending[c] = NoSocket
    <3>1. WaitingAt = {}
      BY <1>0, <2>2, <2>4, NullsAssumption DEF CookieAt, WaitersAt
    <3>2. waiting' = waiting
      BY <1>0, <2>2, <2>4, NullsAssumption DEF AuthTypeOK
    <3> QED
      BY <1>0, <1>3, <2>1, <2>3, <3>1, <3>2
  <2>5. CASE pending[c] # NoSocket
    <3>1. pending[c] \in Sockets
      BY <1>0, <2>5 DEF AuthTypeOK
    <3>2. \A t \in Sockets : <<t, c>> \in waiting <=> t = pending[c]
      BY <1>0, <2>2, NullsAssumption DEF CookieAt, WaitersAt
    <3>3. Promise!Answer(pending[c], c)
      BY <1>0, <1>1, <2>2, <2>3, <3>1, <3>2, ReplyIsAnswer
    <3> QED
      BY <3>1, <3>3 DEF Promise!PromptNext
  <2> QED
    BY <2>4, <2>5
<1>15. CASE ResultTimeout(c)
  <2>1. /\ sessions[c].source = "pinentry" /\ pending[c] = NoSocket
        /\ EndFlow(c) /\ waiting' = waiting
    BY <1>0, <1>15 DEF ResultTimeout, FlowAt, CookieAt, OutcomeAt
  <2>2. keyring[c] = NoSocket
    BY <1>0, <2>1 DEF CookieAt, ManagerAt
  <2>3. WaitingAt = {}
    BY <1>0, <2>1, <2>2, NullsAssumption DEF CookieAt, WaitersAt
  <2>4. sessions'[c].source = "none"
    BY <1>0, <2>1, EndFlowEffect DEF NoSession, PinentrySessions
  <2> QED
    BY <1>0, <1>3, <2>1, <2>3, <2>4
<1> QED
  BY <1>4, <1>5, <1>6, <1>7, <1>8, <1>9, <1>10, <1>12, <1>13, <1>14, <1>15
     DEF StepAt, HandlePinentryResult

LEMMA PolkitCompleteIsSettle ==
    ASSUME DistinctCookies, CookieInv, NEW cs \in SUBSET Cookies, PolkitComplete(cs)
    PROVE  Promise!Settle(cs)
<1>1. ASSUME NEW c \in cs
      PROVE  /\ c \in Shown /\ sessions'[c].source = "none"
             /\ \A t \in Sockets : <<t, c>> \notin waiting
  <2>1. AuthTypeOK /\ CookieAt(c)
    BY DEF CookieInv, FlowInv
  <2>2. c \in polkit /\ sessions'[c] = NoSession
    BY <2>1, PolkitCompleteEffect
  <2>3. sessions[c].source = "polkit"
    BY <2>1, <2>2 DEF CookieAt, ManagerAt
  <2>4. \A t \in Sockets : <<t, c>> \notin waiting
    BY <2>1, <2>2, PolkitFinds
  <2> QED
    BY <2>2, <2>3, <2>4 DEF Shown, IsOpen, NoSession
<1>2. ASSUME NEW d \in Cookies, d \notin cs
      PROVE  sessions'[d] = sessions[d]
  BY <1>2, PolkitCompleteEffect DEF CookieInv, FlowInv, SameAt
<1>3. Shown' = Shown \ cs
  BY <1>1, <1>2 DEF Shown, IsOpen
<1>4. waiting' = waiting /\ connected' = connected
  BY DEF PolkitComplete
<1> QED
  BY <1>1, <1>3, <1>4 DEF Promise!Settle, Promise!WaitersOf, Shown

\* What PromptService promises its requesters, the daemon keeps, provided that
\* no two clients use the same cookie.
THEOREM PromiseKept == ASSUME DistinctCookies PROVE Spec => KeepsPromise
<1>1. Init => Promise!PromptInit
  BY DEF Init, Promise!PromptInit, IsOpen, NoSession
<1> DEFINE Unseen == connected' = connected /\ Shown' = Shown /\ waiting' = waiting
<1>2. ASSUME CookieInv, CookieInv', [Next]_vars
      PROVE  [Promise!PromptNext]_(Promise!promptVars)
  <2>1. ASSUME NEW s \in Sockets, Connect(s)
        PROVE  Promise!PromptNext
    <3>1. Promise!Arrive(s)
      BY <2>1 DEF Connect, Promise!Arrive, Shown
    <3> QED
      BY <3>1 DEF Promise!PromptNext
  <2>2. ASSUME NEW s \in Sockets, OnClientDisconnected(s)
        PROVE  Promise!PromptNext
    BY <1>2, <2>2, DisconnectIsLeave DEF Promise!PromptNext
  <2>3. ASSUME NEW cs \in SUBSET Cookies, PolkitComplete(cs)
        PROVE  Promise!PromptNext
    BY <1>2, <2>3, PolkitCompleteIsSettle DEF Promise!PromptNext
  <2>4. ASSUME NEW c \in Cookies, StepAt(c) PROVE Promise!PromptNext \/ Unseen
    BY <1>2, <2>4, PromiseStepAt, StepKeepsConnections
  <2>5. ASSUME UNCHANGED vars PROVE Unseen
    BY <2>5 DEF vars, Shown
  <2>6. Promise!PromptNext \/ Unseen
    BY <1>2, <2>1, <2>2, <2>3, <2>4, <2>5, NextByCookie
  <2>7. ASSUME Unseen PROVE UNCHANGED Promise!promptVars
    BY <2>7 DEF Promise!promptVars, Shown
  <2> QED
    BY <2>6, <2>7
<1> QED
  BY <1>1, <1>2, CookieInvariance, PTL DEF Spec, KeepsPromise, Promise!PromptSpec

-----------------------------------------------------------------------------
(* Attempt counts.  A count that is kept for a key has a flow that names   *)
(* the key and has an owner; a flow names one key for as long as it lives. *)

AttemptsInv ==
    /\ \A c \in Cookies : flowKeyinfos[c] \in KeyinfosOf[c] \cup {NoKeyinfo}
    /\ \A k \in Keyinfos : retryInfo[k] # NoAttempt =>
           \E c \in Cookies : flowOwners[c] # NoPid /\ flowKeyinfos[c] = k

\* Closing flows takes the counts of their keys along.
LEMMA CloseFlowsAttempts ==
    ASSUME AttemptsInv, NEW cs, CloseFlows(cs)
    PROVE  AttemptsInv'
<1>1. \A c \in Cookies : flowKeyinfos'[c] \in KeyinfosOf[c] \cup {NoKeyinfo}
  BY DEF AttemptsInv, CloseFlows
<1>2. ASSUME NEW k \in Keyinfos, retryInfo'[k] # NoAttempt
      PROVE  \E c \in Cookies : flowOwners'[c] # NoPid /\ flowKeyinfos'[c] = k
  <2>1. retryInfo[k] # NoAttempt /\ \A c \in cs : flowKeyinfos[c] # k
    BY <1>2 DEF CloseFlows
  <2>2. PICK c \in Cookies : flowOwners[c] # NoPid /\ flowKeyinfos[c] = k
    BY <2>1 DEF AttemptsInv
  <2>3. c \notin cs
    BY <2>1, <2>2
  <2> QED
    BY <2>2, <2>3 DEF CloseFlows
<1> QED
  BY <1>1, <1>2 DEF AttemptsInv

\* A request names the key its flow has named before, if it names one.
LEMMA PinentryRequestAttempts ==
    ASSUME OneKeyPerFlow, AuthTypeOK, AttemptsInv, NEW s \in Sockets, NEW c \in Cookies,
           NEW keyinfo \in KeyinfosOf[c], NEW parsed, NEW error,
           HandlePinentryRequest(s, c, keyinfo, parsed, error)
    PROVE  AttemptsInv'
<1>1. /\ flowOwners' = [flowOwners EXCEPT ![c] = PidOf[s]]
      /\ flowKeyinfos' = [flowKeyinfos EXCEPT ![c] = IF keyinfo = NoKeyinfo THEN @ ELSE keyinfo]
      /\ \A k \in Keyinfos \ {keyinfo} : retryInfo'[k] = retryInfo[k]
  BY DEF HandlePinentryRequest
<1>2. PidOf[s] # NoPid
  BY PidOfAssumption, NullsAssumption
<1>3. \A d \in Cookies : flowKeyinfos'[d] \in KeyinfosOf[d] \cup {NoKeyinfo}
  BY <1>1 DEF AttemptsInv, AuthTypeOK
<1>4. ASSUME NEW k \in Keyinfos, retryInfo'[k] # NoAttempt
      PROVE  \E d \in Cookies : flowOwners'[d] # NoPid /\ flowKeyinfos'[d] = k
  <2>1. CASE k = keyinfo
    <3>1. flowOwners'[c] # NoPid /\ flowKeyinfos'[c] = k
      BY <1>1, <1>2, <2>1, NullsAssumption DEF AuthTypeOK
    <3> QED
      BY <3>1
  <2>2. CASE k # keyinfo
    <3>1. PICK d \in Cookies : flowOwners[d] # NoPid /\ flowKeyinfos[d] = k
      BY <1>1, <1>4, <2>2 DEF AttemptsInv
    <3>2. CASE d = c
      <4>1. k \in KeyinfosOf[c] \ {NoKeyinfo}
        BY <3>1, <3>2, NullsAssumption DEF AttemptsInv
      <4>2. keyinfo = NoKeyinfo
        BY <2>2, <4>1 DEF OneKeyPerFlow
      <4> QED
        BY <1>1, <1>2, <3>1, <3>2, <4>2 DEF AuthTypeOK
    <3>3. CASE d # c
      BY <1>1, <3>1, <3>3 DEF AuthTypeOK
    <3> QED
      BY <3>2, <3>3
  <2> QED
    BY <2>1, <2>2
<1> QED
  BY <1>3, <1>4 DEF AttemptsInv

\* Every other step leaves the flows, or closes some.
LEMMA OtherStepsAttempts ==
    ASSUME [Next]_vars
    PROVE  \/ UNCHANGED <<flowOwners, flowKeyinfos, retryInfo>>
           \/ \E cs \in SUBSET Cookies : CloseFlows(cs)
           \/ \E s \in Sockets, c \in Cookies :
                 \E keyinfo \in KeyinfosOf[c], parsed \in Attempts \cup {NoAttempt},
                    error \in BOOLEAN :
                    HandlePinentryRequest(s, c, keyinfo, parsed, error)
<1> DEFINE Kept == UNCHANGED <<flowOwners, flowKeyinfos, retryInfo>>
<1>1. ASSUME NEW s \in Sockets, OnClientDisconnected(s)
      PROVE  \E cs \in SUBSET Cookies : CloseFlows(cs)
  <2>1. CloseFlows({c \in Cookies : pending[c] = s})
    BY <1>1 DEF OnClientDisconnected
  <2> QED
    BY <2>1
<1>2. ASSUME NEW c \in Cookies, EndFlow(c)
      PROVE  \E cs \in SUBSET Cookies : CloseFlows(cs)
  <2>1. CloseFlows({c})
    BY <1>2 DEF EndFlow
  <2> QED
    BY <2>1
<1>3. ASSUME NEW s \in Sockets, Connect(s) PROVE Kept
  BY <1>3 DEF Connect, pinentryVars
<1>4. ASSUME NEW cs, PolkitComplete(cs) PROVE Kept
  BY <1>4 DEF PolkitComplete, pinentryVars
<1>5. ASSUME NEW s \in Sockets, NEW c \in Cookies,
             \/ HandleKeyringRequest(s, c) \/ PinentryOwnerMismatch(s, c)
             \/ RetryResult(s, c)
      PROVE  Kept
  BY <1>5 DEF HandleKeyringRequest, PinentryOwnerMismatch, RetryResult, pinentryVars
<1>6. ASSUME NEW s \in Sockets, NEW c \in Cookies, TerminalResult(s, c) PROVE EndFlow(c)
  BY <1>6 DEF TerminalResult
<1>7. ASSUME NEW c \in Cookies, NEW error, InitiateAuthentication(c, error) PROVE Kept
  BY <1>7 DEF InitiateAuthentication, pinentryVars
<1>8. ASSUME NEW c \in Cookies, PolkitPrompt(c) \/ PolkitError(c) PROVE Kept
  BY <1>8 DEF PolkitPrompt, PolkitError, pinentryVars
<1>9. ASSUME NEW c \in Cookies, SettleKeyring(c) \/ RespondPinentry(c) PROVE Kept
  BY <1>9 DEF SettleKeyring, RespondPinentry, pinentryVars
<1>10. ASSUME NEW c \in Cookies, CancelPinentry(c) \/ ResultTimeout(c) PROVE EndFlow(c)
  BY <1>10 DEF CancelPinentry, ResultTimeout
<1>11. CASE UNCHANGED vars
  BY <1>11 DEF vars, pinentryVars
<1>12. ASSUME NEW c \in Cookies, StepAt(c)
       PROVE  \/ Kept
              \/ EndFlow(c)
              \/ \E s \in Sockets, keyinfo \in KeyinfosOf[c],
                    parsed \in Attempts \cup {NoAttempt}, error \in BOOLEAN :
                    HandlePinentryRequest(s, c, keyinfo, parsed, error)
  BY <1>5, <1>6, <1>7, <1>8, <1>9, <1>10, <1>12 DEF StepAt, HandlePinentryResult
<1> QED
  BY <1>1, <1>2, <1>3, <1>4, <1>11, <1>12, NextByCookie

LEMMA AttemptsInvariance == ASSUME OneKeyPerFlow PROVE Spec => []AttemptsInv
<1>1. Init => AttemptsInv
  BY DEF Init, AttemptsInv
<1>2. AuthTypeOK /\ AttemptsInv /\ [Next]_vars => AttemptsInv'
  <2> SUFFICES ASSUME AuthTypeOK, AttemptsInv, [Next]_vars PROVE AttemptsInv'
    OBVIOUS
  <2>1. CASE UNCHANGED <<flowOwners, flowKeyinfos, retryInfo>>
    BY <2>1 DEF AttemptsInv
  <2> QED
    BY <2>1, OtherStepsAttempts, CloseFlowsAttempts, PinentryRequestAttempts
<1> QED
  BY <1>1, <1>2, AuthTypeCorrect, PTL DEF Spec

\* The attempt count of a key dies with the flow that named it (closeFlow), as
\* long as clients draw their own cookies and a flow sticks to its key.
THEOREM AttemptsForgotten ==
    ASSUME DistinctCookies, OneKeyPerFlow PROVE Spec => []AttemptsDieWithTheFlow
<1>1. CookieInv /\ AttemptsInv => AttemptsDieWithTheFlow
  BY DEF CookieInv, CookieAt, ManagerAt, AttemptsInv, AttemptsDieWithTheFlow,
         PinentrySessions
<1> QED
  BY <1>1, CookieInvariance, AttemptsInvariance, PTL

-----------------------------------------------------------------------------
(* The program that is named.                                              *)

\* Induction, over the numbers that form a set.
LEMMA LeastElement ==
    ASSUME NEW T, T \subseteq Nat, T # {}
    PROVE  \E x \in T : \A y \in T : x <= y
<1>1. PICK x \in T : \A y \in T : ~ (<<y, x>> \in OpToRel(<, Nat))
  BY NatLessThanWellFounded, WFMin
<1>2. \A y \in T : ~ (y < x)
  BY <1>1 DEF OpToRel
<1> QED
  BY <1>2

\* A set with 0 and the successors of its numbers has them all.
LEMMA InductionOnSet ==
    ASSUME NEW S, 0 \in S, \A n \in Nat : n \in S => n + 1 \in S
    PROVE  Nat \subseteq S
<1> SUFFICES ASSUME Nat \ S # {}
             PROVE  FALSE
  OBVIOUS
<1>1. PICK x \in Nat \ S : \A y \in Nat \ S : x <= y
  <2> DEFINE T == Nat \ S
  <2>1. T \subseteq Nat /\ T # {}
    OBVIOUS
  <2> HIDE DEF T
  <2>2. \E x \in T : \A y \in T : x <= y
    BY <2>1, LeastElement
  <2> QED
    BY <2>2 DEF T
<1>2. x # 0 /\ x - 1 \in Nat
  OBVIOUS
<1>3. x - 1 \in S
  BY <1>1, <1>2
<1> QED
  BY <1>2, <1>3

\* What the walk comes to after n readings.
IsApp(readings, i) == Reaches(readings, i) /\ DesktopOf(readings[i]) # NoDesktop
IsMine(readings, i) == Reaches(readings, i) /\ IsCandidate(readings[i])

GoesOn(readings, n, w) ==
    IF w.on
    THEN \A i \in 1..n : /\ MayPass(readings[i]) /\ DesktopOf(readings[i]) = NoDesktop
                         /\ ~readings[i].last
    ELSE \A j \in Nat : j > n => ~Reaches(readings, j)

NamesOne(readings, n, w) ==
    \/ /\ w.desktop # NoDesktop /\ ~w.on
       /\ \E i \in 1..n : /\ IsApp(readings, i)
                          /\ w.proc = readings[i] /\ w.desktop = DesktopOf(readings[i])
    \/ /\ w.desktop = NoDesktop
       /\ \A i \in 1..n : ~IsApp(readings, i)
       /\ \/ w.proc = "subject" /\ \A i \in 1..n : ~IsMine(readings, i)
          \/ \E i \in 1..n : /\ IsMine(readings, i) /\ w.proc = readings[i]
                             /\ \A j \in 1..n : IsMine(readings, j) => j <= i

WalkInv(readings, n, w) ==
    /\ w = [proc |-> w.proc, desktop |-> w.desktop, on |-> w.on]
    /\ GoesOn(readings, n, w)
    /\ NamesOne(readings, n, w)

\* One hop more.
LEMMA HopKeepsInv ==
    ASSUME NEW readings, NEW n \in Nat, n + 1 <= MaxHops, NEW w, WalkInv(readings, n, w)
    PROVE  WalkInv(readings, n + 1, Hop(w, readings[n + 1]))
<1> DEFINE p == readings[n + 1]
           v == Hop(w, p)
<1> USE HopsAssumption
<1>0. /\ w = [proc |-> w.proc, desktop |-> w.desktop, on |-> w.on]
      /\ GoesOn(readings, n, w) /\ NamesOne(readings, n, w)
  BY DEF WalkInv
<1>1. \A i \in 1..(n + 1) : i \in 1..n \/ i = n + 1
  OBVIOUS
<1>2. CASE ~w.on
  <2>1. v = w
    BY <1>2 DEF Hop
  <2>2. \A j \in Nat : j > n => ~Reaches(readings, j)
    BY <1>0, <1>2 DEF GoesOn
  <2>3. GoesOn(readings, n + 1, w)
    BY <1>2, <2>2 DEF GoesOn
  <2>4. ~IsApp(readings, n + 1) /\ ~IsMine(readings, n + 1)
    BY <2>2 DEF IsApp, IsMine
  <2>5. NamesOne(readings, n + 1, w)
    BY <1>0, <1>1, <2>4 DEF NamesOne
  <2> QED
    BY <1>0, <2>1, <2>3, <2>5 DEF WalkInv
<1>3. CASE w.on
  <2>0. \A i \in 1..n : /\ MayPass(readings[i]) /\ DesktopOf(readings[i]) = NoDesktop
                        /\ ~readings[i].last
    BY <1>0, <1>3 DEF GoesOn
  <2>1. CASE ~MayPass(p)
    <3>1. v.proc = w.proc /\ v.desktop = w.desktop /\ v.on = FALSE
          /\ v = [proc |-> v.proc, desktop |-> v.desktop, on |-> v.on]
      BY <1>0, <1>3, <2>1 DEF Hop
    <3> HIDE DEF v
    <3>2. \A j \in Nat : j > n => ~Reaches(readings, j)
      BY <2>1 DEF Reaches
    <3>3. GoesOn(readings, n + 1, v)
      BY <3>1, <3>2 DEF GoesOn
    <3>4. ~IsApp(readings, n + 1) /\ ~IsMine(readings, n + 1)
      BY <3>2 DEF IsApp, IsMine
    <3>5. NamesOne(readings, n + 1, v)
      BY <1>0, <1>1, <1>3, <3>1, <3>4 DEF NamesOne
    <3> QED
      BY <3>1, <3>3, <3>5 DEF WalkInv, v
  <2>2. CASE MayPass(p)
    <3>0. Reaches(readings, n + 1)
      BY <1>1, <2>0, <2>2 DEF Reaches
    <3>1. CASE DesktopOf(p) # NoDesktop
      <4>1. v = [proc |-> p, desktop |-> DesktopOf(p), on |-> FALSE]
        BY <1>3, <2>2, <3>1 DEF Hop
      <4> HIDE DEF v
      <4>2. \A j \in Nat : j > n + 1 => ~Reaches(readings, j)
        BY <3>1 DEF Reaches
      <4>3. GoesOn(readings, n + 1, v)
        BY <4>1, <4>2 DEF GoesOn
      <4>4. IsApp(readings, n + 1) /\ n + 1 \in 1..(n + 1)
        BY <3>0, <3>1 DEF IsApp
      <4>5. NamesOne(readings, n + 1, v)
        BY <3>1, <4>1, <4>4 DEF NamesOne
      <4> QED
        BY <4>1, <4>3, <4>5 DEF WalkInv, v
    <3>2. CASE DesktopOf(p) = NoDesktop
      <4>1. /\ v = [proc |-> v.proc, desktop |-> v.desktop, on |-> v.on]
            /\ v.proc = (IF IsCandidate(p) THEN p ELSE w.proc)
            /\ v.desktop = w.desktop /\ v.on = ~p.last
        BY <1>0, <1>3, <2>2, <3>2 DEF Hop
      <4>2. w.desktop = NoDesktop /\ \A i \in 1..n : ~IsApp(readings, i)
        BY <1>0, <1>3 DEF NamesOne
      <4> HIDE DEF v
      <4>3. GoesOn(readings, n + 1, v)
        <5>1. CASE p.last
          <6>1. \A j \in Nat : j > n + 1 => ~Reaches(readings, j)
            BY <5>1 DEF Reaches
          <6> QED
            BY <4>1, <5>1, <6>1 DEF GoesOn
        <5>2. CASE ~p.last
          BY <1>1, <2>0, <2>2, <3>2, <4>1, <5>2 DEF GoesOn
        <5> QED
          BY <5>1, <5>2
      <4>4. \A i \in 1..(n + 1) : ~IsApp(readings, i)
        BY <1>1, <3>2, <4>2 DEF IsApp
      <4>5. \/ v.proc = "subject" /\ \A i \in 1..(n + 1) : ~IsMine(readings, i)
            \/ \E i \in 1..(n + 1) : /\ IsMine(readings, i) /\ v.proc = readings[i]
                                     /\ \A j \in 1..(n + 1) : IsMine(readings, j) => j <= i
        <5>1. CASE IsCandidate(p)
          <6>1. IsMine(readings, n + 1) /\ v.proc = readings[n + 1] /\ n + 1 \in 1..(n + 1)
            BY <3>0, <4>1, <5>1 DEF IsMine
          <6>2. \A j \in 1..(n + 1) : j <= n + 1
            OBVIOUS
          <6> QED
            BY <6>1, <6>2
        <5>2. CASE ~IsCandidate(p)
          <6>1. ~IsMine(readings, n + 1) /\ v.proc = w.proc
            BY <4>1, <5>2 DEF IsMine
          <6>2. \A i \in 1..n : i \in 1..(n + 1)
            OBVIOUS
          <6> QED
            BY <1>0, <1>1, <4>2, <6>1, <6>2 DEF NamesOne
        <5> QED
          BY <5>1, <5>2
      <4>6. NamesOne(readings, n + 1, v)
        BY <4>1, <4>2, <4>4, <4>5 DEF NamesOne
      <4> QED
        BY <4>1, <4>3, <4>6 DEF WalkInv, v
    <3> QED
      BY <3>1, <3>2
  <2> QED
    BY <2>1, <2>2
<1> QED
  BY <1>2, <1>3

\* The walk, hop by hop.
Outset == [proc |-> "subject", desktop |-> NoDesktop, on |-> TRUE]
Hops(f, readings, n) ==
    f = [i \in 0..n |-> IF i = 0 THEN Outset ELSE Hop(f[i - 1], readings[i])]

LEMMA HopsExist ==
    ASSUME NEW readings
    PROVE  \A m \in Nat : \E f : Hops(f, readings, m)
<1> DEFINE S == {n \in Nat : \E f : Hops(f, readings, n)}
<1>1. 0 \in S
  <2>1. Hops([i \in 0..0 |-> Outset], readings, 0)
    BY DEF Hops
  <2> QED
    BY <2>1
<1>2. ASSUME NEW n \in Nat, n \in S
      PROVE  n + 1 \in S
  <2>1. PICK f : Hops(f, readings, n)
    BY <1>2
  <2> DEFINE h == [i \in 0..(n + 1) |->
                      IF i = n + 1 THEN Hop(f[n], readings[i]) ELSE f[i]]
  <2>2. ASSUME NEW i \in 0..(n + 1)
        PROVE  h[i] = IF i = 0 THEN Outset ELSE Hop(h[i - 1], readings[i])
    <3>1. \A j \in 0..n : f[j] = IF j = 0 THEN Outset ELSE Hop(f[j - 1], readings[j])
      BY <2>1 DEF Hops
    <3>2. CASE i = n + 1
      BY <3>2
    <3>3. CASE i # n + 1
      BY <3>1, <3>3
    <3> QED
      BY <3>2, <3>3
  <2>3. h = [i \in 0..(n + 1) |-> h[i]]
    OBVIOUS
  <2> HIDE DEF h
  <2>4. h = [i \in 0..(n + 1) |-> IF i = 0 THEN Outset ELSE Hop(h[i - 1], readings[i])]
    BY <2>2, <2>3
  <2>5. Hops(h, readings, n + 1)
    BY <2>4 DEF Hops
  <2> QED
    BY <2>5
<1>3. Nat \subseteq S
  <2> HIDE DEF S
  <2> QED
    BY <1>1, <1>2, InductionOnSet
<1> QED
  BY <1>3

LEMMA HopsKeepInv ==
    ASSUME NEW readings, NEW m \in Nat, m <= MaxHops, NEW f, Hops(f, readings, m)
    PROVE  WalkInv(readings, m, f[m])
<1> DEFINE S == {n \in Nat : n <= m => WalkInv(readings, n, f[n])}
<1> USE HopsAssumption
<1>0. \A i \in 0..m : f[i] =
          IF i = 0 THEN Outset ELSE Hop(f[i - 1], readings[i])
  BY DEF Hops
<1>1. 0 \in S
  <2>1. f[0] = Outset
    BY <1>0
  <2>2. \A i \in 1..0 : FALSE
    OBVIOUS
  <2>3. WalkInv(readings, 0, f[0])
    BY <2>1, <2>2 DEF Outset, WalkInv, GoesOn, NamesOne
  <2> QED
    BY <2>3
<1>2. ASSUME NEW n \in Nat, n \in S
      PROVE  n + 1 \in S
  <2> SUFFICES ASSUME n + 1 <= m
               PROVE  WalkInv(readings, n + 1, f[n + 1])
    OBVIOUS
  <2>1. WalkInv(readings, n, f[n])
    BY <1>2
  <2>2. f[n + 1] = Hop(f[n], readings[n + 1]) /\ n + 1 <= MaxHops
    BY <1>0
  <2> QED
    BY <2>1, <2>2, HopKeepsInv
<1>3. Nat \subseteq S
  <2> HIDE DEF S
  <2> QED
    BY <1>1, <1>2, InductionOnSet
<1> QED
  BY <1>3

\* The hops cover what can be reached.
LEMMA EndOfWalk ==
    ASSUME NEW readings \in Readings, NEW hops \in Nat, hops <= Len(readings),
           hops = MaxHops \/ hops = Len(readings), NEW w, NamesOne(readings, hops, w)
    PROVE  LET reached == {i \in DOMAIN readings : Reaches(readings, i)}
               apps == {i \in reached : DesktopOf(readings[i]) # NoDesktop}
               mine == {i \in reached : IsCandidate(readings[i])}
           IN  IF apps # {}
               THEN \E i \in apps : w.proc = readings[i] /\ w.desktop = DesktopOf(readings[i])
               ELSE /\ w.desktop = NoDesktop
                    /\ IF mine = {} THEN w.proc = "subject"
                       ELSE \E i \in mine : w.proc = readings[i] /\ \A j \in mine : j <= i
<1> DEFINE len == Len(readings)
<1>1. len \in Nat /\ DOMAIN readings = 1..len
  BY ReadingsAssumption
<1>2. hops <= len /\ (hops = MaxHops \/ hops = len)
  OBVIOUS
<1> HIDE DEF len
<1>3. \A i \in DOMAIN readings : Reaches(readings, i) => i \in 1..hops
  <2>1. ASSUME NEW i \in 1..len, Reaches(readings, i)
        PROVE  i <= MaxHops
    BY <2>1 DEF Reaches
  <2>2. ASSUME NEW i \in 1..len, i <= MaxHops
        PROVE  i \in 1..hops
    BY <1>1, <1>2, <2>2
  <2> QED
    BY <1>1, <2>1, <2>2
<1>4. \A i \in 1..hops : i \in DOMAIN readings
  BY <1>1, <1>2
<1>5. CASE w.desktop # NoDesktop
  BY <1>4, <1>5 DEF NamesOne, IsApp
<1>6. CASE w.desktop = NoDesktop
  BY <1>3, <1>4, <1>6 DEF NamesOne, IsApp, IsMine
<1> QED
  BY <1>5, <1>6

\* Whatever /proc shows the walk, it ends where resolveRequestorFromSubject should:
\* at an application, or at the outermost process of the user within reach.
LEMMA EveryWalkEndsWell == WalksEndAtTheRequestor
<1> SUFFICES ASSUME NEW readings \in Readings
             PROVE  LET w == ResolveRequestorFromSubject("subject", readings)
                        reached == {i \in DOMAIN readings : Reaches(readings, i)}
                        apps == {i \in reached : DesktopOf(readings[i]) # NoDesktop}
                        mine == {i \in reached : IsCandidate(readings[i])}
                    IN  IF apps # {}
                        THEN \E i \in apps : /\ w.proc = readings[i]
                                             /\ w.desktop = DesktopOf(readings[i])
                        ELSE /\ w.desktop = NoDesktop
                             /\ IF mine = {} THEN w.proc = "subject"
                                ELSE \E i \in mine : /\ w.proc = readings[i]
                                                     /\ \A j \in mine : j <= i
  BY DEF WalksEndAtTheRequestor
<1> DEFINE hops == IF MaxHops < Len(readings) THEN MaxHops ELSE Len(readings)
           walk == CHOOSE f : Hops(f, readings, hops)
<1>1. /\ hops \in Nat /\ hops <= MaxHops /\ hops <= Len(readings)
      /\ hops = MaxHops \/ hops = Len(readings)
  BY HopsAssumption, ReadingsAssumption
<1>2. ResolveRequestorFromSubject("subject", readings) = walk[hops]
  BY DEF ResolveRequestorFromSubject, Hops, Outset
<1> HIDE DEF hops
<1>3. Hops(walk, readings, hops)
  BY <1>1, HopsExist
<1> HIDE DEF walk
<1>4. NamesOne(readings, hops, walk[hops])
  BY <1>1, <1>3, HopsKeepInv DEF WalkInv
<1> QED
  BY <1>1, <1>2, <1>4, EndOfWalk

\* Every prompt on display names the right program, for walks of any length over
\* any processes, and whatever requests are open (NamesTheRequestor).
THEOREM PromptsNameTheRequestor == Spec => []NamesTheRequestor
<1>1. NamesTheRequestor
  BY EveryWalkEndsWell DEF NamesTheRequestor
<1> QED
  BY <1>1, PTL
=============================================================================
