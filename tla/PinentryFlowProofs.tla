------------------------- MODULE PinentryFlowProofs -------------------------
(***************************************************************************)
(* Proofs about PinentryFlow, for any number of connections and flows.     *)
(* Its steps are steps of AuthSessions, whose invariants hold here, and    *)
(* the rules AuthSessions assumes of its clients are what the program      *)
(* keeps: DistinctCookies follows from there being one program.            *)
(***************************************************************************)
EXTENDS PinentryFlow, AuthSessionsProofs

Calling == {"retry", "getpin", "confirm", "final"}
Asking  == {"getpin", "confirm"}

Question == [type : {"pinentry_request"}, cookie : Cookies, error : BOOLEAN]
Report   == [type : {"pinentry_result"}, cookie : Cookies,
             result : {"retry", "success", "cancelled", "error"}]
Message  == Question \cup Report

\* A message that NotWaiting is a precondition of.
Binding(s) == inbox[s] # NoMessage /\ ~Late(inbox[s])

-----------------------------------------------------------------------------
(* The inductive invariant.                                                *)

ProgramTypeOK ==
    /\ flow \in Cookies \cup {NoFlow}
    /\ awaitingTerminalResult \in BOOLEAN
    /\ stateError \in BOOLEAN
    /\ doing \in Calling \cup {"idle", "done"}
    /\ call \in Sockets \cup {NoSocket}
    /\ inbox \in [Sockets -> Message \cup {NoMessage}]
    /\ used \subseteq Cookies

\* The program has a flow while it waits, and between two commands exactly if
\* the outcome of an answer is still to be reported.
ProgramInv ==
    /\ call # NoSocket <=> doing \in Calling
    /\ doing \in Calling => flow # NoFlow
    /\ doing = "idle" => (awaitingTerminalResult <=> flow # NoFlow)
    /\ doing = "done" => flow = NoFlow
    /\ flow # NoFlow => flow \in used

\* What the daemon has still to read.  The last message of the flow the program
\* is at is on the call; earlier ones are late reports of a retry.
ChannelsInv ==
    /\ call # NoSocket => call \in connected
    /\ \A s \in Sockets : inbox[s] # NoMessage =>
          s \in connected /\ inbox[s].cookie \in used
    /\ call # NoSocket /\ inbox[call] # NoMessage =>
          /\ inbox[call].cookie = flow
          /\ reply = "none"
          /\ doing = "retry" => Late(inbox[call])
          /\ doing \in Asking <=> inbox[call].type = "pinentry_request"
    /\ \A s \in Sockets : Binding(s) /\ inbox[s].cookie = flow => s = call
    /\ \A s, t \in Sockets :
          Binding(s) /\ Binding(t) /\ inbox[s].cookie = inbox[t].cookie => s = t

\* What the daemon asks of the user.
PendingAt(c) ==
    pending[c] # NoSocket =>
        /\ c \in used
        /\ inbox[pending[c]] = NoMessage
        /\ c = flow <=> pending[c] = call
        /\ c = flow => doing \in Asking /\ reply = "none"
PendingInv ==
    /\ \A c \in Cookies : PendingAt(c)
    /\ \A s \in Sockets : Binding(s) => pending[inbox[s].cookie] = NoSocket

\* A prompt is asked, or something is under way that ends it.
LeftInv ==
    \A c \in PinentrySessions :
        pending[c] # NoSocket \/ c \in awaiting \/ c \in retryReported

PinentryInv ==
    ProgramTypeOK /\ ProgramInv /\ ChannelsInv /\ PendingInv /\ LeftInv
        /\ WaitsForItsPrompt

-----------------------------------------------------------------------------
(* The program is a client of AuthSessions.                                *)

LEMMA OneKindOfRequest == DistinctCookies
BY OneProcessAssumption DEF DistinctCookies

\* There is nothing but pinentry flows in the daemon.
LEMMA OnlyPinentry ==
    ASSUME CookieInv, NEW c \in Cookies
    PROVE  keyring[c] = NoSocket /\ (IsOpen(sessions, c) => c \in PinentrySessions)
<1>1. CookieAt(c) /\ sessions[c] \in Session \cup {NoSession}
  BY DEF CookieInv, FlowInv, AuthTypeOK
<1>2. \A s : <<"keyring", s, c>> \notin Requests /\ <<"polkit", s, c>> \notin Requests
  BY OneProcessAssumption
<1>3. keyring[c] = NoSocket /\ c \notin polkit
  BY <1>1, <1>2 DEF CookieAt, RequestedAt
<1>4. sessions[c].source \notin {"keyring", "polkit"}
  BY <1>1, <1>3 DEF CookieAt, ManagerAt
<1>5. sessions[c].source \in Sources \cup {"none"}
  BY <1>1 DEF Session, NoSession
<1> QED
  BY <1>3, <1>4, <1>5 DEF IsOpen, PinentrySessions, Sources

LEMMA FreshIsNew == ASSUME NEW names, names # {} PROVE Fresh(names) \in names
BY DEF Fresh

LEMMA MessageFacts ==
    ASSUME ProgramTypeOK, NEW s \in Sockets, inbox[s] # NoMessage
    PROVE  /\ inbox[s] \in Message
           /\ inbox[s].cookie \in Cookies
           /\ inbox[s].type = "pinentry_request" => inbox[s] \in Question /\ Binding(s)
           /\ inbox[s].type = "pinentry_result" => inbox[s] \in Report
           /\ inbox[s].type \in {"pinentry_request", "pinentry_result"}
<1>1. inbox[s] \in Message
  BY DEF ProgramTypeOK
<1> QED
  BY <1>1 DEF Message, Question, Report, Binding, Late

LEMMA SendEffect ==
    ASSUME NEW m, SendRequest(m)
    PROVE  /\ call' \in Sockets /\ call' \notin connected
           /\ Connect(call')
           /\ inbox' = [inbox EXCEPT ![call'] = m]
           /\ reply' = "none"
BY FreshIsNew DEF SendRequest

\* What the program does, the daemon notices as a new connection at most.
LEMMA ProgramOnlyConnects ==
    PinentryStep => vars' = vars \/ \E s \in Sockets : Connect(s)
<1> SUFFICES ASSUME PinentryStep
             PROVE  vars' = vars \/ \E s \in Sockets : Connect(s)
  OBVIOUS
<1>1. ASSUME NEW m, SendRequest(m) PROVE \E s \in Sockets : Connect(s)
  BY <1>1, SendEffect
<1>2. ASSUME NEW kind, Ask(kind) PROVE \E s \in Sockets : Connect(s)
  BY <1>1, <1>2 DEF Ask
<1>3. ASSUME NEW result, NEW kind, ReportTerminalResult(result, kind)
      PROVE  \E s \in Sockets : Connect(s)
  BY <1>1, <1>3 DEF ReportTerminalResult
<1>4. CASE HandleGetPin
  BY <1>2, <1>3, <1>4 DEF HandleGetPin
<1>5. CASE HandleConfirm
  BY <1>2, <1>5 DEF HandleConfirm
<1>6. CASE StreamCloses
  BY <1>3, <1>6 DEF StreamCloses
<1>7. CASE RetryReturns
  BY <1>2, <1>7 DEF RetryReturns
<1> QED
  BY <1>4, <1>5, <1>6, <1>7
     DEF PinentryStep, SendFails, SetError, Reset, FinalReturns, AnswerReturns, Killed

LEMMA StepsOfAuthSessions == ProgramTypeOK /\ [FlowNext]_flowVars => [Next]_vars
<1> SUFFICES ASSUME ProgramTypeOK, [FlowNext]_flowVars
             PROVE  [Next]_vars
  OBVIOUS
<1>1. CASE PinentryStep
  BY <1>1, ProgramOnlyConnects DEF Next
<1>2. ASSUME NEW s \in Sockets, DaemonReads(s) PROVE [Next]_vars
  <2> DEFINE m == inbox[s]
  <2>1. m # NoMessage
    BY <1>2 DEF DaemonReads, NoMessage
  <2>2. m.cookie \in Cookies
    BY <2>1, MessageFacts
  <2>3. CASE HandlePinentryRequest(s, m.cookie, NoKeyinfo, NoAttempt, m.error)
             /\ m.type = "pinentry_request"
    <3>1. m.error \in BOOLEAN
      BY <2>1, <2>3, MessageFacts DEF Question
    <3>2. NoKeyinfo \in KeyinfosOf[m.cookie]
      BY <2>2, OneProcessAssumption
    <3> QED
      BY <2>2, <2>3, <3>1, <3>2 DEF Next
  <2>4. CASE TerminalResult(s, m.cookie) \/ RetryResult(s, m.cookie)
    BY <2>2, <2>4 DEF Next, HandlePinentryResult
  <2> QED
    BY <1>2, <2>3, <2>4 DEF DaemonReads
<1>3. ASSUME NEW s \in Sockets, DaemonSeesHangup(s) PROVE [Next]_vars
  BY <1>3 DEF DaemonSeesHangup, Next
<1>4. ASSUME NEW c \in Cookies, UserResponds(c) \/ UserCancels(c) \/ TimerFires(c)
      PROVE  [Next]_vars
  BY <1>4 DEF UserResponds, UserCancels, TimerFires, Next
<1>5. CASE UNCHANGED flowVars
  BY <1>5 DEF flowVars
<1> QED
  BY <1>1, <1>2, <1>3, <1>4, <1>5 DEF FlowNext

-----------------------------------------------------------------------------
(* The program's steps.                                                    *)

\* A new call: the flow is new, or the daemon asks nothing of it and has at most
\* late reports to read.
LEMMA SendPreservesInv ==
    ASSUME PinentryInv, AuthTypeOK, NEW m \in Message, SendRequest(m),
           flow' = m.cookie, used \subseteq used', used' \subseteq Cookies, flow' \in used',
           doing' \in Calling,
           doing' = "retry" => Late(m),
           doing' \in Asking <=> m.type = "pinentry_request",
           awaitingTerminalResult' \in BOOLEAN, stateError' \in BOOLEAN,
           \/ flow = NoFlow /\ m.cookie \notin used
           \/ flow = m.cookie /\ doing \in {"idle", "retry"}
    PROVE  PinentryInv'
<1> DEFINE n == call'
<1>0. ProgramTypeOK /\ ProgramInv /\ ChannelsInv /\ PendingInv
  BY DEF PinentryInv
<1>1. /\ n \in Sockets /\ n \notin connected /\ n # NoSocket
      /\ inbox' = [inbox EXCEPT ![n] = m]
      /\ reply' = "none"
      /\ Connect(n)
  BY SendEffect, NullsAssumption
<1>2. /\ connected' = connected \cup {n}
      /\ UNCHANGED <<sessions, pending, awaiting, retryReported>>
  BY <1>1 DEF Connect, pinentryVars
<1> HIDE DEF n
<1>3. m.cookie \in Cookies /\ m # NoMessage
  BY DEF Message, Question, Report, NoMessage
<1>4. /\ inbox'[n] = m
      /\ \A s \in Sockets \ {n} : inbox'[s] = inbox[s] /\ (Binding(s)' <=> Binding(s))
  BY <1>0, <1>1 DEF ProgramTypeOK, Binding
<1>5. \A s \in Sockets : inbox[s] # NoMessage => s # n
  BY <1>0, <1>1 DEF ChannelsInv
<1>6. \A s \in Sockets : Binding(s) => inbox[s].cookie # m.cookie
  <2> SUFFICES ASSUME NEW s \in Sockets, Binding(s), inbox[s].cookie = m.cookie
               PROVE  FALSE
    OBVIOUS
  <2>1. m.cookie \in used
    BY <1>0 DEF Binding, ChannelsInv
  <2>2. s = call /\ doing \in {"idle", "retry"}
    BY <1>0, <2>1 DEF ChannelsInv
  <2> QED
    BY <1>0, <2>2, NullsAssumption DEF ChannelsInv, ProgramInv, Binding, Calling
<1>7. pending[m.cookie] = NoSocket
  <2>1. CASE m.cookie \notin used
    BY <1>0, <1>3, <2>1 DEF PendingInv, PendingAt
  <2>2. CASE flow = m.cookie /\ doing \in {"idle", "retry"}
    BY <1>0, <1>3, <2>2 DEF PendingInv, PendingAt, Asking
  <2> QED
    BY <2>1, <2>2
<1>8. ProgramTypeOK'
  <2>1. inbox' \in [Sockets -> Message \cup {NoMessage}]
    BY <1>0, <1>1 DEF ProgramTypeOK
  <2> QED
    BY <1>0, <1>1, <1>3, <2>1 DEF ProgramTypeOK, n
<1>9. ProgramInv'
  BY <1>0, <1>1, <1>3, NoFlowAssumption DEF ProgramInv, n, Calling
<1>10. ChannelsInv'
  <2>1. \A s \in Sockets : inbox'[s] # NoMessage => s \in connected' /\ inbox'[s].cookie \in used'
    BY <1>0, <1>2, <1>4 DEF ChannelsInv
  <2>2. /\ n \in connected'
        /\ inbox'[n].cookie = flow'
    BY <1>2, <1>4
  <2>3. \A s \in Sockets : Binding(s)' /\ inbox'[s].cookie = flow' => s = n
    BY <1>4, <1>6
  <2>4. \A s, t \in Sockets :
           Binding(s)' /\ Binding(t)' /\ inbox'[s].cookie = inbox'[t].cookie => s = t
    BY <1>0, <1>4, <1>6 DEF ChannelsInv
  <2> QED
    BY <1>1, <1>4, <2>1, <2>2, <2>3, <2>4 DEF ChannelsInv, n
<1>11. PendingInv'
  <2>1. ASSUME NEW c \in Cookies PROVE PendingAt(c)'
    <3>1. pending[c] # NoSocket => pending[c] \in connected
      BY DEF AuthTypeOK
    <3> QED
      BY <1>0, <1>1, <1>2, <1>4, <1>7, <3>1 DEF PendingInv, PendingAt, n, AuthTypeOK
  <2>2. ASSUME NEW s \in Sockets, Binding(s)' PROVE pending'[inbox'[s].cookie] = NoSocket
    BY <1>0, <1>2, <1>4, <1>7, <2>2 DEF PendingInv
  <2> QED
    BY <2>1, <2>2 DEF PendingInv
<1>12. LeftInv'
  BY <1>2 DEF PinentryInv, LeftInv, PinentrySessions
<1>13. WaitsForItsPrompt'
  BY <1>3, <1>4 DEF WaitsForItsPrompt, n
<1> QED
  BY <1>8, <1>9, <1>10, <1>11, <1>12, <1>13 DEF PinentryInv

\* The call returns, or never took place, and the program is between two commands
\* or at its end.  It keeps its flow only with an answer in its hands.
LEMMA CallEnds ==
    ASSUME PinentryInv, UNCHANGED <<vars, inbox, used>>, call' = NoSocket,
           doing' \in {"idle", "done"},
           flow' = NoFlow \/ (flow' = flow /\ reply # "none" /\ call # NoSocket),
           doing' = "idle" => (awaitingTerminalResult' <=> flow' # NoFlow),
           doing' = "done" => flow' = NoFlow,
           awaitingTerminalResult' \in BOOLEAN, stateError' \in BOOLEAN
    PROVE  PinentryInv'
<1>0. ProgramTypeOK /\ ProgramInv /\ ChannelsInv /\ PendingInv
  BY DEF PinentryInv
<1>1. /\ \A s \in Sockets : Binding(s)' <=> Binding(s)
      /\ UNCHANGED <<connected, sessions, pending, awaiting, retryReported>>
  BY DEF Binding, vars, pinentryVars
<1>2. ProgramTypeOK'
  BY <1>0 DEF ProgramTypeOK
<1>3. ProgramInv'
  BY <1>0 DEF ProgramInv, Calling
<1>4. ChannelsInv'
  <2>1. ASSUME NEW s \in Sockets, Binding(s) PROVE inbox[s].cookie # flow'
    <3>1. inbox[s].cookie \in Cookies
      BY <1>0, <2>1, MessageFacts DEF Binding
    <3>2. CASE flow' = NoFlow
      BY <3>1, <3>2, NoFlowAssumption
    <3>3. CASE flow' = flow /\ reply # "none" /\ call # NoSocket
      BY <1>0, <2>1, <3>3 DEF ChannelsInv, Binding
    <3> QED
      BY <3>2, <3>3
  <2> QED
    BY <1>0, <1>1, <2>1 DEF ChannelsInv
<1>5. PendingInv'
  <2>1. ASSUME NEW c \in Cookies PROVE PendingAt(c)'
    BY <1>0, <1>1, NoFlowAssumption DEF PendingInv, PendingAt
  <2> QED
    BY <1>0, <1>1, <2>1 DEF PendingInv
<1>6. LeftInv' /\ WaitsForItsPrompt'
  BY <1>1 DEF PinentryInv, LeftInv, PinentrySessions, WaitsForItsPrompt
<1> QED
  BY <1>2, <1>3, <1>4, <1>5, <1>6 DEF PinentryInv

LEMMA AskPreservesInv ==
    ASSUME PinentryInv, AuthTypeOK, NEW kind \in Asking, Ask(kind),
           doing = "idle" \/ doing = "retry",
           awaitingTerminalResult' \in BOOLEAN, UNCHANGED stateError
    PROVE  PinentryInv'
<1> DEFINE m == [type |-> "pinentry_request", cookie |-> flow',
                 error |-> kind = "getpin" /\ stateError]
<1>0. ProgramTypeOK /\ ProgramInv
  BY DEF PinentryInv
<1>1. SendRequest(m) /\ doing' = kind /\ used' = used \cup {flow'}
  BY DEF Ask
<1>2. \/ flow = NoFlow /\ flow' \in Cookies \ used
      \/ flow # NoFlow /\ flow' = flow
  BY FreshIsNew DEF Ask
<1>3. flow' \in Cookies
  BY <1>0, <1>2 DEF ProgramTypeOK
<1>4. m \in Message /\ m.cookie = flow' /\ m.type = "pinentry_request"
  BY <1>0, <1>3 DEF Message, Question, ProgramTypeOK
<1>5. doing' \in Calling /\ doing' \in Asking /\ doing' # "retry" /\ stateError' \in BOOLEAN
  BY <1>0, <1>1 DEF Asking, Calling, ProgramTypeOK
<1>6. used \subseteq used' /\ used' \subseteq Cookies /\ flow' \in used'
  BY <1>0, <1>1, <1>3 DEF ProgramTypeOK
<1> HIDE DEF m
<1> QED
  BY <1>1, <1>2, <1>4, <1>5, <1>6, SendPreservesInv

LEMMA ReportPreservesInv ==
    ASSUME PinentryInv, AuthTypeOK, doing = "idle", flow # NoFlow,
           NEW kind \in {"retry", "final"},
           NEW result \in {"retry", "success", "cancelled", "error"},
           kind = "retry" <=> result = "retry",
           ReportTerminalResult(result, kind),
           UNCHANGED awaitingTerminalResult, stateError' \in BOOLEAN
    PROVE  PinentryInv'
<1> DEFINE m == [type |-> "pinentry_result", cookie |-> flow, result |-> result]
<1>0. ProgramTypeOK /\ ProgramInv
  BY DEF PinentryInv
<1>1. SendRequest(m) /\ doing' = kind /\ UNCHANGED <<flow, used>>
  BY DEF ReportTerminalResult
<1>2. m \in Message /\ m.cookie = flow' /\ m.type = "pinentry_result" /\ m.result = result
  BY <1>0, <1>1 DEF Message, Report, ProgramTypeOK
<1>3. doing' \in Calling /\ doing' \notin Asking /\ (doing' = "retry" => Late(m))
  BY <1>1, <1>2 DEF Asking, Calling, Late
<1>4. used \subseteq used' /\ used' \subseteq Cookies /\ flow' \in used'
  BY <1>0, <1>1 DEF ProgramTypeOK, ProgramInv
<1>5. awaitingTerminalResult' \in BOOLEAN
  BY <1>0 DEF ProgramTypeOK
<1>6. flow = m.cookie /\ m.type # "pinentry_request"
  BY <1>1, <1>2
<1> HIDE DEF m
<1> QED
  BY <1>1, <1>2, <1>3, <1>4, <1>5, <1>6, SendPreservesInv

LEMMA SendFailsPreservesInv ==
    ASSUME PinentryInv, SendFails
    PROVE  PinentryInv'
<1>0. ProgramTypeOK /\ ProgramInv /\ ChannelsInv /\ PendingInv
  BY DEF PinentryInv
<1>1. /\ call \in Sockets /\ call # NoSocket /\ inbox[call] # NoMessage
      /\ inbox' = [inbox EXCEPT ![call] = NoMessage]
      /\ UNCHANGED <<clientVars, call>>
      /\ UNCHANGED <<connected, sessions, pending, awaiting, retryReported>>
  BY <1>0, NullsAssumption DEF SendFails, ProgramTypeOK, vars, pinentryVars
<1>2. /\ inbox'[call] = NoMessage
      /\ \A s \in Sockets \ {call} : inbox'[s] = inbox[s]
      /\ \A s \in Sockets : Binding(s)' => Binding(s) /\ s # call /\ inbox'[s] = inbox[s]
      /\ reply' = "failed"
  BY <1>0, <1>1 DEF ProgramTypeOK, Binding, SendFails
<1>3. ProgramTypeOK' /\ ProgramInv'
  <2>1. inbox' \in [Sockets -> Message \cup {NoMessage}]
    BY <1>0, <1>1 DEF ProgramTypeOK
  <2> QED
    BY <1>0, <1>1, <2>1 DEF ProgramTypeOK, ProgramInv, clientVars
<1>4. ChannelsInv'
  <2>1. \A s \in Sockets : inbox'[s] # NoMessage => s \in connected' /\ inbox'[s].cookie \in used'
    BY <1>0, <1>1, <1>2 DEF ChannelsInv, clientVars
  <2>2. \A s \in Sockets : Binding(s)' => inbox'[s].cookie # flow'
    BY <1>0, <1>1, <1>2 DEF ChannelsInv, clientVars
  <2>3. \A s, t \in Sockets :
           Binding(s)' /\ Binding(t)' /\ inbox'[s].cookie = inbox'[t].cookie => s = t
    BY <1>0, <1>2 DEF ChannelsInv
  <2> QED
    BY <1>0, <1>1, <1>2, <2>1, <2>2, <2>3 DEF ChannelsInv
<1>5. PendingInv'
  <2>1. ASSUME NEW c \in Cookies PROVE PendingAt(c)'
    BY <1>0, <1>1, <1>2 DEF PendingInv, PendingAt, clientVars
  <2> QED
    BY <1>0, <1>1, <1>2, <2>1 DEF PendingInv
<1>6. LeftInv' /\ WaitsForItsPrompt'
  BY <1>1, <1>2 DEF PinentryInv, LeftInv, PinentrySessions, WaitsForItsPrompt
<1> QED
  BY <1>3, <1>4, <1>5, <1>6 DEF PinentryInv

LEMMA PinentryStepPreservesInv ==
    ASSUME PinentryInv, AuthTypeOK, PinentryStep
    PROVE  PinentryInv'
<1>0. ProgramTypeOK /\ ProgramInv
  BY DEF PinentryInv
<1>1. CASE SendFails
  BY <1>1, SendFailsPreservesInv
<1>2. CASE SetError \/ Reset
  <2>1. stateError' \in BOOLEAN
    BY <1>2 DEF SetError, Reset
  <2>2. UNCHANGED <<vars, channelVars, flow, awaitingTerminalResult, doing, used>>
    BY <1>2 DEF SetError, Reset
  <2> QED
    BY <2>1, <2>2 DEF PinentryInv, ProgramTypeOK, ProgramInv, ChannelsInv, PendingInv,
       PendingAt, Binding, LeftInv, PinentrySessions, WaitsForItsPrompt,
       vars, pinentryVars, channelVars
<1>3. CASE HandleGetPin
  <2>1. CASE awaitingTerminalResult
    BY <1>0, <1>3, <2>1, ReportPreservesInv DEF HandleGetPin, ProgramInv, ProgramTypeOK
  <2>2. CASE ~awaitingTerminalResult
    BY <1>0, <1>3, <2>2, AskPreservesInv DEF HandleGetPin, ProgramTypeOK, Asking
  <2> QED
    BY <2>1, <2>2
<1>4. CASE HandleConfirm
  BY <1>0, <1>4, AskPreservesInv DEF HandleConfirm, ProgramTypeOK, Asking
<1>5. CASE StreamCloses
  <2>1. CASE flow # NoFlow
    <3> DEFINE result == IF stateError THEN "error"
                         ELSE IF awaitingTerminalResult THEN "success" ELSE "cancelled"
    <3>1. ReportTerminalResult(result, "final") /\ doing = "idle"
          /\ UNCHANGED awaitingTerminalResult /\ stateError' = FALSE
      BY <1>5, <2>1 DEF StreamCloses
    <3>2. result \in {"success", "cancelled", "error"}
      OBVIOUS
    <3> HIDE DEF result
    <3> QED
      BY <2>1, <3>1, <3>2, ReportPreservesInv
  <2>2. CASE flow = NoFlow
    <3>1. doing = "idle" /\ doing' = "done" /\ stateError' = FALSE
          /\ UNCHANGED <<vars, channelVars, flow, used, awaitingTerminalResult>>
      BY <1>5, <2>2 DEF StreamCloses
    <3>2. call' = NoSocket /\ inbox' = inbox
      BY <1>0, <3>1 DEF ProgramInv, Calling, channelVars
    <3> QED
      BY <1>0, <2>2, <3>1, <3>2, CallEnds DEF ProgramTypeOK
  <2> QED
    BY <2>1, <2>2
<1>6. CASE RetryReturns
  BY <1>6, AskPreservesInv DEF RetryReturns, Asking
<1>7. CASE FinalReturns
  BY <1>0, <1>7, CallEnds DEF FinalReturns, ProgramTypeOK
<1>8. CASE AnswerReturns
  <2>1. PICK r \in Replies :
           /\ Returns(r)
           /\ awaitingTerminalResult' = (r \in {"answered", "empty"})
           /\ flow' = IF awaitingTerminalResult' THEN flow ELSE NoFlow
    BY <1>8 DEF AnswerReturns
  <2>2. flow # NoFlow
    BY <1>0, <1>8 DEF AnswerReturns, ProgramInv, Calling
  <2>3. flow' = NoFlow \/ (flow' = flow /\ reply # "none" /\ call # NoSocket)
    BY <2>1 DEF Returns
  <2>4. awaitingTerminalResult' \in BOOLEAN /\ (awaitingTerminalResult' <=> flow' # NoFlow)
    BY <2>1, <2>2
  <2> QED
    BY <1>8, <2>3, <2>4, CallEnds DEF AnswerReturns
<1>9. CASE Killed
  BY <1>9, CallEnds DEF Killed
<1> QED
  BY <1>1, <1>2, <1>3, <1>4, <1>5, <1>6, <1>7, <1>8, <1>9 DEF PinentryStep

-----------------------------------------------------------------------------
(* The daemon's steps.                                                     *)

\* A step about one cookie can only leave a prompt behind at that cookie.
LEMMA LeftElsewhere ==
    ASSUME AuthTypeOK, LeftInv, NEW c \in Cookies, StepAt(c),
           \A d \in Cookies \ {c} : d \in retryReported => d \in retryReported',
           c \in PinentrySessions' =>
               pending'[c] # NoSocket \/ c \in awaiting' \/ c \in retryReported'
    PROVE  LeftInv'
<1> SUFFICES ASSUME NEW d \in Cookies, d # c, d \in PinentrySessions'
             PROVE  pending'[d] # NoSocket \/ d \in awaiting' \/ d \in retryReported'
  BY DEF LeftInv, PinentrySessions
<1> QED
  BY ElsewhereNothing DEF SameAt, LeftInv, PinentrySessions

\* Messages are read, and nothing is written that the program takes for an answer.
LEMMA ReadingKeepsChannels ==
    ASSUME ProgramTypeOK, ChannelsInv, NEW s \in Sockets,
           inbox' = [inbox EXCEPT ![s] = NoMessage],
           UNCHANGED <<clientVars, call, connected>>,
           reply' = reply \/ s = call
    PROVE  /\ ProgramTypeOK' /\ ChannelsInv'
           /\ inbox'[s] = NoMessage
           /\ \A t \in Sockets \ {s} : inbox'[t] = inbox[t]
           /\ \A t \in Sockets : Binding(t)' => Binding(t) /\ t # s /\ inbox'[t] = inbox[t]
<1>1. /\ inbox' \in [Sockets -> Message \cup {NoMessage}]
      /\ inbox'[s] = NoMessage
      /\ \A t \in Sockets \ {s} : inbox'[t] = inbox[t]
  BY DEF ProgramTypeOK
<1>2. \A t \in Sockets : Binding(t)' => Binding(t) /\ t # s /\ inbox'[t] = inbox[t]
  BY <1>1 DEF Binding
<1>3. ProgramTypeOK'
  BY <1>1 DEF ProgramTypeOK, clientVars
<1>4. ChannelsInv'
  <2>1. \A t \in Sockets : inbox'[t] # NoMessage => t \in connected' /\ inbox'[t].cookie \in used'
    BY <1>1 DEF ChannelsInv, clientVars
  <2>2. \A t \in Sockets : Binding(t)' /\ inbox'[t].cookie = flow' => t = call'
    BY <1>2 DEF ChannelsInv, clientVars
  <2>3. \A t, u \in Sockets :
           Binding(t)' /\ Binding(u)' /\ inbox'[t].cookie = inbox'[u].cookie => t = u
    BY <1>2 DEF ChannelsInv
  <2>4. call # NoSocket /\ inbox'[call] # NoMessage => call # s /\ inbox'[call] = inbox[call]
    BY <1>1 DEF ProgramTypeOK
  <2> QED
    BY <2>1, <2>2, <2>3, <2>4 DEF ChannelsInv, clientVars
<1> QED
  BY <1>1, <1>2, <1>3, <1>4

LEMMA ReadsQuestion ==
    ASSUME PinentryInv, AuthTypeOK, NEW s \in Sockets, DaemonReads(s),
           inbox[s].type = "pinentry_request"
    PROVE  PinentryInv'
<1> DEFINE m == inbox[s]
<1>0. ProgramTypeOK /\ ProgramInv /\ ChannelsInv /\ PendingInv /\ s # NoSocket
  BY NullsAssumption DEF PinentryInv
<1>1. m # NoMessage
  BY DEF NoMessage
<1>2. m.cookie \in Cookies /\ Binding(s) /\ m.error \in BOOLEAN
  BY <1>0, <1>1, MessageFacts DEF Question
<1>c. PICK c \in Cookies : c = m.cookie
  BY <1>2
<1>3. /\ HandlePinentryRequest(s, c, NoKeyinfo, NoAttempt, m.error)
      /\ inbox' = [inbox EXCEPT ![s] = NoMessage]
      /\ UNCHANGED <<reply, clientVars, call>>
  BY <1>c DEF DaemonReads
<1>4. /\ pending' = [pending EXCEPT ![c] = s]
      /\ retryReported' = retryReported \ {c}
      /\ connected' = connected
  BY <1>3 DEF HandlePinentryRequest
<1> HIDE DEF m
<1>5. StepAt(c)
  <2>1. NoKeyinfo \in KeyinfosOf[c] /\ NoAttempt \in Attempts \cup {NoAttempt}
    BY OneProcessAssumption
  <2> QED
    BY <1>2, <1>3, <2>1 DEF StepAt
<1>6. /\ ProgramTypeOK' /\ ChannelsInv'
      /\ inbox'[s] = NoMessage
      /\ \A t \in Sockets \ {s} : inbox'[t] = inbox[t]
      /\ \A t \in Sockets : Binding(t)' => Binding(t) /\ t # s /\ inbox'[t] = inbox[t]
  BY <1>0, <1>3, <1>4, ReadingKeepsChannels
<1>7. ProgramInv'
  BY <1>0, <1>3 DEF ProgramInv, clientVars
<1>8. pending'[c] = s /\ \A d \in Cookies \ {c} : pending'[d] = pending[d]
  BY <1>2, <1>4 DEF AuthTypeOK
<1>9. c = flow <=> s = call
  BY <1>0, <1>1, <1>2, <1>c DEF ChannelsInv, m
<1>10. PendingInv'
  <2>1. PendingAt(c)'
    <3>1. c \in used
      BY <1>0, <1>1, <1>c DEF ChannelsInv, m
    <3>2. s = call => doing \in Asking /\ reply = "none"
      BY <1>0, <1>1, <1>c DEF ChannelsInv, m
    <3> QED
      BY <1>3, <1>6, <1>8, <1>9, <3>1, <3>2 DEF PendingAt, clientVars
  <2>2. ASSUME NEW d \in Cookies \ {c} PROVE PendingAt(d)'
    <3>1. pending[d] # NoSocket => inbox'[pending[d]] = NoMessage
      BY <1>0, <1>6 DEF PendingInv, PendingAt, AuthTypeOK
    <3> QED
      BY <1>0, <1>3, <1>8, <3>1 DEF PendingInv, PendingAt, clientVars
  <2>3. ASSUME NEW t \in Sockets, Binding(t)' PROVE pending'[inbox'[t].cookie] = NoSocket
    <3>1. Binding(t) /\ t # s /\ inbox'[t] = inbox[t]
      BY <1>6, <2>3
    <3>2. inbox[t].cookie # c
      BY <1>0, <1>2, <1>c, <3>1 DEF ChannelsInv, m
    <3>3. inbox[t].cookie \in Cookies
      BY <1>0, <3>1, MessageFacts DEF Binding
    <3> QED
      BY <1>0, <1>8, <3>1, <3>2, <3>3 DEF PendingInv
  <2> QED
    BY <2>1, <2>2, <2>3 DEF PendingInv
<1>11. LeftInv'
  BY <1>2, <1>4, <1>5, <1>8, <1>0, LeftElsewhere DEF PinentryInv
<1>12. WaitsForItsPrompt'
  <2>1. CASE s = call
    BY <1>3, <1>8, <1>9, <2>1 DEF WaitsForItsPrompt, clientVars
  <2>2. CASE s # call
    <3>1. doing \in Asking => flow \in Cookies /\ call \in Sockets
      BY <1>0, NoFlowAssumption DEF ProgramTypeOK, ProgramInv, Calling, Asking
    <3> QED
      BY <1>3, <1>6, <1>8, <1>9, <2>2, <3>1
         DEF PinentryInv, WaitsForItsPrompt, clientVars, Asking
  <2> QED
    BY <2>1, <2>2
<1> QED
  BY <1>6, <1>7, <1>10, <1>11, <1>12 DEF PinentryInv
\* A report changes no question that is asked, and an answer to it is nothing a
\* program that asked waits for.
LEMMA ReadsReport ==
    ASSUME CookieInv, PinentryInv, NEW s \in Sockets, DaemonReads(s),
           inbox[s].type = "pinentry_result"
    PROVE  PinentryInv'
<1> DEFINE m == inbox[s]
<1>0. /\ ProgramTypeOK /\ ProgramInv /\ ChannelsInv /\ PendingInv /\ LeftInv
      /\ AuthTypeOK /\ s # NoSocket
  BY NullsAssumption DEF PinentryInv, CookieInv, FlowInv
<1>1. m # NoMessage
  BY DEF NoMessage
<1>2. PICK c \in Cookies : c = m.cookie
  BY <1>0, <1>1, MessageFacts
<1>3. /\ \/ ~MayReport(s, c) /\ UNCHANGED vars
         \/ m.result = "retry" /\ RetryResult(s, c)
         \/ m.result # "retry" /\ TerminalResult(s, c)
      /\ inbox' = [inbox EXCEPT ![s] = NoMessage]
      /\ reply' = reply \/ s = call
      /\ UNCHANGED <<clientVars, call>>
  BY <1>2 DEF DaemonReads, Reply
<1> HIDE DEF m
<1>4. /\ \A d \in Cookies : pending'[d] = pending[d]
      /\ connected' = connected
      /\ LeftInv'
  <2>1. CASE UNCHANGED vars
    BY <1>0, <2>1 DEF vars, pinentryVars, LeftInv, PinentrySessions
  <2>2. CASE RetryResult(s, c)
    <3>1. StepAt(c)
      BY <2>2 DEF StepAt, HandlePinentryResult
    <3>2. retryReported' = retryReported \cup {c} /\ UNCHANGED <<pending, connected>>
      BY <2>2 DEF RetryResult
    <3> QED
      BY <1>0, <3>1, <3>2, LeftElsewhere
  <2>3. CASE TerminalResult(s, c)
    <3>1. StepAt(c)
      BY <2>3 DEF StepAt, HandlePinentryResult
    <3>2. EndFlow(c) /\ MayReport(s, c) /\ NotWaiting(PidOf[s], c) /\ connected' = connected
      BY <2>3 DEF TerminalResult
    <3>3. CookieAt(c) /\ FlowAt(c)
      BY DEF CookieInv, FlowInv
    <3>4. c \in PinentrySessions /\ pending[c] = NoSocket
      BY <1>0, <3>2, <3>3, ResultFinds DEF PinentrySessions
    <3>5. /\ sessions'[c] = NoSession /\ pending'[c] = NoSocket
          /\ \A d \in Cookies \ {c} : pending'[d] = pending[d]
      BY <1>0, <3>2, <3>4, EndFlowEffect
    <3>6. retryReported' = retryReported \ {c}
      BY <3>2 DEF EndFlow, CloseFlows
    <3>7. c \notin PinentrySessions'
      BY <3>5 DEF PinentrySessions, NoSession
    <3> QED
      BY <1>0, <3>1, <3>2, <3>4, <3>5, <3>6, <3>7, LeftElsewhere
  <2> QED
    BY <1>3, <2>1, <2>2, <2>3
<1>5. /\ ProgramTypeOK' /\ ChannelsInv'
      /\ inbox'[s] = NoMessage
      /\ \A t \in Sockets \ {s} : inbox'[t] = inbox[t]
      /\ \A t \in Sockets : Binding(t)' => Binding(t) /\ t # s /\ inbox'[t] = inbox[t]
  BY <1>0, <1>3, <1>4, ReadingKeepsChannels
<1>6. ProgramInv'
  BY <1>0, <1>3 DEF ProgramInv, clientVars
<1>7. doing \in Asking => s # call
  BY <1>0, <1>1 DEF ChannelsInv, m
<1>8. PendingInv'
  <2>1. ASSUME NEW d \in Cookies PROVE PendingAt(d)'
    <3>1. PendingAt(d) /\ pending[d] \in Sockets \cup {NoSocket}
      BY <1>0 DEF PendingInv, AuthTypeOK
    <3>2. pending[d] # NoSocket => inbox'[pending[d]] = NoMessage
      BY <1>5, <3>1 DEF PendingAt
    <3>3. pending[d] # NoSocket /\ d = flow => reply' = reply
      BY <1>3, <1>7, <3>1 DEF PendingAt
    <3> QED
      BY <1>3, <1>4, <3>1, <3>2, <3>3 DEF PendingAt, clientVars
  <2>2. ASSUME NEW t \in Sockets, Binding(t)' PROVE pending'[inbox'[t].cookie] = NoSocket
    <3>1. Binding(t) /\ inbox'[t] = inbox[t]
      BY <1>5, <2>2
    <3>2. inbox[t].cookie \in Cookies
      BY <1>0, <3>1, MessageFacts DEF Binding
    <3> QED
      BY <1>0, <1>4, <3>1, <3>2 DEF PendingInv
  <2> QED
    BY <2>1, <2>2 DEF PendingInv
<1>9. WaitsForItsPrompt'
  <2>1. doing \in Asking => flow \in Cookies /\ call \in Sockets
    BY <1>0 DEF ProgramTypeOK, ProgramInv, Calling, Asking
  <2> QED
    BY <1>3, <1>4, <1>5, <1>7, <2>1 DEF PinentryInv, WaitsForItsPrompt, clientVars, Asking
<1> QED
  BY <1>4, <1>5, <1>6, <1>8, <1>9 DEF PinentryInv

\* The user, or the timer, ends a question.  Who waits for it is told.
LEMMA AnswerPreservesInv ==
    ASSUME PinentryInv, AuthTypeOK, NEW c \in Cookies, StepAt(c), LeftInv',
           UNCHANGED <<clientVars, call, inbox, connected>>,
           pending'[c] = NoSocket,
           reply' = reply \/ (pending[c] = call /\ call # NoSocket /\ reply' # "none"),
           pending[c] = call /\ call # NoSocket => reply' # "none"
    PROVE  PinentryInv'
<1>0. ProgramTypeOK /\ ProgramInv /\ ChannelsInv /\ PendingInv /\ PendingAt(c)
  BY DEF PinentryInv, PendingInv
<1>1. \A d \in Cookies \ {c} : pending'[d] = pending[d]
  BY ElsewhereNothing DEF SameAt
<1>2. \A t \in Sockets : Binding(t)' <=> Binding(t)
  BY DEF Binding
<1>3. ProgramTypeOK' /\ ProgramInv'
  BY <1>0 DEF ProgramTypeOK, ProgramInv, clientVars
<1>4. ChannelsInv'
  <2>1. call # NoSocket /\ inbox[call] # NoMessage => reply' = reply
    BY <1>0 DEF PendingAt
  <2> QED
    BY <1>0, <1>2, <2>1 DEF ChannelsInv, clientVars
<1>5. PendingInv'
  <2>1. ASSUME NEW d \in Cookies PROVE PendingAt(d)'
    <3>1. CASE d = c
      BY <3>1 DEF PendingAt
    <3>2. CASE d # c
      <4>1. PendingAt(d)
        BY <1>0 DEF PendingInv
      <4>2. pending[d] # NoSocket /\ d = flow => reply' = reply
        BY <1>0, <3>2, <4>1 DEF PendingAt
      <4> QED
        BY <1>1, <3>2, <4>1, <4>2 DEF PendingAt, clientVars
    <3> QED
      BY <3>1, <3>2
  <2>2. ASSUME NEW t \in Sockets, Binding(t) PROVE pending'[inbox[t].cookie] = NoSocket
    <3>1. inbox[t].cookie \in Cookies
      BY <1>0, <2>2, MessageFacts DEF Binding
    <3> QED
      BY <1>0, <1>1, <2>2, <3>1 DEF PendingInv
  <2> QED
    BY <1>2, <2>1, <2>2 DEF PendingInv
<1>6. WaitsForItsPrompt'
  <2>1. doing \in Asking => flow \in Cookies /\ call \in Sockets /\ call # NoSocket
    BY <1>0 DEF ProgramTypeOK, ProgramInv, Calling, Asking
  <2> QED
    BY <1>1, <2>1 DEF PinentryInv, WaitsForItsPrompt, clientVars, Asking
<1> QED
  BY <1>3, <1>4, <1>5, <1>6 DEF PinentryInv

LEMMA EndedFlowIsNotLeft ==
    ASSUME PinentryInv, AuthTypeOK, NEW c \in Cookies, StepAt(c), EndFlow(c)
    PROVE  LeftInv' /\ pending'[c] = NoSocket
<1>1. /\ pending'[c] = NoSocket
      /\ c \notin PinentrySessions'
  BY EndFlowEffect DEF PinentrySessions, NoSession
<1>2. retryReported' = retryReported \ {c}
  BY DEF EndFlow, CloseFlows
<1> QED
  BY <1>1, <1>2, LeftElsewhere DEF PinentryInv

LEMMA UserPreservesInv ==
    ASSUME PinentryInv, CookieInv, NEW c \in Cookies,
           UserResponds(c) \/ UserCancels(c) \/ TimerFires(c)
    PROVE  PinentryInv'
<1>0. AuthTypeOK /\ FlowAt(c) /\ LeftInv
  BY DEF CookieInv, FlowInv, PinentryInv
<1>1. CASE UserResponds(c)
  <2>1. RespondPinentry(c) /\ UNCHANGED <<clientVars, call, inbox>>
        /\ \E r \in {"answered", "empty"} : Reply(pending[c], r)
    BY <1>1 DEF UserResponds
  <2>2. StepAt(c)
    BY <2>1 DEF StepAt
  <2>3. /\ pending'[c] = NoSocket
        /\ c \in awaiting'
        /\ UNCHANGED <<connected, retryReported>>
    BY <1>0, <2>1 DEF RespondPinentry, AuthTypeOK
  <2>4. LeftInv'
    BY <1>0, <2>2, <2>3, LeftElsewhere
  <2>5. /\ reply' = reply \/ (pending[c] = call /\ call # NoSocket /\ reply' # "none")
        /\ pending[c] = call /\ call # NoSocket => reply' # "none"
    BY <2>1 DEF Reply
  <2> QED
    BY <1>0, <2>1, <2>2, <2>3, <2>4, <2>5, AnswerPreservesInv
<1>2. CASE UserCancels(c)
  <2>1. CancelPinentry(c) /\ UNCHANGED <<clientVars, call, inbox>>
        /\ Reply(pending[c], "cancelled")
    BY <1>2 DEF UserCancels
  <2>2. StepAt(c) /\ EndFlow(c) /\ connected' = connected
    BY <2>1 DEF StepAt, CancelPinentry
  <2>3. LeftInv' /\ pending'[c] = NoSocket
    BY <1>0, <2>2, EndedFlowIsNotLeft
  <2>4. /\ reply' = reply \/ (pending[c] = call /\ call # NoSocket /\ reply' # "none")
        /\ pending[c] = call /\ call # NoSocket => reply' # "none"
    BY <2>1 DEF Reply
  <2> QED
    BY <1>0, <2>1, <2>2, <2>3, <2>4, AnswerPreservesInv
<1>3. CASE TimerFires(c)
  <2>1. ResultTimeout(c) /\ UNCHANGED <<clientVars, channelVars>>
    BY <1>3 DEF TimerFires
  <2>2. StepAt(c) /\ EndFlow(c) /\ connected' = connected /\ c \in awaiting
    BY <2>1 DEF StepAt, ResultTimeout
  <2>3. LeftInv' /\ pending'[c] = NoSocket
    BY <1>0, <2>2, EndedFlowIsNotLeft
  <2>4. pending[c] = NoSocket
    BY <1>0, <2>2 DEF FlowAt
  <2>5. UNCHANGED <<call, inbox, reply>>
    BY <2>1 DEF channelVars
  <2> QED
    BY <1>0, <2>1, <2>2, <2>3, <2>4, <2>5, AnswerPreservesInv
<1> QED
  BY <1>1, <1>2, <1>3

\* The connection of a call that was given up takes its question along.
LEMMA HangupPreservesInv ==
    ASSUME PinentryInv, AuthTypeOK, NEW s \in Sockets, DaemonSeesHangup(s)
    PROVE  PinentryInv'
<1>0. ProgramTypeOK /\ ProgramInv /\ ChannelsInv /\ PendingInv /\ LeftInv
  BY DEF PinentryInv
<1>1. /\ s # call /\ inbox[s] = NoMessage /\ OnClientDisconnected(s)
      /\ UNCHANGED <<clientVars, call, inbox, reply>>
      /\ connected' = connected \ {s}
      /\ s # NoSocket
  BY NullsAssumption DEF DaemonSeesHangup, OnClientDisconnected, channelVars
<1>2. ASSUME NEW c \in Cookies
      PROVE  /\ pending'[c] = IF pending[c] = s THEN NoSocket ELSE pending[c]
             /\ c \in awaiting' <=> c \in awaiting /\ pending[c] # s
             /\ pending[c] = s => c \notin PinentrySessions'
             /\ c \in PinentrySessions' => c \in PinentrySessions
             /\ c \in retryReported' <=> c \in retryReported /\ pending[c] # s
  <2>1. CloseFlows({d \in Cookies : pending[d] = s})
    BY <1>1 DEF OnClientDisconnected
  <2>2. c \in retryReported' <=> c \in retryReported /\ pending[c] # s
    BY <2>1 DEF CloseFlows
  <2> QED
    BY <1>1, <2>2, DisconnectEffect DEF PinentrySessions, NoSession
<1>3. \A t \in Sockets : Binding(t)' <=> Binding(t)
  BY <1>1 DEF Binding
<1>4. ProgramTypeOK' /\ ProgramInv'
  BY <1>0, <1>1 DEF ProgramTypeOK, ProgramInv, clientVars
<1>5. ChannelsInv'
  BY <1>0, <1>1, <1>3 DEF ChannelsInv, clientVars
<1>6. PendingInv'
  <2>1. ASSUME NEW c \in Cookies PROVE PendingAt(c)'
    BY <1>0, <1>1, <1>2 DEF PendingInv, PendingAt, clientVars
  <2>2. ASSUME NEW t \in Sockets, Binding(t) PROVE pending'[inbox[t].cookie] = NoSocket
    <3>1. inbox[t].cookie \in Cookies
      BY <1>0, <2>2, MessageFacts DEF Binding
    <3> QED
      BY <1>0, <1>2, <2>2, <3>1 DEF PendingInv
  <2> QED
    BY <1>1, <1>3, <2>1, <2>2 DEF PendingInv
<1>7. LeftInv'
  <2> SUFFICES ASSUME NEW c \in Cookies, c \in PinentrySessions'
               PROVE  pending'[c] # NoSocket \/ c \in awaiting' \/ c \in retryReported'
    BY DEF LeftInv, PinentrySessions
  <2> QED
    BY <1>0, <1>2 DEF LeftInv
<1>8. WaitsForItsPrompt'
  <2>1. doing \in Asking => flow \in Cookies
    BY <1>0 DEF ProgramTypeOK, ProgramInv, Calling, Asking
  <2> QED
    BY <1>1, <1>2, <2>1 DEF PinentryInv, WaitsForItsPrompt, clientVars, Asking
<1> QED
  BY <1>4, <1>5, <1>6, <1>7, <1>8 DEF PinentryInv

-----------------------------------------------------------------------------
(* The theorems.                                                           *)

LEMMA PinentryInit == FlowInit => PinentryInv
<1> SUFFICES ASSUME FlowInit PROVE PinentryInv
  OBVIOUS
<1>1. /\ connected = {} /\ pending = [c \in Cookies |-> NoSocket]
      /\ sessions = [c \in Cookies |-> NoSession]
      /\ flow = NoFlow /\ awaitingTerminalResult = FALSE /\ stateError = FALSE
      /\ doing = "idle" /\ call = NoSocket /\ reply = "none" /\ used = {}
      /\ inbox = [s \in Sockets |-> NoMessage]
  BY DEF FlowInit, Init
<1>2. ProgramTypeOK /\ ProgramInv
  BY <1>1 DEF ProgramTypeOK, ProgramInv, Calling
<1>3. ChannelsInv /\ PendingInv
  BY <1>1 DEF ChannelsInv, PendingInv, PendingAt, Binding
<1>4. LeftInv /\ WaitsForItsPrompt
  BY <1>1 DEF LeftInv, PinentrySessions, NoSession, WaitsForItsPrompt
<1> QED
  BY <1>2, <1>3, <1>4 DEF PinentryInv

LEMMA PinentryNext ==
    PinentryInv /\ CookieInv /\ [FlowNext]_flowVars => PinentryInv' /\ CookieInv'
<1> SUFFICES ASSUME PinentryInv, CookieInv, [FlowNext]_flowVars
             PROVE  PinentryInv' /\ CookieInv'
  OBVIOUS
<1>0. AuthTypeOK /\ ProgramTypeOK
  BY DEF CookieInv, FlowInv, PinentryInv
<1>1. CookieInv'
  BY <1>0, StepsOfAuthSessions, OneKindOfRequest, CookieNext
<1> SUFFICES PinentryInv'
  BY <1>1
<1>2. CASE PinentryStep
  BY <1>0, <1>2, PinentryStepPreservesInv
<1>3. ASSUME NEW s \in Sockets, DaemonReads(s) PROVE PinentryInv'
  <2>1. inbox[s].type = "pinentry_request" \/ inbox[s].type = "pinentry_result"
    BY <1>3 DEF DaemonReads
  <2> QED
    BY <1>0, <1>3, <2>1, ReadsQuestion, ReadsReport
<1>4. ASSUME NEW s \in Sockets, DaemonSeesHangup(s) PROVE PinentryInv'
  BY <1>0, <1>4, HangupPreservesInv
<1>5. ASSUME NEW c \in Cookies, UserResponds(c) \/ UserCancels(c) \/ TimerFires(c)
      PROVE  PinentryInv'
  BY <1>5, UserPreservesInv
<1>6. CASE UNCHANGED flowVars
  BY <1>6 DEF flowVars, vars, pinentryVars, clientVars, channelVars, PinentryInv,
     ProgramTypeOK, ProgramInv, ChannelsInv, PendingInv, PendingAt, Binding, LeftInv,
     PinentrySessions, WaitsForItsPrompt
<1> QED
  BY <1>2, <1>3, <1>4, <1>5, <1>6 DEF FlowNext

LEMMA PinentryInvariance == FlowSpec => [](PinentryInv /\ CookieInv)
<1>1. FlowInit => PinentryInv /\ CookieInv
  BY PinentryInit, CookieInit DEF FlowInit
<1> QED
  BY <1>1, PinentryNext, PTL DEF FlowSpec

\* The program and its connections, closed calls and unread messages included,
\* give the daemon nothing but what AuthSessions allows its clients, so that
\* everything proved of AuthSessions holds of the daemon and this program.
THEOREM PinentryIsAClient == FlowSpec => Spec
<1>1. FlowInit => Init
  BY DEF FlowInit
<1>2. PinentryInv /\ [FlowNext]_flowVars => [Next]_vars
  BY StepsOfAuthSessions DEF PinentryInv
<1> QED
  BY <1>1, <1>2, PinentryInvariance, PTL DEF FlowSpec, Spec

\* requestPasswordFromDaemon and reportTerminalResult never leave a message under
\* way about a cookie for which the daemon still owes this process a reply; after
\* a call that failed, flowCookie is given up, and the next question has a new one.
THEOREM RulesKept == FlowSpec => []ClientKeepsTheRules
<1>1. PinentryInv /\ CookieInv => ClientKeepsTheRules
  <2> SUFFICES ASSUME PinentryInv, CookieInv, NEW s \in Sockets, Binding(s),
                      NEW t \in Sockets
               PROVE  <<t, inbox[s].cookie>> \notin waiting
    BY DEF ClientKeepsTheRules, NotWaiting, Binding
  <2>1. inbox[s].cookie \in Cookies
    BY MessageFacts DEF PinentryInv, Binding
  <2>2. pending[inbox[s].cookie] = NoSocket
    BY DEF PinentryInv, PendingInv
  <2>3. keyring[inbox[s].cookie] = NoSocket
    BY <2>1, OnlyPinentry
  <2>4. CookieAt(inbox[s].cookie)
    BY <2>1 DEF CookieInv
  <2> QED
    BY <2>2, <2>3, <2>4, NullsAssumption DEF CookieAt, WaitersAt
<1> QED
  BY <1>1, PinentryInvariance, PTL

\* PinentryManager answers every request of a living call from its table: the
\* program never waits in IpcClient::sendRequest for a question that is gone.
THEOREM PromptWaitedFor == FlowSpec => []WaitsForItsPrompt
<1>1. PinentryInv => WaitsForItsPrompt
  BY DEF PinentryInv
<1> QED
  BY <1>1, PinentryInvariance, PTL

\* Every pinentry session is the flow of the living program, or is ended by
\* cleanupForSocket or by the result timer, or its program reported "retry" and
\* has not asked again.
THEOREM NothingIsLeftBehind == FlowSpec => []NothingLeftBehind
<1>1. PinentryInv => NothingLeftBehind
  BY DEF PinentryInv, LeftInv, PendingInv, PendingAt, NothingLeftBehind, PinentrySessions
<1> QED
  BY <1>1, PinentryInvariance, PTL
=============================================================================
