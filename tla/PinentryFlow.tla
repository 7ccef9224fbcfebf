---------------------------- MODULE PinentryFlow ----------------------------
(***************************************************************************)
(* The pinentry program (src/modes/pinentry.cpp) between gpg-agent, whose  *)
(* Assuan commands come in any order, and the daemon's pinentry manager,   *)
(* which is AuthSessions.  Every message to the daemon goes over a         *)
(* connection of its own (src/common/IpcClient.cpp), on which the program  *)
(* waits for the reply; when it gives up, the daemon still reads what was  *)
(* sent and only then sees the hang-up.                                    *)
(*                                                                         *)
(* All Sockets are connections of one process.  The texts of SETDESC and   *)
(* the like are left out, apart from SETERROR.                             *)
(***************************************************************************)
EXTENDS AuthSessions

CONSTANT NoFlow  \* an empty flowCookie

ASSUME NoFlowAssumption == NoFlow \notin Cookies
\* One process owns the connections, and its key info is left out.
ASSUME OneProcessAssumption ==
    /\ \A s, t \in Sockets : PidOf[s] = PidOf[t]
    /\ Requests = {"pinentry"} \X Sockets \X Cookies
    /\ KeyinfosOf = [c \in Cookies |-> {NoKeyinfo}]

VARIABLES
    flow,        \* flowCookie
    awaitingTerminalResult,
    stateError,  \* state.error is set
    doing,       \* the command in progress, up to the message it waits on:
                 \* "retry", "getpin", "confirm" or "final", else "idle";
                 \* "done" after the end of the process
    call,        \* the connection it waits on
    inbox,       \* what the daemon has still to read on each connection
    reply,       \* what it wrote to the call
    used,        \* history: cookies drawn
    satisfied    \* history: the last answer satisfied gpg-agent

clientVars  == <<flow, awaitingTerminalResult, stateError, doing, used, satisfied>>
channelVars == <<call, inbox, reply>>
flowVars    == <<vars, clientVars, channelVars>>

NoMessage == [type |-> "none"]
Replies == {"none", "answered", "empty", "cancelled", "done", "failed"}

FlowInit ==
    /\ Init
    /\ flow = NoFlow /\ awaitingTerminalResult = FALSE /\ stateError = FALSE
    /\ doing = "idle"
    /\ call = NoSocket /\ reply = "none"
    /\ inbox = [s \in Sockets |-> NoMessage]
    /\ used = {} /\ satisfied = FALSE

-----------------------------------------------------------------------------
(* The pinentry program.                                                   *)

\* A new name.  Connections, and cookies, differ in nothing but their names.
Fresh(names) == CHOOSE n \in names : TRUE

\* IpcClient::sendRequest, up to its wait.
SendRequest(m) ==
    LET s == Fresh(Sockets \ connected) IN
    /\ Sockets \ connected # {}
    /\ Connect(s)
    /\ call' = s
    /\ inbox' = [inbox EXCEPT ![s] = m]
    /\ reply' = "none"

\* The daemon takes neither the connection nor the message within a second.
SendFails ==
    /\ call # NoSocket /\ inbox[call] # NoMessage
    /\ inbox' = [inbox EXCEPT ![call] = NoMessage]
    /\ reply' = "failed"
    /\ UNCHANGED <<vars, clientVars, call>>

\* requestPasswordFromDaemon and requestConfirmFromDaemon.
Ask(kind) ==
    /\ flow = NoFlow => Cookies \ used # {}
    /\ flow' = IF flow = NoFlow THEN Fresh(Cookies \ used) ELSE flow
    /\ used' = used \cup {flow'}
    /\ doing' = kind
    /\ SendRequest([type |-> "pinentry_request", cookie |-> flow',
                    error |-> kind = "getpin" /\ stateError])

\* reportTerminalResult, for a flow that has a cookie.
ReportTerminalResult(result, kind) ==
    /\ doing' = kind
    /\ SendRequest([type |-> "pinentry_result", cookie |-> flow, result |-> result])
    /\ UNCHANGED <<flow, used>>

SetError ==
    /\ doing = "idle"
    /\ stateError' = TRUE
    /\ UNCHANGED <<vars, channelVars, flow, awaitingTerminalResult, doing, used, satisfied>>

\* RESET forgets the texts and nothing of the flow.
Reset ==
    /\ doing = "idle"
    /\ stateError' = FALSE
    /\ UNCHANGED <<vars, channelVars, flow, awaitingTerminalResult, doing, used, satisfied>>

\* Another GETPIN means that the last answer was wrong.
HandleGetPin ==
    /\ doing = "idle"
    /\ IF awaitingTerminalResult THEN ReportTerminalResult("retry", "retry") ELSE Ask("getpin")
    /\ UNCHANGED <<awaitingTerminalResult, stateError, satisfied>>

HandleConfirm ==
    /\ doing = "idle"
    /\ Ask("confirm")
    /\ UNCHANGED <<awaitingTerminalResult, stateError, satisfied>>

\* BYE, or the end of the input: finalizeOnStreamClose.
StreamCloses ==
    /\ doing = "idle"
    /\ IF flow # NoFlow
       THEN ReportTerminalResult(IF stateError THEN "error"
                                 ELSE IF awaitingTerminalResult THEN "success"
                                 ELSE "cancelled", "final")
       ELSE doing' = "done" /\ UNCHANGED <<vars, channelVars, flow, used>>
    /\ stateError' = FALSE  \* nothing reads it again
    /\ UNCHANGED <<awaitingTerminalResult, satisfied>>

\* sendRequest returns the reply, or nothing when it was not there in time.
Returns(r) == call # NoSocket /\ r \in {reply, "none"}

\* Whatever became of the report, the flow goes on with the next question.
RetryReturns ==
    /\ doing = "retry"
    /\ \E r \in Replies : Returns(r)
    /\ awaitingTerminalResult' = FALSE
    /\ Ask("getpin")
    /\ UNCHANGED <<stateError, satisfied>>

FinalReturns ==
    /\ doing = "final"
    /\ \E r \in Replies : Returns(r)
    /\ flow' = NoFlow /\ awaitingTerminalResult' = FALSE
    /\ doing' = "done"
    /\ call' = NoSocket /\ reply' = "none"
    /\ UNCHANGED <<vars, inbox, stateError, used, satisfied>>

\* gpg-agent checks the passphrase it was given; an empty one is turned into
\* "Operation cancelled".
Judge(r) ==
    \/ r = "answered" /\ doing = "getpin" /\ satisfied' \in BOOLEAN
    \/ satisfied' = (r \in {"answered", "empty"} /\ doing = "confirm")

\* Defective variant: a flow that got no reply keeps its cookie.
AnswerReturnsKeepFlow ==
    /\ doing \in {"getpin", "confirm"}
    /\ \E r \in Replies :
          /\ Returns(r)
          /\ awaitingTerminalResult' = (r \in {"answered", "empty"})
          /\ Judge(r)
    /\ stateError' = FALSE
    /\ doing' = "idle"
    /\ call' = NoSocket /\ reply' = "none"
    /\ UNCHANGED <<vars, inbox, flow, used>>

AnswerReturns ==
    /\ doing \in {"getpin", "confirm"}
    /\ \E r \in Replies :
          /\ Returns(r)
          /\ awaitingTerminalResult' = (r \in {"answered", "empty"})
          /\ flow' = IF awaitingTerminalResult' THEN flow ELSE NoFlow
          /\ Judge(r)
    /\ stateError' = FALSE
    /\ doing' = "idle"
    /\ call' = NoSocket /\ reply' = "none"
    /\ UNCHANGED <<vars, inbox, used>>

\* The process dies without another word.
Killed ==
    /\ doing # "done"
    /\ doing' = "done"
    /\ flow' = NoFlow /\ awaitingTerminalResult' = FALSE /\ stateError' = FALSE
    /\ call' = NoSocket /\ reply' = "none"
    /\ UNCHANGED <<vars, inbox, used, satisfied>>

-----------------------------------------------------------------------------
(* The daemon.                                                             *)

Reply(s, r) == reply' = IF s = call /\ call # NoSocket THEN r ELSE reply

DaemonReads(s) ==
    LET m == inbox[s] IN
    /\ inbox' = [inbox EXCEPT ![s] = NoMessage]
    /\ \/ /\ m.type = "pinentry_request"
          /\ HandlePinentryRequest(s, m.cookie, NoKeyinfo, NoAttempt, m.error)
          /\ UNCHANGED reply
       \/ /\ m.type = "pinentry_result"
          /\ IF ~MayReport(s, m.cookie) THEN UNCHANGED vars
             ELSE IF m.result = "retry" THEN RetryResult(s, m.cookie)
             ELSE TerminalResult(s, m.cookie)
          /\ Reply(s, "done")
    /\ UNCHANGED <<clientVars, call>>

\* The connection is closed at the other end; what was sent is read first.
DaemonSeesHangup(s) ==
    /\ s # call
    /\ inbox[s] = NoMessage
    /\ OnClientDisconnected(s)
    /\ UNCHANGED <<clientVars, channelVars>>

UserResponds(c) ==
    /\ RespondPinentry(c)
    /\ \E r \in {"answered", "empty"} : Reply(pending[c], r)
    /\ UNCHANGED <<clientVars, call, inbox>>

\* Defective variant: the program that waits is not told.
UserCancelsQuietly(c) ==
    /\ CancelPinentry(c)
    /\ UNCHANGED <<clientVars, channelVars>>

UserCancels(c) ==
    /\ CancelPinentry(c)
    /\ Reply(pending[c], "cancelled")
    /\ UNCHANGED <<clientVars, call, inbox>>

TimerFires(c) ==
    /\ ResultTimeout(c)
    /\ UNCHANGED <<clientVars, channelVars>>

PinentryStep ==
    \/ SendFails \/ SetError \/ Reset \/ HandleGetPin \/ HandleConfirm \/ StreamCloses
    \/ RetryReturns \/ FinalReturns \/ AnswerReturns \/ Killed

FlowNext ==
    \/ PinentryStep
    \/ \E s \in Sockets : DaemonReads(s) \/ DaemonSeesHangup(s)
    \/ \E c \in Cookies : UserResponds(c) \/ UserCancels(c) \/ TimerFires(c)

FlowSpec == FlowInit /\ [][FlowNext]_flowVars

\* The daemon's event loop runs.  Neither gpg-agent nor the user need act.
FairFlowSpec ==
    /\ FlowSpec
    /\ \A s \in Sockets : /\ WF_flowVars(DaemonReads(s))
                          /\ WF_flowVars(DaemonSeesHangup(s))
    /\ \A c \in Cookies : WF_flowVars(TimerFires(c))

-----------------------------------------------------------------------------
(* Properties.                                                             *)

\* What AuthSessions assumes of its clients: while the daemon owes a process a
\* reply about a cookie, the process neither asks about it again nor reports its
\* end, even after it gave up.  A late "retry" is all that may come in between.
Late(m) == m.type = "pinentry_result" /\ m.result = "retry"
ClientKeepsTheRules ==
    \A s \in Sockets :
        inbox[s] # NoMessage /\ ~Late(inbox[s]) => NotWaiting(PidOf[s], inbox[s].cookie)

\* A program that waits for an answer has its prompt: the request is unread, or
\* asked of the user, or answered.  It never sits out its five minutes while the
\* daemon thinks it has replied.
WaitsForItsPrompt ==
    doing \in {"getpin", "confirm"} =>
        \/ inbox[call] # NoMessage
        \/ pending[flow] = call
        \/ reply # "none"

\* A prompt belongs to the flow a living program is at, or something is under
\* way that ends it: the hang-up of its connection or the result timer.  The
\* exception is a flow whose program reported "retry" and died before it asked
\* again.
NothingLeftBehind ==
    \A c \in PinentrySessions :
        \/ flow = c
        \/ pending[c] # NoSocket /\ pending[c] # call
        \/ c \in awaiting
        \/ c \in retryReported

\* When the program has ended, by a report that arrived or not or by a signal at
\* any moment, its prompts end, with the same exception.
PromptsEndWithTheProgram ==
    doing = "done" ~> PinentrySessions \subseteq retryReported

-----------------------------------------------------------------------------
(* A claim of docs/PINENTRY_FLOW.md that the code does not keep.           *)

\* "Ambiguous flows fail closed (error), never inferred success".  A flow is
\* reported as a success only if its last answer satisfied gpg-agent.
NeverInferredSuccess ==
    \A s \in Sockets :
        inbox[s].type = "pinentry_result" /\ inbox[s].result = "success"
            => satisfied
=============================================================================
