--------------------------- MODULE KeyringPrompter ---------------------------
(***************************************************************************)
(* The GNOME keyring prompter (src/keyring-prompter) between the gcr       *)
(* library, which works on one prompt at a time and may close it at any    *)
(* moment, and the daemon's keyring manager, which is AuthSessions.  Each  *)
(* request blocks a worker thread on a connection of its own; closing a    *)
(* prompt blocks the main thread on another one.                           *)
(*                                                                         *)
(* A prompt object is asked one thing after the other, so what it shares   *)
(* with a worker thread is read only: the object is its request_cookie,    *)
(* and the thread's part of it is indexed by that cookie.                  *)
(***************************************************************************)
EXTENDS AuthSessions

CONSTANT NoCookie  \* a null request_cookie

ASSUME NoCookieAssumption == NoCookie \notin Cookies
\* The program asks for nothing but keyring prompts, and is alone to do so.
ASSUME OneProgramAssumption ==
    /\ \A s, t \in Sockets : PidOf[s] = PidOf[t]
    /\ Requests = {"keyring"} \X Sockets \X Cookies

VARIABLES
    main,            \* main thread: "off" (no process), "free", in prompt_close
                     \* "closing", or "quitting" when the loop has ended
    timeout_id,      \* the inactivity timer runs
    prompting,       \* gcr is at work on a prompt
    request_cookie,  \* the last request of that prompt's object
    thread,          \* cookie -> its worker: "none", "starting", "waiting",
                     \* "done"
    conn,            \* cookie -> the connection its worker waits on
    cancelConn,      \* the connection prompt_close waits on
    confirms,        \* the requests that are confirm requests
    inbox,           \* what the daemon has still to read on each connection
    reply,           \* what it wrote to each connection
    closed,          \* history: requests gcr cancelled before they returned
    cancel,          \* history: cookie -> what became of its session.cancel
    received         \* what the worker returned: a password, as the id of the
                     \* prompt it was typed into, or NoCookie

mainVars     == <<main, timeout_id, prompting, request_cookie>>
workerVars   == <<thread, conn, confirms, received>>
channelVars  == <<cancelConn, inbox, reply>>
prompterVars == <<vars, mainVars, workerVars, channelVars, closed, cancel>>

NoMessage == [type |-> "none"]
NoReply   == [result |-> "none", id |-> NoCookie]

Busy == {c \in Cookies : thread[c] \in {"starting", "waiting"}}
Ungenerated == {c \in Cookies : thread[c] = "none"}

PrompterInit ==
    /\ Init
    /\ main = "off" /\ timeout_id = FALSE
    /\ prompting = FALSE /\ request_cookie = NoCookie
    /\ thread = [c \in Cookies |-> "none"]
    /\ conn = [c \in Cookies |-> NoSocket]
    /\ cancelConn = NoSocket
    /\ confirms = {} /\ closed = {}
    /\ inbox = [s \in Sockets |-> NoMessage]
    /\ reply = [s \in Sockets |-> NoReply]
    /\ cancel = [c \in Cookies |-> "none"]
    /\ received = [c \in Cookies |-> NoCookie]

-----------------------------------------------------------------------------
(* Commands to the daemon (ipc-client.c).                                  *)

\* The connections the process has open.
Held == ({conn[c] : c \in Cookies} \cup {cancelConn}) \ {NoSocket}

\* A new name.  Connections, and cookies, differ in nothing but their names; a
\* connection that both sides have closed is free again, as a pointer is.
Fresh(names) == CHOOSE n \in names : TRUE

Unused == Sockets \ (connected \cup Held)

\* send_json_command, up to its wait, over connection s.
SendCommand(s, m) ==
    /\ Connect(s)
    /\ inbox' = [inbox EXCEPT ![s] = m]
    /\ reply' = [reply EXCEPT ![s] = NoReply]

\* The daemon has gone away and never wrote to the connection.
AtEof(s) == s # NoSocket /\ s \notin connected /\ reply[s] = NoReply

-----------------------------------------------------------------------------
(* The main thread.                                                        *)

\* The process ends, and its workers and connections with it.
ProgramEnds ==
    /\ main' = "off" /\ timeout_id' = FALSE
    /\ prompting' = FALSE /\ request_cookie' = NoCookie
    /\ thread' = [c \in Cookies |-> IF c \in Busy THEN "done" ELSE thread[c]]
    /\ conn' = [c \in Cookies |-> NoSocket]
    /\ cancelConn' = NoSocket
    /\ reply' = [s \in Sockets |-> NoReply]
    /\ UNCHANGED <<vars, confirms, received, inbox, closed, cancel>>

\* D-Bus starts the program and the daemon answers its ping.  Otherwise the
\* process becomes gcr-prompter, which is none of the daemon's business.
Start ==
    /\ main = "off"
    /\ main' = "free" /\ timeout_id' = TRUE
    /\ UNCHANGED <<vars, prompting, request_cookie, workerVars, channelVars, closed, cancel>>

\* Defective variant: the timer is not started again.
PromptingChangesNoRestart(now) == prompting' = now /\ timeout_id' = FALSE

\* on_prompting_changed
PromptingChanges(now) == prompting' = now /\ timeout_id' = ~now

\* gcr begins to work on a prompt, with a new prompt object.
BeginPrompting ==
    /\ main = "free" /\ ~prompting
    /\ PromptingChanges(TRUE)
    /\ request_cookie' = NoCookie
    /\ UNCHANGED <<vars, main, workerVars, channelVars, closed, cancel>>

\* prompt_password_async and prompt_confirm_async.
PromptAsync(isConfirm) ==
    LET c == Fresh(Ungenerated) IN
    /\ main = "free" /\ prompting
    /\ request_cookie \notin Busy
    /\ Ungenerated # {}
    /\ request_cookie' = c
    /\ thread' = [thread EXCEPT ![c] = "starting"]
    /\ confirms' = IF isConfirm THEN confirms \cup {c} ELSE confirms
    /\ UNCHANGED <<vars, main, timeout_id, prompting, conn, received, channelVars,
                   closed, cancel>>

\* Kept for requests that were cut short.
Note(fate) == [c \in Cookies |-> IF c = request_cookie /\ c \in Busy
                                 THEN fate ELSE cancel[c]]

\* Defective variant: the daemon is not told.
PromptCloseQuietly(next) ==
    /\ closed' = closed \cup ({request_cookie} \cap Busy)
    /\ PromptingChanges(FALSE) /\ main' = "free"
    /\ cancel' = Note("done")
    /\ UNCHANGED <<vars, channelVars, request_cookie>>

(***************************************************************************)
(* gcr cancels what the prompt is asked and calls prompt_close, which      *)
(* sends session.cancel for its last request, whether or not it is over,   *)
(* and waits for the reply.  next: what the main thread is in meanwhile.   *)
(***************************************************************************)
PromptClose(next) ==
    /\ closed' = closed \cup ({request_cookie} \cap Busy)
    /\ UNCHANGED request_cookie
    /\ \/ /\ request_cookie # NoCookie
          /\ Unused # {}
          /\ SendCommand(Fresh(Unused), [type |-> "session.cancel", cookie |-> request_cookie])
          /\ cancelConn' = Fresh(Unused)
          /\ cancel' = Note("sent")
          /\ main' = next
          /\ UNCHANGED <<prompting, timeout_id>>
       \/ \* no request yet, or the daemon does not listen
          /\ PromptingChanges(FALSE)
          /\ main' = IF next = "quitting" THEN "quitting" ELSE "free"
          /\ cancel' = Note("unsent")
          /\ UNCHANGED <<vars, channelVars>>

\* The prompt was answered, or the application that asked has gone away.
StopPrompting ==
    /\ main = "free" /\ prompting
    /\ PromptClose("closing")
    /\ UNCHANGED workerVars

\* on_name_lost: the loop ends, and unregistering closes the prompt first.
NameLost ==
    /\ main = "free"
    /\ IF prompting
       THEN PromptClose("quitting") /\ UNCHANGED workerVars
       ELSE ProgramEnds

\* on_timeout
IdleTimeout ==
    /\ main = "free" /\ timeout_id
    /\ ProgramEnds

\* send_cancel ignores what the daemon replied.
CancelReturns ==
    /\ main = "closing"
    /\ reply[cancelConn] # NoReply
    /\ main' = "free"
    /\ cancelConn' = NoSocket
    /\ reply' = [reply EXCEPT ![cancelConn] = NoReply]
    /\ PromptingChanges(FALSE)
    /\ UNCHANGED <<vars, request_cookie, workerVars, inbox, closed, cancel>>

Quits ==
    /\ main = "quitting"
    /\ cancelConn # NoSocket => reply[cancelConn] # NoReply
    /\ ProgramEnds

\* At the end of the input no error is set, and its message is read all the
\* same: whichever thread waits, the process dies.
ReadsEof ==
    /\ \E s \in Held : AtEof(s)
    /\ ProgramEnds

-----------------------------------------------------------------------------
(* The worker threads.                                                     *)

\* The request is sent even if it was cancelled in the meantime.
WorkerSends(c) ==
    /\ thread[c] = "starting"
    /\ \/ /\ Unused # {}
          /\ SendCommand(Fresh(Unused), [type |-> "keyring_request", cookie |-> c])
          /\ conn' = [conn EXCEPT ![c] = Fresh(Unused)]
          /\ thread' = [thread EXCEPT ![c] = "waiting"]
       \/ \* the daemon does not listen
          /\ thread' = [thread EXCEPT ![c] = "done"]
          /\ UNCHANGED <<vars, conn, inbox, reply>>
    /\ UNCHANGED <<mainVars, cancelConn, confirms, received, closed, cancel>>

\* A confirm request is granted by "confirmed", a result the daemon never sends.
\* A task that was cancelled returns nothing, whatever it was sent.
WorkerReceives(c) ==
    LET r == reply[conn[c]]
        password == r.result = "ok" /\ c \notin confirms /\ c \notin closed
    IN  /\ thread[c] = "waiting"
        /\ r # NoReply
        /\ thread' = [thread EXCEPT ![c] = "done"]
        /\ received' = [received EXCEPT ![c] = IF password THEN r.id ELSE NoCookie]
        /\ conn' = [conn EXCEPT ![c] = NoSocket]
        /\ reply' = [reply EXCEPT ![conn[c]] = NoReply]
        /\ UNCHANGED <<vars, mainVars, confirms, cancelConn, inbox, closed, cancel>>

-----------------------------------------------------------------------------
(* The daemon.                                                             *)

Say(result, c) == [result |-> result, id |-> c]

\* Nobody reads what is written to a connection the program has closed.
Written(replies, s, r) == IF s \in Held THEN [replies EXCEPT ![s] = r] ELSE replies

\* Defective variant: an id without a request is passed over in silence.
HandleCancelSilently(s, c, authorized) ==
    IF authorized /\ keyring[c] # NoSocket
    THEN /\ SettleKeyring(c)
         /\ reply' = Written(Written(reply, keyring[c], Say("cancelled", c)),
                             s, Say("ok", c))
    ELSE UNCHANGED <<vars, reply>>

\* handleCancel, for an id of this program.
HandleCancel(s, c, authorized) ==
    IF authorized /\ keyring[c] # NoSocket
    THEN /\ SettleKeyring(c)
         /\ reply' = Written(Written(reply, keyring[c], Say("cancelled", c)),
                             s, Say("ok", c))
    ELSE /\ reply' = Written(reply, s, Say("error", c))
         /\ UNCHANGED vars

\* The daemon is still to read the request of c.
Unread(c) == \/ thread[c] = "starting"
             \/ \E s \in Sockets : inbox[s] = [type |-> "keyring_request", cookie |-> c]

\* authorized: no provider is active, so that any connection may cancel.
ReadsCancel(s, c) ==
    \E authorized \in BOOLEAN :
        /\ HandleCancel(s, c, authorized)
        /\ cancel' = [cancel EXCEPT ![c] = IF @ = "none" THEN "none"
                                           ELSE IF ~authorized THEN "refused"
                                           ELSE IF Unread(c) THEN "early" ELSE "done"]

ReadsRequest(s, c) ==
    /\ HandleKeyringRequest(s, c)
    /\ reply' = IF IsOpen(sessions, c) THEN Written(reply, s, Say("error", c)) ELSE reply
    /\ UNCHANGED cancel

DaemonReads(s) ==
    /\ s \in connected
    /\ inbox[s] # NoMessage
    /\ IF inbox[s].type = "session.cancel"
       THEN ReadsCancel(s, inbox[s].cookie) ELSE ReadsRequest(s, inbox[s].cookie)
    /\ inbox' = [inbox EXCEPT ![s] = NoMessage]
    /\ UNCHANGED <<mainVars, workerVars, cancelConn, closed>>

\* The connection is closed at the other end; what was sent is read first.
DaemonSeesHangup(s) ==
    /\ s \notin Held
    /\ inbox[s] = NoMessage
    /\ OnClientDisconnected(s)
    /\ UNCHANGED <<mainVars, workerVars, channelVars, closed, cancel>>

\* The provider responds to the prompt, or cancels it.
UserDecides(c) ==
    /\ SettleKeyring(c)
    /\ \E result \in {"ok", "cancelled"} :
          reply' = Written(reply, keyring[c], Say(result, c))
    /\ UNCHANGED <<mainVars, workerVars, cancelConn, inbox, closed, cancel>>

\* The daemon dies and is started again; what it wrote can still be read.
DaemonRestarts ==
    /\ connected # {}
    /\ connected' = {}
    /\ sessions' = [c \in Cookies |-> NoSession]
    /\ keyring' = [c \in Cookies |-> NoSocket]
    /\ waiting' = {}
    /\ inbox' = [s \in Sockets |-> NoMessage]
    /\ UNCHANGED <<pinentryVars, polkit, answered, mainVars, workerVars, cancelConn,
                   reply, closed, cancel>>

MainStep ==
    \/ Start \/ BeginPrompting \/ StopPrompting \/ NameLost \/ IdleTimeout
    \/ \E isConfirm \in BOOLEAN : PromptAsync(isConfirm)
    \/ CancelReturns \/ Quits \/ ReadsEof

PrompterNext ==
    \/ MainStep
    \/ \E c \in Cookies : WorkerSends(c) \/ WorkerReceives(c) \/ UserDecides(c)
    \/ \E s \in Sockets : DaemonReads(s) \/ DaemonSeesHangup(s)
    \/ DaemonRestarts

PrompterSpec == PrompterInit /\ [][PrompterNext]_prompterVars

\* Both event loops run, threads are scheduled and the idle timer fires.
\* Neither the user nor gcr, nor an application, need ever do anything.
FairPrompterSpec ==
    /\ PrompterSpec
    /\ WF_prompterVars(IdleTimeout) /\ WF_prompterVars(CancelReturns)
    /\ WF_prompterVars(Quits) /\ WF_prompterVars(ReadsEof)
    /\ \A c \in Cookies : /\ WF_prompterVars(WorkerSends(c))
                          /\ WF_prompterVars(WorkerReceives(c))
    /\ \A s \in Sockets : /\ WF_prompterVars(DaemonReads(s))
                          /\ WF_prompterVars(DaemonSeesHangup(s))

-----------------------------------------------------------------------------
(* Properties.                                                             *)

\* A keyring prompt on display has a worker that waits for its answer on the
\* connection the answer goes to, unless the program has hung up and the daemon
\* is about to see it.
PromptsAreWaitedFor ==
    \A c \in Cookies : sessions[c].source = "keyring" =>
        \/ thread[c] = "waiting" /\ keyring[c] = conn[c]
        \/ keyring[c] \in connected \ Held

\* A password is only returned by the request whose prompt it was typed into,
\* although the program never compares ids and connections come and go.
PasswordForItsOwnPrompt == \A c \in Cookies : received[c] \in {c, NoCookie}

\* A prompt stays on display after its application closed it for four reasons
\* only: the cancel is on its way, was refused since a provider is active, came
\* before the request, or found nobody listening.
ClosedPromptsHaveAReason ==
    \A c \in closed : IsOpen(sessions, c) /\ keyring[c] \in Held =>
        cancel[c] \in {"sent", "refused", "early", "unsent"}

\* The main thread waits for its cancel without a timeout, and yet always comes
\* back, or the process ends: the daemon answers every cancel, known id or not.
MainLoopComesBack == main \in {"closing", "quitting"} ~> main \in {"free", "off"}

\* Once applications ask no more, no keyring prompt stays on display: whatever
\* prompt_close failed to take down goes with the program at the idle timeout.
AbandonedPromptsGo ==
    <>[]~prompting => <>[](\A c \in Cookies : ~IsOpen(sessions, c))
=============================================================================
