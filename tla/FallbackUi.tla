----------------------------- MODULE FallbackUi -----------------------------
(***************************************************************************)
(* How a prompt reaches the user through the fallback window: the daemon's *)
(* decision to launch a UI (CAgent::ensureFallbackUiRunning and            *)
(* ProviderLauncher), the process of the fallback UI with its lock, and    *)
(* the state of its window (FallbackWindow.cpp).                           *)
(*                                                                         *)
(* The daemon's registry is reduced to whether the fallback is registered  *)
(* and whether another provider, which outranks it, is there;              *)
(* ProviderFailover shows that the client then believes what it should.    *)
(* The window is visible exactly while it has a session.  What the user    *)
(* sends is not followed: the daemon may end or update a session anyhow.   *)
(***************************************************************************)
EXTENDS ProviderLaunch, SequencesExt

CONSTANTS
    Sessions,
    None,               \* no session in the window
    SearchDirs,         \* the files in the search directories
    OverridePath,       \* BB_AUTH_FALLBACK_PATH
    DefaultPath,        \* the built-in fallback
    MaxStarting,        \* bound: processes on their way to the lock
    MaxEvents,          \* bound: the daemon adds to fewer events, and not while
                        \* two subscriptions wait
    MaxSuccessTimers    \* bound: pending 300 ms timers

ASSUME NoneAssumption == None \notin Sessions

VARIABLES
    open,        \* sessions in the daemon's store
    rival,       \* another provider is registered
    conn,        \* the fallback's connection: "none", "live", or "dead" while
                 \* the daemon has not noticed that the process is gone
    cooldown,    \* the last launch is less than 5 s ago
    backoff,     \* the launcher does not try again yet
    starting,    \* launched processes that have not tried the lock
    running,     \* a process holds the lock and has a window
    subscribes,  \* subscriptions the daemon has still to read
    events,      \* what the window has still to read
    believes,    \* the client's m_providerActive
    current,     \* m_currentSessionId
    busy,        \* m_busy
    action,      \* m_pendingAction; its timer runs unless "none"
    successTimers,  \* pending 300 ms timers after a success
    failTimers,     \* sessions with a pending 1200 ms timer
    idle         \* m_idleExitTimer runs

daemonVars  == <<open, rival, cooldown, backoff, starting>>
channelVars == <<conn, subscribes, events>>
windowVars  == <<current, busy, action, successTimers, failTimers, idle>>
uiVars      == <<daemonVars, channelVars, running, believes, windowVars>>

Results == {"success", "cancelled", "error"}
NewWindow ==
    /\ believes' = FALSE
    /\ current' = None /\ busy' = FALSE /\ action' = "none"
    /\ successTimers' = 0 /\ failTimers' = {} /\ idle' = FALSE

UiInit ==
    /\ open = {} /\ rival = FALSE
    /\ conn = "none" /\ subscribes = 0 /\ events = <<>>
    /\ cooldown = FALSE /\ backoff = FALSE /\ starting = 0
    /\ running = FALSE /\ believes = FALSE
    /\ current = None /\ busy = FALSE /\ action = "none"
    /\ successTimers = 0 /\ failTimers = {} /\ idle = FALSE

-----------------------------------------------------------------------------
(* The daemon.                                                             *)

HasActiveProvider == rival \/ conn # "none"

Emit(es) == events' = IF conn = "live" THEN events \o es ELSE events

\* Session events go to the active provider: the fallback if it has no rival.
EmitSession(es) == Emit(IF rival THEN <<>> ELSE es)
Room == Len(events) < MaxEvents /\ subscribes < 2

\* The directories are read again for every launch, but nothing is installed
\* while prompts are open.
Candidate == SelectCandidate(Discover(SearchDirs), OverridePath, DefaultPath)

\* tryLaunch, for a candidate that need not wait: its process is started, whether
\* or not it ever serves a prompt, or that fails and the candidate must wait.
TryLaunch ==
    \/ /\ cooldown' = TRUE /\ backoff' = FALSE
       /\ starting' = IF Candidate.source = "default" THEN starting + 1 ELSE starting
    \/ backoff' = TRUE /\ UNCHANGED <<cooldown, starting>>

\* ensureFallbackUiRunning, where the guard of its callers holds.
EnsureFallbackUiRunning ==
    IF ~HasActiveProvider' /\ open' # {} /\ ~running /\ ~cooldown /\ ~backoff
       /\ Candidate # NoCandidate /\ starting < MaxStarting
    THEN TryLaunch
    ELSE UNCHANGED <<cooldown, backoff, starting>>

CreateSession(id) ==
    /\ id \notin open /\ Room
    /\ open' = open \cup {id}
    /\ EmitSession(<<[type |-> "created", id |-> id]>>)
    /\ UNCHANGED <<rival, conn, subscribes, running, believes, windowVars>>
    /\ EnsureFallbackUiRunning

UpdateSession(id) ==
    /\ id \in open /\ Room
    /\ EmitSession(<<[type |-> "updated", id |-> id]>>)
    /\ UNCHANGED <<daemonVars, conn, subscribes, running, believes, windowVars>>

CloseSession(id, result) ==
    /\ id \in open /\ Room
    /\ open' = open \ {id}
    /\ EmitSession(<<[type |-> "closed", id |-> id, result |-> result]>>)
    /\ UNCHANGED <<rival, cooldown, backoff, starting, conn, subscribes, running,
                   believes, windowVars>>

RivalArrives ==
    /\ ~rival /\ Room
    /\ rival' = TRUE
    /\ Emit(<<[type |-> "inactive"]>>)
    /\ UNCHANGED <<open, cooldown, backoff, starting, conn, subscribes, running,
                   believes, windowVars>>

\* It unregisters, disconnects or falls silent.
RivalLeaves ==
    /\ rival /\ Room
    /\ rival' = FALSE
    /\ Emit(<<[type |-> "active"]>>)
    /\ UNCHANGED <<open, conn, subscribes, running, believes, windowVars>>
    /\ EnsureFallbackUiRunning

\* A subscription is answered with every open session, in the order of a hash,
\* unless an inactive provider asks.
DaemonReplays ==
    /\ subscribes > 0 /\ conn = "live" /\ Len(events) <= MaxEvents
    /\ subscribes' = subscribes - 1
    /\ \E order \in SetToSeqs(open) :
          EmitSession([i \in DOMAIN order |-> [type |-> "created", id |-> order[i]]])
    /\ UNCHANGED <<daemonVars, conn, running, believes, windowVars>>

DaemonSeesHangup ==
    /\ conn = "dead"
    /\ conn' = "none"
    /\ UNCHANGED <<open, rival, subscribes, events, running, believes, windowVars>>
    /\ EnsureFallbackUiRunning

\* Defective variant: only events launch the fallback.
MaintenanceOnlyPrunes == UNCHANGED uiVars

\* pruneStaleProviders, every 5 s.
Maintenance ==
    /\ UNCHANGED <<open, rival, channelVars, running, believes, windowVars>>
    /\ EnsureFallbackUiRunning

CooldownEnds ==
    /\ cooldown /\ cooldown' = FALSE
    /\ UNCHANGED <<open, rival, backoff, starting, channelVars, running, believes, windowVars>>

BackoffEnds ==
    /\ backoff /\ backoff' = FALSE
    /\ UNCHANGED <<open, rival, cooldown, starting, channelVars, running, believes, windowVars>>

-----------------------------------------------------------------------------
(* The process of the fallback UI.                                         *)

\* Its tryLock(0): a second process leaves at once.
Start ==
    /\ starting > 0
    /\ starting' = starting - 1
    /\ running' = TRUE
    /\ IF running THEN UNCHANGED <<believes, windowVars>> ELSE NewWindow
    /\ UNCHANGED <<open, rival, cooldown, backoff, channelVars>>

\* The daemon probes the lock by taking it, before it looks at the cooldown; a
\* process that tries it at that moment leaves.
StartMeetsProbe ==
    /\ starting > 0 /\ ~running
    /\ ~HasActiveProvider /\ open # {}
    /\ starting' = starting - 1
    /\ UNCHANGED <<open, rival, cooldown, backoff, channelVars, running, believes, windowVars>>

\* The client connects, registers and subscribes.
Connect ==
    /\ running /\ conn = "none"
    /\ conn' = "live" /\ subscribes' = 1
    /\ events' = <<[type |-> IF rival THEN "inactive" ELSE "active"]>>
    /\ UNCHANGED <<daemonVars, running, believes, windowVars>>

Exit ==
    /\ running' = FALSE
    /\ conn' = IF conn = "live" THEN "dead" ELSE conn
    /\ subscribes' = 0 /\ events' = <<>>
    /\ NewWindow
    /\ UNCHANGED daemonVars

Crash == running /\ Exit

\* The daemon forgets everything; the client notices, is no longer active and
\* its window is cleared.
ClearSession == current' = None /\ busy' = FALSE /\ action' = "none"

DaemonRestarts ==
    /\ open' = {} /\ rival' = FALSE
    /\ conn' = "none" /\ subscribes' = 0 /\ events' = <<>>
    /\ cooldown' = FALSE /\ backoff' = FALSE
    /\ believes' = FALSE
    /\ current' = None /\ action' = "none"
    /\ busy' = (busy \/ conn = "live")
    /\ idle' = (idle \/ (conn = "live" /\ believes))
    /\ UNCHANGED <<starting, running, successTimers, failTimers>>

-----------------------------------------------------------------------------
(* The window.                                                             *)

\* clearSession, hide and startIdleExitTimer.
Dismiss == ClearSession /\ idle' = TRUE

\* Defective variant: the prompt stays when another provider takes over.
ReadProviderStateKeepPrompt(isActive) ==
    /\ believes' = isActive
    /\ subscribes' = IF isActive /\ ~believes THEN subscribes + 1 ELSE subscribes
    /\ UNCHANGED windowVars

\* providerStateChanged, for a change; a client that becomes active subscribes
\* again, and one that no longer is clears its window.
ReadProviderState(isActive) ==
    /\ believes' = isActive
    /\ IF isActive = believes
       THEN UNCHANGED <<subscribes, current, busy, action, idle>>
       ELSE IF isActive
       THEN /\ subscribes' = subscribes + 1
            /\ busy' = (busy /\ current = None)
            /\ UNCHANGED <<current, action, idle>>
       ELSE /\ UNCHANGED subscribes
            /\ IF current # None THEN ClearSession ELSE UNCHANGED <<current, busy, action>>
            /\ idle' = TRUE
    /\ UNCHANGED <<successTimers, failTimers>>

ReadCreated(id) ==
    /\ current' = id /\ busy' = FALSE /\ action' = "none"
    /\ idle' = FALSE
    /\ UNCHANGED <<successTimers, failTimers>>

ReadUpdated(id) ==
    /\ IF id = current THEN busy' = FALSE /\ action' = "none" ELSE UNCHANGED <<busy, action>>
    /\ UNCHANGED <<current, successTimers, failTimers, idle>>

ReadClosed(id, result) ==
    IF id # current THEN UNCHANGED windowVars
    ELSE \/ /\ result = "success"
            /\ successTimers < MaxSuccessTimers
            /\ action' = "none"
            /\ successTimers' = successTimers + 1
            /\ UNCHANGED <<current, busy, failTimers, idle>>
         \/ /\ result = "cancelled"
            /\ Dismiss
            /\ UNCHANGED <<successTimers, failTimers>>
         \/ /\ result = "error"
            /\ action' = "none" /\ busy' = FALSE
            /\ failTimers' = failTimers \cup {id}
            /\ UNCHANGED <<current, successTimers, idle>>

\* A registered client that is not active ignores session events.
ReadEvent ==
    LET e == Head(events) IN
    /\ events # <<>>
    /\ events' = Tail(events)
    /\ IF e.type \in {"active", "inactive"}
       THEN ReadProviderState(e.type = "active")
       ELSE /\ IF ~believes THEN UNCHANGED windowVars
               ELSE \/ e.type = "created" /\ ReadCreated(e.id)
                    \/ e.type = "updated" /\ ReadUpdated(e.id)
                    \/ e.type = "closed" /\ ReadClosed(e.id, e.result)
            /\ UNCHANGED <<subscribes, believes>>
    /\ UNCHANGED <<daemonVars, conn, running>>

\* 300 ms after a success, whatever session the window shows by then.
SuccessTimer ==
    /\ successTimers > 0
    /\ successTimers' = successTimers - 1
    /\ Dismiss
    /\ UNCHANGED <<daemonVars, channelVars, running, believes, failTimers>>

\* 1200 ms after a failure.
FailTimer(id) ==
    /\ id \in failTimers
    /\ failTimers' = failTimers \ {id}
    /\ IF current = id THEN Dismiss ELSE UNCHANGED <<current, busy, action, idle>>
    /\ UNCHANGED <<daemonVars, channelVars, running, believes, successTimers>>

IdleExit == idle /\ Exit

Submit ==
    /\ current # None /\ ~busy
    /\ action' = "submit" /\ busy' = TRUE
    /\ UNCHANGED <<daemonVars, channelVars, running, believes,
                   current, successTimers, failTimers, idle>>

\* With the connection lost in the middle of an answer, the window just goes.
HandleCancelRequest ==
    /\ current # None
    /\ ~(busy /\ action = "cancel")
    /\ IF busy /\ conn # "live" THEN Dismiss
       ELSE action' = "cancel" /\ busy' = TRUE /\ UNCHANGED <<current, idle>>
    /\ UNCHANGED <<daemonVars, channelVars, running, believes, successTimers, failTimers>>

\* Nobody answered for 12 s.
ActionTimeout ==
    /\ action # "none"
    /\ action' = "none" /\ busy' = FALSE
    /\ UNCHANGED <<daemonVars, channelVars, running, believes,
                   current, successTimers, failTimers, idle>>

\* Defective variant: closing the window does not end the application.
CloseWindowOnly ==
    /\ current # None
    /\ ClearSession
    /\ UNCHANGED <<daemonVars, channelVars, running, believes, successTimers, failTimers, idle>>

\* closeEvent; the application ends with its last window.
CloseWindow == current # None /\ Exit

UiNext ==
    \/ \E id \in Sessions :
          \/ CreateSession(id) \/ UpdateSession(id) \/ FailTimer(id)
          \/ \E result \in Results : CloseSession(id, result)
    \/ RivalArrives \/ RivalLeaves
    \/ DaemonReplays \/ DaemonSeesHangup \/ Maintenance \/ CooldownEnds \/ BackoffEnds
    \/ Start \/ StartMeetsProbe \/ Connect \/ Crash \/ DaemonRestarts
    \/ ReadEvent \/ SuccessTimer \/ IdleExit \/ ActionTimeout
    \/ Submit \/ HandleCancelRequest \/ CloseWindow

UiSpec == UiInit /\ [][UiNext]_uiVars

\* Event loops run, timers fire, and a launched process gets to its lock.  The
\* user does nothing.
FairUiSpec ==
    /\ UiSpec
    /\ WF_uiVars(DaemonReplays)
    /\ WF_uiVars(DaemonSeesHangup)
    /\ WF_uiVars(Maintenance)
    /\ WF_uiVars(CooldownEnds)
    /\ WF_uiVars(BackoffEnds)
    /\ WF_uiVars(Start)
    /\ WF_uiVars(Connect)
    /\ WF_uiVars(ReadEvent)
    /\ WF_uiVars(SuccessTimer)
    /\ WF_uiVars(IdleExit)
    /\ WF_uiVars(\E id \in Sessions : FailTimer(id))

-----------------------------------------------------------------------------
(* Properties.                                                             *)

\* Everything the daemon has sent to the window has been read.
Settled == conn = "live" /\ subscribes = 0 /\ events = <<>>

\* Once it has read all it was sent, the window shows a session that is open, or
\* one whose end it still reports for 300 or 1200 ms.
DisplayedIsOpen ==
    Settled /\ current # None =>
        current \in open \/ successTimers > 0 \/ current \in failTimers

\* The exit timer never runs on a window with a prompt, and it does run on one that
\* has hidden an open session (a second prompt replaced the first; the timer of
\* one success cleared the next prompt).  After the exit the daemon launches a new
\* one, which is told of all open sessions.
HiddenHeals ==
    /\ idle => current = None
    /\ Settled /\ believes /\ current = None /\ open # {} => idle

\* What was launched (cooldown says so) is what docs/PROVIDER_PACKAGING.md promises, for
\* whatever is installed: a provider that the user disables, or replaces by one that
\* cannot run, in a directory of higher precedence is not started from another one,
\* and an invalid file hides nothing.
LaunchesTheBestCandidate == cooldown => ChoosesTheBestCandidate

\* README.md: "If provider is unavailable, built-in Qt fallback is launched
\* automatically".  Once no more sessions are created, there is again and again
\* none open, or another provider to show it, or an open session in the window;
\* unless processes go on dying or failing to start.  (A prompt that the window
\* has lost does wait for as long as new ones keep the window from exiting.)
LaunchFails == ~backoff /\ backoff'
Mishap == Crash \/ DaemonRestarts \/ StartMeetsProbe \/ LaunchFails
PromptReachesUser ==
    \/ []<><<Mishap \/ \E id \in Sessions : CreateSession(id)>>_uiVars
    \/ []<>rival
    \/ []<>(open = {} \/ current \in open)
=============================================================================
