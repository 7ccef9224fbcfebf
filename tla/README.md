# bb-auth in TLA+

bb-auth is an authentication agent for Linux desktops. One daemon answers polkit,
the GNOME keyring prompter and GnuPG's pinentry, and shows every request through
whichever UI *provider* is active: a shell that registered over the daemon's
socket, or the fallback window the daemon launches itself. This directory
specifies the daemon's core in TLA+, checks it with TLC on small instances and
proves the main properties with TLAPS for all sizes.

## The system

| part | state | operations | talks to |
|---|---|---|---|
| `ProviderRegistry` (`src/core/agent`) | `m_uiProviders`, `m_activeProvider` | register, heartbeat, unregister, prune, elect, authorize | every provider, by reply or `ui.active` |
| `EventRouter`, `EventQueue` | queue (256), `m_nextWaiters`; `m_subscribers` of the agent | route, enqueue, drain, `next` | active provider, subscribers, `next` clients |
| `SessionStore`, `Session` | `m_sessions` | create, update, close | read by everyone, written through `CAgent` |
| `KeyringManager` | `m_pendingRequests` | request, respond, cancel, cleanup | keyring prompter's socket |
| `PinentryManager` | pending requests, awaited outcomes with timers, owners, keys, attempts | request, respond, result, cancel, timeout, cleanup | pinentry processes |
| `CPolkitListener` | `m_cookieToState`, `m_sessionToState` | initiate, request, completed, error, cancel | polkitd, polkit helper processes |
| `CAgent` | the above, maintenance timer, fallback launch state | one handler per message type | all |
| `IpcServer` | buffers per socket | connect, read lines, send, disconnect | all clients |
| pinentry mode (`src/modes/pinentry.cpp`) | assuan state, flow cookie | GETPIN, CONFIRM, RESET, BYE | gpg-agent, daemon |
| keyring prompter (`src/keyring-prompter`) | prompt objects, worker threads | password, confirm, close | gcr clients, daemon |
| fallback UI (`src/fallback`) | connection, registration, current session, timers | register, heartbeat, show, submit, cancel | daemon |
| providers (`src/core/providers`) | manifests, backoff | discover, select, launch | processes |
| `RequestContext` | none | find the requesting application | /proc |

The daemon is one thread with an event loop: a handler runs to its end, and every
handler is one action. What is concurrent is around it: sockets that connect,
fall silent and vanish, polkit helpers that finish late, timers, client processes
that die between two messages. The hard behaviour is therefore not in a handler
but between them: tables of several components that must be changed together;
an election in the middle of a close; a reply, an event and a broadcast that tell
the same client different things; a retry that meets a timer; a library call that
runs another handler before it returns. `PROJECT.json` lists these hazards line
by line with the properties that cover them.

## Modules

    SessionStore ── AuthSessions ──(implements)── PromptService
         │            │    │
         │            │    ├─ PinentryFlow     (EXTENDS it with a pinentry program)
         │            │    └─ KeyringPrompter  (EXTENDS it with the keyring prompter)
         │            └─ implemented by, for its polkit part
         └────────── PolkitListener
    ProviderRegistry ─┬─ EventRouting       (EXTENDS and implements it)
                      └─ ProviderFailover   (EXTENDS it with the fallback's client)
    ProviderLaunch ── FallbackUi            (choice, launch, process and window)
    Requestor ─── AuthRequestor             (which program a prompt names; EXTENDS AuthSessions too)

Each has an `MC` module with its TLC instance; `MCAuthSessions` extends
AuthRequestor, which joins Requestor to AuthSessions, whose handlers call it.
Proofs are in `...Proofs` modules.

* **ProviderRegistry**: one action per handler that changes the registry, with
  the election (`RecomputeActiveProvider`) and the messages it causes inside. Time is a
  tick; an entry keeps its age instead of its time stamp. `toldActive` records
  the last active flag each socket was sent. Ties between providers of one
  priority and age depend on hash order and are a free choice.
* **EventRouting** extends it with the store's set of open sessions, the bounded
  queue and the `next` waiters. An event is its number; a handler emits one to six.
  `view` records which sessions a socket was told are open, `synced` which
  sockets have had every event since a replay. The actions for sessions stand for what the handlers of
  AuthSessions do to the store, however they come about.
* **SessionStore**: operators on the store, shared by AuthSessions and PolkitListener.
  A session is its source, whether it shows an error, and its attempt number.
* **AuthSessions**: the keyring and pinentry managers, the listener's table of
  cookies and the agent's handlers. Requests a client may send are a constant,
  so one module covers well-behaved clients (`DistinctCookies`) and
  careless ones. A decision is assumed to have passed `isAuthorized`, which is
  ProviderRegistry's subject. Its clients wait for a reply before they say
  anything about the same id again (`NotWaiting`); a late `retry` is the one
  report that may break in, and PinentryFlow shows that the program does no worse
  (`ClientKeepsTheRules`).
* **PromptService**: the promise to requesters: while somebody waits, it is
  connected and its prompt is on display, and a prompt that goes away leaves nobody waiting.
* **PolkitListener**: authentications, attempts and helper objects. Two facts of
  the polkit library matter and are modelled as choices: `initiate()` and
  `cancel()` may emit `completed(false)` before they return. After the use of a
  freed state the daemon goes on or dies.
* **ProviderFailover**: `FallbackClient.cpp` and the registry over one ordered
  channel each way. The client's process and the daemon can die; the daemon may
  then still hold the dead client's connection, even as the active provider. A
  rival provider does what it likes. Only messages that change something are kept.
* **ProviderLaunch**: operators for manifests, their precedence over directories,
  and the choice of a candidate, the first in the sorting order of those that can be
  executed. A file is a record of its fields, each reduced to what the checks tell apart.
* **FallbackUi**: `ensureFallbackUiRunning`, the launch of the candidate that
  ProviderLaunch chooses (cooldown and backoff as flags that time clears), the process with its lock, and the window:
  current session, pending action, its four timers. The registry is reduced to
  three states of the fallback's connection and a rival; what the client believes
  is justified by ProviderFailover.
* **PinentryFlow**: `modes/pinentry.cpp` between gpg-agent, whose commands come in any
  order, and the pinentry manager, which is AuthSessions itself. Each
  call has a connection of its own: it is not sent, answered, or given up at any time, and
  the daemon reads what was sent before it sees the hang-up. The answer of the
  user may be empty, and gpg-agent may find a passphrase wrong.

* **KeyringPrompter**: `src/keyring-prompter` between the gcr library and the keyring
  manager, which is AuthSessions itself. A worker thread per request and the main
  thread in `prompt_close` each wait on a connection of their own. gcr asks, cancels
  and closes at any time, the daemon may refuse a cancel since a provider is active, or
  die; an end of file while somebody waits kills the program (`ipc-client.c:74`).
* **Requestor**: the walk from the process behind a request to the application that is
  named in the prompt, and the search for its desktop entry. /proc changes under the walk,
  so it is a function of what each read returned.

Defective variants of some operators stand next to the original, each marked by a comment.
They are plausible mistakes; putting one in the original's place breaks the
property it is paired with in `PROJECT.json`, which shows that the property
watches that code.

## Runs

| run | instance | shows |
|---|---|---|
| `provider_election` | 3 clients, 2 priorities, timeout 6 ticks, maintenance every 2 (the code's 15 s and 5 s) | exactly one decider, the best provider active, no false belief, silence bounded, live providers kept |
| `event_routing` | 2 clients, 2 sessions, queue of 2, 5 events, 2 waiters | no event lost or repeated short of an overflow, no idle waiter, listeners know the open sessions, registry implemented |
| `auth_sessions` | 2 pinentry processes sharing a key, one of them over 2 connections, a prompter, polkit; walks over 3 ancestors | requests, prompts, timers, attempts stay in step; PromptService implemented; prompts name the right program |
| `shared_cookies` | 2 processes, 2 ids, one used for every kind of request | what holds for careless clients; an answered flow resolves |
| `polkit_listener` | 2 authentications, 3 attempts, 4 helper objects | tables agree, one answer each, no leftover helper, AuthSessions implemented |
| `failover` | the client on 2 connections (one may be stale), 1 rival, 1 session | belief equals authority and the window the session once messages have arrived; the client returns to a usable state unaided |
| `fallback_ui` | 2 sessions, a rival, 2 starting processes; directories with up to 3 manifests | the candidate that precedence and priority give is launched, no prompt outlives its session for long, a lost prompt is about to be recovered; prompts reach the user |
| `pinentry_flow` | 1 program, 3 connections, 2 flows | the program waits only with a prompt, keeps the rules AuthSessions assumes, leaves no prompt behind |
| `keyring_prompter` | 1 program at a time, 3 connections, 2 requests | prompts have a worker that waits, passwords stay with their prompts, the main thread comes back, abandoned prompts go |
| `freed_state`, `broken_provider`, `inferred_success` | as above | three claims of the repository that its code does not keep (see *Findings*) |

**Bounds.** Sockets, ids and helpers interact pairwise (one loses what another
gains), so two or three of each show every order of events; the third client in
the election gives a bystander. The queue of 2 with 5 events overflows, drains
and refills. Ages in the registry are bounded by the maintenance timer, which
runs before a tick when it is due: Qt serves an expired timer before it waits again. One
attempt number is enough, as the count is only copied, kept and dropped.
Constants that only bound the search (`MaxEmitted`, `MaxWaiters`, `MaxToDaemon`,
`MaxToClient`, `MaxStarting`, `MaxEvents`, `MaxSuccessTimers`, `Layouts`, `Readings`) are
named so in their module. Those of the channels hold back only what a side does of its own accord;
what a message, a hang-up or a new connection causes is always sent, so no handler is cut short.
In `failover` the timeout is 0 and maintenance runs every tick, the shortest
times in which an entry can go stale; `TimePasses` assumes that the daemon reads what it was sent
within a tick. In `fallback_ui`, three events let a close and the next prompt queue behind
another event, and one success timer can outlive its session and meet the next.
Three manifests, two of them in one directory, have every relation precedence and sorting
look at: same or other id, same or other priority, valid or not, before or after. The
launched candidate is fixed per run: a layout in which every installed provider is
disabled, hidden or gone in `fallback_ui`, so that the choice falls on the built-in, and
one provider that never serves in `broken_provider`.
In `auth_sessions` the walk stops after 3 hops instead of 16, which walks of 4 readings exceed.
Connections and ids of PinentryFlow differ in nothing but
their names, so a fresh one is picked by CHOOSE; with three connections two that were given
up are still unread while the program waits on the third.
In KeyringPrompter they are a closed prompt's request, its cancel, and the next request; an id
is used once, but a connection, whose pointer the keyring manager keeps, is used again.

**Fairness.** No user and no requesting program is ever assumed to act.
`AnsweredFlowResolves` needs weak fairness of `ResultTimeout`, a single-shot
`QTimer` of a running event loop. `ReturnsToUsableUI`: both event loops read what
has arrived, a hang-up is noticed, the reconnect timer and the subscription
watchdog fire. `PromptReachesUser`: the same, with the window's timers, the
maintenance timer and the end of cooldown and backoff, and a started
process reaches its lock. `PromptsEndWithTheProgram`: the daemon reads, notices
hang-ups and its result timer fires. `MainLoopComesBack` and `AbandonedPromptsGo`: both
event loops run, worker threads are scheduled and the prompter's idle timer fires; neither the user
nor gcr nor an application need act. The two properties of the fallback name what
they do not promise under: endless crashes, new sessions, failing launches, or the permanent return of a rival.

**Deadlock** is checked except for PolkitListener, where a crashed daemon does
nothing more, and PinentryFlow, where the program ends.

## Proofs

| module | argument |
|---|---|
| `ProviderRegistryProofs` | `RegistryInv` is type correctness with: an election has been held (`ElectionIsTotal`: providers without an active one do not exist), `ActiveIsBest`, `ToldTheTruth`, `SilenceIsBounded`. The lemma `ElectionPreservesInv` treats all handlers that elect at once; ageing keeps the order because all entries age alike. |
| `EventRoutingProofs` | Every step is a registry step or a stutter, so the registry's invariant holds here; `KnowledgeInv` (views have their type and synced listeners know the open sessions) is inductive on top of it. `QueueInv` says that the queue holds the latest events not handed out. That a handler emitting any number of events keeps it is an induction over the recursive function in `Route` (`StagesExist`, `StagesKeepOrder`), made on a *set* of numbers: `InductionOnSet` follows from the well-foundedness of the naturals, so no theorem with an operator as parameter is needed. |
| `AuthSessionsProofs` | `FlowInv` (types; a pending flow has no timer and belongs to the process that asked) holds for all clients. `CookieInv` adds, cookie by cookie and under `DistinctCookies`, that prompt, manager's entry, waiting client and error go together. A step that concerns one cookie is handled once (`StepAt`), with the two that concern several (disconnect, polkit's completion) apart. The refinement `PromiseKept` maps each action to a step of PromptService. `AttemptsInv`, for clients that also keep to one key per flow (`OneKeyPerFlow`), says that a flow has named no key but its own, and that a key with a count was named by a flow that still has an owner. That prompts name the requestor is an induction over the hops of the walk (`WalkInv`): where the walk stands after n readings is the best of those it could reach. |
| `PolkitListenerProofs` | `ListenerInv`: the two tables agree, an authentication hears its last helper only, is answered once, no helper outlives its attempt, and every authentication in progress has an open session. Handlers that run inside others (a `completed` from inside `initiate()` or `cancel()`) are operators on the state, so each lemma covers one handler wherever it runs. The refinement maps every step to a step of AuthSessions' polkit part. |
| `PinentryFlowProofs` | Every step of the program composed with the daemon is a step of AuthSessions or leaves its state alone (`PinentryIsAClient`), so `CookieInv` holds here. `PinentryInv` adds where each message under way is: the current call carries the flow's cookie, older calls hold late reports only, no two unread messages bind the same cookie, and a pending prompt is the one the program waits for. |
| `KeyringPrompterProofs` | The same, with the daemon's restart as a step of its own (`RestartKeepsCookieInv`). `PrompterInv` ties, request by request, the worker's connection, the unread messages, the manager's entry, the reply and the cancel together; what was typed travels with the reply. |
| `FallbackUiProofs` | `UiInv` speaks of what the window has still to read: a session that is, or will be, shown is open or its end is under way (`ShownInv`); an empty window leaves, or will hear of an open session (`HiddenInv`); while a rival is there, whatever activates the client is followed by the message that it is not active (`RivalInv`). One lemma on appending messages serves all of the daemon's steps. The launched candidate is a theorem about any directories: `FoundInv` says what the scan has found after so many files, by two inductions, over files and over directories; a first of the remaining manifests exists since priorities are bounded and ids are numbered. |
| `ProviderFailoverProofs` | `FailoverInv` is the registry's invariant (restarts included) with three claims about the end of the channel: what the client will *believe* when it has read everything is what `isAuthorized` says (`BeliefInv`); what it will show is open (`ShownInv`); what is open it will show, at the latest when a subscription under way has been read or a message under way makes it subscribe again (`ReplayInv`). They need that the client hears of every election from its registration on, although it becomes a subscriber only later: `Listed` says that until then its subscription is the next request the daemon reads, and its entry is too young to be pruned. `TellingKeeps` treats all steps by which the daemon appends messages at once; only the client's own requests and the ends of a session need more. |

Assumptions are the named ASSUMEs of the modules, evaluated by TLC on each run, and
`DistinctCookies` where a theorem says so: the clients of the repository draw
ids at random. PinentryFlow and KeyringPrompter have it by construction: their clients ask for one
kind of prompt (`OneProcessAssumption`, `OneProgramAssumption`: the constants of AuthSessions name no
other client). `OnlyOwnerReports` and `NoTimeoutWhileAsking` need no such assumption.

Recursion is written with recursive functions and the inductions over them are made on *sets* of
numbers (`InductionOnSet`), which needs no theorem with an operator as parameter; it is restated in the
three modules that use it.

Only model-checked: liveness, which this prover cannot handle (nor ENABLED), so the six
leads-to and `<>` properties are TLC's.

## Findings

* `freed_state`: cancelling the last polkit attempt uses a freed state
  (`PolkitListener.cpp:237-241`). That `Session::cancel()` emits
  `completed(false)` before it returns is how the polkit library behaves.
* `broken_provider`: an installed autostart provider that starts but never registers is
  launched for ever, the built-in fallback never (`ProviderLauncher.cpp:148`; `README.md:72`).
* `inferred_success`: a wrong or empty passphrase is reported as a success when gpg-agent
  hangs up without another question (`pinentry.cpp:128`; `docs/PINENTRY_FLOW.md:29`).

Seen while modelling, without a run of their own:

* A program that reports `retry` and dies before it asks again leaves its prompt open
  for good; `NothingLeftBehind` and `PromptsEndWithTheProgram` name this one exception
  and show that there is no other.
* A keyring request under an id in use is refused and takes the entry of the
  request that owns the id with it (`KeyringManager.cpp:52`); a pinentry request
  attaches itself to the session of another source (`PinentryManager.cpp:77`). Ids drawn at random rule both out.
* The 300 ms timer of a success clears whatever session the window shows by then. The
  idle exit and a new launch bring the prompt back (`HiddenHeals`).
* A pinentry program draws a cookie only when it has none, and a flow that the daemon closed
  leaves it one (`pinentry.cpp:107-112`): its next question creates a session again
  under an id whose `session.closed` was sent, which `docs/PINENTRY_FLOW.md:9` calls terminal.
  `pinentry_flow` reaches this and checks what still holds.
* A confirm request of the keyring is granted by the result `confirmed` (`ipc-client.c:307`), but the
  daemon sends `ok` or `cancelled` (`KeyringManager.cpp:74`, `:88`): every one is declined.
* A daemon that goes away without a reply kills the keyring prompter, which reads the message of an
  error that is not set (`ipc-client.c:74`). D-Bus starts it again.
* The keyring prompter cancels over a connection that is no provider: while one is active it is
  refused (`Agent.cpp:343`), and so the prompt of an application that has gone stays until
  somebody answers it or the prompter exits for being idle. The same if the cancel is read before
  the request (`ClosedPromptsHaveAReason`).
* A pinentry request refused for its owner gets no reply (`PinentryManager.cpp:67`).
* The next polkit prompt clears the error of the last one (`Agent.cpp:428`).
* A priority that is a fraction, or beyond int, becomes 0 (`ProviderManifest.cpp:129`).
  A candidate that cannot be started is tried again and again, and no other in its place
  (`ProviderLauncher.cpp:54`). Cooldown and backoff compare wall-clock times: after the clock
  is set back nothing is launched until it has caught up (`:189`).
* `FallbackClient` keeps half a line in `m_buffer` over a reconnect. The reply to `ui.register`
  is then lost with it: the client may show a prompt in legacy mode, learn that it is inactive, and not
  clear it.

## Not modelled

Texts: the fallback's prompt model (regular expressions over prompts, no state),
`classifyRequest` and `normalizePrompt`, window layout, status lines. JSON and line
framing, the size limit of a message, secrets and their wiping. Reading /proc, desktop files
and manifests, whose contents are inputs. The command line, packaging and services.
Handlers are atomic: that a flush inside one may report a
disconnect (`IpcServer.cpp:79`, `:131`) depends on QLocalSocket and is left out. The wall
clock only jumps forward, and only in ProviderFailover.

## Plan

Done: all components with control of their own; proofs of every safety invariant and every action
property that a run checks, for all sizes. Left, in this order:

1. A clock that is set back, in the registry and the launcher.
2. Line framing of `IpcServer` and `FallbackClient`, with connections that break in a line.
