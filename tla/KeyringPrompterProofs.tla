------------------------ MODULE KeyringPrompterProofs ------------------------
(***************************************************************************)
(* Proofs about KeyringPrompter, for any number of connections and         *)
(* requests.  Every step but the restart of the daemon is a step of        *)
(* AuthSessions, and the restart keeps the invariant that was proved there.*)
(***************************************************************************)
EXTENDS KeyringPrompter, AuthSessionsProofs

Request(c) == [type |-> "keyring_request", cookie |-> c]
Cancel(c)  == [type |-> "session.cancel", cookie |-> c]
Message == {Request(c) : c \in Cookies} \cup {Cancel(c) : c \in Cookies}

Reply == [result : {"none", "ok", "cancelled", "error"}, id : Cookies \cup {NoCookie}]

-----------------------------------------------------------------------------
(* The inductive invariant.                                                *)

PrompterTypeOK ==
    /\ request_cookie \in Cookies \cup {NoCookie}
    /\ thread \in [Cookies -> {"none", "starting", "waiting", "done"}]
    /\ conn \in [Cookies -> Sockets \cup {NoSocket}]
    /\ cancelConn \in Sockets \cup {NoSocket}
    /\ inbox \in [Sockets -> Message \cup {NoMessage}]
    /\ reply \in [Sockets -> Reply]
    /\ closed \subseteq Cookies
    /\ cancel \in [Cookies -> {"none", "sent", "unsent", "refused", "early", "done"}]
    /\ received \in [Cookies -> Cookies \cup {NoCookie}]

\* A worker waits on a connection of its own, and what is written to it there is
\* the answer to its request, which the daemon has read and settled.
ConnAt(c) ==
    /\ conn[c] # NoSocket <=> thread[c] = "waiting"
    /\ conn[c] # NoSocket => /\ conn[c] # cancelConn
                             /\ \A d \in Cookies : conn[d] = conn[c] => d = c
    /\ conn[c] # NoSocket /\ reply[conn[c]] # NoReply =>
          /\ reply[conn[c]].id = c
          /\ inbox[conn[c]] = NoMessage
          /\ keyring[c] # conn[c]

\* A message is read on the connection it was sent on, whoever has it by then:
\* nobody, or who sent it.  A request is sent once.
UnreadAt(s) ==
    /\ inbox[s] # NoMessage => s \in connected
    /\ \A c \in Cookies :
          /\ inbox[s] = Cancel(c) => \A d \in Cookies : conn[d] # s
          /\ inbox[s] = Request(c) =>
                /\ s # cancelConn
                /\ \A d \in Cookies : conn[d] = s => d = c
                /\ thread[c] \in {"waiting", "done"}
                /\ keyring[c] = NoSocket
                /\ \A t \in Sockets : inbox[t] = Request(c) => t = s

\* The daemon's request was read from a connection that is its worker's, or
\* nobody's any more.
KeyringAt(c) ==
    keyring[c] # NoSocket =>
        /\ thread[c] \in {"waiting", "done"}
        /\ inbox[keyring[c]] = NoMessage
        /\ keyring[c] # cancelConn
        /\ \A d \in Cookies : conn[d] = keyring[c] => d = c

\* A cancel that was carried out left nothing to be asked of the user later.
CancelAt(c) ==
    /\ c \in closed => cancel[c] # "none"
    /\ cancel[c] # "none" => thread[c] # "none"
    /\ cancel[c] = "done" => keyring[c] = NoSocket /\ ~Unread(c)

PrompterInv ==
    /\ PrompterTypeOK
    /\ \A c \in Cookies : ConnAt(c) /\ KeyringAt(c) /\ CancelAt(c)
    /\ \A s \in Sockets : UnreadAt(s)
    /\ PasswordForItsOwnPrompt

-----------------------------------------------------------------------------
(* The daemon with one program, which asks for keyring prompts only.       *)

LEMMA OneKindOfRequest == DistinctCookies
BY OneProgramAssumption DEF DistinctCookies

\* Nothing is in the pinentry manager or with polkit.
LEMMA OnlyKeyring ==
    ASSUME CookieInv, NEW c \in Cookies
    PROVE  /\ pending[c] = NoSocket /\ flowOwners[c] = NoPid
           /\ c \notin polkit /\ c \notin awaiting /\ c \notin answered
<1>1. CookieAt(c) /\ AuthTypeOK
  BY DEF CookieInv, FlowInv
<1>2. \A s : <<"pinentry", s, c>> \notin Requests /\ <<"polkit", s, c>> \notin Requests
  BY OneProgramAssumption
<1>3. flowOwners[c] = NoPid /\ c \notin polkit
  BY <1>1, <1>2 DEF CookieAt, RequestedAt
<1>4. pending[c] = NoSocket
  BY <1>1, <1>3, PidOfAssumption, NullsAssumption DEF CookieAt, OwnerAt, AuthTypeOK
<1> QED
  BY <1>1, <1>3, <1>4 DEF CookieAt, ManagerAt, OutcomeAt

\* The daemon that is started again has no request and owes no reply.
LEMMA RestartKeepsCookieInv == ASSUME CookieInv, DaemonRestarts PROVE CookieInv'
<1>1. /\ connected' = {}
      /\ sessions' = [c \in Cookies |-> NoSession]
      /\ keyring' = [c \in Cookies |-> NoSocket]
      /\ waiting' = {}
      /\ UNCHANGED <<pending, awaiting, flowOwners, flowKeyinfos, retryInfo,
                     retryReported, polkit, answered>>
  BY DEF DaemonRestarts, pinentryVars
<1>2. AuthTypeOK'
  <2>1. \A c \in Cookies : pending[c] = NoSocket
    BY OnlyKeyring
  <2> QED
    BY <1>1, <2>1 DEF CookieInv, FlowInv, AuthTypeOK, NoSession
<1>3. ASSUME NEW c \in Cookies PROVE FlowAt(c)' /\ CookieAt(c)'
  <2>1. /\ pending[c] = NoSocket /\ flowOwners[c] = NoPid
        /\ c \notin polkit /\ c \notin awaiting /\ c \notin answered
    BY OnlyKeyring
  <2> QED
    BY <1>1, <2>1, NullsAssumption DEF FlowAt, CookieAt, ManagerAt, RequestedAt, WaitersAt,
       OwnerAt, OutcomeAt, NoSession
<1> QED
  BY <1>2, <1>3 DEF CookieInv, FlowInv

-----------------------------------------------------------------------------
(* Lemmas about the operators.                                             *)

LEMMA FreshIsNew == ASSUME NEW names, names # {} PROVE Fresh(names) \in names
BY DEF Fresh

LEMMA UnusedFacts ==
    ASSUME PrompterTypeOK, Unused # {}
    PROVE  /\ Fresh(Unused) \in Sockets /\ Fresh(Unused) # NoSocket
           /\ Fresh(Unused) \notin connected
           /\ Fresh(Unused) # cancelConn
           /\ \A c \in Cookies : conn[c] # Fresh(Unused)
<1>1. Fresh(Unused) \in Unused
  BY FreshIsNew
<1> QED
  BY <1>1, NullsAssumption DEF Unused, Held

\* A connection is held by who waits on it.
LEMMA HeldFacts ==
    ASSUME NEW s, s # NoSocket
    PROVE  s \in Held <=> s = cancelConn \/ \E c \in Cookies : conn[c] = s
BY DEF Held

LEMMA MessageFacts ==
    ASSUME PrompterTypeOK, NEW s \in Sockets, inbox[s] # NoMessage
    PROVE  \E c \in Cookies : \/ inbox[s] = Request(c) /\ inbox[s].type = "keyring_request"
                                    /\ inbox[s].cookie = c
                              \/ inbox[s] = Cancel(c) /\ inbox[s].type = "session.cancel"
                                    /\ inbox[s].cookie = c
<1>1. inbox[s] \in Message
  BY DEF PrompterTypeOK
<1>2. PICK c \in Cookies : inbox[s] = Request(c) \/ inbox[s] = Cancel(c)
  BY <1>1 DEF Message
<1> QED
  BY <1>2 DEF Request, Cancel

\* A request is not a cancel, and tells its cookie.
LEMMA MessagesDiffer ==
    ASSUME NEW c \in Cookies, NEW d \in Cookies
    PROVE  /\ Request(c) # NoMessage /\ Cancel(c) # NoMessage
           /\ Request(c) # Cancel(d)
           /\ Request(c) = Request(d) => c = d
           /\ Cancel(c) = Cancel(d) => c = d
           /\ Request(c) \in Message /\ Cancel(c) \in Message
<1>1. /\ Request(c).type = "keyring_request" /\ Request(c).cookie = c
      /\ Cancel(c).type = "session.cancel" /\ Cancel(c).cookie = c
      /\ Request(d).cookie = d
      /\ Cancel(d).type = "session.cancel" /\ Cancel(d).cookie = d
      /\ NoMessage.type = "none"
  BY DEF Request, Cancel, NoMessage
<1>2. Request(c) \in Message /\ Cancel(c) \in Message
  BY DEF Message
<1> QED
  BY <1>1, <1>2

\* What the daemon writes reaches the connection it is meant for, if it is held.
LEMMA WrittenFacts ==
    ASSUME NEW replies \in [Sockets -> Reply], NEW s \in Sockets, NEW r \in Reply
    PROVE  /\ Written(replies, s, r) \in [Sockets -> Reply]
           /\ \A t \in Sockets : Written(replies, s, r)[t] =
                 IF t \in Held /\ t = s THEN r ELSE replies[t]
BY DEF Written

-----------------------------------------------------------------------------
(* The program's steps.                                                    *)

\* A new connection takes the place of none that is in use.
LEMMA NewConnection ==
    ASSUME PrompterInv, AuthTypeOK, NEW m \in Message, Unused # {},
           SendCommand(Fresh(Unused), m)
    PROVE  \E n \in Sockets :
              /\ n = Fresh(Unused) /\ n # NoSocket /\ n # cancelConn
              /\ n \notin connected /\ connected' = connected \cup {n}
              /\ inbox[n] = NoMessage
              /\ inbox' \in [Sockets -> Message \cup {NoMessage}]
              /\ inbox'[n] = m
              /\ \A s \in Sockets \ {n} : inbox'[s] = inbox[s]
              /\ reply' \in [Sockets -> Reply]
              /\ reply'[n] = NoReply
              /\ \A s \in Sockets \ {n} : reply'[s] = reply[s]
              /\ UNCHANGED <<sessions, keyring>>
              /\ \A c \in Cookies : conn[c] # n /\ keyring[c] # n
<1> DEFINE n == Fresh(Unused)
<1>0. PrompterTypeOK /\ \A s \in Sockets : UnreadAt(s)
  BY DEF PrompterInv
<1>1. /\ n \in Sockets /\ n # NoSocket /\ n \notin connected /\ n # cancelConn
      /\ \A c \in Cookies : conn[c] # n
  BY <1>0, UnusedFacts
<1>2. /\ connected' = connected \cup {n}
      /\ inbox' = [inbox EXCEPT ![n] = m]
      /\ reply' = [reply EXCEPT ![n] = NoReply]
      /\ UNCHANGED <<sessions, keyring>>
  BY DEF SendCommand, Connect
<1> HIDE DEF n
<1>3. inbox[n] = NoMessage /\ \A c \in Cookies : keyring[c] # n
  BY <1>0, <1>1 DEF UnreadAt, AuthTypeOK
<1>4. NoReply \in Reply
  BY DEF NoReply, Reply
<1> QED
  BY <1>0, <1>1, <1>2, <1>3, <1>4 DEF PrompterTypeOK, n

LEMMA ProgramEndsPreserves ==
    ASSUME PrompterInv, ProgramEnds
    PROVE  PrompterInv'
<1>0. PrompterTypeOK
  BY DEF PrompterInv
<1>1. /\ request_cookie' = NoCookie /\ cancelConn' = NoSocket
      /\ thread' = [c \in Cookies |-> IF c \in Busy THEN "done" ELSE thread[c]]
      /\ conn' = [c \in Cookies |-> NoSocket]
      /\ reply' = [s \in Sockets |-> NoReply]
      /\ UNCHANGED <<connected, keyring, received, inbox, closed, cancel>>
  BY DEF ProgramEnds, vars
<1>2. ASSUME NEW c \in Cookies
      PROVE  /\ conn'[c] = NoSocket /\ thread'[c] \notin {"starting", "waiting"}
             /\ thread[c] \in {"waiting", "done"} => thread'[c] = "done"
             /\ thread[c] # "none" => thread'[c] # "none"
  BY <1>0, <1>1 DEF Busy, PrompterTypeOK
<1>3. PrompterTypeOK'
  BY <1>0, <1>1 DEF PrompterTypeOK, Reply, NoReply
<1>4. ASSUME NEW c \in Cookies PROVE ConnAt(c)' /\ KeyringAt(c)' /\ CancelAt(c)'
  <2>1. ConnAt(c)'
    BY <1>2 DEF ConnAt
  <2>2. KeyringAt(c)'
    BY <1>1, <1>2 DEF PrompterInv, KeyringAt
  <2>3. Unread(c)' => Unread(c)
    BY <1>1, <1>2 DEF Unread
  <2>4. CancelAt(c)'
    BY <1>1, <1>2, <2>3 DEF PrompterInv, CancelAt
  <2> QED
    BY <2>1, <2>2, <2>4
<1>5. ASSUME NEW s \in Sockets PROVE UnreadAt(s)'
  BY <1>1, <1>2, NullsAssumption DEF PrompterInv, UnreadAt
<1>6. PasswordForItsOwnPrompt'
  BY <1>1 DEF PrompterInv, PasswordForItsOwnPrompt
<1> QED
  BY <1>3, <1>4, <1>5, <1>6 DEF PrompterInv

\* A prompt is closed while its request may be anywhere.
LEMMA PromptClosePreserves ==
    ASSUME PrompterInv, AuthTypeOK, NEW next, PromptClose(next), UNCHANGED workerVars
    PROVE  PrompterInv'
<1>0. PrompterTypeOK /\ \A c \in Cookies : ConnAt(c) /\ KeyringAt(c) /\ CancelAt(c)
  BY DEF PrompterInv
<1>1. /\ closed' = closed \cup ({request_cookie} \cap Busy)
      /\ UNCHANGED <<request_cookie, thread, conn, received>>
  BY DEF PromptClose, workerVars
<1>2. ASSUME NEW fate \in {"sent", "unsent"}, cancel' = Note(fate)
      PROVE  /\ cancel' \in [Cookies -> {"none", "sent", "unsent", "refused", "early", "done"}]
             /\ \A c \in Cookies :
                   /\ c \in closed' => cancel'[c] # "none"
                   /\ cancel'[c] # "none" => thread'[c] # "none"
                   /\ cancel'[c] = "done" => cancel[c] = "done"
  <2>1. cancel' = [c \in Cookies |-> IF c = request_cookie /\ c \in Busy
                                     THEN fate ELSE cancel[c]]
    BY <1>2 DEF Note
  <2>2. \A c \in Busy : thread[c] # "none"
    BY DEF Busy
  <2> QED
    BY <1>0, <1>1, <2>1, <2>2 DEF PrompterTypeOK, CancelAt
<1>3. closed' \subseteq Cookies
  BY <1>0, <1>1 DEF Busy, PrompterTypeOK
<1>4. CASE /\ request_cookie # NoCookie /\ Unused # {}
           /\ SendCommand(Fresh(Unused), Cancel(request_cookie))
           /\ cancelConn' = Fresh(Unused)
           /\ cancel' = Note("sent")
  <2>1. PICK k \in Cookies : k = request_cookie
    BY <1>0, <1>4 DEF PrompterTypeOK
  <2>2. Cancel(k) \in Message /\ \A c \in Cookies : Cancel(k) # Request(c)
    BY MessagesDiffer
  <2>3. PICK n \in Sockets :
              /\ n = Fresh(Unused) /\ n # NoSocket /\ n # cancelConn
              /\ n \notin connected /\ connected' = connected \cup {n}
              /\ inbox[n] = NoMessage
              /\ inbox' \in [Sockets -> Message \cup {NoMessage}]
              /\ inbox'[n] = Cancel(k)
              /\ \A s \in Sockets \ {n} : inbox'[s] = inbox[s]
              /\ reply' \in [Sockets -> Reply]
              /\ reply'[n] = NoReply
              /\ \A s \in Sockets \ {n} : reply'[s] = reply[s]
              /\ UNCHANGED <<sessions, keyring>>
              /\ \A c \in Cookies : conn[c] # n /\ keyring[c] # n
    BY <1>4, <2>1, <2>2, NewConnection
  <2>4. cancelConn' = n
    BY <1>4, <2>3
  <2>5. PrompterTypeOK'
    BY <1>0, <1>1, <1>2, <1>3, <1>4, <2>3, <2>4 DEF PrompterTypeOK
  <2>6. ASSUME NEW c \in Cookies PROVE ConnAt(c)' /\ KeyringAt(c)' /\ CancelAt(c)'
    <3>1. conn[c] \in Sockets \cup {NoSocket} /\ keyring[c] \in Sockets \cup {NoSocket}
      BY <1>0 DEF PrompterTypeOK, AuthTypeOK
    <3>2. ConnAt(c)'
      BY <1>0, <1>1, <2>3, <2>4, <3>1 DEF ConnAt
    <3>3. KeyringAt(c)'
      BY <1>0, <1>1, <2>3, <2>4, <3>1 DEF KeyringAt
    <3>4. Unread(c)' => Unread(c)
      BY <1>1, <2>2, <2>3 DEF Unread, Request
    <3>5. CancelAt(c)'
      BY <1>0, <1>2, <1>4, <2>3, <3>4 DEF CancelAt
    <3> QED
      BY <3>2, <3>3, <3>5
  <2>7. ASSUME NEW s \in Sockets PROVE UnreadAt(s)'
    <3>1. CASE s = n
      BY <1>1, <2>2, <2>3, <3>1 DEF UnreadAt
    <3>2. CASE s # n
      BY <1>1, <2>2, <2>3, <2>4, <3>2 DEF PrompterInv, UnreadAt
    <3> QED
      BY <3>1, <3>2
  <2> QED
    BY <1>1, <2>5, <2>6, <2>7 DEF PrompterInv, PasswordForItsOwnPrompt
<1>5. CASE UNCHANGED <<vars, channelVars>> /\ cancel' = Note("unsent")
  <2>1. UNCHANGED <<connected, keyring, cancelConn, inbox, reply>>
    BY <1>5 DEF vars, channelVars
  <2>2. PrompterTypeOK'
    BY <1>0, <1>1, <1>2, <1>3, <1>5, <2>1 DEF PrompterTypeOK
  <2>3. ASSUME NEW c \in Cookies PROVE ConnAt(c)' /\ KeyringAt(c)' /\ CancelAt(c)'
    BY <1>0, <1>1, <1>2, <1>5, <2>1 DEF ConnAt, KeyringAt, CancelAt, Unread
  <2>4. ASSUME NEW s \in Sockets PROVE UnreadAt(s)'
    BY <1>1, <2>1 DEF PrompterInv, UnreadAt
  <2> QED
    BY <1>1, <2>2, <2>3, <2>4 DEF PrompterInv, PasswordForItsOwnPrompt
<1> QED
  BY <1>4, <1>5 DEF PromptClose, Cancel

\* A request is given a cookie that nobody has seen.
LEMMA PromptAsyncPreserves ==
    ASSUME PrompterInv, NEW isConfirm \in BOOLEAN, PromptAsync(isConfirm)
    PROVE  PrompterInv'
<1>0. PrompterTypeOK
  BY DEF PrompterInv
<1>1. PICK k \in Cookies : k = Fresh(Ungenerated) /\ thread[k] = "none"
  BY FreshIsNew DEF PromptAsync, Ungenerated
<1>2. /\ request_cookie' = k
      /\ thread' = [thread EXCEPT ![k] = "starting"]
      /\ UNCHANGED <<connected, keyring, conn, received, cancelConn, inbox, reply,
                     closed, cancel>>
  BY <1>1 DEF PromptAsync, vars, channelVars
<1>3. thread'[k] = "starting" /\ \A c \in Cookies \ {k} : thread'[c] = thread[c]
  BY <1>0, <1>2 DEF PrompterTypeOK
<1>4. PrompterTypeOK'
  BY <1>0, <1>2 DEF PrompterTypeOK
<1>5. ASSUME NEW c \in Cookies PROVE ConnAt(c)' /\ KeyringAt(c)' /\ CancelAt(c)'
  <2>1. ConnAt(c) /\ KeyringAt(c) /\ CancelAt(c)
    BY DEF PrompterInv
  <2>2. c # k => (Unread(c)' => Unread(c))
    BY <1>2, <1>3 DEF Unread
  <2> QED
    BY <1>1, <1>2, <1>3, <2>1, <2>2 DEF ConnAt, KeyringAt, CancelAt
<1>6. ASSUME NEW s \in Sockets PROVE UnreadAt(s)'
  BY <1>1, <1>2, <1>3 DEF PrompterInv, UnreadAt
<1> QED
  BY <1>2, <1>4, <1>5, <1>6 DEF PrompterInv, PasswordForItsOwnPrompt

LEMMA CancelReturnsPreserves == ASSUME PrompterInv, CancelReturns PROVE PrompterInv'
<1>0. PrompterTypeOK
  BY DEF PrompterInv
<1>1. /\ cancelConn' = NoSocket
      /\ reply' = [reply EXCEPT ![cancelConn] = NoReply]
      /\ UNCHANGED <<connected, keyring, request_cookie, thread, conn, received, inbox,
                     closed, cancel>>
  BY DEF CancelReturns, vars, workerVars
<1>2. reply' \in [Sockets -> Reply]
      /\ \A s \in Sockets : reply'[s] = IF s = cancelConn THEN NoReply ELSE reply[s]
  BY <1>0, <1>1 DEF PrompterTypeOK, Reply, NoReply
<1>3. PrompterTypeOK'
  BY <1>0, <1>1, <1>2 DEF PrompterTypeOK
<1>4. ASSUME NEW c \in Cookies PROVE ConnAt(c)' /\ KeyringAt(c)' /\ CancelAt(c)'
  <2>1. conn[c] \in Sockets \cup {NoSocket}
    BY <1>0 DEF PrompterTypeOK
  <2>2. ConnAt(c)'
    BY <1>1, <1>2, <2>1 DEF PrompterInv, ConnAt
  <2>3. KeyringAt(c)'
    BY <1>1 DEF PrompterInv, KeyringAt
  <2>4. CancelAt(c)'
    BY <1>1 DEF PrompterInv, CancelAt, Unread
  <2> QED
    BY <2>2, <2>3, <2>4
<1>5. ASSUME NEW s \in Sockets PROVE UnreadAt(s)'
  BY <1>1, NullsAssumption DEF PrompterInv, UnreadAt
<1> QED
  BY <1>1, <1>3, <1>4, <1>5 DEF PrompterInv, PasswordForItsOwnPrompt

LEMMA MainStepPreserves ==
    ASSUME PrompterInv, AuthTypeOK, MainStep
    PROVE  PrompterInv'
<1>1. CASE Start \/ BeginPrompting
  <2>1. request_cookie' \in {request_cookie, NoCookie}
        /\ UNCHANGED <<vars, workerVars, channelVars, closed, cancel>>
    BY <1>1 DEF Start, BeginPrompting
  <2> QED
    BY <2>1 DEF PrompterInv, PrompterTypeOK, ConnAt, UnreadAt, KeyringAt, CancelAt, Unread,
       PasswordForItsOwnPrompt, vars, workerVars, channelVars
<1>2. CASE StopPrompting
  BY <1>2, PromptClosePreserves DEF StopPrompting
<1>3. CASE NameLost
  BY <1>3, PromptClosePreserves, ProgramEndsPreserves DEF NameLost
<1>4. CASE IdleTimeout \/ Quits \/ ReadsEof
  BY <1>4, ProgramEndsPreserves DEF IdleTimeout, Quits, ReadsEof
<1>5. ASSUME NEW isConfirm \in BOOLEAN, PromptAsync(isConfirm) PROVE PrompterInv'
  BY <1>5, PromptAsyncPreserves
<1>6. CASE CancelReturns
  BY <1>6, CancelReturnsPreserves
<1> QED
  BY <1>1, <1>2, <1>3, <1>4, <1>5, <1>6 DEF MainStep

LEMMA WorkerSendsPreserves ==
    ASSUME PrompterInv, AuthTypeOK, NEW k \in Cookies, WorkerSends(k)
    PROVE  PrompterInv'
<1>0. PrompterTypeOK /\ \A c \in Cookies : ConnAt(c) /\ KeyringAt(c) /\ CancelAt(c)
  BY DEF PrompterInv
<1>1. /\ thread[k] = "starting" /\ conn[k] = NoSocket /\ keyring[k] = NoSocket
      /\ UNCHANGED <<request_cookie, cancelConn, received, closed, cancel>>
  BY <1>0 DEF WorkerSends, mainVars, ConnAt, KeyringAt
<1>2. \A s \in Sockets : inbox[s] # Request(k)
  BY <1>1 DEF PrompterInv, UnreadAt
<1>3. CASE /\ Unused # {}
           /\ SendCommand(Fresh(Unused), Request(k))
           /\ conn' = [conn EXCEPT ![k] = Fresh(Unused)]
           /\ thread' = [thread EXCEPT ![k] = "waiting"]
  <2>1. Request(k) \in Message
    BY MessagesDiffer
  <2>2. \A c \in Cookies : Request(k) # Cancel(c) /\ (Request(k) = Request(c) => c = k)
    BY MessagesDiffer
  <2>3. PICK n \in Sockets :
              /\ n = Fresh(Unused) /\ n # NoSocket /\ n # cancelConn
              /\ n \notin connected /\ connected' = connected \cup {n}
              /\ inbox[n] = NoMessage
              /\ inbox' \in [Sockets -> Message \cup {NoMessage}]
              /\ inbox'[n] = Request(k)
              /\ \A s \in Sockets \ {n} : inbox'[s] = inbox[s]
              /\ reply' \in [Sockets -> Reply]
              /\ reply'[n] = NoReply
              /\ \A s \in Sockets \ {n} : reply'[s] = reply[s]
              /\ UNCHANGED <<sessions, keyring>>
              /\ \A c \in Cookies : conn[c] # n /\ keyring[c] # n
    BY <1>3, <2>1, NewConnection
  <2>4. /\ conn'[k] = n /\ thread'[k] = "waiting"
        /\ \A c \in Cookies \ {k} : conn'[c] = conn[c] /\ thread'[c] = thread[c]
    BY <1>0, <1>3, <2>3 DEF PrompterTypeOK
  <2>5. PrompterTypeOK'
    BY <1>0, <1>1, <1>3, <2>3 DEF PrompterTypeOK
  <2>6. ASSUME NEW c \in Cookies PROVE ConnAt(c)' /\ KeyringAt(c)' /\ CancelAt(c)'
    <3>1. conn[c] \in Sockets \cup {NoSocket} /\ keyring[c] \in Sockets \cup {NoSocket}
      BY <1>0 DEF PrompterTypeOK, AuthTypeOK
    <3>2. ConnAt(c)'
      BY <1>0, <1>1, <2>3, <2>4, <3>1 DEF ConnAt
    <3>3. KeyringAt(c)'
      BY <1>0, <1>1, <2>3, <2>4, <3>1 DEF KeyringAt
    <3>4. c # k => (Unread(c)' => Unread(c))
      BY <2>2, <2>3, <2>4 DEF Unread, Request
    <3>5. cancel[k] # "done"
      BY <1>0, <1>1 DEF CancelAt, Unread
    <3>6. CancelAt(c)'
      BY <1>0, <1>1, <2>3, <2>4, <3>4, <3>5 DEF CancelAt
    <3> QED
      BY <3>2, <3>3, <3>6
  <2>7. ASSUME NEW s \in Sockets PROVE UnreadAt(s)'
    <3>1. CASE s = n
      <4>1. \A t \in Sockets : inbox'[t] = Request(k) => t = n
        BY <1>2, <2>3
      <4> QED
        BY <1>1, <2>2, <2>3, <2>4, <3>1, <4>1 DEF UnreadAt
    <3>2. CASE s # n
      <4>1. UnreadAt(s) /\ inbox[s] # Request(k)
        BY <1>2 DEF PrompterInv
      <4> QED
        BY <1>1, <2>2, <2>3, <2>4, <3>2, <4>1 DEF UnreadAt
    <3> QED
      BY <3>1, <3>2
  <2> QED
    BY <1>1, <2>5, <2>6, <2>7 DEF PrompterInv, PasswordForItsOwnPrompt
<1>4. CASE thread' = [thread EXCEPT ![k] = "done"] /\ UNCHANGED <<vars, conn, inbox, reply>>
  <2>1. /\ thread'[k] = "done"
        /\ \A c \in Cookies \ {k} : thread'[c] = thread[c]
        /\ UNCHANGED <<connected, keyring, conn, inbox, reply>>
    BY <1>0, <1>4 DEF PrompterTypeOK, vars
  <2>2. PrompterTypeOK'
    BY <1>0, <1>1, <1>4 DEF PrompterTypeOK
  <2>3. ASSUME NEW c \in Cookies PROVE ConnAt(c)' /\ KeyringAt(c)' /\ CancelAt(c)'
    BY <1>0, <1>1, <2>1 DEF ConnAt, KeyringAt, CancelAt, Unread
  <2>4. ASSUME NEW s \in Sockets PROVE UnreadAt(s)'
    BY <1>1, <2>1 DEF PrompterInv, UnreadAt
  <2> QED
    BY <1>1, <2>2, <2>3, <2>4 DEF PrompterInv, PasswordForItsOwnPrompt
<1> QED
  BY <1>3, <1>4 DEF WorkerSends, Request

\* The answer a worker finds on its connection is the one to its own request.
LEMMA WorkerReceivesPreserves ==
    ASSUME PrompterInv, NEW k \in Cookies, WorkerReceives(k)
    PROVE  PrompterInv'
<1>0. PrompterTypeOK /\ \A c \in Cookies : ConnAt(c) /\ KeyringAt(c) /\ CancelAt(c)
  BY DEF PrompterInv
<1>1. /\ thread[k] = "waiting" /\ reply[conn[k]] # NoReply
      /\ thread' = [thread EXCEPT ![k] = "done"]
      /\ conn' = [conn EXCEPT ![k] = NoSocket]
      /\ reply' = [reply EXCEPT ![conn[k]] = NoReply]
      /\ UNCHANGED <<connected, keyring, request_cookie, cancelConn, inbox, closed, cancel>>
  BY DEF WorkerReceives, vars, mainVars
<1>2. conn[k] \in Sockets /\ reply[conn[k]].id = k
  BY <1>0, <1>1 DEF ConnAt, PrompterTypeOK
<1>3. received' = [received EXCEPT ![k] = k] \/ received' = [received EXCEPT ![k] = NoCookie]
  BY <1>2 DEF WorkerReceives
<1>4. /\ conn'[k] = NoSocket /\ thread'[k] = "done"
      /\ \A c \in Cookies \ {k} : conn'[c] = conn[c] /\ thread'[c] = thread[c]
      /\ reply' \in [Sockets -> Reply]
      /\ \A s \in Sockets : reply'[s] = IF s = conn[k] THEN NoReply ELSE reply[s]
  BY <1>0, <1>1, <1>2 DEF PrompterTypeOK, Reply, NoReply
<1>5. PrompterTypeOK'
  BY <1>0, <1>1, <1>2, <1>3, <1>4 DEF PrompterTypeOK
<1>6. ASSUME NEW c \in Cookies PROVE ConnAt(c)' /\ KeyringAt(c)' /\ CancelAt(c)'
  <2>1. conn[c] \in Sockets \cup {NoSocket}
    BY <1>0 DEF PrompterTypeOK
  <2>2. ConnAt(c)'
    BY <1>0, <1>1, <1>4, <2>1 DEF ConnAt
  <2>3. KeyringAt(c)'
    BY <1>0, <1>1, <1>4 DEF KeyringAt
  <2>4. CancelAt(c)'
    BY <1>0, <1>1, <1>4 DEF CancelAt, Unread
  <2> QED
    BY <2>2, <2>3, <2>4
<1>7. ASSUME NEW s \in Sockets PROVE UnreadAt(s)'
  BY <1>1, <1>4, NullsAssumption DEF PrompterInv, UnreadAt
<1>8. PasswordForItsOwnPrompt'
  BY <1>0, <1>3 DEF PrompterInv, PrompterTypeOK, PasswordForItsOwnPrompt
<1> QED
  BY <1>5, <1>6, <1>7, <1>8 DEF PrompterInv

-----------------------------------------------------------------------------
(* The daemon's steps.                                                     *)

\* A request is settled: it goes from the table, and who holds its connection
\* is told.
LEMMA SettleEffect ==
    ASSUME AuthTypeOK, NEW c \in Cookies, SettleKeyring(c)
    PROVE  /\ keyring[c] \in connected /\ keyring'[c] = NoSocket
           /\ \A d \in Cookies \ {c} : keyring'[d] = keyring[d]
           /\ connected' = connected
BY DEF SettleKeyring, AuthTypeOK

\* The daemon reads the inbox of s, says something to it, and may settle or take
\* up the request of k.
LEMMA ReadsPreserves ==
    ASSUME PrompterInv, AuthTypeOK, NEW s \in Sockets, NEW k \in Cookies,
           inbox[s] # NoMessage,
           inbox' = [inbox EXCEPT ![s] = NoMessage],
           UNCHANGED <<mainVars, workerVars, cancelConn, closed, connected>>,
           \A d \in Cookies \ {k} : keyring'[d] = keyring[d],
           \/ keyring'[k] = keyring[k]
           \/ keyring'[k] = NoSocket
           \/ keyring'[k] = s /\ inbox[s] = Request(k) /\ reply' = reply /\ cancel' = cancel,
           reply' \in [Sockets -> Reply],
           \A t \in Sockets : reply'[t] # reply[t] =>
               \/ t = s /\ inbox[s] = Cancel(k)
               \/ t = keyring[k] /\ keyring'[k] = NoSocket /\ reply'[t].id = k,
           cancel' \in [Cookies -> {"none", "sent", "unsent", "refused", "early", "done"}],
           \A d \in Cookies \ {k} : cancel'[d] = cancel[d],
           cancel'[k] = "none" <=> cancel[k] = "none",
           cancel'[k] = "done" =>
               cancel[k] = "done" \/ (keyring'[k] = NoSocket /\ ~Unread(k))
    PROVE  PrompterInv'
<1>0. /\ PrompterTypeOK
      /\ \A c \in Cookies : ConnAt(c) /\ KeyringAt(c) /\ CancelAt(c)
      /\ \A t \in Sockets : UnreadAt(t)
  BY DEF PrompterInv
<1>1. UNCHANGED <<request_cookie, thread, conn, received>>
  BY DEF mainVars, workerVars
<1>2. /\ inbox' \in [Sockets -> Message \cup {NoMessage}]
      /\ inbox'[s] = NoMessage
      /\ \A t \in Sockets \ {s} : inbox'[t] = inbox[t]
      /\ \A c \in Cookies : Request(c) # NoMessage /\ Cancel(c) # NoMessage
      /\ \A c, d \in Cookies : Request(c) # Cancel(d)
      /\ \A c, d \in Cookies : Request(c) = Request(d) => c = d
      /\ s # NoSocket
  BY <1>0, MessagesDiffer, NullsAssumption DEF PrompterTypeOK
<1>3. PrompterTypeOK'
  BY <1>0, <1>1, <1>2 DEF PrompterTypeOK
<1>4. ASSUME NEW c \in Cookies PROVE Unread(c)' => Unread(c)
  BY <1>1, <1>2 DEF Unread, Request
<1>5. ASSUME NEW c \in Cookies PROVE ConnAt(c)'
  <2>1. conn[c] \in Sockets \cup {NoSocket} /\ ConnAt(c)
    BY <1>0 DEF PrompterTypeOK
  <2>2. ASSUME conn[c] # NoSocket, reply'[conn[c]] # NoReply
        PROVE  reply'[conn[c]].id = c /\ inbox'[conn[c]] = NoMessage /\ keyring'[c] # conn[c]
    <3>1. CASE reply'[conn[c]] = reply[conn[c]]
      <4>1. reply[conn[c]].id = c /\ inbox[conn[c]] = NoMessage /\ keyring[c] # conn[c]
        BY <2>1, <2>2, <3>1 DEF ConnAt
      <4>2. conn[c] # s
        BY <4>1
      <4> QED
        BY <1>2, <2>1, <2>2, <3>1, <4>1, <4>2
    <3>2. CASE reply'[conn[c]] # reply[conn[c]]
      <4>1. ~(conn[c] = s /\ inbox[s] = Cancel(k))
        BY <1>0 DEF UnreadAt
      <4>2. conn[c] = keyring[k] /\ keyring'[k] = NoSocket /\ reply'[conn[c]].id = k
        BY <2>1, <2>2, <3>2, <4>1
      <4>3. c = k /\ inbox[conn[c]] = NoMessage
        BY <1>0, <2>2, <4>2 DEF KeyringAt
      <4> QED
        BY <1>2, <2>1, <2>2, <4>2, <4>3
    <3> QED
      BY <3>1, <3>2
  <2> QED
    BY <1>1, <2>1, <2>2 DEF ConnAt
<1>6. ASSUME NEW c \in Cookies PROVE KeyringAt(c)'
  <2>1. CASE keyring'[c] = keyring[c] \/ keyring'[c] = NoSocket
    BY <1>0, <1>1, <1>2, <2>1 DEF KeyringAt, AuthTypeOK
  <2>2. CASE c = k /\ keyring'[c] = s /\ inbox[s] = Request(c)
    BY <1>0, <1>1, <1>2, <2>2 DEF UnreadAt, KeyringAt
  <2> QED
    BY <2>1, <2>2
<1>7. ASSUME NEW c \in Cookies PROVE CancelAt(c)'
  <2>1. CASE c # k
    BY <1>0, <1>1, <1>4, <2>1 DEF CancelAt
  <2>2. CASE c = k /\ keyring'[k] = s /\ inbox[s] = Request(k) /\ cancel' = cancel
    <3>1. Unread(k)
      BY <2>2 DEF Unread, Request
    <3> QED
      BY <1>0, <1>1, <2>2, <3>1 DEF CancelAt
  <2>3. CASE c = k /\ (keyring'[k] = keyring[k] \/ keyring'[k] = NoSocket)
    BY <1>0, <1>1, <1>4, <2>3 DEF CancelAt
  <2> QED
    BY <2>1, <2>2, <2>3
<1>8. ASSUME NEW t \in Sockets PROVE UnreadAt(t)'
  <2>1. CASE t = s
    BY <1>2, <2>1 DEF UnreadAt
  <2>2. CASE t # s
    <3>1. UnreadAt(t) /\ inbox'[t] = inbox[t]
      BY <1>0, <1>2, <2>2
    <3>2. \A c \in Cookies : inbox[t] = Request(c) => keyring'[c] = NoSocket
      <4> SUFFICES ASSUME NEW c \in Cookies, inbox[t] = Request(c)
                   PROVE  keyring'[c] = NoSocket
        OBVIOUS
      <4>1. keyring[c] = NoSocket /\ \A u \in Sockets : inbox[u] = Request(c) => u = t
        BY <3>1 DEF UnreadAt
      <4>2. inbox[s] # Request(c)
        BY <2>2, <4>1
      <4> QED
        BY <4>1, <4>2
    <3>3. \A c \in Cookies : inbox[t] = Request(c) =>
             \A u \in Sockets : inbox'[u] = Request(c) => u = t
      BY <1>2, <3>1 DEF UnreadAt
    <3> QED
      BY <1>1, <3>1, <3>2, <3>3 DEF UnreadAt
  <2> QED
    BY <2>1, <2>2
<1> QED
  BY <1>1, <1>3, <1>5, <1>6, <1>7, <1>8 DEF PrompterInv, PasswordForItsOwnPrompt

LEMMA ReadsCancelPreserves ==
    ASSUME PrompterInv, AuthTypeOK, NEW s \in Sockets, NEW k \in Cookies,
           inbox[s] = Cancel(k), ReadsCancel(s, k),
           inbox' = [inbox EXCEPT ![s] = NoMessage],
           UNCHANGED <<mainVars, workerVars, cancelConn, closed>>
    PROVE  PrompterInv'
<1>0. PrompterTypeOK /\ KeyringAt(k) /\ inbox[s] # NoMessage /\ reply \in [Sockets -> Reply]
  BY MessagesDiffer DEF PrompterInv, PrompterTypeOK
<1>1. PICK authorized \in BOOLEAN :
         /\ HandleCancel(s, k, authorized)
         /\ cancel' = [cancel EXCEPT ![k] = IF @ = "none" THEN "none"
                                            ELSE IF ~authorized THEN "refused"
                                            ELSE IF Unread(k) THEN "early" ELSE "done"]
  BY DEF ReadsCancel
<1>2. /\ cancel' \in [Cookies -> {"none", "sent", "unsent", "refused", "early", "done"}]
      /\ \A d \in Cookies \ {k} : cancel'[d] = cancel[d]
      /\ cancel'[k] = "none" <=> cancel[k] = "none"
      /\ cancel'[k] = "done" => authorized /\ ~Unread(k)
  BY <1>0, <1>1 DEF PrompterTypeOK
<1>3. Say("ok", k) \in Reply /\ Say("cancelled", k) \in Reply /\ Say("error", k) \in Reply
      /\ Say("cancelled", k).id = k
  BY DEF Say, Reply
<1>4. CASE authorized /\ keyring[k] # NoSocket
  <2> DEFINE told == Written(reply, keyring[k], Say("cancelled", k))
  <2>1. SettleKeyring(k) /\ reply' = Written(told, s, Say("ok", k))
    BY <1>1, <1>4 DEF HandleCancel
  <2>2. /\ keyring[k] \in Sockets /\ keyring'[k] = NoSocket /\ connected' = connected
        /\ \A d \in Cookies \ {k} : keyring'[d] = keyring[d]
    BY <2>1, SettleEffect DEF AuthTypeOK
  <2>3. /\ told \in [Sockets -> Reply]
        /\ \A t \in Sockets : told[t] = IF t \in Held /\ t = keyring[k]
                                        THEN Say("cancelled", k) ELSE reply[t]
    <3> DEFINE r == Say("cancelled", k)
               q == keyring[k]
    <3>1. r \in Reply /\ q \in Sockets /\ reply \in [Sockets -> Reply]
      BY <1>0, <1>3, <2>2
    <3> HIDE DEF r, q
    <3>2. /\ Written(reply, q, r) \in [Sockets -> Reply]
          /\ \A t \in Sockets : Written(reply, q, r)[t] =
                IF t \in Held /\ t = q THEN r ELSE reply[t]
      BY <3>1, WrittenFacts
    <3> QED
      BY <3>2 DEF r, q
  <2> HIDE DEF told
  <2>4. /\ reply' \in [Sockets -> Reply]
        /\ \A t \in Sockets : reply'[t] = IF t \in Held /\ t = s THEN Say("ok", k) ELSE told[t]
    <3>1. told \in [Sockets -> Reply] /\ reply' = Written(told, s, Say("ok", k))
      BY <2>1, <2>3
    <3>2. Say("ok", k) \in Reply
      BY <1>3
    <3> QED
      BY <3>1, <3>2, WrittenFacts
  <2>5. \A t \in Sockets : reply'[t] # reply[t] =>
            t = s \/ (t = keyring[k] /\ reply'[t].id = k)
    BY <1>3, <2>3, <2>4
  <2> QED
    BY <1>0, <1>2, <2>2, <2>4, <2>5, ReadsPreserves
<1>5. CASE ~(authorized /\ keyring[k] # NoSocket)
  <2>1. reply' = Written(reply, s, Say("error", k)) /\ UNCHANGED <<connected, keyring>>
    BY <1>1, <1>5 DEF HandleCancel, vars
  <2>2. /\ reply' \in [Sockets -> Reply]
        /\ \A t \in Sockets : reply'[t] # reply[t] => t = s
    BY <1>0, <1>3, <2>1, WrittenFacts
  <2>3. cancel'[k] = "done" => keyring'[k] = NoSocket /\ ~Unread(k)
    BY <1>2, <1>5, <2>1
  <2> QED
    BY <1>0, <1>2, <2>1, <2>2, <2>3, ReadsPreserves
<1> QED
  BY <1>4, <1>5

LEMMA ReadsRequestPreserves ==
    ASSUME PrompterInv, CookieInv, NEW s \in Sockets, NEW k \in Cookies,
           inbox[s] = Request(k), ReadsRequest(s, k),
           inbox' = [inbox EXCEPT ![s] = NoMessage],
           UNCHANGED <<mainVars, workerVars, cancelConn, closed>>
    PROVE  PrompterInv'
<1>0. PrompterTypeOK /\ inbox[s] # NoMessage /\ AuthTypeOK /\ CookieAt(k)
  BY MessagesDiffer DEF PrompterInv, CookieInv, FlowInv
<1>1. HandleKeyringRequest(s, k) /\ ~IsOpen(sessions, k) /\ cancel' = cancel
  BY <1>0, OneKindOfRequest, KeyringRequestFinds DEF ReadsRequest
<1>2. /\ keyring' = [keyring EXCEPT ![k] = s]
      /\ connected' = connected
      /\ reply' = reply
  BY <1>1 DEF HandleKeyringRequest, ReadsRequest
<1>3. keyring'[k] = s /\ \A d \in Cookies \ {k} : keyring'[d] = keyring[d]
  BY <1>0, <1>2 DEF AuthTypeOK
<1>4. reply' \in [Sockets -> Reply]
      /\ cancel' \in [Cookies -> {"none", "sent", "unsent", "refused", "early", "done"}]
  BY <1>0, <1>1, <1>2 DEF PrompterTypeOK
<1> QED
  BY <1>0, <1>1, <1>2, <1>3, <1>4, ReadsPreserves

LEMMA DaemonReadsPreserves ==
    ASSUME PrompterInv, CookieInv, NEW s \in Sockets, DaemonReads(s)
    PROVE  PrompterInv'
<1>0. PrompterTypeOK /\ AuthTypeOK /\ inbox[s] # NoMessage
  BY DEF PrompterInv, CookieInv, FlowInv, DaemonReads
<1>1. PICK k \in Cookies :
         \/ inbox[s] = Request(k) /\ inbox[s].type = "keyring_request" /\ inbox[s].cookie = k
         \/ inbox[s] = Cancel(k) /\ inbox[s].type = "session.cancel" /\ inbox[s].cookie = k
  BY <1>0, MessageFacts
<1>2. /\ inbox' = [inbox EXCEPT ![s] = NoMessage]
      /\ UNCHANGED <<mainVars, workerVars, cancelConn, closed>>
  BY DEF DaemonReads
<1>3. CASE inbox[s] = Request(k) /\ inbox[s].type = "keyring_request" /\ inbox[s].cookie = k
  <2>1. ReadsRequest(s, k)
    BY <1>3 DEF DaemonReads
  <2> QED
    BY <1>2, <1>3, <2>1, ReadsRequestPreserves
<1>4. CASE inbox[s] = Cancel(k) /\ inbox[s].type = "session.cancel" /\ inbox[s].cookie = k
  <2>1. ReadsCancel(s, k)
    BY <1>4 DEF DaemonReads
  <2> QED
    BY <1>0, <1>2, <1>4, <2>1, ReadsCancelPreserves
<1> QED
  BY <1>1, <1>3, <1>4

LEMMA UserDecidesPreserves ==
    ASSUME PrompterInv, AuthTypeOK, NEW k \in Cookies, UserDecides(k)
    PROVE  PrompterInv'
<1>0. PrompterTypeOK /\ \A c \in Cookies : ConnAt(c) /\ KeyringAt(c) /\ CancelAt(c)
  BY DEF PrompterInv
<1>1. /\ SettleKeyring(k)
      /\ UNCHANGED <<request_cookie, thread, conn, received, cancelConn, inbox, closed, cancel>>
  BY DEF UserDecides, mainVars, workerVars
<1>2. PICK result \in {"ok", "cancelled"} :
         reply' = Written(reply, keyring[k], Say(result, k))
  BY DEF UserDecides
<1>3. Say(result, k) \in Reply /\ Say(result, k).id = k
  BY DEF Say, Reply
<1>4. /\ keyring[k] \in Sockets /\ keyring[k] # NoSocket
      /\ keyring'[k] = NoSocket /\ connected' = connected
      /\ \A d \in Cookies \ {k} : keyring'[d] = keyring[d]
  BY <1>1, SettleEffect, NullsAssumption DEF AuthTypeOK
<1>5. /\ reply' \in [Sockets -> Reply]
      /\ \A t \in Sockets : reply'[t] = IF t \in Held /\ t = keyring[k]
                                        THEN Say(result, k) ELSE reply[t]
  BY <1>0, <1>2, <1>3, <1>4, WrittenFacts DEF PrompterTypeOK
<1>6. PrompterTypeOK'
  BY <1>0, <1>1, <1>5 DEF PrompterTypeOK
<1>7. ASSUME NEW c \in Cookies PROVE ConnAt(c)' /\ KeyringAt(c)' /\ CancelAt(c)'
  <2>1. conn[c] \in Sockets \cup {NoSocket}
    BY <1>0 DEF PrompterTypeOK
  <2>2. ConnAt(c)'
    <3>1. CASE conn[c] = keyring[k] /\ conn[c] # NoSocket
      <4>1. c = k /\ inbox[conn[c]] = NoMessage
        BY <1>0, <1>4, <3>1 DEF KeyringAt
      <4>2. reply'[conn[c]] # NoReply => reply'[conn[c]].id = c
        BY <1>0, <1>3, <1>4, <1>5, <2>1, <3>1, <4>1 DEF ConnAt
      <4> QED
        BY <1>0, <1>1, <1>4, <3>1, <4>1, <4>2 DEF ConnAt
    <3>2. CASE conn[c] # keyring[k]
      BY <1>0, <1>1, <1>4, <1>5, <2>1, <3>2 DEF ConnAt
    <3> QED
      BY <1>4, <3>1, <3>2
  <2>3. KeyringAt(c)'
    BY <1>0, <1>1, <1>4 DEF KeyringAt
  <2>4. CancelAt(c)'
    BY <1>0, <1>1, <1>4 DEF CancelAt, Unread
  <2> QED
    BY <2>2, <2>3, <2>4
<1>8. ASSUME NEW t \in Sockets PROVE UnreadAt(t)'
  BY <1>1, <1>4 DEF PrompterInv, UnreadAt
<1> QED
  BY <1>1, <1>6, <1>7, <1>8 DEF PrompterInv, PasswordForItsOwnPrompt

LEMMA HangupPreserves ==
    ASSUME PrompterInv, AuthTypeOK, NEW s \in Sockets, DaemonSeesHangup(s)
    PROVE  PrompterInv'
<1>1. /\ inbox[s] = NoMessage /\ OnClientDisconnected(s)
      /\ connected' = connected \ {s}
      /\ UNCHANGED <<request_cookie, thread, conn, received, cancelConn, inbox, reply,
                     closed, cancel>>
  BY DEF DaemonSeesHangup, OnClientDisconnected, mainVars, workerVars, channelVars
<1>2. \A c \in Cookies : keyring'[c] = keyring[c] \/ keyring'[c] = NoSocket
  BY <1>1, DisconnectEffect
<1>3. PrompterTypeOK'
  BY <1>1 DEF PrompterInv, PrompterTypeOK
<1>4. ASSUME NEW c \in Cookies PROVE ConnAt(c)' /\ KeyringAt(c)' /\ CancelAt(c)'
  BY <1>1, <1>2 DEF PrompterInv, ConnAt, KeyringAt, CancelAt, Unread
<1>5. ASSUME NEW t \in Sockets PROVE UnreadAt(t)'
  BY <1>1, <1>2 DEF PrompterInv, UnreadAt
<1> QED
  BY <1>1, <1>3, <1>4, <1>5 DEF PrompterInv, PasswordForItsOwnPrompt

LEMMA RestartPreserves ==
    ASSUME PrompterInv, DaemonRestarts
    PROVE  PrompterInv'
<1>1. /\ inbox' = [s \in Sockets |-> NoMessage]
      /\ keyring' = [c \in Cookies |-> NoSocket]
      /\ UNCHANGED <<request_cookie, thread, conn, received, cancelConn, reply, closed, cancel>>
  BY DEF DaemonRestarts, mainVars, workerVars
<1>2. \A c \in Cookies : Request(c) # NoMessage /\ Cancel(c) # NoMessage
  BY MessagesDiffer
<1>3. PrompterTypeOK'
  BY <1>1 DEF PrompterInv, PrompterTypeOK
<1>4. ASSUME NEW c \in Cookies PROVE ConnAt(c)' /\ KeyringAt(c)' /\ CancelAt(c)'
  <2>1. conn[c] \in Sockets \cup {NoSocket}
    BY DEF PrompterInv, PrompterTypeOK
  <2>2. Unread(c)' => Unread(c)
    BY <1>1, <1>2 DEF Unread, Request
  <2> QED
    BY <1>1, <2>1, <2>2 DEF PrompterInv, ConnAt, KeyringAt, CancelAt
<1>5. ASSUME NEW t \in Sockets PROVE UnreadAt(t)'
  BY <1>1, <1>2 DEF UnreadAt
<1> QED
  BY <1>1, <1>3, <1>4, <1>5 DEF PrompterInv, PasswordForItsOwnPrompt

-----------------------------------------------------------------------------
(* The theorems.                                                           *)

LEMMA StepsOfAuthSessions ==
    ASSUME PrompterInv, AuthTypeOK, [PrompterNext]_prompterVars
    PROVE  [Next]_vars \/ DaemonRestarts
<1>0. PrompterTypeOK
  BY DEF PrompterInv
<1>1. ASSUME NEW m, Unused # {}, SendCommand(Fresh(Unused), m) PROVE [Next]_vars
  BY <1>0, <1>1, UnusedFacts DEF SendCommand, Next
<1>2. ASSUME NEW next, PromptClose(next) PROVE [Next]_vars
  BY <1>1, <1>2 DEF PromptClose
<1>3. CASE MainStep
  BY <1>2, <1>3 DEF MainStep, Start, BeginPrompting, StopPrompting, NameLost, IdleTimeout,
     PromptAsync, CancelReturns, Quits, ReadsEof, ProgramEnds
<1>4. ASSUME NEW c \in Cookies, WorkerSends(c) \/ WorkerReceives(c) PROVE [Next]_vars
  BY <1>1, <1>4 DEF WorkerSends, WorkerReceives
<1>5. ASSUME NEW c \in Cookies, UserDecides(c) PROVE [Next]_vars
  BY <1>5 DEF UserDecides, Next
<1>6. ASSUME NEW s \in Sockets, DaemonReads(s) PROVE [Next]_vars
  <2>1. PICK k \in Cookies : inbox[s].cookie = k
    BY <1>0, <1>6, MessageFacts DEF DaemonReads
  <2> QED
    BY <1>6, <2>1 DEF DaemonReads, ReadsCancel, HandleCancel, ReadsRequest, Next
<1>7. ASSUME NEW s \in Sockets, DaemonSeesHangup(s) PROVE [Next]_vars
  BY <1>7 DEF DaemonSeesHangup, Next
<1>8. CASE UNCHANGED prompterVars
  BY <1>8 DEF prompterVars
<1> QED
  BY <1>3, <1>4, <1>5, <1>6, <1>7, <1>8 DEF PrompterNext

LEMMA PrompterInvInit == PrompterInit => PrompterInv /\ CookieInv
<1> SUFFICES ASSUME PrompterInit PROVE PrompterInv /\ CookieInv
  OBVIOUS
<1>0. Init
  BY DEF PrompterInit
<1>1. /\ connected = {} /\ keyring = [c \in Cookies |-> NoSocket]
      /\ request_cookie = NoCookie
      /\ thread = [c \in Cookies |-> "none"]
      /\ conn = [c \in Cookies |-> NoSocket]
      /\ cancelConn = NoSocket
      /\ closed = {}
      /\ inbox = [s \in Sockets |-> NoMessage]
      /\ reply = [s \in Sockets |-> NoReply]
      /\ cancel = [c \in Cookies |-> "none"]
      /\ received = [c \in Cookies |-> NoCookie]
  BY <1>0 DEF Init, PrompterInit
<1>2. PrompterTypeOK
  BY <1>1 DEF PrompterTypeOK, Reply, NoReply
<1>3. \A c \in Cookies : ConnAt(c) /\ KeyringAt(c) /\ CancelAt(c)
  BY <1>1 DEF ConnAt, KeyringAt, CancelAt
<1>4. \A s \in Sockets : UnreadAt(s)
  BY <1>1, MessagesDiffer DEF UnreadAt
<1> QED
  BY <1>0, <1>1, <1>2, <1>3, <1>4, CookieInit DEF PrompterInv, PasswordForItsOwnPrompt

LEMMA PrompterInvNext ==
    PrompterInv /\ CookieInv /\ [PrompterNext]_prompterVars => PrompterInv' /\ CookieInv'
<1> SUFFICES ASSUME PrompterInv, CookieInv, [PrompterNext]_prompterVars
             PROVE  PrompterInv' /\ CookieInv'
  OBVIOUS
<1>0. AuthTypeOK
  BY DEF CookieInv, FlowInv
<1>1. CookieInv'
  BY <1>0, StepsOfAuthSessions, OneKindOfRequest, CookieNext, RestartKeepsCookieInv
<1> SUFFICES PrompterInv'
  BY <1>1
<1>2. CASE MainStep
  BY <1>0, <1>2, MainStepPreserves
<1>3. ASSUME NEW c \in Cookies, WorkerSends(c) \/ WorkerReceives(c) \/ UserDecides(c)
      PROVE  PrompterInv'
  BY <1>0, <1>3, WorkerSendsPreserves, WorkerReceivesPreserves, UserDecidesPreserves
<1>4. ASSUME NEW s \in Sockets, DaemonReads(s) \/ DaemonSeesHangup(s) PROVE PrompterInv'
  BY <1>0, <1>4, DaemonReadsPreserves, HangupPreserves
<1>5. CASE DaemonRestarts
  BY <1>5, RestartPreserves
<1>6. CASE UNCHANGED prompterVars
  BY <1>6 DEF prompterVars, vars, mainVars, workerVars, channelVars, PrompterInv,
     PrompterTypeOK, ConnAt, UnreadAt, KeyringAt, CancelAt, Unread, PasswordForItsOwnPrompt
<1> QED
  BY <1>2, <1>3, <1>4, <1>5, <1>6 DEF PrompterNext

LEMMA PrompterInvariance == PrompterSpec => [](PrompterInv /\ CookieInv)
BY PrompterInvInit, PrompterInvNext, PTL DEF PrompterSpec

\* Between two crashes of the daemon the prompter is one of the clients
\* AuthSessions allows, and every step but the crash is one of its steps.
THEOREM PrompterIsAClient == PrompterSpec => Init /\ [][Next \/ DaemonRestarts]_vars
<1>1. PrompterInit => Init
  BY DEF PrompterInit
<1>2. PrompterInv /\ CookieInv /\ [PrompterNext]_prompterVars => [Next \/ DaemonRestarts]_vars
  BY StepsOfAuthSessions DEF CookieInv, FlowInv
<1> QED
  BY <1>1, <1>2, PrompterInvariance, PTL DEF PrompterSpec

\* Crashes included, the keyring manager's table and the session store agree: no
\* prompt is on display that its manager could not end, nor the other way round
\* (KeyringManager::handleRequest and cleanupForSocket, CAgent::start).
THEOREM ManagedThroughCrashes == PrompterSpec => []EveryPromptHasItsManager
<1>1. CookieInv => EveryPromptHasItsManager
  BY DEF CookieInv, CookieAt, ManagerAt, EveryPromptHasItsManager
<1> QED
  BY <1>1, PrompterInvariance, PTL

\* The socket kept by KeyringManager::handleRequest is the one its worker waits
\* on in send_json_command, or one the program has closed.
THEOREM PromptsWaitedFor == PrompterSpec => []PromptsAreWaitedFor
<1>1. PrompterInv /\ CookieInv => PromptsAreWaitedFor
  <2> SUFFICES ASSUME PrompterInv, CookieInv, NEW c \in Cookies,
                      sessions[c].source = "keyring"
               PROVE  \/ thread[c] = "waiting" /\ keyring[c] = conn[c]
                      \/ keyring[c] \in connected \ Held
    BY DEF PromptsAreWaitedFor
  <2>1. keyring[c] \in connected /\ keyring[c] # NoSocket
    BY DEF CookieInv, FlowInv, AuthTypeOK, CookieAt, ManagerAt
  <2>2. KeyringAt(c) /\ ConnAt(c)
    BY DEF PrompterInv
  <2>3. keyring[c] \in Held => conn[c] = keyring[c]
    BY <2>1, <2>2, HeldFacts DEF KeyringAt
  <2> QED
    BY <2>1, <2>2, <2>3 DEF ConnAt
<1> QED
  BY <1>1, PrompterInvariance, PTL

\* What bb_auth_ipc_send_keyring_request returns is what was typed into the prompt
\* of its own cookie, although it does not look at the id of the reply.
THEOREM PasswordsAreNotMixedUp == PrompterSpec => []PasswordForItsOwnPrompt
<1>1. PrompterInv => PasswordForItsOwnPrompt
  BY DEF PrompterInv
<1> QED
  BY <1>1, PrompterInvariance, PTL

\* After bb_auth_prompt_close, a prompt on display was not reached by a cancel
\* that CAgent::handleCancel carried out: a request whose cancel was carried out
\* is neither in the table nor still to be read.
THEOREM ClosedPromptsExplained == PrompterSpec => []ClosedPromptsHaveAReason
<1>1. PrompterInv => ClosedPromptsHaveAReason
  <2> SUFFICES ASSUME PrompterInv, NEW c \in closed, keyring[c] \in Held
               PROVE  cancel[c] \in {"sent", "refused", "early", "unsent"}
    BY DEF ClosedPromptsHaveAReason
  <2>1. c \in Cookies
    BY DEF PrompterInv, PrompterTypeOK
  <2>2. keyring[c] # NoSocket
    BY DEF Held
  <2>3. cancel[c] # "none" /\ cancel[c] # "done"
    BY <2>1, <2>2 DEF PrompterInv, CancelAt
  <2> QED
    BY <2>1, <2>3 DEF PrompterInv, PrompterTypeOK
<1> QED
  BY <1>1, PrompterInvariance, PTL
=============================================================================
