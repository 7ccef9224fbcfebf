------------------------ MODULE ProviderFailoverProofs ------------------------
(***************************************************************************)
(* Proofs about ProviderFailover.  The client only learns what is under    *)
(* way, so the inductive invariant speaks of what it will believe, and     *)
(* show, when it has read all of it.                                       *)
(***************************************************************************)
EXTENDS ProviderFailover, ProviderRegistryProofs

-----------------------------------------------------------------------------
(* What messages say.                                                      *)

Request == {"ui.register", "subscribe", "ui.heartbeat", "session.respond"}
Msg == [type : {"ui.registered", "subscribed", "ui.active", "error",
                "session.created", "session.closed"},
        who : Sockets \cup {NoSocket, Absent}]

\* A message that tells client c whether it is active, and one that says it is.
Speaks(m) ==
    \/ m.type \in {"ui.registered", "ui.active", "error"}
    \/ m.type = "subscribed" /\ m.who # Absent
Grants(c, m) ==
    \/ m.type \in {"ui.registered", "subscribed"} /\ m.who = c
    \/ m.type = "ui.active" /\ m.who \in {c, NoSocket}
Denies(c, m) == Speaks(m) /\ ~Grants(c, m)

\* What a client that believed b believes after the first n messages.
Believed(c, b, msgs, n) ==
    \/ b /\ \A k \in DOMAIN msgs : k <= n => ~Denies(c, msgs[k])
    \/ \E k \in DOMAIN msgs :
          /\ k <= n /\ Grants(c, msgs[k])
          /\ \A l \in DOMAIN msgs : k < l /\ l <= n => ~Denies(c, msgs[l])

\* After the first n messages, one comes that takes the session from the window.
Hiding(c, m) == m.type = "session.closed" \/ Denies(c, m)
Hides(c, msgs, n) == \E j \in DOMAIN msgs : j > n /\ Hiding(c, msgs[j])

\* A message will make the client active, which then subscribes again.
Reactivates(c, b, msgs) ==
    \E i \in DOMAIN msgs :
        /\ Grants(c, msgs[i])
        /\ ~b \/ \E k \in DOMAIN msgs : k < i /\ Denies(c, msgs[k])

\* A session that is under way and will be shown.
WillShow(c, b, msgs, i) == msgs[i].type = "session.created" /\ Believed(c, b, msgs, i)

-----------------------------------------------------------------------------
(* The inductive invariant.                                                *)

MayAnswer == active \in {client, NoSocket}

ChannelsOK ==
    /\ client \in UiSockets \cup {NoSocket}
    /\ toDaemon \in [UiSockets -> Seq(Request)]
    /\ toClient \in Seq(Msg)

FlagsOK ==
    /\ registered \in BOOLEAN /\ subscribed \in BOOLEAN /\ believes \in BOOLEAN
    /\ open \in BOOLEAN /\ shown \in BOOLEAN

FailoverTypeOK == ChannelsOK /\ FlagsOK

\* The daemon has not read the first message of the connection.
Fresh ==
    /\ ~registered /\ toClient = <<>>
    /\ client \notin subscribers /\ client \notin DOMAIN providers
    /\ Len(toDaemon[client]) >= 2
    /\ toDaemon[client][1] = "ui.register" /\ toDaemon[client][2] = "subscribe"

\* It has, and whatever elections it holds it tells the client: a subscriber,
\* or a provider whose subscription is the next thing it reads.
Listed ==
    \/ client \in subscribers
    \/ /\ client \in DOMAIN providers /\ providers[client].idle = 0
       /\ toDaemon[client] # <<>> /\ Head(toDaemon[client]) = "subscribe"

Known ==
    /\ registered \/ (toClient # <<>> /\ Head(toClient).type = "ui.registered")
    /\ Listed

ConnectionInv ==
    /\ believes => registered
    /\ shown => believes
    /\ IF client = NoSocket THEN ~registered /\ toClient = <<>>
       ELSE client \in connected /\ (Fresh \/ Known)

\* What the client will believe is what isAuthorized says.
BeliefInv ==
    client # NoSocket /\ Known =>
        (Believed(client, believes, toClient, Len(toClient)) <=> MayAnswer)

\* What it will show is open.
ShownInv ==
    /\ shown => open \/ Hides(client, toClient, 0)
    /\ \A i \in DOMAIN toClient :
          WillShow(client, believes, toClient, i) => open \/ Hides(client, toClient, i)

\* What is open it will show, at the latest when it has subscribed again.
ReplayInv ==
    client # NoSocket /\ Known /\ open /\ MayAnswer =>
        \/ \E i \in DOMAIN toDaemon[client] : toDaemon[client][i] = "subscribe"
        \/ shown /\ ~Hides(client, toClient, 0)
        \/ \E i \in DOMAIN toClient : /\ WillShow(client, believes, toClient, i)
                                      /\ ~Hides(client, toClient, i)
        \/ Reactivates(client, believes, toClient)

FailoverInv ==
    /\ RegistryInv /\ FailoverTypeOK /\ ConnectionInv
    /\ BeliefInv /\ ShownInv /\ ReplayInv

-----------------------------------------------------------------------------
(* Reading and appending messages.                                         *)

LEMMA AppendFacts ==
    ASSUME NEW msgs \in Seq(Msg), NEW es \in Seq(Msg)
    PROVE  /\ msgs \o es \in Seq(Msg) /\ Len(msgs \o es) = Len(msgs) + Len(es)
           /\ DOMAIN msgs = 1..Len(msgs) /\ Len(msgs) \in Nat
           /\ \A k \in DOMAIN msgs : k \in DOMAIN (msgs \o es) /\ (msgs \o es)[k] = msgs[k]
           /\ \A k \in DOMAIN es : /\ k + Len(msgs) \in DOMAIN (msgs \o es)
                                   /\ (msgs \o es)[k + Len(msgs)] = es[k]
                                   /\ k + Len(msgs) > Len(msgs)
           /\ \A k \in DOMAIN (msgs \o es) :
                  k \notin DOMAIN msgs => /\ k - Len(msgs) \in DOMAIN es
                                          /\ (msgs \o es)[k] = es[k - Len(msgs)]
                                          /\ k > Len(msgs)
<1>1. \A k \in DOMAIN (msgs \o es) :
          k \notin DOMAIN msgs => /\ k - Len(msgs) \in DOMAIN es
                                  /\ (msgs \o es)[k] = es[k - Len(msgs)]
                                  /\ k > Len(msgs)
  OBVIOUS
<1> QED
  BY <1>1

LEMMA TailFacts ==
    ASSUME NEW msgs \in Seq(Msg), msgs # <<>>
    PROVE  /\ Tail(msgs) \in Seq(Msg) /\ Len(msgs) = Len(Tail(msgs)) + 1
           /\ DOMAIN msgs \subseteq Nat
           /\ 1 \in DOMAIN msgs /\ Head(msgs) = msgs[1] /\ Head(msgs) \in Msg
           /\ \A k \in DOMAIN Tail(msgs) : /\ k \in Nat /\ k >= 1 /\ k + 1 \in DOMAIN msgs
                                           /\ Tail(msgs)[k] = msgs[k + 1]
           /\ \A k \in DOMAIN msgs :
                  k # 1 => /\ k > 1 /\ k - 1 \in DOMAIN Tail(msgs)
                           /\ Tail(msgs)[k - 1] = msgs[k] /\ k = (k - 1) + 1
<1>1. /\ DOMAIN msgs = 1..Len(msgs) /\ Len(msgs) \in Nat \ {0}
      /\ Tail(msgs) \in Seq(Msg) /\ Len(msgs) = Len(Tail(msgs)) + 1
      /\ DOMAIN Tail(msgs) = 1..(Len(msgs) - 1)
      /\ \A k \in DOMAIN Tail(msgs) : Tail(msgs)[k] = msgs[k + 1]
  OBVIOUS
<1>2. 1 \in DOMAIN msgs /\ Head(msgs) = msgs[1] /\ Head(msgs) \in Msg
  BY <1>1
<1>3. ASSUME NEW k \in DOMAIN msgs, k # 1
      PROVE  /\ k > 1 /\ k - 1 \in DOMAIN Tail(msgs)
             /\ Tail(msgs)[k - 1] = msgs[k] /\ k = (k - 1) + 1
  <2>1. k - 1 \in DOMAIN Tail(msgs) /\ (k - 1) + 1 = k /\ k > 1
    BY <1>1, <1>3
  <2> QED
    BY <1>1, <2>1
<1> QED
  BY <1>1, <1>2, <1>3

\* A grant is no denial; Absent names nobody.
LEMMA GrantsSpeak ==
    ASSUME NEW c \in Sockets, NEW m \in Msg
    PROVE  Grants(c, m) => Speaks(m) /\ ~Denies(c, m)
BY AbsentAssumption DEF Grants, Speaks, Denies

LEMMA BelievedFirst ==
    ASSUME NEW c, NEW b, NEW msgs \in Seq(Msg)
    PROVE  Believed(c, b, msgs, 0) <=> b
<1>1. \A k \in DOMAIN msgs : ~(k <= 0)
  OBVIOUS
<1> QED
  BY <1>1 DEF Believed

\* What comes later does not change what was believed before.
LEMMA BelievedBefore ==
    ASSUME NEW c, NEW b, NEW msgs \in Seq(Msg), NEW es \in Seq(Msg),
           NEW n \in Nat, n <= Len(msgs)
    PROVE  Believed(c, b, msgs \o es, n) <=> Believed(c, b, msgs, n)
<1>1. /\ \A k \in DOMAIN msgs : k \in DOMAIN (msgs \o es) /\ (msgs \o es)[k] = msgs[k]
      /\ \A k \in DOMAIN (msgs \o es) : k <= n => k \in DOMAIN msgs
  OBVIOUS
<1> QED
  BY <1>1 DEF Believed

\* A client that believes it is active, and is not denied it later, goes on.
LEMMA GoesOnBelieving ==
    ASSUME NEW c, NEW b, NEW msgs \in Seq(Msg), NEW n \in Nat, n <= Len(msgs),
           Believed(c, b, msgs, n), ~Hides(c, msgs, n)
    PROVE  Believed(c, b, msgs, Len(msgs))
<1>1. \A k \in DOMAIN msgs : k \in Nat /\ k <= Len(msgs)
  OBVIOUS
<1>2. \A k \in DOMAIN msgs : k > n => ~Denies(c, msgs[k])
  BY DEF Hides, Hiding
<1>3. CASE b /\ \A k \in DOMAIN msgs : k <= n => ~Denies(c, msgs[k])
  <2>1. \A k \in DOMAIN msgs : ~Denies(c, msgs[k])
    BY <1>1, <1>2, <1>3
  <2> QED
    BY <1>3, <2>1 DEF Believed
<1>4. ASSUME NEW k \in DOMAIN msgs, k <= n, Grants(c, msgs[k]),
             \A l \in DOMAIN msgs : k < l /\ l <= n => ~Denies(c, msgs[l])
      PROVE  Believed(c, b, msgs, Len(msgs))
  <2>1. \A l \in DOMAIN msgs : k < l => ~Denies(c, msgs[l])
    BY <1>1, <1>2, <1>4
  <2> QED
    BY <1>1, <1>4, <2>1 DEF Believed
<1> QED
  BY <1>3, <1>4 DEF Believed

\* What is believed in the end, when messages are appended that agree.
LEMMA AfterGrants ==
    ASSUME NEW c, NEW b, NEW msgs \in Seq(Msg), NEW es \in Seq(Msg),
           \A k \in DOMAIN es : ~Denies(c, es[k]),
           Believed(c, b, msgs, Len(msgs)) \/ \E k \in DOMAIN es : Grants(c, es[k])
    PROVE  Believed(c, b, msgs \o es, Len(msgs \o es))
<1> DEFINE all == msgs \o es
<1>1. /\ all \in Seq(Msg) /\ Len(all) \in Nat /\ Len(msgs) \in Nat /\ Len(msgs) <= Len(all)
      /\ \A k \in DOMAIN all : k \in Nat /\ k <= Len(all)
      /\ DOMAIN msgs = 1..Len(msgs)
  OBVIOUS
<1>2. \A k \in DOMAIN all : k > Len(msgs) => ~Denies(c, all[k])
  BY <1>1, AppendFacts
<1>3. CASE Believed(c, b, msgs, Len(msgs))
  <2>1. Believed(c, b, all, Len(msgs))
    BY <1>1, <1>3, BelievedBefore
  <2>2. CASE b /\ \A k \in DOMAIN all : k <= Len(msgs) => ~Denies(c, all[k])
    <3>1. \A k \in DOMAIN all : ~Denies(c, all[k])
      BY <1>1, <1>2, <2>2
    <3> QED
      BY <2>2, <3>1 DEF Believed
  <2>3. ASSUME NEW k \in DOMAIN all, k <= Len(msgs), Grants(c, all[k]),
               \A l \in DOMAIN all : k < l /\ l <= Len(msgs) => ~Denies(c, all[l])
        PROVE  Believed(c, b, all, Len(all))
    <3>1. \A l \in DOMAIN all : k < l => ~Denies(c, all[l])
      BY <1>1, <1>2, <2>3
    <3> QED
      BY <1>1, <2>3, <3>1 DEF Believed
  <2> QED
    BY <2>1, <2>2, <2>3 DEF Believed
<1>4. ASSUME NEW k \in DOMAIN es, Grants(c, es[k])
      PROVE  Believed(c, b, all, Len(all))
  <2>1. /\ k + Len(msgs) \in DOMAIN all /\ all[k + Len(msgs)] = es[k]
        /\ k + Len(msgs) > Len(msgs)
    BY AppendFacts
  <2>2. \A l \in DOMAIN all : k + Len(msgs) < l => ~Denies(c, all[l])
    BY <1>1, <1>2, <2>1
  <2> QED
    BY <1>1, <1>4, <2>1, <2>2 DEF Believed
<1> QED
  BY <1>3, <1>4

LEMMA AfterDenials ==
    ASSUME NEW c, NEW b, NEW msgs \in Seq(Msg), NEW es \in Seq(Msg),
           \A k \in DOMAIN es : ~Grants(c, es[k]),
           ~Believed(c, b, msgs, Len(msgs)) \/ \E k \in DOMAIN es : Denies(c, es[k])
    PROVE  ~Believed(c, b, msgs \o es, Len(msgs \o es))
<1> DEFINE all == msgs \o es
<1>1. /\ all \in Seq(Msg) /\ Len(all) \in Nat /\ Len(msgs) \in Nat /\ Len(msgs) <= Len(all)
      /\ \A k \in DOMAIN all : k \in Nat /\ k <= Len(all)
      /\ DOMAIN msgs = 1..Len(msgs)
  OBVIOUS
<1>2. \A k \in DOMAIN all : k > Len(msgs) => ~Grants(c, all[k])
  BY <1>1, AppendFacts
<1> SUFFICES ASSUME Believed(c, b, all, Len(all))
             PROVE  FALSE
  OBVIOUS
<1>3. Believed(c, b, all, Len(msgs))
  <2>1. CASE b /\ \A k \in DOMAIN all : k <= Len(all) => ~Denies(c, all[k])
    BY <1>1, <2>1 DEF Believed
  <2>2. ASSUME NEW k \in DOMAIN all, Grants(c, all[k]),
               \A l \in DOMAIN all : k < l /\ l <= Len(all) => ~Denies(c, all[l])
        PROVE  Believed(c, b, all, Len(msgs))
    <3>1. k <= Len(msgs)
      BY <1>1, <1>2, <2>2
    <3>2. \A l \in DOMAIN all : k < l /\ l <= Len(msgs) => ~Denies(c, all[l])
      BY <1>1, <2>2
    <3> QED
      BY <2>2, <3>1, <3>2 DEF Believed
  <2> QED
    BY <2>1, <2>2 DEF Believed
<1>4. ~\E k \in DOMAIN es : Denies(c, es[k])
  <2> SUFFICES ASSUME NEW k \in DOMAIN es, Denies(c, es[k])
               PROVE  FALSE
    OBVIOUS
  <2>1. /\ k + Len(msgs) \in DOMAIN all /\ all[k + Len(msgs)] = es[k]
        /\ k + Len(msgs) > Len(msgs)
    BY AppendFacts
  <2>2. \A j \in DOMAIN all : Grants(c, all[j]) => j < k + Len(msgs)
    BY <1>1, <1>2, <2>1
  <2> QED
    BY <1>1, <2>1, <2>2 DEF Believed
<1> QED
  BY <1>1, <1>3, <1>4, BelievedBefore

\* The first message is read: the client believes b2 now.
LEMMA BelievedTail ==
    ASSUME NEW c \in Sockets, NEW b, NEW b2, NEW msgs \in Seq(Msg), msgs # <<>>, NEW n \in Nat,
           b2 <=> (Grants(c, Head(msgs)) \/ (b /\ ~Denies(c, Head(msgs))))
    PROVE  Believed(c, b2, Tail(msgs), n) <=> Believed(c, b, msgs, n + 1)
<1> DEFINE rest == Tail(msgs)
<1>1. /\ DOMAIN msgs \subseteq Nat /\ DOMAIN rest \subseteq Nat
      /\ 1 \in DOMAIN msgs /\ Head(msgs) = msgs[1] /\ Head(msgs) \in Msg
      /\ \A k \in DOMAIN rest : k >= 1 /\ k + 1 \in DOMAIN msgs /\ rest[k] = msgs[k + 1]
      /\ \A k \in DOMAIN msgs : k # 1 => /\ k > 1 /\ k - 1 \in DOMAIN rest
                                         /\ rest[k - 1] = msgs[k] /\ k = (k - 1) + 1
  BY TailFacts
<1>2. Grants(c, msgs[1]) => ~Denies(c, msgs[1])
  BY <1>1, GrantsSpeak
<1> HIDE DEF rest
<1>3. ASSUME NEW m \in Nat
      PROVE  (\A k \in DOMAIN rest : m < k /\ k <= n => ~Denies(c, rest[k]))
                 <=> (\A k \in DOMAIN msgs : m + 1 < k /\ k <= n + 1 => ~Denies(c, msgs[k]))
  <2>1. ASSUME \A k \in DOMAIN rest : m < k /\ k <= n => ~Denies(c, rest[k]),
               NEW k \in DOMAIN msgs, m + 1 < k, k <= n + 1
        PROVE  ~Denies(c, msgs[k])
    <3>1. k \in Nat /\ k # 1
      BY <1>1, <2>1
    <3>2. k - 1 \in DOMAIN rest /\ rest[k - 1] = msgs[k] /\ m < k - 1 /\ k - 1 <= n
      BY <1>1, <2>1, <3>1
    <3> QED
      BY <2>1, <3>2
  <2>2. ASSUME \A k \in DOMAIN msgs : m + 1 < k /\ k <= n + 1 => ~Denies(c, msgs[k]),
               NEW k \in DOMAIN rest, m < k, k <= n
        PROVE  ~Denies(c, rest[k])
    <3>1. k + 1 \in DOMAIN msgs /\ rest[k] = msgs[k + 1] /\ m + 1 < k + 1 /\ k + 1 <= n + 1
      BY <1>1, <2>2
    <3> QED
      BY <2>2, <3>1
  <2> QED
    BY <2>1, <2>2
<1>4. ASSUME Believed(c, b2, rest, n)
      PROVE  Believed(c, b, msgs, n + 1)
  <2>1. ASSUME b2, \A k \in DOMAIN rest : k <= n => ~Denies(c, rest[k])
        PROVE  Believed(c, b, msgs, n + 1)
    <3>1. \A k \in DOMAIN msgs : 1 < k /\ k <= n + 1 => ~Denies(c, msgs[k])
      BY <1>3, <2>1, 0 \in Nat, 0 + 1 = 1
    <3>2. CASE Grants(c, msgs[1])
      BY <1>1, <3>1, <3>2 DEF Believed
    <3>3. CASE b /\ ~Denies(c, msgs[1])
      <4>1. \A k \in DOMAIN msgs : k <= n + 1 => ~Denies(c, msgs[k])
        BY <1>1, <3>1, <3>3
      <4> QED
        BY <3>3, <4>1 DEF Believed
    <3> QED
      BY <1>1, <2>1, <3>2, <3>3
  <2>2. ASSUME NEW k \in DOMAIN rest, k <= n, Grants(c, rest[k]),
               \A l \in DOMAIN rest : k < l /\ l <= n => ~Denies(c, rest[l])
        PROVE  Believed(c, b, msgs, n + 1)
    <3>1. k \in Nat /\ k + 1 \in DOMAIN msgs /\ k + 1 <= n + 1 /\ Grants(c, msgs[k + 1])
      BY <1>1, <2>2
    <3>2. \A l \in DOMAIN msgs : k + 1 < l /\ l <= n + 1 => ~Denies(c, msgs[l])
      BY <1>3, <2>2, <3>1
    <3> QED
      BY <3>1, <3>2 DEF Believed
  <2> QED
    BY <1>4, <2>1, <2>2 DEF Believed
<1>5. ASSUME Believed(c, b, msgs, n + 1)
      PROVE  Believed(c, b2, rest, n)
  <2>1. ASSUME b, \A k \in DOMAIN msgs : k <= n + 1 => ~Denies(c, msgs[k])
        PROVE  Believed(c, b2, rest, n)
    <3>1. \A k \in DOMAIN rest : k <= n => ~Denies(c, rest[k])
      BY <1>1, <2>1
    <3>2. ~Denies(c, msgs[1])
      BY <1>1, <2>1
    <3> QED
      BY <1>1, <2>1, <3>1, <3>2 DEF Believed
  <2>2. ASSUME NEW k \in DOMAIN msgs, k <= n + 1, Grants(c, msgs[k]),
               \A l \in DOMAIN msgs : k < l /\ l <= n + 1 => ~Denies(c, msgs[l])
        PROVE  Believed(c, b2, rest, n)
    <3>1. CASE k = 1
      <4>1. \A l \in DOMAIN rest : 0 < l /\ l <= n => ~Denies(c, rest[l])
        BY <1>3, <2>2, <3>1, 0 \in Nat, 0 + 1 = 1
      <4>2. \A l \in DOMAIN rest : l <= n => ~Denies(c, rest[l])
        BY <1>1, <4>1
      <4> QED
        BY <1>1, <2>2, <3>1, <4>2 DEF Believed
    <3>2. CASE k # 1
      <4> DEFINE j == k - 1
      <4>1. /\ j \in Nat /\ j \in DOMAIN rest /\ rest[j] = msgs[k] /\ j <= n /\ j + 1 = k
        BY <1>1, <2>2, <3>2
      <4> HIDE DEF j
      <4>2. \A l \in DOMAIN rest : j < l /\ l <= n => ~Denies(c, rest[l])
        BY <1>3, <2>2, <4>1
      <4> QED
        BY <2>2, <4>1, <4>2 DEF Believed
    <3> QED
      BY <3>1, <3>2
  <2> QED
    BY <1>5, <2>1, <2>2 DEF Believed
<1> QED
  BY <1>4, <1>5 DEF rest

\* What hides the session: an old message or a new one.
LEMMA HidesAppend ==
    ASSUME NEW c, NEW msgs \in Seq(Msg), NEW es \in Seq(Msg), NEW n \in Nat, n <= Len(msgs)
    PROVE  Hides(c, msgs \o es, n)
               <=> (Hides(c, msgs, n) \/ \E k \in DOMAIN es : Hiding(c, es[k]))
<1> DEFINE all == msgs \o es
<1>1. /\ \A k \in DOMAIN msgs : k \in DOMAIN all /\ all[k] = msgs[k]
      /\ \A k \in DOMAIN es : k + Len(msgs) \in DOMAIN all /\ all[k + Len(msgs)] = es[k]
                              /\ k + Len(msgs) > n
      /\ \A k \in DOMAIN all :
             k \notin DOMAIN msgs => k - Len(msgs) \in DOMAIN es /\ all[k] = es[k - Len(msgs)]
  <2>1. \A k \in DOMAIN es : k + Len(msgs) > n
    OBVIOUS
  <2> QED
    BY <2>1, AppendFacts
<1> HIDE DEF all
<1>2. Hides(c, msgs, n) => Hides(c, all, n)
  BY <1>1 DEF Hides
<1>3. (\E k \in DOMAIN es : Hiding(c, es[k])) => Hides(c, all, n)
  BY <1>1 DEF Hides
<1>4. ASSUME NEW k \in DOMAIN all, k > n, Hiding(c, all[k])
      PROVE  Hides(c, msgs, n) \/ \E j \in DOMAIN es : Hiding(c, es[j])
  <2>1. CASE k \in DOMAIN msgs
    BY <1>1, <1>4, <2>1 DEF Hides
  <2>2. CASE k \notin DOMAIN msgs
    BY <1>1, <1>4, <2>2
  <2> QED
    BY <2>1, <2>2
<1> QED
  BY <1>2, <1>3, <1>4 DEF Hides, all

LEMMA HidesTail ==
    ASSUME NEW c, NEW msgs \in Seq(Msg), msgs # <<>>
    PROVE  /\ \A n \in Nat : Hides(c, Tail(msgs), n) <=> Hides(c, msgs, n + 1)
           /\ Hides(c, msgs, 0) <=> (Hiding(c, Head(msgs)) \/ Hides(c, Tail(msgs), 0))
<1> DEFINE rest == Tail(msgs)
<1>1. /\ DOMAIN msgs \subseteq Nat /\ 1 \in DOMAIN msgs /\ Head(msgs) = msgs[1]
      /\ \A k \in DOMAIN rest : k \in Nat /\ k + 1 \in DOMAIN msgs /\ rest[k] = msgs[k + 1]
      /\ \A k \in DOMAIN msgs : k # 1 => /\ k > 1 /\ k - 1 \in DOMAIN rest
                                         /\ rest[k - 1] = msgs[k] /\ k = (k - 1) + 1
  BY TailFacts
<1> HIDE DEF rest
<1>2. ASSUME NEW n \in Nat
      PROVE  Hides(c, rest, n) <=> Hides(c, msgs, n + 1)
  <2>1. ASSUME NEW k \in DOMAIN rest, k > n, Hiding(c, rest[k])
        PROVE  Hides(c, msgs, n + 1)
    <3>1. k + 1 \in DOMAIN msgs /\ k + 1 > n + 1 /\ Hiding(c, msgs[k + 1])
      BY <1>1, <2>1
    <3> QED
      BY <3>1 DEF Hides
  <2>2. ASSUME NEW k \in DOMAIN msgs, k > n + 1, Hiding(c, msgs[k])
        PROVE  Hides(c, rest, n)
    <3>1. k \in Nat /\ k # 1
      BY <1>1, <2>2
    <3>2. k - 1 \in DOMAIN rest /\ k - 1 > n /\ Hiding(c, rest[k - 1])
      BY <1>1, <2>2, <3>1
    <3> QED
      BY <3>2 DEF Hides
  <2> QED
    BY <2>1, <2>2 DEF Hides
<1>3. Hides(c, msgs, 0) <=> (Hiding(c, msgs[1]) \/ Hides(c, msgs, 1))
  <2>1. \A k \in DOMAIN msgs : k > 0 /\ (k = 1 \/ k > 1)
    BY <1>1
  <2> QED
    BY <1>1, <2>1 DEF Hides
<1>4. Hides(c, rest, 0) <=> Hides(c, msgs, 1)
  BY <1>2, 0 \in Nat, 0 + 1 = 1
<1> QED
  BY <1>1, <1>2, <1>3, <1>4 DEF rest

LEMMA ReactivatesAppend ==
    ASSUME NEW c, NEW b, NEW msgs \in Seq(Msg), NEW es \in Seq(Msg)
    PROVE  /\ Reactivates(c, b, msgs) => Reactivates(c, b, msgs \o es)
           /\ ~Believed(c, b, msgs, Len(msgs)) /\ (\E k \in DOMAIN es : Grants(c, es[k])) =>
                  Reactivates(c, b, msgs \o es)
<1> DEFINE all == msgs \o es
<1>1. /\ \A k \in DOMAIN msgs : /\ k \in DOMAIN all /\ all[k] = msgs[k]
                                /\ k \in Nat /\ k <= Len(msgs)
      /\ \A k \in DOMAIN es : /\ k + Len(msgs) \in DOMAIN all /\ all[k + Len(msgs)] = es[k]
                              /\ \A j \in DOMAIN msgs : j < k + Len(msgs)
  <2>1. \A k \in DOMAIN es : \A j \in DOMAIN msgs : j < k + Len(msgs)
    OBVIOUS
  <2>2. \A k \in DOMAIN msgs : k \in Nat /\ k <= Len(msgs)
    OBVIOUS
  <2> QED
    BY <2>1, <2>2, AppendFacts
<1> HIDE DEF all
<1>2. Reactivates(c, b, msgs) => Reactivates(c, b, all)
  BY <1>1 DEF Reactivates
<1>3. ASSUME ~Believed(c, b, msgs, Len(msgs)), NEW k \in DOMAIN es, Grants(c, es[k])
      PROVE  Reactivates(c, b, all)
  <2>1. ~b \/ \E j \in DOMAIN msgs : Denies(c, msgs[j])
    BY <1>1, <1>3 DEF Believed
  <2> QED
    BY <1>1, <1>3, <2>1 DEF Reactivates
<1> QED
  BY <1>2, <1>3 DEF all

LEMMA ReactivatesTail ==
    ASSUME NEW c \in Sockets, NEW b, NEW b2, NEW msgs \in Seq(Msg), msgs # <<>>,
           b2 <=> (Grants(c, Head(msgs)) \/ (b /\ ~Denies(c, Head(msgs)))),
           Reactivates(c, b, msgs)
    PROVE  Reactivates(c, b2, Tail(msgs)) \/ (~b /\ Grants(c, Head(msgs)))
<1> DEFINE rest == Tail(msgs)
<1>1. /\ DOMAIN msgs \subseteq Nat
      /\ 1 \in DOMAIN msgs /\ Head(msgs) = msgs[1] /\ Head(msgs) \in Msg
      /\ \A k \in DOMAIN msgs : k # 1 => /\ k > 1 /\ k - 1 \in DOMAIN rest
                                         /\ rest[k - 1] = msgs[k] /\ k = (k - 1) + 1
  BY TailFacts
<1> HIDE DEF rest
<1>2. PICK i \in DOMAIN msgs :
          /\ Grants(c, msgs[i])
          /\ ~b \/ \E k \in DOMAIN msgs : k < i /\ Denies(c, msgs[k])
  BY DEF Reactivates
<1>3. Denies(c, msgs[1]) => ~b2
  BY <1>1, GrantsSpeak
<1>4. CASE i = 1
  <2>1. \A k \in DOMAIN msgs : ~(k < i)
    BY <1>1, <1>4
  <2> QED
    BY <1>1, <1>2, <1>4, <2>1
<1>5. CASE i # 1
  <2>1. i - 1 \in DOMAIN rest /\ Grants(c, rest[i - 1])
    BY <1>1, <1>2, <1>5
  <2>2. CASE ~b2
    BY <2>1, <2>2 DEF Reactivates, rest
  <2>3. CASE b2
    <3>1. CASE ~b
      BY <1>1, <2>3, <3>1
    <3>2. CASE b
      <4>1. PICK k \in DOMAIN msgs : k < i /\ Denies(c, msgs[k])
        BY <1>2, <3>2
      <4>2. k # 1
        BY <1>3, <2>3, <4>1
      <4>3. k - 1 \in DOMAIN rest /\ k - 1 < i - 1 /\ Denies(c, rest[k - 1])
        BY <1>1, <4>1, <4>2
      <4> QED
        BY <2>1, <4>3 DEF Reactivates, rest
    <3> QED
      BY <3>1, <3>2
  <2> QED
    BY <2>2, <2>3
<1> QED
  BY <1>4, <1>5

-----------------------------------------------------------------------------
(* The daemon tells the client what it does.                               *)

WillSubscribe == \E i \in DOMAIN toDaemon[client] : toDaemon[client][i] = "subscribe"

\* What every step of the daemon comes to for a client that it knows: it appends
\* messages, which tell of any change of its authority, and of sessions what is so
\* if the client has authority.
Tells(es) ==
    /\ toClient' = toClient \o es
    /\ UNCHANGED <<client, registered, believes, shown>>
    /\ \A k \in DOMAIN es : Speaks(es[k]) => (Grants(client, es[k]) <=> MayAnswer')
    /\ (MayAnswer' <=> MayAnswer) \/ \E k \in DOMAIN es : Speaks(es[k])
    /\ \A k \in DOMAIN es : es[k].type = "session.created" => open'
    /\ \A k \in DOMAIN es : es[k].type = "session.closed" => ~open'
    /\ open /\ ~open' =>
        \/ ~MayAnswer \/ ~MayAnswer'
        \/ \E k \in DOMAIN es : es[k].type = "session.closed"
    /\ open' /\ MayAnswer /\ MayAnswer' =>
        \/ open /\ (WillSubscribe => WillSubscribe')
        \/ 1 \in DOMAIN es /\ es[1].type = "session.created"

LEMMA TellingBelief ==
    ASSUME toClient \in Seq(Msg), client \in Sockets, NEW es \in Seq(Msg), Tells(es),
           \/ Believed(client, believes, toClient, Len(toClient)) <=> MayAnswer
           \/ \E k \in DOMAIN es : Speaks(es[k])
    PROVE  Believed(client, believes, toClient', Len(toClient')) <=> MayAnswer'
<1>1. \A k \in DOMAIN es : es[k] \in Msg
  OBVIOUS
<1>2. toClient' = toClient \o es
  BY DEF Tells
<1>3. CASE MayAnswer'
  <2>1. \A k \in DOMAIN es : ~Denies(client, es[k])
    BY <1>3 DEF Tells, Denies
  <2>2. \/ Believed(client, believes, toClient, Len(toClient))
        \/ \E k \in DOMAIN es : Grants(client, es[k])
    BY <1>3 DEF Tells
  <2> QED
    BY <1>2, <1>3, <2>1, <2>2, AfterGrants
<1>4. CASE ~MayAnswer'
  <2>1. \A k \in DOMAIN es : ~Grants(client, es[k])
    BY <1>1, <1>4, GrantsSpeak DEF Tells
  <2>2. \/ ~Believed(client, believes, toClient, Len(toClient))
        \/ \E k \in DOMAIN es : Denies(client, es[k])
    BY <1>4, <2>1 DEF Tells, Denies
  <2> QED
    BY <1>2, <1>4, <2>1, <2>2, AfterDenials
<1> QED
  BY <1>3, <1>4

\* Where the client will show a session now, it will be told if it may not go on.
LEMMA ToldToStop ==
    ASSUME NEW c, NEW b, NEW msgs \in Seq(Msg), NEW n \in Nat, n <= Len(msgs),
           Believed(c, b, msgs, n), ~Believed(c, b, msgs, Len(msgs))
    PROVE  Hides(c, msgs, n)
BY GoesOnBelieving

LEMMA TellingKeeps ==
    ASSUME FailoverTypeOK, ConnectionInv, BeliefInv, ShownInv, ReplayInv,
           client # NoSocket, Known, NEW es \in Seq(Msg), Tells(es)
    PROVE  (BeliefInv /\ ShownInv /\ ReplayInv)'
<1>1. /\ client \in Sockets /\ toClient \in Seq(Msg) /\ toClient' \in Seq(Msg)
      /\ toClient' = toClient \o es
      /\ client' = client /\ believes' = believes /\ shown' = shown
      /\ Len(toClient) \in Nat /\ Len(toClient') \in Nat /\ Len(toClient) <= Len(toClient')
      /\ \A k \in DOMAIN toClient : k \in Nat /\ k <= Len(toClient)
  BY DEF FailoverTypeOK, ChannelsOK, UiSockets, Tells
<1> DEFINE old == Believed(client, believes, toClient, Len(toClient))
           new == Believed(client, believes, toClient', Len(toClient'))
<1>2. (old <=> MayAnswer) /\ (new <=> MayAnswer')
  BY <1>1, TellingBelief DEF BeliefInv
<1>3. BeliefInv'
  BY <1>1, <1>2 DEF BeliefInv
<1>4. \A k \in DOMAIN es : /\ k + Len(toClient) \in DOMAIN toClient'
                           /\ toClient'[k + Len(toClient)] = es[k]
  BY <1>1, AppendFacts
<1>5. \A n \in Nat : n <= Len(toClient) =>
          /\ Hides(client, toClient', n) <=>
                 (Hides(client, toClient, n) \/ \E k \in DOMAIN es : Hiding(client, es[k]))
          /\ Believed(client, believes, toClient', n) <=> Believed(client, believes, toClient, n)
  BY <1>1, HidesAppend, BelievedBefore
<1>6. \A i \in DOMAIN toClient : /\ i \in DOMAIN toClient' /\ toClient'[i] = toClient[i]
                                 /\ WillShow(client, believes, toClient', i)
                                        <=> WillShow(client, believes, toClient, i)
  BY <1>1, <1>5, AppendFacts DEF WillShow
<1>7. ShownInv'
  \* The window, or a session under way, is told of the end of the session.
  <2>1. ASSUME NEW n \in Nat, n <= Len(toClient), ~open',
               Believed(client, believes, toClient, n), open \/ Hides(client, toClient, n)
        PROVE  Hides(client, toClient', n)
    <3>1. CASE Hides(client, toClient, n)
      BY <1>5, <2>1, <3>1
    <3>2. CASE open
      <4>1. CASE \E k \in DOMAIN es : es[k].type = "session.closed"
        BY <1>5, <2>1, <4>1 DEF Hiding
      <4>2. CASE ~MayAnswer
        BY <1>1, <1>2, <1>5, <2>1, <4>2, ToldToStop
      <4>3. CASE ~MayAnswer'
        <5>1. Believed(client, believes, toClient', n) /\ n <= Len(toClient')
          BY <1>1, <1>5, <2>1
        <5> QED
          BY <1>1, <1>2, <2>1, <4>3, <5>1, ToldToStop
      <4> QED
        BY <2>1, <3>2, <4>1, <4>2, <4>3 DEF Tells
    <3> QED
      BY <2>1, <3>1, <3>2
  <2>2. shown' => open' \/ Hides(client, toClient', 0)
    <3>1. shown => believes /\ (open \/ Hides(client, toClient, 0))
      BY DEF ConnectionInv, ShownInv
    <3>2. believes => Believed(client, believes, toClient, 0)
      BY <1>1, BelievedFirst
    <3>3. 0 \in Nat /\ 0 <= Len(toClient)
      BY <1>1
    <3>4. shown /\ ~open' => Hides(client, toClient', 0)
      BY <2>1, <3>1, <3>2, <3>3
    <3> QED
      BY <1>1, <3>4
  <2>3. ASSUME NEW i \in DOMAIN toClient', WillShow(client, believes, toClient', i), ~open'
        PROVE  Hides(client, toClient', i)
    <3>1. CASE i \in DOMAIN toClient
      <4>1. WillShow(client, believes, toClient, i) /\ (open \/ Hides(client, toClient, i))
        BY <1>6, <2>3, <3>1 DEF ShownInv
      <4> QED
        BY <1>1, <2>1, <2>3, <3>1, <4>1 DEF WillShow
    <3>2. CASE i \notin DOMAIN toClient
      <4>1. i - Len(toClient) \in DOMAIN es /\ toClient'[i] = es[i - Len(toClient)]
        BY <1>1, <2>3, <3>2, AppendFacts
      <4> QED
        BY <2>3, <4>1 DEF WillShow, Tells
    <3> QED
      BY <3>1, <3>2
  <2> QED
    BY <1>1, <2>2, <2>3 DEF ShownInv
<1>8. ReplayInv'
  <2> SUFFICES ASSUME open', MayAnswer'
               PROVE  \/ WillSubscribe'
                      \/ shown /\ ~Hides(client, toClient', 0)
                      \/ \E i \in DOMAIN toClient' :
                             /\ WillShow(client, believes, toClient', i)
                             /\ ~Hides(client, toClient', i)
                      \/ Reactivates(client, believes, toClient')
    BY <1>1 DEF ReplayInv, WillSubscribe
  <2>1. \A k \in DOMAIN es : ~Hiding(client, es[k])
    BY DEF Tells, Hiding, Denies
  <2>2. CASE ~MayAnswer
    <3>1. \E k \in DOMAIN es : Grants(client, es[k])
      BY <2>2 DEF Tells
    <3> QED
      BY <1>1, <1>2, <2>2, <3>1, ReactivatesAppend
  <2>3. CASE MayAnswer /\ open /\ (WillSubscribe => WillSubscribe')
    <3>1. \/ WillSubscribe
          \/ shown /\ ~Hides(client, toClient, 0)
          \/ \E i \in DOMAIN toClient : /\ WillShow(client, believes, toClient, i)
                                        /\ ~Hides(client, toClient, i)
          \/ Reactivates(client, believes, toClient)
      BY <2>3 DEF ReplayInv, WillSubscribe
    <3>2. ~Hides(client, toClient, 0) => ~Hides(client, toClient', 0)
      BY <1>1, <1>5, <2>1
    <3>3. ASSUME NEW i \in DOMAIN toClient, WillShow(client, believes, toClient, i),
                 ~Hides(client, toClient, i)
          PROVE  /\ i \in DOMAIN toClient' /\ WillShow(client, believes, toClient', i)
                 /\ ~Hides(client, toClient', i)
      BY <1>1, <1>5, <1>6, <2>1, <3>3
    <3>4. Reactivates(client, believes, toClient) => Reactivates(client, believes, toClient')
      BY <1>1, ReactivatesAppend
    <3> QED
      BY <2>3, <3>1, <3>2, <3>3, <3>4
  <2>4. CASE MayAnswer /\ 1 \in DOMAIN es /\ es[1].type = "session.created"
    <3> DEFINE i == 1 + Len(toClient)
    <3>1. i \in DOMAIN toClient' /\ toClient'[i] = es[1] /\ i \in Nat
      BY <1>1, <1>4, <2>4
    <3>2. ~Hides(client, toClient', i)
      <4> SUFFICES ASSUME NEW j \in DOMAIN toClient', j > i
                   PROVE  ~Hiding(client, toClient'[j])
        BY DEF Hides
      <4>1. j - Len(toClient) \in DOMAIN es /\ toClient'[j] = es[j - Len(toClient)]
        BY <1>1, AppendFacts
      <4> QED
        BY <2>1, <4>1
    <3>3. Believed(client, believes, toClient', i)
      <4>1. Believed(client, believes, toClient', Len(toClient))
        BY <1>1, <1>2, <1>5, <2>4
      <4>2. \A k \in DOMAIN toClient' : k <= i => k <= Len(toClient) \/ k = i
        BY <1>1
      <4>3. ~Denies(client, toClient'[i])
        BY <2>1, <2>4, <3>1 DEF Hiding
      <4>4. \A k \in DOMAIN toClient' : k <= Len(toClient) => k <= i
        BY <1>1
      <4>5. \A k \in DOMAIN toClient' : k \in Nat
        BY <1>1
      <4> HIDE DEF i
      <4>6. CASE believes /\ \A k \in DOMAIN toClient' :
                     k <= Len(toClient) => ~Denies(client, toClient'[k])
        <5>1. \A k \in DOMAIN toClient' : k <= i => ~Denies(client, toClient'[k])
          BY <1>1, <4>2, <4>3, <4>5, <4>6
        <5> QED
          BY <4>6, <5>1 DEF Believed
      <4>7. ASSUME NEW k \in DOMAIN toClient', k <= Len(toClient), Grants(client, toClient'[k]),
                   \A l \in DOMAIN toClient' :
                       k < l /\ l <= Len(toClient) => ~Denies(client, toClient'[l])
            PROVE  Believed(client, believes, toClient', i)
        <5>1. \A l \in DOMAIN toClient' : k < l /\ l <= i => ~Denies(client, toClient'[l])
          BY <1>1, <4>2, <4>3, <4>5, <4>7
        <5> QED
          BY <4>4, <4>7, <5>1 DEF Believed
      <4> QED
        BY <4>1, <4>6, <4>7 DEF Believed
    <3> QED
      BY <2>4, <3>1, <3>2, <3>3 DEF WillShow
  <2> QED
    BY <2>2, <2>3, <2>4 DEF Tells
<1> QED
  BY <1>3, <1>7, <1>8

-----------------------------------------------------------------------------
(* The registry under the client.                                          *)

\* Every step is one of the registry's handlers, for other priorities than those
\* of RegistrySpec too, or leaves the registry alone, or restarts the daemon.
LEMMA RegistrySteps ==
    ASSUME [FailoverNext]_failoverVars
    PROVE  \/ [RegistryNext]_registryVars
           \/ \E s \in Sockets : HandleUIRegister(s, FallbackPriority)
           \/ DaemonRestarts
<1> USE RivalsAssumption DEF UiSockets
<1>1. ASSUME NEW s \in UiSockets, DaemonReceives(s)
      PROVE  \/ [RegistryNext]_registryVars
             \/ \E t \in Sockets : HandleUIRegister(t, FallbackPriority)
  BY <1>1 DEF DaemonReceives, ReceiveRegister, ReceiveSubscribe, ReceiveHeartbeat, ReceiveRespond,
              RegistryNext
<1>2. ASSUME NEW s \in UiSockets, DaemonSeesHangup(s) \/ Connected(s)
      PROVE  RegistryNext
  BY <1>2 DEF DaemonSeesHangup, Connected, RegistryNext
<1>3. ASSUME NEW r \in Rivals, RivalActs(r)
      PROVE  RegistryNext
  BY <1>3 DEF RivalActs, RegistryNext
<1>4. CASE Maintenance \/ TimePasses \/ CloseSession \/ OnSessionComplete
  BY <1>4 DEF Maintenance, TimePasses, CloseSession, OnSessionComplete, RegistryNext
<1>5. CASE \/ OpenSession \/ ClientDies \/ ClientReads \/ Watchdog \/ Heartbeat \/ Responds
           \/ UNCHANGED failoverVars
  BY <1>5 DEF OpenSession, ClientDies, ClientReads, Watchdog, Heartbeat, Responds, failoverVars
<1> QED
  BY <1>1, <1>2, <1>3, <1>4, <1>5 DEF FailoverNext

LEMMA RegistryInvKept ==
    ASSUME RegistryInv, [FailoverNext]_failoverVars
    PROVE  RegistryInv'
<1>1. CASE DaemonRestarts
  <2>1. /\ connected' = {} /\ subscribers' = {} /\ active' = NoSocket /\ sinceMaintenance' = 0
        /\ providers' = [s \in {} |-> [priority |-> 0, idle |-> 0]]
        /\ toldActive' = [s \in Sockets |-> FALSE]
    BY <1>1 DEF DaemonRestarts
  <2> QED
    BY <2>1, TimesAssumption
       DEF RegistryInv, RegistryTypeOK, ElectionIsTotal, ActiveIsBest, HasActiveProvider,
           ToldTheTruth, SilenceIsBounded
<1> QED
  BY <1>1, RegistrySteps, NextInv, RegisterKeepsInv, FallbackAssumption

\* What steps that are not its own leave a client: its connection, its
\* subscription, and an entry of which a heartbeat was just heard.
Stays(c) ==
    /\ c \in connected'
    /\ c \in subscribers' <=> c \in subscribers
    /\ c \notin DOMAIN providers => c \notin DOMAIN providers'
    /\ c \in DOMAIN providers /\ providers[c].idle = 0 =>
           c \in DOMAIN providers' /\ providers'[c].idle = 0

LEMMA ElectionStays ==
    ASSUME NEW reg, NEW conn, DOMAIN reg \subseteq Sockets, RecomputeActiveProvider(reg, conn),
           NEW c \in conn,
           c \in DOMAIN reg <=> c \in DOMAIN providers,
           c \in DOMAIN providers /\ providers[c].idle = 0 => reg[c].idle = 0
    PROVE  /\ c \notin DOMAIN providers => c \notin DOMAIN providers'
           /\ c \in DOMAIN providers /\ providers[c].idle = 0 =>
                  c \in DOMAIN providers' /\ providers'[c].idle = 0
<1>1. /\ DOMAIN providers' = Live(reg, conn)
      /\ \A s \in DOMAIN providers' : providers'[s] = reg[s]
  BY ElectionFacts
<1>2. c \in DOMAIN reg /\ reg[c].idle = 0 => c \in DOMAIN providers'
  BY <1>1, TimesAssumption DEF Live
<1>3. DOMAIN providers' \subseteq DOMAIN reg
  BY <1>1 DEF Live
<1> QED
  BY <1>1, <1>2, <1>3

LEMMA OthersStay ==
    ASSUME RegistryInv, NEW c \in connected,
           \/ \E s \in Sockets \ {c} :
                 \/ OnNewConnection(s) \/ OnClientDisconnected(s) \/ HandleSubscribe(s)
                 \/ HandleUIHeartbeat(s) \/ HandleUIUnregister(s)
                 \/ \E p \in Int : HandleUIRegister(s, p)
           \/ HandleUIHeartbeat(c)
           \/ PruneStaleProviders \/ RecomputeOnEmptyStore
           \/ UNCHANGED registryVars
    PROVE  Stays(c)
<1>0. connected \subseteq Sockets /\ DOMAIN providers \subseteq Sockets /\ c \in Sockets
  BY DEF RegistryInv, RegistryTypeOK
<1>1. ASSUME NEW s \in Sockets \ {c}, OnNewConnection(s) \/ HandleSubscribe(s)
      PROVE  Stays(c)
  BY <1>1 DEF OnNewConnection, HandleSubscribe, Stays
<1>2. ASSUME NEW s \in Sockets \ {c}, OnClientDisconnected(s)
      PROVE  Stays(c)
  <2>1. c \in connected' /\ (c \in subscribers' <=> c \in subscribers)
    BY <1>2 DEF OnClientDisconnected
  <2>2. CASE s \in DOMAIN providers
    <3> DEFINE reg == [t \in DOMAIN providers \ {s} |-> providers[t]]
    <3>1. RecomputeActiveProvider(reg, connected')
      BY <1>2, <2>2 DEF OnClientDisconnected
    <3>2. /\ DOMAIN reg \subseteq Sockets /\ (c \in DOMAIN reg <=> c \in DOMAIN providers)
          /\ c \in DOMAIN providers => reg[c] = providers[c]
      BY <1>0, <1>2
    <3> HIDE DEF reg
    <3> QED
      BY <2>1, <3>1, <3>2, ElectionStays DEF Stays
  <2>3. CASE s \notin DOMAIN providers
    BY <1>2, <2>1, <2>3 DEF OnClientDisconnected, Stays
  <2> QED
    BY <2>2, <2>3
<1>3. ASSUME NEW s \in Sockets, HandleUIHeartbeat(s)
      PROVE  Stays(c)
  <2> DEFINE reg == [providers EXCEPT ![s].idle = 0]
  <2>1. RecomputeActiveProvider(reg, connected)
    BY <1>3 DEF HandleUIHeartbeat
  <2>2. /\ DOMAIN reg \subseteq Sockets /\ (c \in DOMAIN reg <=> c \in DOMAIN providers)
    BY <1>0, <1>3
  <2>3. c \in DOMAIN providers /\ providers[c].idle = 0 => reg[c].idle = 0
    <3>1. CASE c = s
      BY <1>3, <3>1 DEF RegistryInv, RegistryTypeOK, Provider, HandleUIHeartbeat
    <3>2. CASE c # s
      BY <3>2
    <3> QED
      BY <3>1, <3>2
  <2> HIDE DEF reg
  <2>4. UNCHANGED <<connected, subscribers>>
    BY <1>3 DEF HandleUIHeartbeat
  <2> QED
    BY <2>1, <2>2, <2>3, <2>4, ElectionStays DEF Stays
<1>4. ASSUME NEW s \in Sockets \ {c}, HandleUIUnregister(s)
      PROVE  Stays(c)
  <2> DEFINE reg == [t \in DOMAIN providers \ {s} |-> providers[t]]
  <2>1. RecomputeActiveProvider(reg, connected) /\ UNCHANGED <<connected, subscribers>>
    BY <1>4 DEF HandleUIUnregister
  <2>2. /\ DOMAIN reg \subseteq Sockets /\ (c \in DOMAIN reg <=> c \in DOMAIN providers)
        /\ c \in DOMAIN providers => reg[c] = providers[c]
    BY <1>0, <1>4
  <2> HIDE DEF reg
  <2> QED
    BY <2>1, <2>2, ElectionStays DEF Stays
<1>5. ASSUME NEW s \in Sockets \ {c}, NEW p \in Int, HandleUIRegister(s, p)
      PROVE  Stays(c)
  <2> DEFINE reg == [t \in DOMAIN providers \cup {s} |->
                        IF t = s THEN [priority |-> p, idle |-> 0] ELSE providers[t]]
  <2>1. RecomputeActiveProvider(reg, connected) /\ UNCHANGED <<connected, subscribers>>
    BY <1>5 DEF HandleUIRegister
  <2>2. /\ DOMAIN reg \subseteq Sockets /\ (c \in DOMAIN reg <=> c \in DOMAIN providers)
        /\ c \in DOMAIN providers => reg[c] = providers[c]
    BY <1>0, <1>5
  <2> HIDE DEF reg
  <2> QED
    BY <2>1, <2>2, ElectionStays DEF Stays
<1>6. CASE PruneStaleProviders \/ RecomputeOnEmptyStore
  <2>1. RecomputeActiveProvider(providers, connected) /\ UNCHANGED <<connected, subscribers>>
    BY <1>6 DEF PruneStaleProviders, RecomputeOnEmptyStore
  <2> QED
    BY <1>0, <2>1, ElectionStays DEF Stays
<1>7. CASE UNCHANGED registryVars
  BY <1>7 DEF registryVars, Stays
<1> QED
  BY <1>0, <1>1, <1>2, <1>3, <1>4, <1>5, <1>6, <1>7

-----------------------------------------------------------------------------
(* Types.                                                                  *)

LEMMA MessageTypes ==
    /\ \A t \in {"ui.registered", "subscribed", "ui.active", "error", "session.created",
                 "session.closed"}, who \in Sockets \cup {NoSocket, Absent} :
          /\ Message(t, who) \in Msg
          /\ Message(t, who).type = t /\ Message(t, who).who = who
    /\ \A m \in Msg : <<m>> \in Seq(Msg) /\ DOMAIN <<m>> = {1} /\ <<m>>[1] = m
    /\ <<>> \in Seq(Msg) /\ DOMAIN <<>> = {}
<1>1. \A t \in {"ui.registered", "subscribed", "ui.active", "error", "session.created",
                "session.closed"}, who \in Sockets \cup {NoSocket, Absent} :
          /\ Message(t, who) \in Msg
          /\ Message(t, who).type = t /\ Message(t, who).who = who
  BY DEF Message, Msg
<1>2. \A m \in Msg : <<m>> \in Seq(Msg) /\ DOMAIN <<m>> = {1} /\ <<m>>[1] = m
  OBVIOUS
<1>3. <<>> \in Seq(Msg) /\ DOMAIN <<>> = {}
  OBVIOUS
<1> QED
  BY <1>1, <1>2, <1>3

\* The parts a step's messages are put together from.
LEMMA PartTypes ==
    ASSUME RegistryInv'
    PROVE  /\ active' \in Sockets \cup {NoSocket}
           /\ \A emitted \in BOOLEAN : Status(emitted) \in Seq(Msg)
           /\ StatusIfChanged \in Seq(Msg)
           /\ \A a, subs : /\ SessionEvent("session.created", a, subs) \in Seq(Msg)
                           /\ SessionEvent("session.closed", a, subs) \in Seq(Msg)
           /\ \A s \in Sockets, t \in {"ui.registered", "subscribed", "error"} :
                 /\ ToClient(s, <<Message(t, Flag(s))>>) \in Seq(Msg)
                 /\ ToClient(s, <<Message(t, Absent)>>) \in Seq(Msg)
                 /\ Message(t, Flag(s)) \in Msg
<1>1. active' \in Sockets \cup {NoSocket}
  BY DEF RegistryInv, RegistryTypeOK
<1>2. /\ Message("ui.active", active') \in Msg
      /\ Message("session.created", Absent) \in Msg /\ Message("session.closed", Absent) \in Msg
      /\ \A s \in Sockets, t \in {"ui.registered", "subscribed", "error"} :
             Message(t, Flag(s)) \in Msg /\ Message(t, Absent) \in Msg
  BY <1>1, MessageTypes DEF Flag
<1>3. \A emitted \in BOOLEAN : Status(emitted) \in Seq(Msg)
  BY <1>2, MessageTypes DEF Status
<1>4. StatusIfChanged \in Seq(Msg)
  BY <1>2, MessageTypes DEF StatusIfChanged, Status
<1>5. \A a, subs : /\ SessionEvent("session.created", a, subs) \in Seq(Msg)
                   /\ SessionEvent("session.closed", a, subs) \in Seq(Msg)
  BY <1>2, MessageTypes DEF SessionEvent
<1>6. \A s \in Sockets, t \in {"ui.registered", "subscribed", "error"} :
          /\ ToClient(s, <<Message(t, Flag(s))>>) \in Seq(Msg)
          /\ ToClient(s, <<Message(t, Absent)>>) \in Seq(Msg)
  BY <1>2, MessageTypes DEF ToClient
<1> QED
  BY <1>1, <1>2, <1>3, <1>4, <1>5, <1>6

LEMMA ConcatTypes ==
    /\ \A a, b \in Seq(Msg) : a \o b \in Seq(Msg)
    /\ \A a, b \in Seq(Request) : a \o b \in Seq(Request)
    /\ \A a \in Seq(Msg) : a # <<>> => Tail(a) \in Seq(Msg) /\ Head(a) \in Msg
    /\ \A a \in Seq(Request) : a # <<>> => Tail(a) \in Seq(Request) /\ Head(a) \in Request
OBVIOUS

LEMMA SendTypes ==
    ASSUME toDaemon \in [UiSockets -> Seq(Request)], NEW s, NEW requests \in Seq(Request)
    PROVE  [toDaemon EXCEPT ![s] = @ \o requests] \in [UiSockets -> Seq(Request)]
<1>1. \A t \in UiSockets : toDaemon[t] \o requests \in Seq(Request)
  BY ConcatTypes
<1> QED
  BY <1>1

\* What the daemon answers, in the steps in which it reads a message.
LEMMA AnswerTypes ==
    ASSUME ChannelsOK, RegistryInv', NEW s \in UiSockets, DaemonReceives(s)
    PROVE  \E es \in Seq(Msg) : toClient' = toClient \o es
<1>0. /\ s \in Sockets
      /\ toClient = toClient \o <<>> /\ <<>> \in Seq(Msg)
  BY DEF UiSockets, ChannelsOK
<1>1. CASE ReceiveRegister(s)
  <2>1. /\ ToClient(s, <<Message("ui.registered", Flag(s))>>) \in Seq(Msg)
        /\ Status(active' # active \/ active' = s) \in Seq(Msg)
    BY <1>0, PartTypes
  <2> QED
    BY <1>1, <2>1, ConcatTypes DEF ReceiveRegister, Answer
<1>2. CASE ReceiveSubscribe(s)
  <2>1. /\ Message("subscribed", IF s \in DOMAIN providers THEN Flag(s) ELSE Absent) \in Msg
        /\ Message("session.created", Absent) \in Msg
    BY <1>0, PartTypes, MessageTypes
  <2> DEFINE reply == Message("subscribed", IF s \in DOMAIN providers THEN Flag(s) ELSE Absent)
             replay == IF open /\ (s \in DOMAIN providers => s = active)
                       THEN <<Message("session.created", Absent)>> ELSE <<>>
  <2>2. replay \in Seq(Msg)
    BY <2>1, MessageTypes
  <2>3. Append(replay, reply) \in Seq(Msg)
    BY <2>1, <2>2
  <2>4. ToClient(s, Append(replay, reply)) \in Seq(Msg)
    BY <2>3, MessageTypes DEF ToClient
  <2>5. toClient' = toClient \o ToClient(s, Append(replay, reply))
    BY <1>2 DEF ReceiveSubscribe, Answer
  <2> QED
    BY <2>4, <2>5
<1>3. CASE ReceiveHeartbeat(s)
  <2>1. toClient' = toClient \o StatusIfChanged \/ toClient' = toClient
    BY <1>3 DEF ReceiveHeartbeat, Answer
  <2>2. StatusIfChanged \in Seq(Msg)
    BY PartTypes
  <2> QED
    BY <1>0, <2>1, <2>2
<1>4. CASE ReceiveRespond(s)
  <2>1. ToClient(s, <<Message("error", Absent)>>) \in Seq(Msg)
    BY <1>0, PartTypes
  <2> QED
    BY <1>0, <1>4, <2>1 DEF ReceiveRespond, Answer
<1> QED
  BY <1>1, <1>2, <1>3, <1>4 DEF DaemonReceives
LEMMA ChannelsKept ==
    ASSUME ChannelsOK, RegistryInv', [FailoverNext]_failoverVars
    PROVE  ChannelsOK'
<1>0. /\ client \in UiSockets \cup {NoSocket} /\ toDaemon \in [UiSockets -> Seq(Request)]
      /\ toClient \in Seq(Msg) /\ <<>> \in Seq(Request) /\ <<>> \in Seq(Msg)
  BY DEF ChannelsOK
<1>1. ASSUME NEW s \in UiSockets, DaemonReceives(s)
      PROVE  ChannelsOK'
  <2>1. toDaemon' = [toDaemon EXCEPT ![s] = Tail(@)] /\ toDaemon[s] # <<>> /\ client' = client
    BY <1>1 DEF DaemonReceives, clientVars
  <2>2. toDaemon' \in [UiSockets -> Seq(Request)]
    BY <1>0, <2>1, ConcatTypes
  <2>3. toClient' \in Seq(Msg)
    BY <1>0, <1>1, AnswerTypes, ConcatTypes
  <2> QED
    BY <1>0, <2>1, <2>2, <2>3 DEF ChannelsOK
<1>2. ASSUME NEW s \in UiSockets, DaemonSeesHangup(s)
      PROVE  ChannelsOK'
  <2>1. toDaemon' = [toDaemon EXCEPT ![s] = <<>>] /\ toClient' = toClient \o StatusIfChanged
        /\ client' = client
    BY <1>2 DEF DaemonSeesHangup, Answer, clientVars
  <2>2. StatusIfChanged \in Seq(Msg)
    BY PartTypes
  <2> QED
    BY <1>0, <2>1, <2>2, ConcatTypes DEF ChannelsOK
<1>3. ASSUME NEW s \in UiSockets, Connected(s)
      PROVE  ChannelsOK'
  <2>1. /\ toDaemon' = [toDaemon EXCEPT ![s] = @ \o <<"ui.register", "subscribe">>]
        /\ toClient' = toClient /\ client' = s
    BY <1>3 DEF Connected, Send
  <2>2. <<"ui.register", "subscribe">> \in Seq(Request)
    BY DEF Request
  <2> QED
    BY <1>0, <2>1, <2>2, ConcatTypes DEF ChannelsOK
<1>4. ASSUME NEW r \in Rivals, RivalActs(r)
      PROVE  ChannelsOK'
  <2>1. /\ UNCHANGED <<toDaemon, client>>
        /\ \E emitted \in BOOLEAN : toClient' = toClient \o Status(emitted)
    BY <1>4 DEF RivalActs, Deliver, Answer, StatusIfChanged, clientVars
  <2> QED
    BY <1>0, <2>1, PartTypes, ConcatTypes DEF ChannelsOK
<1>5. CASE Maintenance \/ TimePasses
  <2>1. /\ UNCHANGED <<toDaemon, client>>
        /\ toClient' = toClient \o StatusIfChanged \/ toClient' = toClient
    BY <1>5 DEF Maintenance, TimePasses, Deliver, Answer, clientVars
  <2> QED
    BY <1>0, <2>1, PartTypes, ConcatTypes DEF ChannelsOK
<1>6. CASE OpenSession
  BY <1>0, <1>6, PartTypes, ConcatTypes DEF OpenSession, Deliver, Answer, clientVars, ChannelsOK
<1>7. CASE CloseSession
  BY <1>0, <1>7, PartTypes, ConcatTypes DEF CloseSession, Deliver, Answer, clientVars, ChannelsOK
<1>8. CASE OnSessionComplete
  BY <1>0, <1>8, PartTypes, ConcatTypes
     DEF OnSessionComplete, Deliver, Answer, clientVars, ChannelsOK
<1>9. CASE ClientDies \/ DaemonRestarts
  BY <1>0, <1>9 DEF ClientDies, DaemonRestarts, ChannelsOK
<1>10. CASE ClientReads
  <2>1. /\ client' = client /\ toClient' = Tail(toClient) /\ toClient # <<>>
        /\ toDaemon' \in {toDaemon, [toDaemon EXCEPT ![client] = @ \o <<"subscribe">>]}
    BY <1>10 DEF ClientReads, HandleMessage, SetProviderActive, Send
  <2>2. <<"subscribe">> \in Seq(Request)
    BY DEF Request
  <2>3. \A requests \in Seq(Request) :
            [toDaemon EXCEPT ![client] = @ \o requests] \in [UiSockets -> Seq(Request)]
    BY <1>0, SendTypes
  <2>4. toClient' \in Seq(Msg)
    BY <1>0, <2>1, ConcatTypes
  <2>5. toDaemon' \in [UiSockets -> Seq(Request)]
    BY <1>0, <2>1, <2>2, <2>3
  <2> QED
    BY <1>0, <2>1, <2>4, <2>5 DEF ChannelsOK
<1>11. CASE Watchdog \/ Heartbeat \/ Responds
  <2>1. /\ UNCHANGED <<client, toClient>>
        /\ \E requests \in Seq(Request) :
               toDaemon' = [toDaemon EXCEPT ![client] = @ \o requests]
    <3>1. <<"ui.register">> \in Seq(Request) /\ <<"subscribe">> \in Seq(Request)
          /\ <<"ui.heartbeat">> \in Seq(Request) /\ <<"session.respond">> \in Seq(Request)
      BY DEF Request
    <3>2. (IF registered THEN <<>> ELSE <<"ui.register">>)
              \o (IF subscribed THEN <<>> ELSE <<"subscribe">>) \in Seq(Request)
      BY <1>0, <3>1, ConcatTypes
    <3> QED
      BY <1>11, <3>1, <3>2 DEF Watchdog, Heartbeat, Responds, SendLater, Send, clientVars
  <2>3. \A requests \in Seq(Request) :
            [toDaemon EXCEPT ![client] = @ \o requests] \in [UiSockets -> Seq(Request)]
    BY <1>0, SendTypes
  <2>4. toDaemon' \in [UiSockets -> Seq(Request)]
    BY <2>1, <2>3
  <2> QED
    BY <1>0, <2>1, <2>4 DEF ChannelsOK
<1>12. CASE UNCHANGED failoverVars
  BY <1>0, <1>12 DEF failoverVars, clientVars, ChannelsOK
<1> QED
  BY <1>1, <1>2, <1>3, <1>4, <1>5, <1>6, <1>7, <1>8, <1>9, <1>10, <1>11, <1>12 DEF FailoverNext

LEMMA FlagsKept ==
    ASSUME FlagsOK, [FailoverNext]_failoverVars
    PROVE  FlagsOK'
<1>1. ASSUME NEW isActive, NEW isRegistered, isActive \in BOOLEAN,
             SetProviderActive(isActive, isRegistered)
      PROVE  believes' \in BOOLEAN /\ shown' \in BOOLEAN
  BY <1>1, Zenon DEF SetProviderActive
<1>2. CASE ClientReads
  <2>1. \A m : (m.who = client) \in BOOLEAN /\ (m.who \in {client, NoSocket}) \in BOOLEAN
               /\ (m.type = "session.created") \in BOOLEAN
    OBVIOUS
  <2> QED
    BY <1>1, <1>2, <2>1, Zenon DEF ClientReads, HandleMessage, FlagsOK
<1>3. ASSUME NEW s \in UiSockets, DaemonReceives(s) \/ DaemonSeesHangup(s) \/ Connected(s)
      PROVE  FlagsOK'
  BY <1>3, Zenon DEF DaemonReceives, DaemonSeesHangup, Connected, clientVars, FlagsOK
<1>4. ASSUME NEW r \in Rivals, RivalActs(r)
      PROVE  FlagsOK'
  BY <1>4, Zenon DEF RivalActs, clientVars, FlagsOK
<1>5. CASE Maintenance \/ TimePasses \/ OpenSession \/ CloseSession \/ OnSessionComplete
  BY <1>5, Zenon DEF Maintenance, TimePasses, OpenSession, CloseSession, OnSessionComplete,
                     clientVars, FlagsOK
<1>6. CASE ClientDies \/ DaemonRestarts
  BY <1>6, Zenon DEF ClientDies, DaemonRestarts, FlagsOK
<1>7. CASE Watchdog \/ Heartbeat \/ Responds \/ UNCHANGED failoverVars
  BY <1>7, Zenon DEF Watchdog, Heartbeat, Responds, failoverVars, clientVars, FlagsOK
<1> QED
  BY <1>2, <1>3, <1>4, <1>5, <1>6, <1>7 DEF FailoverNext

-----------------------------------------------------------------------------
(* The daemon's steps.                                                     *)

\* Client is told of session events when it may answer, and a connection that the
\* daemon does not know yet never is.
LEMMA HearsFacts ==
    ASSUME client \in Sockets \cup {NoSocket},
           NEW elected, NEW regs \in SUBSET Sockets, NEW subs \in SUBSET Sockets,
           elected \in regs \cup {NoSocket}, elected = NoSocket => regs = {}
    PROVE  /\ client \notin regs \cup subs => ~Hears(elected, subs)
           /\ client \in regs \cup subs /\ elected \in {client, NoSocket} =>
                  Hears(elected, subs)
BY NoSocketAssumption DEF Hears

\* isAuthorized, in terms of the active provider.
LEMMA AuthorityFacts ==
    ASSUME RegistryInv, client \in Sockets
    PROVE  IsAuthorized(client) <=> MayAnswer
BY NoSocketAssumption DEF RegistryInv, RegistryTypeOK, ElectionIsTotal, IsAuthorized, MayAnswer

\* The places in which the daemon can have a client.
LEMMA PlaceFacts ==
    ASSUME RegistryInv, FailoverTypeOK, ConnectionInv
    PROVE  /\ client = NoSocket \/ Fresh => /\ client \notin DOMAIN providers \cup subscribers
                                            /\ toClient = <<>> /\ ~registered
                                            /\ ~believes /\ ~shown /\ ~Known
           /\ client # NoSocket => /\ Fresh \/ Known
                                   /\ client \in connected /\ client \in Sockets
                                   /\ toDaemon[client] \in Seq(Request)
           /\ Known => client \in DOMAIN providers \cup subscribers
           /\ client \in Sockets \cup {NoSocket}
<1>1. client = NoSocket => client \notin DOMAIN providers \cup subscribers
  BY NoSocketAssumption DEF RegistryInv, RegistryTypeOK
<1>2. client = NoSocket \/ Fresh => /\ client \notin DOMAIN providers \cup subscribers
                                    /\ toClient = <<>> /\ ~registered
                                    /\ ~believes /\ ~shown
  BY <1>1 DEF ConnectionInv, Fresh
<1>3. client # NoSocket => /\ Fresh \/ Known
                           /\ client \in connected /\ client \in Sockets
                           /\ toDaemon[client] \in Seq(Request)
  BY DEF ConnectionInv, FailoverTypeOK, ChannelsOK, UiSockets
<1> QED
  BY <1>2, <1>3 DEF FailoverTypeOK, ChannelsOK, UiSockets, Known, Listed

\* What the step of another socket, or of the session, makes of the client's own
\* requests: nothing, or one is read that says nothing of its subscription.
KeepsRequests ==
    \/ toDaemon'[client] = toDaemon[client]
    \/ /\ toDaemon[client] # <<>> /\ Head(toDaemon[client]) # "subscribe"
       /\ client \in subscribers
       /\ toDaemon'[client] = Tail(toDaemon[client])

LEMMA DaemonKeeps ==
    ASSUME FailoverInv, RegistryInv', NEW es \in Seq(Msg), toClient' = toClient \o es,
           UNCHANGED <<client, registered, believes, shown>>,
           client = NoSocket \/ Fresh => es = <<>>,
           client # NoSocket /\ Fresh => Stays(client) /\ toDaemon'[client] = toDaemon[client],
           client # NoSocket /\ Known => Tells(es) /\ Listed'
    PROVE  (ConnectionInv /\ BeliefInv /\ ShownInv /\ ReplayInv)'
<1>1. RegistryInv /\ FailoverTypeOK /\ ConnectionInv /\ toClient \in Seq(Msg)
  BY DEF FailoverInv, FailoverTypeOK, ChannelsOK
<1>2. /\ believes' => registered'
      /\ shown' => believes'
  BY <1>1 DEF ConnectionInv
<1>3. CASE client = NoSocket \/ Fresh
  <2>1. /\ toClient' = <<>> /\ ~registered' /\ ~believes' /\ ~shown'
    BY <1>1, <1>3, PlaceFacts
  <2>2. ~Known'
    BY <2>1 DEF Known
  <2>3. client # NoSocket => client \in connected' /\ Fresh'
    <3> SUFFICES ASSUME client # NoSocket
                 PROVE  client \in connected' /\ Fresh'
      OBVIOUS
    <3>1. client \notin subscribers /\ client \notin DOMAIN providers
      BY <1>3 DEF Fresh
    <3>2. /\ client \in connected' /\ client \notin subscribers'
          /\ client \notin DOMAIN providers'
          /\ toDaemon'[client] = toDaemon[client]
      BY <1>3, <3>1 DEF Stays
    <3> QED
      BY <1>3, <2>1, <3>2 DEF Fresh
  <2>4. DOMAIN toClient' = {}
    BY <2>1
  <2> QED
    BY <1>2, <2>1, <2>2, <2>3, <2>4 DEF ConnectionInv, BeliefInv, ShownInv, ReplayInv
<1>4. CASE client # NoSocket /\ Known
  <2>1. (BeliefInv /\ ShownInv /\ ReplayInv)'
    BY <1>1, <1>4, TellingKeeps DEF FailoverInv
  <2>2. registered' \/ (toClient' # <<>> /\ Head(toClient').type = "ui.registered")
    <3>1. toClient # <<>> => toClient' # <<>> /\ Head(toClient') = Head(toClient)
      BY <1>1
    <3> QED
      BY <1>4, <3>1 DEF Known
  <2>3. Known'
    BY <1>4, <2>2 DEF Known
  <2>4. client' \in connected'
    BY <1>4 DEF Listed, RegistryInv, RegistryTypeOK
  <2> QED
    BY <1>2, <1>4, <2>1, <2>3, <2>4 DEF ConnectionInv
<1> QED
  BY <1>1, <1>3, <1>4, PlaceFacts

\* A known client that registers again keeps its place as a subscriber.
KeepsPlace == Stays(client) \/ client \in subscribers \cap subscribers'

\* ui.active, when it is sent, is heard by every client that the daemon knows.
LEMMA StatusFacts ==
    ASSUME FailoverInv, RegistryInv', client' = client, client # NoSocket => KeepsPlace,
           NEW emitted \in BOOLEAN
    PROVE  /\ Status(emitted) \in Seq(Msg)
           /\ client = NoSocket \/ Fresh => Status(emitted) = <<>>
           /\ client # NoSocket => \A k \in DOMAIN Status(emitted) :
                  /\ Status(emitted)[k].type = "ui.active" /\ Speaks(Status(emitted)[k])
                  /\ Grants(client, Status(emitted)[k]) <=> MayAnswer'
           /\ client # NoSocket /\ Known /\ emitted => 1 \in DOMAIN Status(emitted)
<1>1. RegistryInv /\ FailoverTypeOK /\ ConnectionInv
  BY DEF FailoverInv
<1>2. active' \in Sockets \cup {NoSocket} /\ NoSocket \notin Audience
  BY NoSocketAssumption DEF RegistryInv, RegistryTypeOK, Audience
<1>3. /\ client = NoSocket \/ Fresh => client \notin Audience
      /\ client # NoSocket /\ Known => client \in Audience
  BY <1>1, <1>2, PlaceFacts DEF Audience, KeepsPlace, Stays, Known, Listed
<1> DEFINE m == Message("ui.active", active')
<1>5. /\ m \in Msg /\ m.type = "ui.active" /\ m.who = active'
      /\ <<m>> \in Seq(Msg) /\ DOMAIN <<m>> = {1} /\ <<m>>[1] = m
  BY <1>2, MessageTypes
<1>6. Speaks(m) /\ (Grants(client, m) <=> MayAnswer')
  BY <1>5 DEF Speaks, Grants, MayAnswer
<1>7. Status(emitted) = IF emitted /\ client \in Audience THEN <<m>> ELSE <<>>
  BY DEF Status
<1> HIDE DEF m
<1>8. CASE emitted /\ client \in Audience
  BY <1>3, <1>5, <1>6, <1>7, <1>8
<1>9. CASE ~(emitted /\ client \in Audience)
  BY <1>3, <1>7, <1>9, MessageTypes
<1> QED
  BY <1>8, <1>9

\* A request other than its subscription is read.
LEMMA SubscriptionStays ==
    ASSUME toDaemon[client] \in Seq(Request), client' = client,
           toDaemon[client] # <<>>, Head(toDaemon[client]) # "subscribe",
           toDaemon'[client] = Tail(toDaemon[client])
    PROVE  WillSubscribe => WillSubscribe'
<1> SUFFICES ASSUME NEW i \in DOMAIN toDaemon[client], toDaemon[client][i] = "subscribe"
             PROVE  \E j \in DOMAIN toDaemon'[client] : toDaemon'[client][j] = "subscribe"
  BY DEF WillSubscribe
<1> DEFINE q == toDaemon[client]
<1>1. /\ q \in Seq(Request) /\ q # <<>> /\ i \in DOMAIN q /\ q[i] = "subscribe"
      /\ Head(q) # "subscribe"
  OBVIOUS
<1> HIDE DEF q
<1>2. i - 1 \in DOMAIN Tail(q) /\ Tail(q)[i - 1] = "subscribe"
  BY <1>1
<1> QED
  BY <1>2 DEF q

\* A step after which the client is told the status, if it changed.
LEMMA StatusKeeps ==
    ASSUME FailoverInv, RegistryInv', UNCHANGED <<client, registered, believes, shown, open>>,
           client # NoSocket => Stays(client) /\ KeepsRequests,
           NEW emitted \in BOOLEAN, active' # active => emitted,
           toClient' = toClient \o Status(emitted)
    PROVE  (ConnectionInv /\ BeliefInv /\ ShownInv /\ ReplayInv)'
<1> DEFINE es == Status(emitted)
<1>1. /\ es \in Seq(Msg)
      /\ client = NoSocket \/ Fresh => es = <<>>
      /\ client # NoSocket => \A k \in DOMAIN es :
             /\ es[k].type = "ui.active" /\ Speaks(es[k])
             /\ Grants(client, es[k]) <=> MayAnswer'
      /\ client # NoSocket /\ Known /\ emitted => 1 \in DOMAIN es
  BY StatusFacts DEF KeepsPlace
<1>2. toClient' = toClient \o es
  OBVIOUS
<1> HIDE DEF es
<1>3. ASSUME client # NoSocket, Known
      PROVE  Tells(es)
  <2>1. (MayAnswer' <=> MayAnswer) \/ \E k \in DOMAIN es : Speaks(es[k])
    BY <1>1, <1>3 DEF MayAnswer
  <2>2. open' => open /\ (WillSubscribe => WillSubscribe')
    <3>1. KeepsRequests /\ toDaemon[client] \in Seq(Request)
      BY <1>3, PlaceFacts DEF FailoverInv
    <3> QED
      BY <3>1, SubscriptionStays DEF KeepsRequests, WillSubscribe
  <2> QED
    BY <1>1, <1>2, <1>3, <2>1, <2>2 DEF Tells
<1>4. ASSUME client # NoSocket, Known
      PROVE  Listed'
  BY <1>4 DEF Known, Listed, Stays, KeepsRequests
<1>5. ASSUME client # NoSocket, Fresh
      PROVE  toDaemon'[client] = toDaemon[client]
  BY <1>5 DEF Fresh, KeepsRequests
<1> QED
  BY <1>1, <1>2, <1>3, <1>4, <1>5, DaemonKeeps

\* What comes from other connections, from other providers and from the timer.
LEMMA StatusSteps ==
    ASSUME FailoverInv, RegistryInv',
           \/ \E s \in UiSockets \ {client} : DaemonReceives(s) \/ DaemonSeesHangup(s)
           \/ \E r \in Rivals : RivalActs(r)
           \/ Maintenance
    PROVE  (ConnectionInv /\ BeliefInv /\ ShownInv /\ ReplayInv)'
<1>0. /\ RegistryInv /\ FailoverTypeOK /\ ConnectionInv /\ toClient = toClient \o <<>>
      /\ toDaemon \in [UiSockets -> Seq(Request)] /\ FALSE \in BOOLEAN
      /\ <<>> \in Seq(Msg)
  BY DEF FailoverInv, FailoverTypeOK, ChannelsOK
<1>1. /\ client # NoSocket => /\ client \in connected /\ client \in UiSockets
                              /\ client \in Sockets /\ client \notin Rivals
      /\ UiSockets \subseteq Sockets /\ Rivals \subseteq Sockets
  BY <1>0, RivalsAssumption DEF ConnectionInv, FailoverTypeOK, ChannelsOK, UiSockets
<1>2. Status(FALSE) = <<>>
  BY DEF Status
<1>3. ASSUME NEW s \in UiSockets \ {client}, DaemonReceives(s)
      PROVE  (ConnectionInv /\ BeliefInv /\ ShownInv /\ ReplayInv)'
  <2>1. /\ UNCHANGED <<client, registered, believes, shown, open>>
        /\ client # NoSocket => toDaemon'[client] = toDaemon[client]
    BY <1>0, <1>1, <1>3 DEF DaemonReceives, clientVars
  <2>2. \A messages : ToClient(s, messages) = <<>>
    BY <1>3 DEF ToClient
  <2>3. CASE ReceiveRegister(s)
    <3> DEFINE emitted == active' # active \/ active' = s
    <3>1. /\ HandleUIRegister(s, FallbackPriority)
          /\ toClient' = toClient \o (<<>> \o Status(emitted))
      BY <2>2, <2>3 DEF ReceiveRegister, Answer
    <3>2. client # NoSocket => Stays(client)
      BY <1>0, <1>1, <1>3, <3>1, OthersStay, FallbackAssumption
    <3>3. emitted \in BOOLEAN /\ (active' # active => emitted)
      OBVIOUS
    <3> HIDE DEF emitted
    <3>4. Status(emitted) \in Seq(Msg)
      BY <3>3, PartTypes
    <3>5. toClient' = toClient \o Status(emitted)
      BY <3>1, <3>4
    <3> QED
      BY <2>1, <3>2, <3>3, <3>5, StatusKeeps DEF KeepsRequests
  <2>4. CASE ReceiveSubscribe(s)
    <3>1. HandleSubscribe(s) /\ toClient' = toClient \o Status(FALSE)
      BY <1>2, <2>2, <2>4 DEF ReceiveSubscribe, Answer
    <3>2. client # NoSocket => Stays(client)
      BY <1>0, <1>1, <1>3, <3>1, OthersStay
    <3>3. active' = active
      BY <3>1 DEF HandleSubscribe
    <3> QED
      BY <1>0, <2>1, <3>1, <3>2, <3>3, StatusKeeps DEF KeepsRequests
  <2>5. CASE ReceiveHeartbeat(s) /\ s \in DOMAIN providers
    <3> DEFINE emitted == active' # active
    <3>1. HandleUIHeartbeat(s) /\ toClient' = toClient \o Status(emitted)
      BY <2>5 DEF ReceiveHeartbeat, Answer, StatusIfChanged
    <3>2. client # NoSocket => Stays(client)
      BY <1>0, <1>1, <1>3, <3>1, OthersStay
    <3> QED
      BY <2>1, <3>1, <3>2, StatusKeeps DEF KeepsRequests
  <2>6. CASE ReceiveRespond(s) \/ (ReceiveHeartbeat(s) /\ s \notin DOMAIN providers)
    <3>1. UNCHANGED registryVars /\ toClient' = toClient \o Status(FALSE)
      BY <1>0, <1>2, <2>2, <2>6 DEF ReceiveRespond, ReceiveHeartbeat, Answer
    <3>2. client # NoSocket => Stays(client)
      BY <1>0, <1>1, <3>1, OthersStay
    <3>3. active' = active
      BY <3>1 DEF registryVars
    <3> QED
      BY <1>0, <2>1, <3>1, <3>2, <3>3, StatusKeeps DEF KeepsRequests
  <2> QED
    BY <1>3, <2>3, <2>4, <2>5, <2>6 DEF DaemonReceives
<1>4. ASSUME NEW s \in UiSockets \ {client}, DaemonSeesHangup(s)
      PROVE  (ConnectionInv /\ BeliefInv /\ ShownInv /\ ReplayInv)'
  <2> DEFINE emitted == active' # active
  <2>1. /\ UNCHANGED <<client, registered, believes, shown, open>>
        /\ client # NoSocket => toDaemon'[client] = toDaemon[client]
        /\ OnClientDisconnected(s) /\ toClient' = toClient \o Status(emitted)
    BY <1>0, <1>1, <1>4 DEF DaemonSeesHangup, Answer, StatusIfChanged, clientVars
  <2>2. client # NoSocket => Stays(client)
    BY <1>0, <1>1, <1>4, <2>1, OthersStay
  <2> QED
    BY <2>1, <2>2, StatusKeeps DEF KeepsRequests
<1>5. ASSUME NEW r \in Rivals, RivalActs(r)
      PROVE  (ConnectionInv /\ BeliefInv /\ ShownInv /\ ReplayInv)'
  <2>1. UNCHANGED <<client, registered, believes, shown, open, toDaemon>>
    BY <1>5 DEF RivalActs, clientVars
  <2>2. \E emitted \in BOOLEAN : /\ active' # active => emitted
                                 /\ toClient' = toClient \o Status(emitted)
    BY <1>5 DEF RivalActs, Deliver, Answer, StatusIfChanged
  <2>3. client # NoSocket => Stays(client)
    <3>1. \/ \E p \in Int : HandleUIRegister(r, p)
          \/ OnNewConnection(r) \/ HandleUIHeartbeat(r)
          \/ HandleUIUnregister(r) \/ OnClientDisconnected(r)
      BY <1>5, PrioritiesAssumption DEF RivalActs
    <3> QED
      BY <1>0, <1>1, <1>5, <3>1, OthersStay
  <2> QED
    BY <2>1, <2>2, <2>3, StatusKeeps DEF KeepsRequests
<1>6. CASE Maintenance
  <2> DEFINE emitted == active' # active
  <2>1. /\ UNCHANGED <<client, registered, believes, shown, open, toDaemon>>
        /\ PruneStaleProviders /\ toClient' = toClient \o Status(emitted)
    BY <1>6 DEF Maintenance, Deliver, Answer, StatusIfChanged, clientVars
  <2>2. client # NoSocket => Stays(client)
    BY <1>0, <1>1, <2>1, OthersStay
  <2> QED
    BY <2>1, <2>2, StatusKeeps DEF KeepsRequests
<1> QED
  BY <1>3, <1>4, <1>5, <1>6

LEMMA PairFacts ==
    ASSUME NEW m \in Msg, NEW a \in Msg, NEW rest \in {<<>>, <<a>>}
    PROVE  /\ <<m>> \o rest \in Seq(Msg) /\ <<m>> \o rest # <<>>
           /\ Head(<<m>> \o rest) = m /\ 1 \in DOMAIN (<<m>> \o rest) /\ (<<m>> \o rest)[1] = m
           /\ \A k \in DOMAIN (<<m>> \o rest) : (<<m>> \o rest)[k] \in {m, a}
<1>1. CASE rest = <<>>
  <2>1. <<m>> \o <<>> = <<m>>
    OBVIOUS
  <2> QED
    BY <1>1, <2>1
<1>2. CASE rest = <<a>>
  <2> DEFINE x == <<m>>
             y == <<a>>
             all == x \o y
  <2>1. /\ x \in Seq(Msg) /\ DOMAIN x = {1} /\ x[1] = m
        /\ y \in Seq(Msg) /\ DOMAIN y = {1} /\ y[1] = a
    OBVIOUS
  <2> HIDE DEF x, y
  <2>2. /\ all \in Seq(Msg)
        /\ \A k \in DOMAIN x : k \in DOMAIN all /\ all[k] = x[k]
        /\ \A k \in DOMAIN all :
               k \notin DOMAIN x => k - Len(x) \in DOMAIN y /\ all[k] = y[k - Len(x)]
    BY <2>1, AppendFacts
  <2> HIDE DEF all
  <2>3. 1 \in DOMAIN all /\ all[1] = m /\ \A k \in DOMAIN all : all[k] \in {m, a}
    BY <2>1, <2>2
  <2>4. all # <<>> /\ Head(all) = all[1]
    BY <2>2, <2>3
  <2> QED
    BY <1>2, <2>2, <2>3, <2>4 DEF all, x, y
<1> QED
  BY <1>1, <1>2

\* The answer to ui.register: a flag, and ui.active unless nothing changed.
RegisterAnswers ==
    <<Message("ui.registered", Flag(client))>> \o Status(active' # active \/ active' = client)

LEMMA RegisterAnswer ==
    ASSUME FailoverInv, RegistryInv', client # NoSocket, client' = client,
           ReceiveRegister(client)
    PROVE  /\ client \in DOMAIN providers' /\ providers'[client].idle = 0
           /\ UNCHANGED <<connected, subscribers>>
           /\ toClient' = toClient \o RegisterAnswers
           /\ RegisterAnswers \in Seq(Msg) /\ RegisterAnswers # <<>>
           /\ Head(RegisterAnswers).type = "ui.registered"
           /\ 1 \in DOMAIN RegisterAnswers
           /\ \A k \in DOMAIN RegisterAnswers :
                 /\ RegisterAnswers[k].type \in {"ui.registered", "ui.active"}
                 /\ Speaks(RegisterAnswers[k])
                 /\ Grants(client, RegisterAnswers[k]) <=> MayAnswer'
<1>0. /\ RegistryInv /\ client \in Sockets /\ client \in connected
      /\ DOMAIN providers \subseteq Sockets
  BY PlaceFacts DEF FailoverInv, RegistryInv, RegistryTypeOK
<1>1. /\ HandleUIRegister(client, FallbackPriority)
      /\ toClient' = toClient \o (<<Message("ui.registered", Flag(client))>>
                                      \o Status(active' # active \/ active' = client))
  BY DEF ReceiveRegister, Answer, ToClient
<1>2. client \in DOMAIN providers' /\ providers'[client].idle = 0
  <2> DEFINE reg == [t \in DOMAIN providers \cup {client} |->
                       IF t = client THEN [priority |-> FallbackPriority, idle |-> 0]
                                     ELSE providers[t]]
  <2>1. RecomputeActiveProvider(reg, connected)
    BY <1>1 DEF HandleUIRegister
  <2>2. DOMAIN reg \subseteq Sockets /\ client \in DOMAIN reg /\ reg[client].idle = 0
    BY <1>0
  <2> HIDE DEF reg
  <2>3. /\ DOMAIN providers' = Live(reg, connected)
        /\ \A t \in DOMAIN providers' : providers'[t] = reg[t]
    BY <2>1, <2>2, ElectionFacts
  <2>4. client \in Live(reg, connected)
    BY <1>0, <2>2, TimesAssumption DEF Live
  <2> QED
    BY <2>2, <2>3, <2>4
<1>3. UNCHANGED <<connected, subscribers>>
  BY <1>1 DEF HandleUIRegister
<1>4. active' \in DOMAIN providers' /\ active' # NoSocket
  BY <1>2, NoSocketAssumption DEF RegistryInv, RegistryTypeOK, ElectionIsTotal
<1>5. MayAnswer' <=> active' = client
  BY <1>4 DEF MayAnswer
<1> DEFINE emitted == active' # active \/ active' = client
           m == Message("ui.registered", Flag(client))
           es == RegisterAnswers
           a == Message("ui.active", active')
<1>6. /\ m \in Msg /\ m.type = "ui.registered" /\ m.who = Flag(client)
      /\ a \in Msg /\ a.type = "ui.active" /\ a.who = active'
      /\ Status(emitted) \in {<<>>, <<a>>}
  <2>1. Flag(client) \in Sockets \cup {NoSocket, Absent} /\ active' \in Sockets \cup {NoSocket, Absent}
    BY <1>0, PartTypes DEF Flag
  <2>2. Status(emitted) \in {<<>>, <<a>>}
    BY DEF Status
  <2> QED
    BY <2>1, <2>2, MessageTypes
<1>7. /\ Speaks(m) /\ (Grants(client, m) <=> MayAnswer')
      /\ Speaks(a) /\ (Grants(client, a) <=> MayAnswer')
  BY <1>0, <1>4, <1>5, <1>6, NoSocketAssumption DEF Speaks, Grants, Flag
<1>8. toClient' = toClient \o es
  BY <1>1, Zenon DEF RegisterAnswers
<1> HIDE DEF m, a
<1>9. /\ es \in Seq(Msg) /\ es # <<>> /\ Head(es) = es[1] /\ 1 \in DOMAIN es /\ es[1] = m
      /\ \A k \in DOMAIN es : es[k] \in {m, a}
  <2> DEFINE rest == Status(emitted)
  <2>1. m \in Msg /\ a \in Msg /\ rest \in {<<>>, <<a>>}
    BY <1>6
  <2> HIDE DEF rest
  <2>2. /\ <<m>> \o rest \in Seq(Msg) /\ <<m>> \o rest # <<>>
        /\ Head(<<m>> \o rest) = m /\ 1 \in DOMAIN (<<m>> \o rest) /\ (<<m>> \o rest)[1] = m
        /\ \A k \in DOMAIN (<<m>> \o rest) : (<<m>> \o rest)[k] \in {m, a}
    BY <2>1, PairFacts
  <2>3. es = <<m>> \o rest
    BY Zenon DEF RegisterAnswers, m, rest
  <2> HIDE DEF es
  <2> QED
    BY <2>2, <2>3
<1> HIDE DEF es
<1>10. \A k \in DOMAIN es : /\ es[k].type \in {"ui.registered", "ui.active"}
                            /\ Speaks(es[k])
                            /\ Grants(client, es[k]) <=> MayAnswer'
  BY <1>6, <1>7, <1>9
<1>11. Head(es).type = "ui.registered"
  BY <1>6, <1>9
<1> QED
  BY <1>2, <1>3, <1>8, <1>9, <1>10, <1>11 DEF es

\* The first message of a connection makes it known to the daemon.
LEMMA FirstRegister ==
    ASSUME FailoverInv, RegistryInv', client # NoSocket, Fresh, DaemonReceives(client)
    PROVE  (ConnectionInv /\ BeliefInv /\ ShownInv /\ ReplayInv)'
<1>0. /\ RegistryInv /\ FailoverTypeOK /\ ConnectionInv
      /\ client \in Sockets /\ client \in UiSockets /\ client \in connected
      /\ toDaemon \in [UiSockets -> Seq(Request)]
      /\ toClient = <<>> /\ ~registered /\ ~believes /\ ~shown
  BY PlaceFacts DEF FailoverInv, FailoverTypeOK, ChannelsOK
<1>1. /\ UNCHANGED <<client, registered, believes, shown, open>>
      /\ toDaemon'[client] = Tail(toDaemon[client])
      /\ Head(toDaemon[client]) = "ui.register"
      /\ ReceiveRegister(client)
  <2> DEFINE q == toDaemon[client]
  <2>1. q \in Seq(Request) /\ Len(q) >= 2 /\ q[1] = "ui.register"
    BY <1>0 DEF Fresh
  <2> HIDE DEF q
  <2>2. Head(q) = "ui.register"
    BY <2>1
  <2>3. /\ UNCHANGED <<client, registered, believes, shown, open>>
        /\ toDaemon'[client] = Tail(toDaemon[client])
    BY <1>0 DEF DaemonReceives, clientVars
  <2> QED
    BY <2>2, <2>3 DEF DaemonReceives, q
<1>2. /\ toDaemon'[client] # <<>> /\ Head(toDaemon'[client]) = "subscribe"
      /\ 1 \in DOMAIN toDaemon'[client] /\ toDaemon'[client][1] = "subscribe"
  <2> DEFINE q == toDaemon[client]
  <2>1. q \in Seq(Request) /\ Len(q) >= 2 /\ q[2] = "subscribe"
    BY <1>0 DEF Fresh
  <2> HIDE DEF q
  <2>2. Tail(q) \in Seq(Request) /\ Len(Tail(q)) >= 1 /\ Tail(q)[1] = "subscribe"
    BY <2>1
  <2> DEFINE t == Tail(q)
  <2> HIDE DEF t
  <2>3. t \in Seq(Request) /\ Len(t) >= 1 /\ t[1] = "subscribe"
    BY <2>2 DEF t
  <2>4. t # <<>> /\ Head(t) = "subscribe" /\ 1 \in DOMAIN t
    BY <2>3
  <2> QED
    BY <1>1, <2>3, <2>4 DEF q, t
<1> DEFINE es == RegisterAnswers
<1>3. /\ toClient' = toClient \o es
      /\ es \in Seq(Msg) /\ es # <<>> /\ Head(es).type = "ui.registered" /\ 1 \in DOMAIN es
      /\ \A k \in DOMAIN es : /\ es[k].type \in {"ui.registered", "ui.active"}
                              /\ Speaks(es[k])
                              /\ Grants(client, es[k]) <=> MayAnswer'
  BY <1>1, RegisterAnswer
<1>4. /\ client \in DOMAIN providers' /\ providers'[client].idle = 0
      /\ client \in connected'
  BY <1>0, <1>1, RegisterAnswer
<1> HIDE DEF es
<1>5. toClient' = es
  BY <1>0, <1>3
<1>6. Known'
  BY <1>1, <1>2, <1>3, <1>4, <1>5 DEF Known, Listed
<1>7. ConnectionInv'
  BY <1>0, <1>1, <1>4, <1>6 DEF ConnectionInv
<1>8. WillSubscribe'
  BY <1>1, <1>2 DEF WillSubscribe
<1>9. Tells(es)
  BY <1>1, <1>3, <1>8 DEF Tells
<1>10. Believed(client, believes, toClient', Len(toClient')) <=> MayAnswer'
  <2>1. toClient \in Seq(Msg)
    BY <1>0
  <2>2. \E k \in DOMAIN es : Speaks(es[k])
    BY <1>3
  <2> QED
    BY <1>0, <1>3, <1>9, <2>1, <2>2, TellingBelief
<1>11. BeliefInv'
  BY <1>1, <1>10 DEF BeliefInv
<1>12. ShownInv'
  BY <1>0, <1>1, <1>3, <1>5 DEF ShownInv, WillShow
<1>13. ReplayInv'
  BY <1>8 DEF ReplayInv, WillSubscribe
<1> QED
  BY <1>7, <1>11, <1>12, <1>13

LEMMA AppendOne ==
    ASSUME NEW msgs \in Seq(Msg), NEW m \in Msg
    PROVE  /\ Append(msgs, m) \in Seq(Msg) /\ Len(Append(msgs, m)) = Len(msgs) + 1
           /\ Append(msgs, m)[Len(msgs) + 1] = m
           /\ \A i \in 1..Len(msgs) : Append(msgs, m)[i] = msgs[i]
OBVIOUS

\* Everything else that the daemon reads from the client.
LEMMA OwnRequest ==
    ASSUME FailoverInv, RegistryInv', client # NoSocket, Known, DaemonReceives(client)
    PROVE  (ConnectionInv /\ BeliefInv /\ ShownInv /\ ReplayInv)'
<1>0. /\ RegistryInv /\ FailoverTypeOK /\ ConnectionInv /\ ~Fresh
      /\ client \in Sockets /\ client \in UiSockets /\ client \in connected
      /\ toDaemon \in [UiSockets -> Seq(Request)] /\ toClient = toClient \o <<>>
      /\ FALSE \in BOOLEAN /\ Status(FALSE) = <<>>
  BY PlaceFacts DEF FailoverInv, FailoverTypeOK, ChannelsOK, Status
<1>1. /\ UNCHANGED <<client, registered, believes, shown, open>>
      /\ toDaemon'[client] = Tail(toDaemon[client]) /\ toDaemon[client] # <<>>
  BY <1>0 DEF DaemonReceives, clientVars
<1>2. ASSUME Head(toDaemon[client]) # "subscribe"
      PROVE  client \in subscribers /\ KeepsRequests
  BY <1>1, <1>2 DEF Known, Listed, KeepsRequests
<1>3. CASE Head(toDaemon[client]) = "ui.heartbeat" /\ client \in DOMAIN providers
  <2> DEFINE emitted == active' # active
  <2>1. HandleUIHeartbeat(client) /\ toClient' = toClient \o Status(emitted)
    BY <1>3 DEF DaemonReceives, ReceiveHeartbeat, Answer, StatusIfChanged
  <2>2. Stays(client)
    BY <1>0, <2>1, OthersStay
  <2> QED
    BY <1>1, <1>2, <1>3, <2>1, <2>2, StatusKeeps
<1>4. CASE \/ Head(toDaemon[client]) = "ui.heartbeat" /\ client \notin DOMAIN providers
           \/ Head(toDaemon[client]) = "session.respond" /\ IsAuthorized(client)
  <2>1. UNCHANGED registryVars /\ toClient' = toClient \o Status(FALSE)
    BY <1>0, <1>4 DEF DaemonReceives, ReceiveHeartbeat, ReceiveRespond, Answer
  <2>2. Stays(client) /\ active' = active
    BY <1>0, <2>1, OthersStay DEF registryVars
  <2> QED
    BY <1>0, <1>1, <1>2, <1>4, <2>1, <2>2, StatusKeeps
<1>5. CASE Head(toDaemon[client]) = "session.respond" /\ ~IsAuthorized(client)
  <2> DEFINE m == Message("error", Absent)
             es == <<m>>
  <2>1. UNCHANGED registryVars /\ toClient' = toClient \o es
    BY <1>5 DEF DaemonReceives, ReceiveRespond, Answer, ToClient
  <2>2. ~MayAnswer /\ ~MayAnswer'
    BY <1>0, <1>1, <1>5, <2>1, AuthorityFacts DEF MayAnswer, registryVars
  <2>3. m \in Msg /\ m.type = "error"
    BY MessageTypes
  <2> HIDE DEF m
  <2>4. /\ es \in Seq(Msg) /\ DOMAIN es = {1} /\ es[1] = m
    BY <2>3, MessageTypes
  <2> HIDE DEF es
  <2>5. Speaks(m) /\ ~Grants(client, m)
    BY <2>3 DEF Speaks, Grants
  <2>6. Tells(es)
    BY <1>1, <2>1, <2>2, <2>3, <2>4, <2>5 DEF Tells
  <2>7. Listed'
    BY <1>1, <1>2, <1>5, <2>1 DEF Listed, registryVars
  <2> QED
    BY <1>0, <1>1, <2>1, <2>4, <2>6, <2>7, DaemonKeeps
<1>6. CASE Head(toDaemon[client]) = "ui.register"
  <2> DEFINE es == RegisterAnswers
  <2>1. /\ client \in DOMAIN providers' /\ providers'[client].idle = 0
        /\ UNCHANGED <<connected, subscribers>>
        /\ toClient' = toClient \o es
        /\ es \in Seq(Msg) /\ 1 \in DOMAIN es
        /\ \A k \in DOMAIN es : /\ es[k].type \in {"ui.registered", "ui.active"}
                                /\ Speaks(es[k])
                                /\ Grants(client, es[k]) <=> MayAnswer'
    BY <1>1, <1>6, RegisterAnswer DEF DaemonReceives
  <2> HIDE DEF es
  <2>2. WillSubscribe => WillSubscribe'
    BY <1>0, <1>1, <1>6, SubscriptionStays
  <2>3. Tells(es)
    BY <1>1, <2>1, <2>2 DEF Tells
  <2>4. Listed'
    BY <1>1, <1>2, <1>6, <2>1 DEF Listed
  <2> QED
    BY <1>0, <1>1, <2>1, <2>3, <2>4, DaemonKeeps
<1>7. CASE Head(toDaemon[client]) = "subscribe"
  <2> DEFINE isProvider == client \in DOMAIN providers
             m == Message("subscribed", IF isProvider THEN Flag(client) ELSE Absent)
             c == Message("session.created", Absent)
             replay == IF open /\ (isProvider => client = active) THEN <<c>> ELSE <<>>
             es == Append(replay, m)
  <2>1. HandleSubscribe(client) /\ toClient' = toClient \o es
    BY <1>7 DEF DaemonReceives, ReceiveSubscribe, Answer, ToClient
  <2>2. client \in subscribers' /\ active' = active /\ (MayAnswer' <=> MayAnswer)
    BY <1>1, <2>1 DEF HandleSubscribe, MayAnswer
  <2>3. /\ m \in Msg /\ m.type = "subscribed"
        /\ m.who = IF isProvider THEN Flag(client) ELSE Absent
        /\ c \in Msg /\ c.type = "session.created"
    BY <1>0, MessageTypes DEF Flag
  <2>4. /\ Speaks(m) => (Grants(client, m) <=> MayAnswer')
        /\ ~Speaks(c)
        /\ open /\ MayAnswer => replay = <<c>>
    <3>1. isProvider => active # NoSocket
      BY <1>0 DEF RegistryInv, ElectionIsTotal
    <3>2. ~isProvider => active # client
      BY <1>0, NoSocketAssumption DEF RegistryInv, RegistryTypeOK
    <3>3. Speaks(m) => isProvider
      BY <2>3 DEF Speaks
    <3>4. isProvider => (Grants(client, m) <=> active = client)
      BY <1>0, <2>2, <2>3, NoSocketAssumption DEF Grants, Flag
    <3>5. ~Speaks(c)
      BY <2>3 DEF Speaks
    <3> QED
      BY <2>2, <3>1, <3>2, <3>3, <3>4, <3>5 DEF MayAnswer
  <2>5. (replay = <<>> /\ ~(open /\ MayAnswer)) \/ (replay = <<c>> /\ open)
    BY <2>4
  <2> HIDE DEF m, c, replay
  <2>6. /\ es \in Seq(Msg)
        /\ \A k \in DOMAIN es : es[k] = m \/ (es[k] = c /\ open)
        /\ open /\ MayAnswer => 1 \in DOMAIN es /\ es[1] = c
    <3>1. CASE replay = <<>> /\ ~(open /\ MayAnswer)
      <4>1. es = <<m>>
        BY <3>1
      <4> QED
        BY <2>3, <3>1, <4>1
    <3>2. CASE replay = <<c>> /\ open
      <4>1. /\ replay \in Seq(Msg) /\ Len(replay) = 1 /\ replay[1] = c
            /\ 1 \in 1..Len(replay) /\ m \in Msg
        BY <2>3, <3>2
      <4>2. /\ es \in Seq(Msg) /\ Len(es) = Len(replay) + 1 /\ es[Len(replay) + 1] = m
            /\ es[1] = replay[1]
        BY <4>1, AppendOne
      <4> HIDE DEF es
      <4>3. DOMAIN es = {1, 2}
        BY <4>1, <4>2
      <4>4. es[2] = m
        BY <4>1, <4>2
      <4> QED
        BY <3>2, <4>1, <4>2, <4>3, <4>4
    <3> QED
      BY <2>5, <3>1, <3>2
  <2> HIDE DEF es
  <2>7. Tells(es)
    BY <1>1, <2>1, <2>2, <2>3, <2>4, <2>6 DEF Tells
  <2>8. Listed'
    BY <1>1, <2>2 DEF Listed
  <2> QED
    BY <1>0, <1>1, <2>1, <2>6, <2>7, <2>8, DaemonKeeps
<1> QED
  BY <1>3, <1>4, <1>5, <1>6, <1>7 DEF DaemonReceives

-----------------------------------------------------------------------------
(* The session, time, and the ends of the connection.                      *)

LEMMA EventFacts ==
    ASSUME NEW type \in {"session.created", "session.closed"}, NEW elected, NEW subs
    PROVE  /\ SessionEvent(type, elected, subs) \in Seq(Msg)
           /\ ~Hears(elected, subs) => SessionEvent(type, elected, subs) = <<>>
           /\ Hears(elected, subs) => 1 \in DOMAIN SessionEvent(type, elected, subs)
           /\ \A k \in DOMAIN SessionEvent(type, elected, subs) :
                 /\ SessionEvent(type, elected, subs)[k].type = type
                 /\ ~Speaks(SessionEvent(type, elected, subs)[k])
<1> DEFINE m == Message(type, Absent)
<1>1. /\ m \in Msg /\ m.type = type /\ <<m>> \in Seq(Msg) /\ DOMAIN <<m>> = {1} /\ <<m>>[1] = m
  BY MessageTypes
<1>2. ~Speaks(m)
  BY <1>1 DEF Speaks
<1>3. SessionEvent(type, elected, subs) = IF Hears(elected, subs) THEN <<m>> ELSE <<>>
  BY DEF SessionEvent
<1> HIDE DEF m
<1> QED
  BY <1>1, <1>2, <1>3, MessageTypes

\* The messages of two parts, and no others.
LEMMA PartsFacts ==
    ASSUME NEW a \in Seq(Msg), NEW b \in Seq(Msg)
    PROVE  /\ \A k \in DOMAIN a : \E j \in DOMAIN (a \o b) : (a \o b)[j] = a[k]
           /\ \A k \in DOMAIN b : \E j \in DOMAIN (a \o b) : (a \o b)[j] = b[k]
           /\ \A j \in DOMAIN (a \o b) : \/ \E k \in DOMAIN a : (a \o b)[j] = a[k]
                                         \/ \E k \in DOMAIN b : (a \o b)[j] = b[k]
<1> DEFINE all == a \o b
<1>1. /\ \A k \in DOMAIN a : k \in DOMAIN all /\ all[k] = a[k]
      /\ \A k \in DOMAIN b : k + Len(a) \in DOMAIN all /\ all[k + Len(a)] = b[k]
      /\ \A k \in DOMAIN all :
            k \notin DOMAIN a => k - Len(a) \in DOMAIN b /\ all[k] = b[k - Len(a)]
  BY AppendFacts
<1> HIDE DEF all
<1>2. \A k \in DOMAIN a : \E j \in DOMAIN all : all[j] = a[k]
  BY <1>1
<1>3. \A k \in DOMAIN b : \E j \in DOMAIN all : all[j] = b[k]
  BY <1>1
<1>4. ASSUME NEW j \in DOMAIN all
      PROVE  (\E k \in DOMAIN a : all[j] = a[k]) \/ (\E k \in DOMAIN b : all[j] = b[k])
  BY <1>1
<1> QED
  BY <1>2, <1>3, <1>4 DEF all

LEMMA OpenKeeps ==
    ASSUME FailoverInv, RegistryInv', OpenSession
    PROVE  (ConnectionInv /\ BeliefInv /\ ShownInv /\ ReplayInv)'
<1>0. RegistryInv /\ FailoverTypeOK /\ ConnectionInv
  BY DEF FailoverInv
<1> DEFINE es == SessionEvent("session.created", active, subscribers)
<1>1. /\ UNCHANGED registryVars /\ UNCHANGED <<client, registered, believes, shown, toDaemon>>
      /\ toClient' = toClient \o es /\ ~open /\ open'
  BY DEF OpenSession, Deliver, Answer, clientVars
<1>2. /\ es \in Seq(Msg)
      /\ ~Hears(active, subscribers) => es = <<>>
      /\ Hears(active, subscribers) => 1 \in DOMAIN es
      /\ \A k \in DOMAIN es : es[k].type = "session.created" /\ ~Speaks(es[k])
  BY EventFacts
<1> HIDE DEF es
<1>3. /\ client \notin DOMAIN providers \cup subscribers => ~Hears(active, subscribers)
      /\ client \in DOMAIN providers \cup subscribers /\ MayAnswer => Hears(active, subscribers)
  BY <1>0, PlaceFacts, HearsFacts DEF RegistryInv, RegistryTypeOK, ElectionIsTotal, MayAnswer
<1>4. client = NoSocket \/ Fresh => es = <<>>
  BY <1>0, <1>2, <1>3, PlaceFacts
<1>5. client # NoSocket => Stays(client)
  BY <1>0, <1>1, PlaceFacts, OthersStay
<1>6. ASSUME client # NoSocket, Known
      PROVE  Tells(es) /\ Listed'
  <2>1. Listed' /\ (MayAnswer' <=> MayAnswer)
    BY <1>1, <1>6 DEF Known, Listed, MayAnswer, registryVars
  <2>2. MayAnswer => 1 \in DOMAIN es
    BY <1>0, <1>2, <1>3, <1>6, PlaceFacts
  <2> QED
    BY <1>1, <1>2, <2>1, <2>2 DEF Tells
<1> QED
  BY <1>1, <1>2, <1>4, <1>5, <1>6, DaemonKeeps

\* Both ways to end a session: the election comes before, or after, the event.
LEMMA CloseKeeps ==
    ASSUME FailoverInv, RegistryInv', CloseSession \/ OnSessionComplete
    PROVE  (ConnectionInv /\ BeliefInv /\ ShownInv /\ ReplayInv)'
<1>0. RegistryInv /\ FailoverTypeOK /\ ConnectionInv
  BY DEF FailoverInv
<1>1. /\ UNCHANGED <<client, registered, believes, shown, toDaemon>>
      /\ open /\ ~open' /\ RecomputeOnEmptyStore /\ UNCHANGED subscribers
  BY DEF CloseSession, OnSessionComplete, RecomputeOnEmptyStore, clientVars
<1>2. client # NoSocket => Stays(client) /\ KeepsPlace
  BY <1>0, <1>1, PlaceFacts, OthersStay DEF KeepsPlace
<1> DEFINE st == StatusIfChanged
           old == SessionEvent("session.closed", active, subscribers)
           new == SessionEvent("session.closed", active', subscribers)
<1>3. /\ st \in Seq(Msg)
      /\ client = NoSocket \/ Fresh => st = <<>>
      /\ client # NoSocket => \A k \in DOMAIN st :
            /\ st[k].type = "ui.active" /\ Speaks(st[k])
            /\ Grants(client, st[k]) <=> MayAnswer'
      /\ client # NoSocket /\ Known /\ active' # active => 1 \in DOMAIN st
  BY <1>1, <1>2, StatusFacts DEF StatusIfChanged
<1>4. /\ old \in Seq(Msg) /\ new \in Seq(Msg)
      /\ ~Hears(active, subscribers) => old = <<>>
      /\ ~Hears(active', subscribers) => new = <<>>
      /\ Hears(active, subscribers) => 1 \in DOMAIN old
      /\ Hears(active', subscribers) => 1 \in DOMAIN new
      /\ \A k \in DOMAIN old : old[k].type = "session.closed" /\ ~Speaks(old[k])
      /\ \A k \in DOMAIN new : new[k].type = "session.closed" /\ ~Speaks(new[k])
  BY EventFacts
<1>5. /\ client \notin DOMAIN providers \cup subscribers => ~Hears(active, subscribers)
      /\ client \in DOMAIN providers \cup subscribers /\ MayAnswer => Hears(active, subscribers)
  BY <1>0, PlaceFacts, HearsFacts DEF RegistryInv, RegistryTypeOK, ElectionIsTotal, MayAnswer
<1>6. /\ client \notin DOMAIN providers' \cup subscribers => ~Hears(active', subscribers)
      /\ client \in DOMAIN providers' \cup subscribers /\ MayAnswer' => Hears(active', subscribers)
  <2>1. /\ client \in Sockets \cup {NoSocket}
        /\ DOMAIN providers' \in SUBSET Sockets /\ subscribers \in SUBSET Sockets
        /\ active' \in DOMAIN providers' \cup {NoSocket}
        /\ active' = NoSocket => DOMAIN providers' = {}
    BY <1>0, PlaceFacts DEF RegistryInv, RegistryTypeOK, ElectionIsTotal
  <2> QED
    BY <1>1, <2>1, HearsFacts DEF MayAnswer
<1>7. \/ toClient' = toClient \o (st \o new)
      \/ toClient' = toClient \o (old \o st)
  BY DEF CloseSession, OnSessionComplete, Deliver, Answer
<1> HIDE DEF st, old, new
<1>8. ASSUME client = NoSocket \/ Fresh
      PROVE  old = <<>> /\ new = <<>> /\ st = <<>>
  <2>1. client \notin DOMAIN providers \cup subscribers
    BY <1>0, <1>8, PlaceFacts
  <2>2. client \notin DOMAIN providers'
    <3>1. CASE client = NoSocket
      BY <3>1, NoSocketAssumption DEF RegistryInv, RegistryTypeOK
    <3>2. CASE client # NoSocket
      BY <1>2, <2>1, <3>2 DEF Stays
    <3> QED
      BY <3>1, <3>2
  <2> QED
    BY <1>3, <1>4, <1>5, <1>6, <1>8, <2>1, <2>2
<1>9. client # NoSocket /\ Known => Listed'
  BY <1>1, <1>2 DEF Known, Listed, Stays
<1>10. ASSUME client # NoSocket, Known
       PROVE  /\ (MayAnswer' <=> MayAnswer) \/ \E k \in DOMAIN st : Speaks(st[k])
              /\ MayAnswer => \E k \in DOMAIN old : old[k].type = "session.closed"
              /\ MayAnswer' => \E k \in DOMAIN new : new[k].type = "session.closed"
  <2>1. client \in DOMAIN providers \cup subscribers
    BY <1>0, <1>10, PlaceFacts
  <2>2. client \in DOMAIN providers' \cup subscribers
    BY <1>1, <1>9, <1>10 DEF Listed
  <2>3. ~(MayAnswer' <=> MayAnswer) => active' # active
    BY <1>1 DEF MayAnswer
  <2> QED
    BY <1>3, <1>4, <1>5, <1>6, <1>10, <2>1, <2>2, <2>3
<1>11. CASE toClient' = toClient \o (st \o new)
  <2> DEFINE es == st \o new
  <2>0. toClient' = toClient \o es
    BY <1>11
  <2>1. es \in Seq(Msg)
    BY <1>3, <1>4
  <2>2. client = NoSocket \/ Fresh => es = <<>>
    BY <1>8
  <2>3. /\ \A k \in DOMAIN st : \E j \in DOMAIN es : es[j] = st[k]
        /\ \A k \in DOMAIN new : \E j \in DOMAIN es : es[j] = new[k]
        /\ \A j \in DOMAIN es : \/ \E k \in DOMAIN st : es[j] = st[k]
                                \/ \E k \in DOMAIN new : es[j] = new[k]
    BY <1>3, <1>4, PartsFacts
  <2> HIDE DEF es
  <2>4. ASSUME client # NoSocket, Known
        PROVE  Tells(es)
    <3>1. \A k \in DOMAIN es : /\ Speaks(es[k]) => (Grants(client, es[k]) <=> MayAnswer')
                               /\ es[k].type # "session.created"
      BY <1>3, <1>4, <2>3, <2>4
    <3>2. (MayAnswer' <=> MayAnswer) \/ \E k \in DOMAIN es : Speaks(es[k])
      BY <1>10, <2>3, <2>4
    <3>3. MayAnswer /\ MayAnswer' => \E k \in DOMAIN es : es[k].type = "session.closed"
      BY <1>10, <2>3, <2>4
    <3> QED
      BY <1>1, <2>0, <3>1, <3>2, <3>3 DEF Tells
  <2> QED
    BY <1>1, <1>2, <1>9, <2>0, <2>1, <2>2, <2>4, DaemonKeeps DEF KeepsPlace
<1>12. CASE toClient' = toClient \o (old \o st)
  <2> DEFINE es == old \o st
  <2>0. toClient' = toClient \o es
    BY <1>12
  <2>1. es \in Seq(Msg)
    BY <1>3, <1>4
  <2>2. client = NoSocket \/ Fresh => es = <<>>
    BY <1>8
  <2>3. /\ \A k \in DOMAIN st : \E j \in DOMAIN es : es[j] = st[k]
        /\ \A k \in DOMAIN old : \E j \in DOMAIN es : es[j] = old[k]
        /\ \A j \in DOMAIN es : \/ \E k \in DOMAIN st : es[j] = st[k]
                                \/ \E k \in DOMAIN old : es[j] = old[k]
    BY <1>3, <1>4, PartsFacts
  <2> HIDE DEF es
  <2>4. ASSUME client # NoSocket, Known
        PROVE  Tells(es)
    <3>1. \A k \in DOMAIN es : /\ Speaks(es[k]) => (Grants(client, es[k]) <=> MayAnswer')
                               /\ es[k].type # "session.created"
      BY <1>3, <1>4, <2>3, <2>4
    <3>2. (MayAnswer' <=> MayAnswer) \/ \E k \in DOMAIN es : Speaks(es[k])
      BY <1>10, <2>3, <2>4
    <3>3. MayAnswer /\ MayAnswer' => \E k \in DOMAIN es : es[k].type = "session.closed"
      BY <1>10, <2>3, <2>4
    <3> QED
      BY <1>1, <2>0, <3>1, <3>2, <3>3 DEF Tells
  <2> QED
    BY <1>1, <1>2, <1>9, <2>0, <2>1, <2>2, <2>4, DaemonKeeps DEF KeepsPlace
<1> QED
  BY <1>7, <1>11, <1>12

\* No client that is known has an entry only: it has subscribed by now.
LEMMA TimeKeeps ==
    ASSUME FailoverInv, RegistryInv', TimePasses
    PROVE  (ConnectionInv /\ BeliefInv /\ ShownInv /\ ReplayInv)'
<1>0. /\ RegistryInv /\ FailoverTypeOK /\ ConnectionInv
      /\ toClient = toClient \o <<>> /\ <<>> \in Seq(Msg) /\ DOMAIN <<>> = {}
      /\ client # NoSocket => client \in UiSockets
  BY DEF FailoverInv, FailoverTypeOK, ChannelsOK
<1>1. /\ UNCHANGED <<client, registered, believes, shown, open, toDaemon, toClient>>
      /\ UNCHANGED <<active, subscribers>>
      /\ client # NoSocket => toDaemon[client] = <<>>
  BY <1>0 DEF TimePasses, Tick, clientVars
<1>2. client # NoSocket => ~Fresh
  <2>1. Len(<<>>) = 0
    OBVIOUS
  <2> QED
    BY <1>1, <2>1 DEF Fresh
<1>3. client # NoSocket /\ Known => Listed'
  BY <1>1 DEF Known, Listed
<1>4. client # NoSocket /\ Known => Tells(<<>>)
  <2>1. (MayAnswer' <=> MayAnswer) /\ (WillSubscribe => WillSubscribe')
    BY <1>1 DEF MayAnswer, WillSubscribe
  <2>2. toClient' = toClient \o <<>>
    BY <1>0, <1>1
  <2> QED
    BY <1>0, <1>1, <2>1, <2>2 DEF Tells
<1>5. toClient' = toClient \o <<>>
  BY <1>0, <1>1
<1> QED
  BY <1>0, <1>1, <1>2, <1>3, <1>4, <1>5, DaemonKeeps

\* A client that has heard nothing knows nothing.
LEMMA StrangerKeeps ==
    ASSUME ~registered', ~believes', ~shown', toClient' = <<>>,
           client' = NoSocket \/ (client' \in connected' /\ Fresh')
    PROVE  (ConnectionInv /\ BeliefInv /\ ShownInv /\ ReplayInv)'
<1>1. ~Known' /\ DOMAIN toClient' = {}
  BY DEF Known
<1> QED
  BY <1>1 DEF ConnectionInv, BeliefInv, ShownInv, ReplayInv

LEMMA EndsKeep ==
    ASSUME FailoverInv,
           ClientDies \/ DaemonRestarts \/ \E s \in UiSockets : Connected(s)
    PROVE  (ConnectionInv /\ BeliefInv /\ ShownInv /\ ReplayInv)'
<1>0. /\ RegistryInv /\ FailoverTypeOK /\ ConnectionInv
      /\ toDaemon \in [UiSockets -> Seq(Request)]
  BY DEF FailoverInv, FailoverTypeOK, ChannelsOK
<1>1. CASE ClientDies \/ DaemonRestarts
  <2>1. /\ client' = NoSocket /\ toClient' = <<>> /\ ~registered' /\ ~believes'
    BY <1>1 DEF ClientDies, DaemonRestarts
  <2>2. ~shown'
    BY <1>0, <1>1 DEF ClientDies, DaemonRestarts, ConnectionInv
  <2> QED
    BY <2>1, <2>2, StrangerKeeps
<1>2. ASSUME NEW s \in UiSockets, Connected(s)
      PROVE  (ConnectionInv /\ BeliefInv /\ ShownInv /\ ReplayInv)'
  <2>1. /\ client = NoSocket /\ toDaemon[s] = <<>> /\ client' = s /\ s \notin connected
        /\ connected' = connected \cup {s} /\ UNCHANGED <<subscribers, providers>>
        /\ toDaemon' = [toDaemon EXCEPT ![s] = @ \o <<"ui.register", "subscribe">>]
        /\ UNCHANGED <<toClient, registered, believes, shown>>
    BY <1>2 DEF Connected, OnNewConnection, Send
  <2>2. ~registered' /\ ~believes' /\ ~shown' /\ toClient' = <<>>
    BY <1>0, <2>1, PlaceFacts
  <2>3. toDaemon'[s] = <<"ui.register", "subscribe">>
    <3> DEFINE q == <<"ui.register", "subscribe">>
    <3>1. q \in Seq(Request)
      BY DEF Request
    <3>2. toDaemon'[s] = <<>> \o q
      BY <1>0, <2>1
    <3> HIDE DEF q
    <3>3. <<>> \o q = q
      BY <3>1
    <3> QED
      BY <3>2, <3>3 DEF q
  <2>4. s \notin subscribers /\ s \notin DOMAIN providers
    BY <1>0, <2>1 DEF RegistryInv, RegistryTypeOK
  <2>5. Fresh'
    BY <2>1, <2>2, <2>3, <2>4 DEF Fresh
  <2> QED
    BY <2>1, <2>2, <2>5, StrangerKeeps
<1> QED
  BY <1>1, <1>2

\* What the client sends of its own accord comes after what it sent before.
LEMMA SendKeeps ==
    ASSUME FailoverInv, Watchdog \/ Heartbeat \/ Responds
    PROVE  (ConnectionInv /\ BeliefInv /\ ShownInv /\ ReplayInv)'
<1>0. /\ RegistryInv /\ FailoverTypeOK /\ ConnectionInv /\ BeliefInv /\ ShownInv /\ ReplayInv
      /\ toDaemon \in [UiSockets -> Seq(Request)] /\ <<>> \in Seq(Request)
      /\ client # NoSocket => client \in UiSockets
  BY DEF FailoverInv, FailoverTypeOK, ChannelsOK
<1>1. /\ client # NoSocket /\ UNCHANGED registryVars
      /\ UNCHANGED <<client, registered, believes, shown, open, toClient>>
      /\ \E requests \in Seq(Request) :
            toDaemon' = [toDaemon EXCEPT ![client] = @ \o requests]
  <2>1. <<"ui.register">> \in Seq(Request) /\ <<"subscribe">> \in Seq(Request)
        /\ <<"ui.heartbeat">> \in Seq(Request) /\ <<"session.respond">> \in Seq(Request)
    BY DEF Request
  <2>2. (IF registered THEN <<>> ELSE <<"ui.register">>)
            \o (IF subscribed THEN <<>> ELSE <<"subscribe">>) \in Seq(Request)
    BY <1>0, <2>1, ConcatTypes
  <2> QED
    BY <2>1, <2>2 DEF Watchdog, Heartbeat, Responds, SendLater, Send, clientVars
<1>2. PICK requests \in Seq(Request) : toDaemon' = [toDaemon EXCEPT ![client] = @ \o requests]
  BY <1>1
<1> DEFINE q == toDaemon[client]
<1>3. q \in Seq(Request) /\ toDaemon'[client] = q \o requests
  BY <1>0, <1>1, <1>2
<1> HIDE DEF q
<1>4. /\ \A k \in DOMAIN q : k \in DOMAIN (q \o requests) /\ (q \o requests)[k] = q[k]
      /\ q # <<>> => q \o requests # <<>> /\ Head(q \o requests) = Head(q)
      /\ Len(q) >= 2 => Len(q \o requests) >= 2
      /\ Len(q) >= 2 => 1 \in DOMAIN q /\ 2 \in DOMAIN q
  BY <1>3
<1>5. Fresh => Fresh'
  BY <1>1, <1>3, <1>4 DEF Fresh, registryVars, q
<1>6. Known => Known'
  BY <1>1, <1>3, <1>4 DEF Known, Listed, registryVars, q
<1>7. Known' => Known
  <2>1. CASE Fresh
    BY <1>1, <2>1 DEF Known, Fresh
  <2>2. CASE Known
    BY <2>2
  <2> QED
    BY <1>0, <1>1, <2>1, <2>2, PlaceFacts
<1>8. WillSubscribe => WillSubscribe'
  BY <1>1, <1>3, <1>4 DEF WillSubscribe, q
<1>9. ConnectionInv'
  BY <1>0, <1>1, <1>5, <1>6 DEF ConnectionInv, registryVars
<1>10. BeliefInv'
  BY <1>0, <1>1, <1>7 DEF BeliefInv, MayAnswer, registryVars
<1>11. ShownInv'
  BY <1>0, <1>1 DEF ShownInv
<1>12. ReplayInv'
  BY <1>0, <1>1, <1>7, <1>8 DEF ReplayInv, WillSubscribe, MayAnswer, registryVars
<1> QED
  BY <1>9, <1>10, <1>11, <1>12

-----------------------------------------------------------------------------
(* The client reads.                                                       *)

LEMMA LaterRequests ==
    ASSUME NEW q \in Seq(Request), NEW x \in Seq(Request)
    PROVE  \A k \in DOMAIN x : /\ Len(q) + k \in DOMAIN (q \o x)
                               /\ (q \o x)[Len(q) + k] = x[k]
OBVIOUS

\* What each message does to a client whose session window follows its belief.
LEMMA ReadFacts ==
    ASSUME client \in Sockets, toDaemon \in [UiSockets -> Seq(Request)], client \in UiSockets,
           NEW m \in Msg, HandleMessage(m), shown => believes,
           registered \/ m.type = "ui.registered"
    PROVE  /\ registered'
           /\ believes' <=> (Grants(client, m) \/ (believes /\ ~Denies(client, m)))
           /\ m.type = "session.created" => (shown' <=> believes)
           /\ m.type # "session.created" => (shown' <=> (shown /\ ~Hiding(client, m)))
           /\ toDaemon'[client] \in {toDaemon[client], toDaemon[client] \o <<"subscribe">>}
           /\ ~believes /\ Grants(client, m) =>
                  toDaemon'[client] = toDaemon[client] \o <<"subscribe">>
<1> DEFINE Result ==
        /\ registered'
        /\ believes' <=> (Grants(client, m) \/ (believes /\ ~Denies(client, m)))
        /\ m.type = "session.created" => (shown' <=> believes)
        /\ m.type # "session.created" => (shown' <=> (shown /\ ~Hiding(client, m)))
        /\ toDaemon'[client] \in {toDaemon[client], toDaemon[client] \o <<"subscribe">>}
        /\ ~believes /\ Grants(client, m) =>
               toDaemon'[client] = toDaemon[client] \o <<"subscribe">>
<1>1. ASSUME registered', Speaks(m),
             believes' <=> Grants(client, m),
             shown' <=> (shown /\ (believes => believes')),
             toDaemon' = IF ~believes /\ believes'
                         THEN [toDaemon EXCEPT ![client] = @ \o <<"subscribe">>] ELSE toDaemon
      PROVE  Result
  <2>1. Denies(client, m) <=> ~Grants(client, m)
    BY <1>1 DEF Denies
  <2>2. m.type \notin {"session.created", "session.closed"}
    BY <1>1 DEF Speaks
  <2>3. shown' <=> (shown /\ ~Hiding(client, m))
    BY <1>1, <2>1, <2>2 DEF Hiding
  <2>4. /\ toDaemon'[client] \in {toDaemon[client], toDaemon[client] \o <<"subscribe">>}
        /\ ~believes /\ Grants(client, m) =>
               toDaemon'[client] = toDaemon[client] \o <<"subscribe">>
    BY <1>1
  <2> QED
    BY <1>1, <2>1, <2>2, <2>3, <2>4
<1>2. CASE m.type = "ui.registered"
  <2>1. Speaks(m)
    BY <1>2 DEF Speaks
  <2>2. /\ registered' /\ (believes' <=> Grants(client, m))
        /\ shown' <=> (shown /\ (believes => believes'))
        /\ toDaemon' = IF ~believes /\ believes'
                       THEN [toDaemon EXCEPT ![client] = @ \o <<"subscribe">>] ELSE toDaemon
    <3>1. registered' /\ SetProviderActive(m.who = client, TRUE)
      BY <1>2 DEF HandleMessage, SetProviderActive
    <3>2. (m.who = client) <=> Grants(client, m)
      BY <1>2 DEF Grants
    <3>3. /\ believes' = (m.who = client)
          /\ shown' = (shown /\ (believes => (m.who = client)))
          /\ toDaemon' = IF (m.who = client) /\ ~believes
                         THEN [toDaemon EXCEPT ![client] = @ \o <<"subscribe">>] ELSE toDaemon
      BY <3>1 DEF SetProviderActive, Send
    <3> QED
      BY <3>1, <3>2, <3>3
  <2> QED
    BY <1>1, <2>1, <2>2
<1>3. CASE m.type = "subscribed" /\ m.who # Absent
  <2>1. Speaks(m)
    BY <1>3 DEF Speaks
  <2>2. /\ registered' /\ (believes' <=> Grants(client, m))
        /\ shown' <=> (shown /\ (believes => believes'))
        /\ toDaemon' = IF ~believes /\ believes'
                       THEN [toDaemon EXCEPT ![client] = @ \o <<"subscribe">>] ELSE toDaemon
    <3>1. registered' /\ SetProviderActive(m.who = client, TRUE)
      BY <1>3 DEF HandleMessage, SetProviderActive
    <3>2. (m.who = client) <=> Grants(client, m)
      BY <1>3 DEF Grants
    <3>3. /\ believes' = (m.who = client)
          /\ shown' = (shown /\ (believes => (m.who = client)))
          /\ toDaemon' = IF (m.who = client) /\ ~believes
                         THEN [toDaemon EXCEPT ![client] = @ \o <<"subscribe">>] ELSE toDaemon
      BY <3>1 DEF SetProviderActive, Send
    <3> QED
      BY <3>1, <3>2, <3>3
  <2> QED
    BY <1>1, <2>1, <2>2
<1>4. CASE m.type = "ui.active"
  <2>1. Speaks(m)
    BY <1>4 DEF Speaks
  <2>2. /\ registered' /\ (believes' <=> Grants(client, m))
        /\ shown' <=> (shown /\ (believes => believes'))
        /\ toDaemon' = IF ~believes /\ believes'
                       THEN [toDaemon EXCEPT ![client] = @ \o <<"subscribe">>] ELSE toDaemon
    <3>1. registered' /\ SetProviderActive(m.who \in {client, NoSocket}, TRUE)
      BY <1>4 DEF HandleMessage, SetProviderActive
    <3>2. (m.who \in {client, NoSocket}) <=> Grants(client, m)
      BY <1>4 DEF Grants
    <3>3. /\ believes' = (m.who \in {client, NoSocket})
          /\ shown' = (shown /\ (believes => (m.who \in {client, NoSocket})))
          /\ toDaemon' = IF (m.who \in {client, NoSocket}) /\ ~believes
                         THEN [toDaemon EXCEPT ![client] = @ \o <<"subscribe">>] ELSE toDaemon
      BY <3>1 DEF SetProviderActive, Send
    <3> QED
      BY <3>1, <3>2, <3>3
  <2> QED
    BY <1>1, <2>1, <2>2
<1>5. CASE m.type = "error"
  <2>1. Speaks(m)
    BY <1>5 DEF Speaks
  <2>2. /\ registered' /\ (believes' <=> Grants(client, m))
        /\ shown' <=> (shown /\ (believes => believes'))
        /\ toDaemon' = IF ~believes /\ believes'
                       THEN [toDaemon EXCEPT ![client] = @ \o <<"subscribe">>] ELSE toDaemon
    <3>1. registered' /\ SetProviderActive(FALSE, TRUE)
      BY <1>5 DEF HandleMessage, SetProviderActive
    <3>2. FALSE <=> Grants(client, m)
      BY <1>5 DEF Grants
    <3>3. /\ believes' = FALSE
          /\ shown' = (shown /\ (believes => FALSE))
          /\ toDaemon' = IF FALSE /\ ~believes
                         THEN [toDaemon EXCEPT ![client] = @ \o <<"subscribe">>] ELSE toDaemon
      BY <3>1 DEF SetProviderActive, Send
    <3> QED
      BY <3>1, <3>2, <3>3
  <2> QED
    BY <1>1, <2>1, <2>2
<1>6. CASE m.type = "subscribed" /\ m.who = Absent
  <2>1. registered' /\ UNCHANGED <<believes, shown, toDaemon>>
    BY <1>6 DEF HandleMessage
  <2>2. ~Speaks(m) /\ ~Grants(client, m) /\ ~Denies(client, m) /\ ~Hiding(client, m)
    BY <1>6, AbsentAssumption DEF Speaks, Grants, Denies, Hiding
  <2> QED
    BY <1>6, <2>1, <2>2
<1>7. CASE m.type \in {"session.created", "session.closed"}
  <2>1. /\ registered /\ UNCHANGED <<registered, believes, toDaemon>>
        /\ shown' = IF registered /\ ~believes THEN shown ELSE m.type = "session.created"
    BY <1>7 DEF HandleMessage
  <2>2. ~Speaks(m) /\ ~Grants(client, m) /\ ~Denies(client, m)
    BY <1>7 DEF Speaks, Grants, Denies
  <2>3. m.type = "session.closed" => Hiding(client, m)
    BY DEF Hiding
  <2> QED
    BY <1>7, <2>1, <2>2, <2>3
<1> QED
  BY <1>2, <1>3, <1>4, <1>5, <1>6, <1>7 DEF Msg

LEMMA ReadKeeps ==
    ASSUME FailoverInv, ClientReads
    PROVE  (ConnectionInv /\ BeliefInv /\ ShownInv /\ ReplayInv)'
<1> DEFINE msgs == toClient
           m == Head(toClient)
           rest == Tail(toClient)
<1>0. /\ RegistryInv /\ FailoverTypeOK /\ ConnectionInv /\ BeliefInv /\ ShownInv /\ ReplayInv
      /\ toDaemon \in [UiSockets -> Seq(Request)]
      /\ msgs \in Seq(Msg) /\ msgs # <<>> /\ rest \in Seq(Msg) /\ m \in Msg
      /\ Len(msgs) = Len(rest) + 1 /\ Len(rest) \in Nat
  BY DEF FailoverInv, FailoverTypeOK, ChannelsOK, ClientReads
<1>1. /\ client # NoSocket /\ Known /\ client \in Sockets /\ client \in UiSockets
      /\ client \in connected /\ toDaemon[client] \in Seq(Request)
      /\ shown => believes
      /\ registered \/ m.type = "ui.registered"
  <2>1. client # NoSocket /\ Known
    BY <1>0, PlaceFacts
  <2> QED
    BY <1>0, <2>1, PlaceFacts DEF ConnectionInv, Known, FailoverTypeOK, ChannelsOK
<1>2. /\ toClient' = rest /\ UNCHANGED registryVars /\ UNCHANGED <<client, open>>
      /\ HandleMessage(m)
  BY DEF ClientReads
<1>3. /\ registered'
      /\ believes' <=> (Grants(client, m) \/ (believes /\ ~Denies(client, m)))
      /\ m.type = "session.created" => (shown' <=> believes)
      /\ m.type # "session.created" => (shown' <=> (shown /\ ~Hiding(client, m)))
      /\ toDaemon'[client] \in {toDaemon[client], toDaemon[client] \o <<"subscribe">>}
      /\ ~believes /\ Grants(client, m) =>
             toDaemon'[client] = toDaemon[client] \o <<"subscribe">>
  BY <1>0, <1>1, <1>2, ReadFacts
<1>4. \A n \in Nat : /\ Believed(client, believes', rest, n) <=> Believed(client, believes, msgs, n + 1)
                     /\ Hides(client, rest, n) <=> Hides(client, msgs, n + 1)
  BY <1>0, <1>1, <1>3, BelievedTail, HidesTail
<1>5. /\ Hides(client, msgs, 0) <=> (Hiding(client, m) \/ Hides(client, rest, 0))
      /\ Believed(client, believes', rest, 0) <=> believes'
  <2>1. Believed(client, believes', rest, 0) <=> believes'
    <3>1. \A k \in DOMAIN rest : ~(k <= 0)
      <4> HIDE DEF rest, msgs, m
      <4> QED
        BY <1>0
    <3> QED
      BY <3>1 DEF Believed
  <2>2. Hides(client, msgs, 0) <=> (Hiding(client, m) \/ Hides(client, rest, 0))
    BY <1>0, HidesTail
  <2> QED
    BY <2>1, <2>2
<1>6. /\ 1 \in DOMAIN msgs /\ msgs[1] = m
      /\ \A k \in DOMAIN rest : k \in Nat /\ k + 1 \in DOMAIN msgs /\ rest[k] = msgs[k + 1]
      /\ \A k \in DOMAIN msgs : k # 1 => /\ k - 1 \in DOMAIN rest /\ rest[k - 1] = msgs[k]
                                         /\ k - 1 \in Nat /\ k = (k - 1) + 1
  BY <1>0, TailFacts
<1>7. ASSUME Reactivates(client, believes, msgs)
      PROVE  Reactivates(client, believes', rest) \/ (~believes /\ Grants(client, m))
  <2>1. believes' <=> (Grants(client, m) \/ (believes /\ ~Denies(client, m)))
    BY <1>3
  <2> QED
    BY <1>0, <1>1, <1>7, <2>1, ReactivatesTail
<1>8. /\ Believed(client, believes, msgs, 1) <=> believes'
      /\ Hides(client, msgs, 1) <=> Hides(client, rest, 0)
  <2>1. /\ Believed(client, believes', rest, 0) <=> Believed(client, believes, msgs, 0 + 1)
        /\ Hides(client, rest, 0) <=> Hides(client, msgs, 0 + 1)
    BY <1>4
  <2> HIDE DEF msgs, rest
  <2> QED
    BY <1>5, <2>1
<1>9. /\ (toDaemon'[client] = toDaemon[client] \o <<"subscribe">> => WillSubscribe')
      /\ WillSubscribe => WillSubscribe'
      /\ toDaemon[client] # <<>> => /\ toDaemon'[client] # <<>>
                                    /\ Head(toDaemon'[client]) = Head(toDaemon[client])
  <2> DEFINE q == toDaemon[client]
             x == <<"subscribe">>
  <2>1. /\ q \in Seq(Request) /\ x \in Seq(Request) /\ Len(x) = 1 /\ x[1] = "subscribe"
        /\ toDaemon'[client] \in {q, q \o x}
    BY <1>1, <1>3 DEF Request
  <2> HIDE DEF q, x
  <2>2. /\ Len(q) + 1 \in DOMAIN (q \o x) /\ (q \o x)[Len(q) + 1] = "subscribe"
        /\ \A k \in DOMAIN q : k \in DOMAIN (q \o x) /\ (q \o x)[k] = q[k]
        /\ q # <<>> => q \o x # <<>> /\ Head(q \o x) = Head(q)
    <3>1. Len(q) + 1 \in DOMAIN (q \o x) /\ (q \o x)[Len(q) + 1] = x[1]
      <4>1. 1 \in DOMAIN x
        BY <2>1
      <4> QED
        BY <2>1, <4>1, LaterRequests
    <3>2. \A k \in DOMAIN q : k \in DOMAIN (q \o x) /\ (q \o x)[k] = q[k]
      BY <2>1
    <3>3. q # <<>> => q \o x # <<>> /\ Head(q \o x) = Head(q)
      BY <2>1
    <3> QED
      BY <2>1, <3>1, <3>2, <3>3
  <2>3. toDaemon'[client] = q \o x => WillSubscribe'
    BY <1>2, <2>2 DEF WillSubscribe
  <2>4. WillSubscribe => WillSubscribe'
    BY <1>2, <2>1, <2>2 DEF WillSubscribe, q
  <2>5. q # <<>> => toDaemon'[client] # <<>> /\ Head(toDaemon'[client]) = Head(q)
    BY <2>1, <2>2
  <2> QED
    BY <2>3, <2>4, <2>5 DEF q, x
<1> HIDE DEF m, rest, msgs
<1>10. shown' => believes'
  BY <1>1, <1>3, GrantsSpeak DEF Hiding, Speaks, Denies
<1>11. Known'
  BY <1>1, <1>2, <1>3, <1>9 DEF Known, Listed, registryVars
<1>12. ConnectionInv'
  BY <1>1, <1>2, <1>3, <1>10, <1>11 DEF ConnectionInv, registryVars
<1>13. BeliefInv'
  <2>1. Believed(client, believes, msgs, Len(msgs)) <=> MayAnswer
    BY <1>0, <1>1 DEF BeliefInv, msgs
  <2>2. Believed(client, believes', rest, Len(rest)) <=> MayAnswer
    BY <1>0, <1>4, <2>1
  <2>3. MayAnswer' <=> MayAnswer
    BY <1>2 DEF MayAnswer, registryVars
  <2> QED
    BY <1>2, <2>2, <2>3 DEF BeliefInv
<1>14. ShownInv'
  <2>1. ASSUME shown'
        PROVE  open \/ Hides(client, rest, 0)
    <3>1. CASE m.type = "session.created"
      <4>1. WillShow(client, believes, msgs, 1)
        BY <1>6, <1>8, <1>10, <2>1, <3>1 DEF WillShow
      <4> QED
        BY <1>0, <1>6, <1>8, <4>1 DEF ShownInv, msgs
    <3>2. CASE m.type # "session.created"
      BY <1>0, <1>3, <1>5, <2>1, <3>2 DEF ShownInv, msgs
    <3> QED
      BY <3>1, <3>2
  <2>2. ASSUME NEW k \in DOMAIN rest, WillShow(client, believes', rest, k)
        PROVE  open \/ Hides(client, rest, k)
    <3>1. k + 1 \in DOMAIN msgs /\ WillShow(client, believes, msgs, k + 1)
      BY <1>4, <1>6, <2>2 DEF WillShow
    <3>2. open \/ Hides(client, msgs, k + 1)
      BY <1>0, <3>1 DEF ShownInv, msgs
    <3> QED
      BY <1>4, <1>6, <3>2
  <2> QED
    BY <1>2, <2>1, <2>2 DEF ShownInv
<1>15. ReplayInv'
  <2> SUFFICES ASSUME open, MayAnswer
               PROVE  \/ WillSubscribe'
                      \/ shown' /\ ~Hides(client, rest, 0)
                      \/ \E k \in DOMAIN rest : /\ WillShow(client, believes', rest, k)
                                                /\ ~Hides(client, rest, k)
                      \/ Reactivates(client, believes', rest)
    BY <1>2 DEF ReplayInv, WillSubscribe, MayAnswer, registryVars
  <2>1. \/ WillSubscribe
        \/ shown /\ ~Hides(client, msgs, 0)
        \/ \E k \in DOMAIN msgs : /\ WillShow(client, believes, msgs, k)
                                  /\ ~Hides(client, msgs, k)
        \/ Reactivates(client, believes, msgs)
    BY <1>0, <1>1 DEF ReplayInv, WillSubscribe, msgs
  <2>2. CASE shown /\ ~Hides(client, msgs, 0)
    BY <1>1, <1>3, <1>5, <2>2
  <2>3. ASSUME NEW k \in DOMAIN msgs, WillShow(client, believes, msgs, k), ~Hides(client, msgs, k)
        PROVE  \/ shown' /\ ~Hides(client, rest, 0)
               \/ \E j \in DOMAIN rest : /\ WillShow(client, believes', rest, j)
                                         /\ ~Hides(client, rest, j)
    <3>1. CASE k = 1
      <4>1. m.type = "session.created" /\ believes'
        BY <1>6, <1>8, <2>3, <3>1 DEF WillShow
      <4>2. believes
        BY <1>3, <4>1 DEF Grants
      <4> QED
        BY <1>3, <1>8, <2>3, <3>1, <4>1, <4>2
    <3>2. CASE k # 1
      <4>1. k - 1 \in DOMAIN rest /\ WillShow(client, believes', rest, k - 1)
        BY <1>4, <1>6, <2>3, <3>2 DEF WillShow
      <4>2. ~Hides(client, rest, k - 1)
        BY <1>4, <1>6, <2>3, <3>2
      <4> QED
        BY <4>1, <4>2
    <3> QED
      BY <3>1, <3>2
  <2>4. CASE Reactivates(client, believes, msgs)
    BY <1>3, <1>7, <1>9, <2>4
  <2> QED
    BY <1>9, <2>1, <2>2, <2>3, <2>4
<1> QED
  BY <1>12, <1>13, <1>14, <1>15

-----------------------------------------------------------------------------
(* The theorems.                                                           *)

\* At the start neither program has heard of the other.
LEMMA FailoverInvInit == FailoverInit => FailoverInv
<1> SUFFICES ASSUME FailoverInit
             PROVE  FailoverInv
  OBVIOUS
<1>1. RegistryInv
  BY InitInv DEF FailoverInit
<1>2. /\ client = NoSocket /\ toClient = <<>> /\ toDaemon = [s \in UiSockets |-> <<>>]
      /\ registered = FALSE /\ subscribed = FALSE /\ believes = FALSE
      /\ open = FALSE /\ shown = FALSE
  BY DEF FailoverInit
<1>3. FailoverTypeOK
  <2>1. <<>> \in Seq(Request) /\ <<>> \in Seq(Msg)
    OBVIOUS
  <2>2. ChannelsOK
    BY <1>2, <2>1 DEF ChannelsOK
  <2>3. FlagsOK
    BY <1>2 DEF FlagsOK
  <2> QED
    BY <2>2, <2>3 DEF FailoverTypeOK
<1>4. ConnectionInv
  BY <1>2 DEF ConnectionInv
<1>5. BeliefInv
  BY <1>2 DEF BeliefInv
<1>6. ShownInv
  <2>1. \A i \in DOMAIN toClient : FALSE
    BY <1>2
  <2> QED
    BY <1>2, <2>1 DEF ShownInv
<1>7. ReplayInv
  BY <1>2 DEF ReplayInv
<1> QED
  BY <1>1, <1>3, <1>4, <1>5, <1>6, <1>7 DEF FailoverInv

\* Every step of either program keeps it.
LEMMA FailoverInvNext == FailoverInv /\ [FailoverNext]_failoverVars => FailoverInv'
<1> SUFFICES ASSUME FailoverInv, [FailoverNext]_failoverVars
             PROVE  FailoverInv'
  OBVIOUS
<1>1. RegistryInv /\ FailoverTypeOK /\ ChannelsOK /\ FlagsOK /\ ConnectionInv
  BY DEF FailoverInv, FailoverTypeOK
<1>2. RegistryInv'
  BY <1>1, RegistryInvKept
<1>3. FailoverTypeOK'
  <2>1. ChannelsOK'
    BY <1>1, <1>2, ChannelsKept
  <2>2. FlagsOK'
    BY <1>1, FlagsKept
  <2> QED
    BY <2>1, <2>2 DEF FailoverTypeOK
<1> DEFINE Rest == ConnectionInv /\ BeliefInv /\ ShownInv /\ ReplayInv
<1>4. ASSUME NEW s \in UiSockets, DaemonReceives(s)
      PROVE  Rest'
  <2>1. CASE s # client
    BY <1>2, <1>4, <2>1, StatusSteps
  <2>2. CASE s = client
    <3>1. client # NoSocket
      BY <1>4, <2>2, NoSocketAssumption DEF UiSockets
    <3>2. DaemonReceives(client)
      BY <1>4, <2>2
    <3>3. Fresh \/ Known
      BY <1>1, <3>1, PlaceFacts
    <3> QED
      BY <1>2, <3>1, <3>2, <3>3, FirstRegister, OwnRequest
  <2> QED
    BY <2>1, <2>2
<1>5. ASSUME NEW s \in UiSockets, DaemonSeesHangup(s)
      PROVE  Rest'
  <2>1. s # client
    BY <1>5 DEF DaemonSeesHangup
  <2> QED
    BY <1>2, <1>5, <2>1, StatusSteps
<1>6. ASSUME \/ \E r \in Rivals : RivalActs(r)
             \/ Maintenance
      PROVE  Rest'
  BY <1>2, <1>6, StatusSteps
<1>7. CASE TimePasses
  BY <1>2, <1>7, TimeKeeps, <1>3 DEF FailoverInv
<1>8. CASE OpenSession
  BY <1>2, <1>8, OpenKeeps, <1>3 DEF FailoverInv
<1>9. CASE CloseSession \/ OnSessionComplete
  BY <1>2, <1>9, CloseKeeps, <1>3 DEF FailoverInv
<1>10. CASE ClientDies \/ DaemonRestarts \/ \E s \in UiSockets : Connected(s)
  BY <1>2, <1>10, EndsKeep, <1>3 DEF FailoverInv
<1>11. CASE ClientReads
  BY <1>2, <1>11, ReadKeeps, <1>3 DEF FailoverInv
<1>12. CASE Watchdog \/ Heartbeat \/ Responds
  BY <1>2, <1>12, SendKeeps, <1>3 DEF FailoverInv
<1>13. CASE UNCHANGED failoverVars
  <2>1. Rest
    BY DEF FailoverInv
  <2>2. Rest'
    BY <1>13, <2>1 DEF failoverVars, registryVars, clientVars, ConnectionInv, BeliefInv,
      ShownInv, ReplayInv, Known, Listed, Fresh, MayAnswer
  <2> QED
    BY <1>2, <1>3, <2>2 DEF FailoverInv
<1>14. ASSUME Rest'
       PROVE  FailoverInv'
  BY <1>2, <1>3, <1>14 DEF FailoverInv
<1> HIDE DEF Rest
<1> QED
  BY <1>4, <1>5, <1>6, <1>7, <1>8, <1>9, <1>10, <1>11, <1>12, <1>13, <1>14 DEF FailoverNext

LEMMA FailoverInvariance == FailoverSpec => []FailoverInv
<1> QED
  BY FailoverInvInit, FailoverInvNext, PTL DEF FailoverSpec

\* When nothing is under way the client is known, and there is nothing left to
\* make it believe, or show, anything else.
LEMMA QuietFacts ==
    ASSUME FailoverInv, Quiet, registered
    PROVE  /\ Known /\ client \in Sockets
           /\ believes <=> MayAnswer
           /\ \A i \in DOMAIN toClient : FALSE
<1>1. /\ client # NoSocket /\ toClient = <<>> /\ RegistryInv /\ FailoverTypeOK
      /\ ConnectionInv /\ BeliefInv
  BY DEF FailoverInv, Quiet
<1>2. Known /\ client \in Sockets
  BY <1>1, PlaceFacts DEF Fresh
<1>3. \A i \in DOMAIN toClient : FALSE
  BY <1>1
<1>4. Believed(client, believes, toClient, Len(toClient)) <=> believes
  BY <1>3 DEF Believed
<1>5. believes <=> MayAnswer
  BY <1>1, <1>2, <1>4 DEF BeliefInv
<1> QED
  BY <1>2, <1>3, <1>5

\* When everything under way has arrived, a registered client believes that it
\* may answer exactly when isAuthorized says so, whatever replies, broadcasts,
\* refusals, deaths and restarts came before (BeliefIsAuthority).
THEOREM BeliefFollowsAuthority == FailoverSpec => []BeliefIsAuthority
<1>1. FailoverInv => BeliefIsAuthority
  <2> SUFFICES ASSUME FailoverInv, Quiet, registered
               PROVE  believes <=> IsAuthorized(client)
    BY DEF BeliefIsAuthority
  <2>1. client \in Sockets /\ (believes <=> MayAnswer)
    BY QuietFacts
  <2>2. RegistryInv
    BY DEF FailoverInv
  <2>3. IsAuthorized(client) <=> MayAnswer
    BY <2>1, <2>2, AuthorityFacts
  <2> QED
    BY <2>1, <2>3
<1> QED
  BY <1>1, FailoverInvariance, PTL

\* Then its window shows the session if and only if it is open and the client may
\* answer: no failover loses a prompt or leaves a dead one (ShownAfterFailover).
THEOREM FailoverShowsTheSession == FailoverSpec => []ShownAfterFailover
<1>1. FailoverInv => ShownAfterFailover
  <2> SUFFICES ASSUME FailoverInv, Quiet, registered
               PROVE  shown <=> open /\ believes
    BY DEF ShownAfterFailover
  <2>1. Known /\ (believes <=> MayAnswer) /\ \A i \in DOMAIN toClient : FALSE
    BY QuietFacts
  <2>2. /\ client # NoSocket /\ \A i \in DOMAIN toDaemon[client] : FALSE
        /\ shown => believes
    BY DEF Quiet, FailoverInv, ConnectionInv
  <2>3. shown => open
    BY <2>1 DEF FailoverInv, ShownInv, Hides
  <2>4. open /\ believes => shown
    BY <2>1, <2>2 DEF FailoverInv, ReplayInv, Reactivates
  <2> QED
    BY <2>2, <2>3, <2>4
<1> QED
  BY <1>1, FailoverInvariance, PTL

\* Restarts of the daemon and connections of dead clients included, one socket
\* is authorized to answer as long as any provider is registered.
THEOREM OneDeciderThroughFailover == FailoverSpec => []ExactlyOneDecider
<1>1. FailoverInv => ExactlyOneDecider
  BY NoSocketAssumption DEF FailoverInv, RegistryInv, RegistryTypeOK, ElectionIsTotal,
    ExactlyOneDecider, IsAuthorized
<1> QED
  BY <1>1, FailoverInvariance, PTL
=============================================================================
