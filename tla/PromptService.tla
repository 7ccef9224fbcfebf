--------------------------- MODULE PromptService ----------------------------
(***************************************************************************)
(* What the daemon promises to the programs that ask it for a secret, seen *)
(* from outside: a prompt is on display for as long as somebody waits for  *)
(* its answer, and a prompt that goes away leaves nobody waiting.          *)
(***************************************************************************)
CONSTANTS Requesters, Ids

VARIABLES
    present,  \* requesters whose connection is open
    shown,    \* ids of the prompts on display
    waiting   \* <<requester, id>> for every request not answered yet

promptVars == <<present, shown, waiting>>

WaitersOf(id) == {r \in Requesters : <<r, id>> \in waiting}

PromptInit == present = {} /\ shown = {} /\ waiting = {}

Arrive(r) ==
    /\ present' = present \cup {r}
    /\ UNCHANGED <<shown, waiting>>

\* A request puts its prompt on display, or shows it again with a new question.
Ask(r, id) ==
    /\ r \in present
    /\ shown' = shown \cup {id}
    /\ waiting' = waiting \cup {<<r, id>>}
    /\ UNCHANGED present

\* A prompt nobody on a connection waits for (polkit keeps its own callback).
Show(id) ==
    /\ shown' = shown \cup {id}
    /\ UNCHANGED <<present, waiting>>

\* The requester gets its reply.  The prompt may stay, until the outcome of
\* the answer is known.
Answer(r, id) ==
    /\ <<r, id>> \in waiting
    /\ waiting' = waiting \ {<<r, id>>}
    /\ \/ UNCHANGED shown
       \/ WaitersOf(id) = {r} /\ shown' = shown \ {id}
    /\ UNCHANGED present

\* Prompts without anybody waiting go away.
Settle(ids) ==
    /\ ids \subseteq shown
    /\ \A id \in ids : WaitersOf(id) = {}
    /\ shown' = shown \ ids
    /\ UNCHANGED <<present, waiting>>

\* A requester hangs up; the prompts it waited for go with it.
Leave(r) ==
    LET ids == {id \in Ids : <<r, id>> \in waiting}
    IN  /\ present' = present \ {r}
        /\ \A id \in ids : WaitersOf(id) = {r}
        /\ waiting' = {w \in waiting : w[1] # r}
        /\ shown' = shown \ ids

PromptNext ==
    \/ \E r \in Requesters, id \in Ids : Ask(r, id) \/ Answer(r, id)
    \/ \E id \in Ids : Show(id)
    \/ \E ids \in SUBSET Ids : Settle(ids)
    \/ \E r \in Requesters : Arrive(r) \/ Leave(r)

PromptSpec == PromptInit /\ [][PromptNext]_promptVars
=============================================================================
