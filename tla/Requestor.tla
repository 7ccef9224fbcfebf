------------------------------ MODULE Requestor ------------------------------
(***************************************************************************)
(* Which program a prompt says is asking: the walk from the process behind *)
(* a request up its ancestors (RequestContext.cpp).  Operators only; the   *)
(* handlers of AuthSessions call it for every request they accept.         *)
(*                                                                         *)
(* /proc changes while it is read, so the walk is a function of what each  *)
(* read returned, in order.  A reading is a record: own (the uid is the    *)
(* agent's), root (the euid is 0), exe (the basename of the executable, or *)
(* NoName when the link cannot be read), name (of the process), last (the  *)
(* parent is init, none, or the process itself); or Unreadable.            *)
(***************************************************************************)
EXTENDS Naturals, Sequences

CONSTANTS
    NoName,        \* an empty string
    Unreadable,    \* /proc/<pid>/status cannot be opened
    NoDesktop,     \* no desktop entry
    AgentIsRoot,   \* the agent's uid is 0
    MaxHops,       \* 16 in the code
    DesktopIndex,  \* the entries with a name and without NoDisplay: records of
                   \* file (without .desktop), exec, tryExec (basenames), name
    LowerCase,     \* a name -> the same name in lower case
    Readings       \* bound: the sequences of readings that are checked

ASSUME HopsAssumption == MaxHops \in Nat
ASSUME ReadingsAssumption ==
    \A readings \in Readings : Len(readings) \in Nat /\ DOMAIN readings = 1..Len(readings)

Bridges == {"pkexec", "sudo", "doas"}

\* The name of a process counts for nothing unless it runs as root.
ExeName(p) == IF p.exe # NoName THEN p.exe ELSE IF p.root THEN p.name ELSE NoName
IsBridge(p) == ExeName(p) \in Bridges

\* The matches of findDesktopForExe in the order it tries them.
Matches(entry, base, pass) ==
    CASE pass = 1 -> entry.file = base
      [] pass = 2 -> LowerCase[entry.file] = LowerCase[base]
      [] pass = 3 -> entry.exec = base
      [] pass = 4 -> entry.tryExec = base
      [] pass = 5 -> LowerCase[entry.name] = LowerCase[base]

FindDesktopForExe(base) ==
    LET hits == {h \in (1..5) \X DOMAIN DesktopIndex : Matches(DesktopIndex[h[2]], base, h[1])}
        First == CHOOSE h \in hits :
                    \A g \in hits : h[1] < g[1] \/ (h[1] = g[1] /\ h[2] <= g[2])
    IN  IF base = NoName \/ hits = {} THEN NoDesktop ELSE DesktopIndex[First[2]]

DesktopOf(p) ==
    LET byExe == FindDesktopForExe(p.exe)
    IN  IF byExe # NoDesktop THEN byExe ELSE FindDesktopForExe(p.name)

\* Processes of other users end the walk, except for bridges.
MayPass(p) == p # Unreadable /\ (p.own \/ AgentIsRoot \/ IsBridge(p))
IsCandidate(p) == p.own /\ ~IsBridge(p)

\* Defective variant: the desktop entry is looked up before the owner is.
HopDesktopFirst(walk, p) ==
    IF ~walk.on \/ p = Unreadable THEN [walk EXCEPT !.on = FALSE]
    ELSE IF DesktopOf(p) # NoDesktop
    THEN [proc |-> p, desktop |-> DesktopOf(p), on |-> FALSE]
    ELSE IF ~MayPass(p) THEN [walk EXCEPT !.on = FALSE]
    ELSE [walk EXCEPT !.proc = IF IsCandidate(p) THEN p ELSE @, !.on = ~p.last]

\* One turn of the loop, for what readProc returned.
Hop(walk, p) ==
    IF ~walk.on THEN walk
    ELSE IF ~MayPass(p) THEN [walk EXCEPT !.on = FALSE]
    ELSE IF DesktopOf(p) # NoDesktop
    THEN [proc |-> p, desktop |-> DesktopOf(p), on |-> FALSE]
    ELSE [walk EXCEPT !.proc = IF IsCandidate(p) THEN p ELSE @, !.on = ~p.last]

\* subject was read before the walk, which reads it again.
ResolveRequestorFromSubject(subject, readings) ==
    LET hops == IF MaxHops < Len(readings) THEN MaxHops ELSE Len(readings)
        walk[n \in 0..hops] ==
            IF n = 0 THEN [proc |-> subject, desktop |-> NoDesktop, on |-> TRUE]
            ELSE Hop(walk[n - 1], readings[n])
    IN  walk[hops]

-----------------------------------------------------------------------------
\* The walk may see the first n readings: those before led on to the next.
Reaches(readings, n) ==
    /\ n <= MaxHops
    /\ \A i \in 1..n : MayPass(readings[i])
    /\ \A i \in 1..(n - 1) : DesktopOf(readings[i]) = NoDesktop /\ ~readings[i].last

\* The walk ends at the first ancestor with a desktop entry or else at the
\* outermost process of the user that is no bridge, among those that are reached
\* without passing anybody else's process but a bridge; and at the process that
\* asked if there is none.  It does so whatever changes between two reads.
WalksEndAtTheRequestor ==
    \A readings \in Readings :
        LET w == ResolveRequestorFromSubject("subject", readings)
            reached == {i \in DOMAIN readings : Reaches(readings, i)}
            apps == {i \in reached : DesktopOf(readings[i]) # NoDesktop}
            mine == {i \in reached : IsCandidate(readings[i])}
        IN  IF apps # {}
            THEN \E i \in apps : w.proc = readings[i] /\ w.desktop = DesktopOf(readings[i])
            ELSE /\ w.desktop = NoDesktop
                 /\ IF mine = {} THEN w.proc = "subject"
                    ELSE \E i \in mine : w.proc = readings[i] /\ \A j \in mine : j <= i
=============================================================================
