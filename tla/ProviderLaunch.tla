---------------------------- MODULE ProviderLaunch ----------------------------
(***************************************************************************)
(* Which program the daemon launches when a prompt has no UI: the reading  *)
(* of manifests (ProviderManifest.cpp), their precedence over directories  *)
(* (ProviderDiscovery.cpp) and the choice of a candidate                   *)
(* (ProviderLauncher.cpp).  Operators only; FallbackUi does the launching. *)
(*                                                                         *)
(* A manifest file is a record of its JSON fields, reduced to what the     *)
(* checks tell apart.  Ids are numbered in the order of their names.       *)
(***************************************************************************)
EXTENDS Integers, Sequences

CONSTANTS
    Absent,       \* a field or an environment variable that is not there
    WrongType,    \* a field of another JSON type
    Fraction,     \* a number that is no int
    Executables,  \* what resolves to an executable file
    Programs,     \* paths the environment and the installation may name
    Layouts       \* bound: the contents of the search directories that are
                  \* checked, as sequences of sequences of files

(***************************************************************************)
(* Fields of a file: id (Absent when it does not match the pattern), named *)
(* (name and kind are there), priority, autostart, lists (args, env and    *)
(* capabilities are absent or well formed), and exec (Absent when neither  *)
(* an absolute path nor a basename).                                       *)
(***************************************************************************)

ASSUME LayoutsAssumption ==
    \A dirs \in Layouts :
        /\ Len(dirs) \in Nat /\ DOMAIN dirs = 1..Len(dirs)
        /\ \A d \in DOMAIN dirs :
              /\ Len(dirs[d]) \in Nat /\ DOMAIN dirs[d] = 1..Len(dirs[d])
              /\ \A f \in DOMAIN dirs[d] : dirs[d][f].id \in Nat \cup {Absent}

\* QJsonValue::toInt gives 0 for a number that is no int.
PriorityOf(file) == IF file.priority \in {Absent, Fraction} THEN 0 ELSE file.priority

\* parseProviderManifest accepts the file.
IsManifest(file) ==
    /\ file.priority # WrongType /\ file.autostart # WrongType
    /\ file.lists /\ file.named
    /\ file.id # Absent /\ file.exec # Absent
    /\ PriorityOf(file) \in -1000..1000

ManifestOf(file) ==
    [id |-> file.id, priority |-> PriorityOf(file), exec |-> file.exec,
     autostart |-> file.autostart \in {TRUE, Absent}]

\* Defective variant: a later directory overrides an earlier one.
AddManifestReplacing(found, file) ==
    IF IsManifest(file)
    THEN {m \in found : m.id # file.id} \cup {ManifestOf(file)}
    ELSE found

\* Unreadable and invalid files are skipped; they do not hide anything.
AddManifest(found, file) ==
    IF IsManifest(file) /\ \A m \in found : m.id # file.id
    THEN found \cup {ManifestOf(file)}
    ELSE found

\* discover: directories in their order, and files in the order of their names.
DiscoverIn(files, found) ==
    LET scan[f \in 0..Len(files)] == IF f = 0 THEN found ELSE AddManifest(scan[f - 1], files[f])
    IN  scan[Len(files)]

Discover(dirs) ==
    LET scan[d \in 0..Len(dirs)] == IF d = 0 THEN {} ELSE DiscoverIn(dirs[d], scan[d - 1])
    IN  scan[Len(dirs)]

\* The order of the candidates.
Before(a, b) == a.priority > b.priority \/ (a.priority = b.priority /\ a.id < b.id)

NoCandidate == [source |-> "none", exec |-> Absent]

\* selectCandidate takes the first in that order which can be executed.  override:
\* BB_AUTH_FALLBACK_PATH; default: the built-in fallback.
SelectCandidate(manifests, override, default) ==
    LET launchable == {m \in manifests : m.autostart /\ m.exec \in Executables}
        first == CHOOSE m \in launchable : \A n \in launchable : ~Before(n, m)
    IN  IF override # Absent
        THEN IF override \in Executables
             THEN [source |-> "override", exec |-> override] ELSE NoCandidate
        ELSE IF launchable # {} THEN [source |-> "manifest", exec |-> first.exec]
        ELSE IF default \in Executables
        THEN [source |-> "default", exec |-> default] ELSE NoCandidate

-----------------------------------------------------------------------------
(* What the choice comes to.                                               *)

\* The places <<d, f>> of the valid files, and of those that count: the first valid
\* one of their id.
FileAt(dirs, p) == dirs[p[1]][p[2]]
Places(dirs) ==
    {p \in UNION {{d} \X DOMAIN dirs[d] : d \in DOMAIN dirs} : IsManifest(FileAt(dirs, p))}
Earlier(p, q) == p[1] < q[1] \/ (p[1] = q[1] /\ p[2] < q[2])
Effective(dirs) ==
    {p \in Places(dirs) :
        \A q \in Places(dirs) : Earlier(q, p) => FileAt(dirs, q).id # FileAt(dirs, p).id}

\* Manifests that want to be started, and can be.
Able(dirs) ==
    {m \in {ManifestOf(FileAt(dirs, p)) : p \in Effective(dirs)} :
        m.autostart /\ m.exec \in Executables}

IsBest(dirs, exec) ==
    \E m \in Able(dirs) :
        /\ m.exec = exec
        /\ \A n \in Able(dirs) : \/ n.priority < m.priority
                                 \/ n.priority = m.priority /\ n.id >= m.id

\* Without an override, the choice is the manifest that is the first valid one of
\* its id, wants to be started, can be, and beats all others like it by priority,
\* then by id; the built-in only if there is none, and nothing only if that cannot
\* be executed either.
ChoosesTheBestCandidate ==
    \A dirs \in Layouts, override, default \in Programs :
        LET chosen == SelectCandidate(Discover(dirs), override, default) IN
        CASE chosen.source = "override" -> chosen.exec = override
          [] chosen.source = "manifest" -> override = Absent /\ IsBest(dirs, chosen.exec)
          [] chosen.source = "default"  -> override = Absent /\ Able(dirs) = {}
          [] chosen = NoCandidate ->
                IF override # Absent THEN override \notin Executables
                ELSE Able(dirs) = {} /\ default \notin Executables
=============================================================================
