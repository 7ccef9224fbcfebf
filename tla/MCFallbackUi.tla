---------------------------- MODULE MCFallbackUi ----------------------------
(***************************************************************************)
(* Model checking of FallbackUi: a second session can replace the first in *)
(* the window, and a timer can outlive the session it was started for.     *)
(* ProviderLaunch is checked for the layouts of two directories below.     *)
(***************************************************************************)
EXTENDS FallbackUi

\* Ids 1 and 2; "ui" and "shell" can be executed, "gone" cannot.
File(id, priority, autostart, exec) ==
    [id |-> id, named |-> TRUE, priority |-> priority, autostart |-> autostart,
     lists |-> TRUE, exec |-> exec]

ValidFiles ==
    {File(id, p, auto, exec) : id \in {1, 2}, p \in {Absent, 1},
                               auto \in {Absent, FALSE}, exec \in {"ui", "gone"}}
    \cup {File(1, p, TRUE, "shell") : p \in {-1, Fraction}}
    \cup {File(2, p, TRUE, "shell") : p \in {-1000, 1000}}
InvalidFiles ==
    {File(Absent, 1, TRUE, "ui"), File(1, 1001, TRUE, "ui"), File(1, -1001, TRUE, "ui"),
     File(1, WrongType, TRUE, "ui"), File(1, 1, WrongType, "ui"), File(1, 1, TRUE, Absent),
     [File(1, 1, TRUE, "ui") EXCEPT !.named = FALSE],
     [File(1, 1, TRUE, "ui") EXCEPT !.lists = FALSE]}

Dirs(files, n) == UNION {[1..k -> files] : k \in 0..n}
MCLayouts ==
    LET files == ValidFiles \cup InvalidFiles
    IN  {<<u, s>> : u \in Dirs(files, 2), s \in Dirs(ValidFiles, 1)}

\* The user disables the installed provider and has another that is gone.
DisabledProvider ==
    << <<File(1, Absent, FALSE, "shell"), File(2, 1, Absent, "gone")>>,
       <<File(1, 1, Absent, "shell")>> >>
InstalledProvider == << <<>>, <<File(1, 1, Absent, "shell")>> >>
=============================================================================
