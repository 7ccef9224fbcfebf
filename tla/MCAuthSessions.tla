--------------------------- MODULE MCAuthSessions ---------------------------
(***************************************************************************)
(* Model checking of AuthSessions with clients that never share a cookie:  *)
(* two pinentry processes asking for the same key, the first over two      *)
(* connections that may overlap, a keyring prompter with one request and   *)
(* polkit with one authentication.  Requestor is checked for all walks     *)
(* over up to three readings, and some over one more than it may see.      *)
(***************************************************************************)
EXTENDS AuthRequestor, TLC

CONSTANTS gpg1, again1, gpg2, prompter, \* sockets
          p1, p2, p3,              \* their processes
          flow1, flow2, login, su, \* cookies
          key

MCPidOf == gpg1 :> p1 @@ again1 :> p1 @@ gpg2 :> p2 @@ prompter :> p3
MCRequests == { <<"pinentry", gpg1, flow1>>, <<"pinentry", again1, flow1>>,
                <<"pinentry", gpg2, flow2>>,
                <<"keyring", prompter, login>>, <<"polkit", NoSocket, su>> }
MCKeyinfosOf == flow1 :> {key, NoKeyinfo} @@ flow2 :> {key} @@ login :> {} @@ su :> {}

\* An application, a tool that a desktop entry names in Exec, a shell and pkexec,
\* with names of their own or not; of this user, of another or as root.
MCReading == [own : BOOLEAN, root : BOOLEAN, exe : {NoName, "pkexec", "App", "tool", "sh"},
              name : {"pkexec", "sh"}, last : BOOLEAN]
MCReadings ==
    LET readings == {r \in MCReading : r.exe = NoName \/ r.root = FALSE}
        few == {r \in readings : r.exe \in {"pkexec", "sh"} /\ r.name = "sh" /\ ~r.last}
    IN  UNION {[1..n -> readings \cup {Unreadable}] : n \in 0..3} \cup [1..4 -> few]
MCDesktopIndex == << [file |-> "other", exec |-> "tool", tryExec |-> NoName, name |-> "Sheet"],
                     [file |-> "app", exec |-> "run", tryExec |-> "run", name |-> "Tool"] >>
MCLowerCase == [n \in {"pkexec", "sh", "tool", "app", "other"} |-> n]
               @@ "App" :> "app" @@ "Sheet" :> "sheet" @@ "Tool" :> "tool"

ASSUME MCWellBehaved == DistinctCookies /\ OneKeyPerFlow
=============================================================================
