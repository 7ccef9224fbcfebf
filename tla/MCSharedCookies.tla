--------------------------- MODULE MCSharedCookies --------------------------
(***************************************************************************)
(* Model checking of AuthSessions with clients that send whatever id they  *)
(* like: both sockets may use the first cookie for every kind of request,  *)
(* and polkit too.                                                         *)
(***************************************************************************)
EXTENDS AuthSessions, TLC

CONSTANTS a, b,          \* sockets
          pa, pb,        \* their processes
          shared, other, \* cookies
          key

MCPidOf == a :> pa @@ b :> pb
MCRequests == ({"keyring", "pinentry"} \X {a, b} \X {shared})
                  \cup {<<"polkit", NoSocket, shared>>, <<"pinentry", b, other>>}
MCKeyinfosOf == [c \in Cookies |-> IF c = shared THEN {key, NoKeyinfo} ELSE {key}]
=============================================================================
