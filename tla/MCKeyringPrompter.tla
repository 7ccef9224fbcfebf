-------------------------- MODULE MCKeyringPrompter --------------------------
(***************************************************************************)
(* Model checking of KeyringPrompter: the program asks two or three times  *)
(* over three connections, so that a prompt that outlived its close, a     *)
(* later request and a cancel can be under way together.                   *)
(***************************************************************************)
EXTENDS KeyringPrompter

CONSTANT prompter  \* the process

MCPidOf == [s \in Sockets |-> prompter]
MCRequests == {"keyring"} \X Sockets \X Cookies
MCKeyinfosOf == [c \in Cookies |-> {}]
=============================================================================
