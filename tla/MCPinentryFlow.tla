--------------------------- MODULE MCPinentryFlow ---------------------------
(***************************************************************************)
(* Model checking of PinentryFlow: one pinentry process that asks for at   *)
(* most two secrets, with three connections, so that two it has given up   *)
(* can be unread while it waits on the third.                              *)
(***************************************************************************)
EXTENDS PinentryFlow

CONSTANT gpg  \* the process

MCPidOf == [s \in Sockets |-> gpg]
MCRequests == {"pinentry"} \X Sockets \X Cookies
MCKeyinfosOf == [c \in Cookies |-> {NoKeyinfo}]
=============================================================================
