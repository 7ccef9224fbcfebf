---------------------------- MODULE AuthRequestor ----------------------------
(***************************************************************************)
(* The requests of AuthSessions, each with the walk from the process       *)
(* behind it to the program its prompt names (Requestor).                  *)
(***************************************************************************)
EXTENDS AuthSessions, Requestor

\* Whichever of those walks was made when its request was accepted, a prompt on
\* display names the right program (RequestContext.cpp:204-264): not a bridge, not
\* somebody else's process, and nothing beyond one, even if processes exit, are
\* replaced or change owner during the walk.
NamesTheRequestor ==
    (\E c \in Cookies : IsOpen(sessions, c)) => WalksEndAtTheRequestor
=============================================================================
