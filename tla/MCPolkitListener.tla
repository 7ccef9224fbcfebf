-------------------------- MODULE MCPolkitListener --------------------------
(***************************************************************************)
(* Model checking of PolkitListener with two authentications at a time,    *)
(* the code's three attempts, and helpers enough for the current one of    *)
(* each authentication and two that wait for their deletion.               *)
(***************************************************************************)
EXTENDS PolkitListener
=============================================================================
