------------------------- MODULE MCProviderFailover -------------------------
(***************************************************************************)
(* Model checking of ProviderFailover with the built-in client, which can  *)
(* connect again while the daemon still holds its last connection, and one *)
(* other provider, which outranks it.  The stale connection is of the      *)
(* client's own priority, so elections between equals happen too.          *)
(***************************************************************************)
EXTENDS ProviderFailover
=============================================================================
