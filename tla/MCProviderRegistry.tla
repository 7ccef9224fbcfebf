------------------------- MODULE MCProviderRegistry -------------------------
(***************************************************************************)
(* Model checking of ProviderRegistry with three clients.  One tick is     *)
(* 2.5 s: the maintenance timer fires every second tick (5000 ms) and a    *)
(* heartbeat is stale after more than six (15000 ms).                      *)
(***************************************************************************)
EXTENDS ProviderRegistry, TLC

SocketSymmetry == Permutations(Sockets)
=============================================================================
