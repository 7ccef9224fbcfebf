--------------------------- MODULE MCEventRouting ---------------------------
(***************************************************************************)
(* Model checking of EventRouting: two UI clients, two sessions, a queue   *)
(* of two events that five events overflow.  A tick is a whole maintenance *)
(* interval, and a heartbeat is stale after more than one.                 *)
(***************************************************************************)
EXTENDS EventRouting, TLC

ClientAndIdSymmetry == Permutations(Sockets) \cup Permutations(Ids)
=============================================================================
