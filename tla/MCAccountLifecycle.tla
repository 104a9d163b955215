------------------------- MODULE MCAccountLifecycle --------------------------
(* Two users, so that one may stand in another's way, and two calls, so that *)
(* one may overtake another.                                                 *)
EXTENDS AccountLifecycle
=============================================================================
