----------------------------- MODULE MCStartup -----------------------------
(* Startup for TLC: two of the dongles have the same hardware id. *)
EXTENDS Startup, TLC

CONSTANTS d1, d2, d3

Ids == (d1 :> 1) @@ (d2 :> 1) @@ (d3 :> 2)
=============================================================================
