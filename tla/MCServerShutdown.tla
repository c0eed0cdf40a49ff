------------------------- MODULE MCServerShutdown -------------------------
(* Three connection workers; their number and the bounds are in the .cfg. *)
EXTENDS ServerShutdown
=============================================================================
