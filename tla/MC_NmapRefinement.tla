------------------------- MODULE MC_NmapRefinement -------------------------
(* NmapTask against NmapPlugin, with the integer timeouts of MC_NmapTask. *)
EXTENDS NmapRefinement, MC_NmapTask

MCIntTTLs == MCTTLs \ {NaN}
=============================================================================
