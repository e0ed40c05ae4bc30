------------------------- MODULE MCGenaSubscription -------------------------
(***************************************************************************)
(* Small instances of the GENA client.  One tick is ten seconds, the time  *)
(* limit of a request: the margin and the shortest wait are three ticks.   *)
(***************************************************************************)
EXTENDS GenaSubscription
=============================================================================
