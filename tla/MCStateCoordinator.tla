------------------------- MODULE MCStateCoordinator -------------------------
(***************************************************************************)
(* Small instances of the coordinator: a receiver that changes three times *)
(* while two polls or notifications are lost.                              *)
(***************************************************************************)
EXTENDS StateCoordinator
=============================================================================
