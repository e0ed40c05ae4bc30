---------------------------- MODULE MCConfigFlow ----------------------------
(***************************************************************************)
(* Small instances of the config flow: a Hopper, its Joey and a Wally, one *)
(* address to spare and two flows; a Hopper and its Joey with three flows. *)
(***************************************************************************)
EXTENDS ConfigFlow, TLC

CONSTANTS hopper, joey, wally

Family == hopper :> None @@ joey :> hopper @@ wally :> None
HopperAndJoey == hopper :> None @@ joey :> hopper

(* Flows and addresses are only compared with each other. *)
Symmetric == Permutations(Flows) \cup Permutations(Addrs)
=============================================================================
