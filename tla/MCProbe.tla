------------------------------- MODULE MCProbe -------------------------------
(***************************************************************************)
(* A small instance of the prober: two receivers with two and one open     *)
(* ports out of three, of which one speaks TLS; two announcements, one a   *)
(* repetition of the other but for its end.                                *)
(***************************************************************************)
EXTENDS Probe, TLC

CONSTANTS hopper, wally

TwoHosts == <<hopper, wally>>
PortsOpen == hopper :> {80, 443} @@ wally :> {80}
Repeated ==
  {[protocol |-> "ssdp", source |-> hopper, head |-> "alive", tail |-> t] : t \in {"a", "b"}}
=============================================================================
