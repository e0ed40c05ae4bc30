--------------------------- MODULE MCSgsTransport ---------------------------
(***************************************************************************)
(* Small instances of the command path: the calls of one receiver's        *)
(* transport, two at a time.                                               *)
(***************************************************************************)
EXTENDS SgsTransport, RemoteKeys

CONSTANTS c1, c2, c3, c4, c5, c6, hopper

(* Keys the receiver takes, given by other names than its own; turn_on,    *)
(* whose key it rejects; an app; a key that is none; a channel that is     *)
(* none; and a tune.                                                       *)
Mixed ==
  c1 :> send_command(<<"guidance", "num_5", "select">>, 1) @@ c2 :> TurnOnOff
  @@ c3 :> LaunchApp("Netflix") @@ c4 :> send_single_key("ch_upp")
  @@ c5 :> Tune(<<"x">>) @@ c6 :> Tune(<<"7">>)

SixOnOne == c1 :> hopper @@ c2 :> hopper @@ c3 :> hopper @@ c4 :> hopper @@ c5 :> hopper @@ c6 :> hopper

Pairs == {{c1, c2}, {c1, c6}, {c2, c3}, {c4, c5}}

(* Two tunes of two digits, nothing fails. *)
TwoTunes == c1 :> Tune(<<"1", "2">>) @@ c2 :> Tune(<<"3", "4">>)
OneTransport == c1 :> hopper @@ c2 :> hopper
Both == {{c1, c2}}

AllFaults == FaultKinds
NoFaults == {}
=============================================================================
