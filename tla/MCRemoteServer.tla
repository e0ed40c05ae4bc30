--------------------------- MODULE MCRemoteServer ---------------------------
(***************************************************************************)
(* Small instances of the web remote: a tune, a key and an app at once.    *)
(***************************************************************************)
EXTENDS RemoteServer, TLC

CONSTANTS c1, c2, c3, c4

(* A sub-channel, whose dash is dropped; a key the receiver rejects; an    *)
(* app; an empty field.                                                    *)
Mixed ==
  c1 :> [api |-> "tune", text |-> <<"1", "-">>] @@ c2 :> [api |-> "key", text |-> <<"Power">>]
  @@ c3 :> [api |-> "app", text |-> <<"Netflix">>] @@ c4 :> [api |-> "key", text |-> <<>>]

(* Two at once: a tune and a key, a tune and an app. *)
TwoThreads == {{c1, c2}, {c1, c3}, {c4}}
=============================================================================
