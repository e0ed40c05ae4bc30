----------------------------- MODULE Favorites -----------------------------
(***************************************************************************)
(* The favorites a user types into the options form (config_flow.py), and  *)
(* what the media player does with them (media_player.py).                 *)
(*                                                                         *)
(* A text is a sequence of lines; a line is the sequence of its stripped   *)
(* parts between equals signs, so <<"HBO", "140">> is "HBO = 140", <<"x">> *)
(* a line without one, and <<"">> a blank one.  A channel is what follows  *)
(* the first equals sign, and may contain others.  Favorites are a dict, a *)
(* function from names to channels: its order shows only in a text.        *)
(***************************************************************************)
EXTENDS Naturals, SequencesExt

CONSTANTS
  Apps   \* transport.app_list

-----------------------------------------------------------------------------
(* The form. *)

Assigns(line) == Len(line) > 1 /\ Head(line) # "" /\ Tail(line) # <<"">>

(* The lines of a text that name a channel; those of one name. *)
Given(text) == {i \in DOMAIN text : Assigns(text[i])}
GivenTo(name, text) == {i \in Given(text) : Head(text[i]) = name}

(* _favorites_from_text: the last line of a name wins. *)
favorites_from_text(text) ==
  [name \in {Head(text[i]) : i \in Given(text)} |-> Tail(text[Max(GivenTo(name, text))])]

(* _favorites_to_text: the text the form is opened with, a line for each. *)
favorites_to_text(favorites) ==
  SetToSeq({<<name>> \o favorites[name] : name \in DOMAIN favorites})

-----------------------------------------------------------------------------
(* The media player, with the favorites it was made with. *)

(* The sources it offers, whatever their order. *)
source_list(favorites) == DOMAIN favorites \cup Apps

(* Mutant: a favorite that has the name of an app hides the app. *)
select_sourceFavoritesFirst(favorites, source) ==
  IF source \in DOMAIN favorites THEN <<"tune", favorites[source]>>
  ELSE IF source \in Apps THEN <<"launch", source>>
  ELSE <<"ignore">>

(* What async_select_source does: it launches an app, tunes a favorite's   *)
(* channel, or ignores a source that is neither.                           *)
select_source(favorites, source) ==
  IF source \in Apps THEN <<"launch", source>>
  ELSE IF source \in DOMAIN favorites THEN <<"tune", favorites[source]>>
  ELSE <<"ignore">>

ChannelTypes == {"channel", "tvchannel"}

(* async_play_media tunes a favorite's channel, or the id for one; media   *)
(* of another type than a channel it ignores.                              *)
play_media(favorites, media_type, media_id) ==
  IF media_type \notin ChannelTypes THEN <<"ignore">>
  ELSE IF media_id \in DOMAIN favorites THEN <<"tune", favorites[media_id]>>
  ELSE <<"tune", <<media_id>>>>
=============================================================================
