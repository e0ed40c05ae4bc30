-------------------------- MODULE MCEntryLifecycle --------------------------
(***************************************************************************)
(* Small instances of the lifecycle: two entries set up at once, and texts *)
(* with a name given twice, the name of an app, a channel with an equals   *)
(* sign, a line without one, a blank one and one without a channel.        *)
(***************************************************************************)
EXTENDS EntryLifecycle

LaunchableApps == {"Netflix", "YouTube"}

SavedForms ==
  {[scan_interval |-> 5, text |-> <<<<"HBO", "140">>, <<"CNN", "200">>, <<"x">>, <<"HBO", "141">>>>],
   [scan_interval |-> 5, text |-> <<<<"Netflix", "7", "1">>, <<"">>, <<"CNN", "">>, <<"ABC", "7">>>>],
   [scan_interval |-> 0, text |-> None]}

(* The loop of _favorites_from_text, line by line: a name keeps the channel *)
(* that was assigned last.                                                  *)
Assign(favorites, line) == (Head(line) :> Tail(line)) @@ favorites
Loop(text) == FoldLeft(Assign, NoFavorites, SelectSeq(text, Assigns))

SomeLines == {<<"HBO", "140">>, <<"HBO", "1", "4">>, <<"CNN", "140">>, <<"CNN", "">>, <<"", "7">>, <<"x">>}
Texts == UNION {[1..n -> SomeLines] : n \in 0..4}

(* _favorites_from_text, on every text of up to four such lines; and what   *)
(* it makes of a text is what it makes of the text of that.                 *)
ASSUME FavoritesOfText ==
  \A text \in Texts :
    /\ favorites_from_text(text) = Loop(text)
    /\ Loop(favorites_to_text(Loop(text))) = Loop(text)
=============================================================================
