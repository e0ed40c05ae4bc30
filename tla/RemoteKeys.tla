----------------------------- MODULE RemoteKeys -----------------------------
(***************************************************************************)
(* The keys a user may name in a service call (RemoteKey and parse_key in  *)
(* keys.py), the names the receiver has for them (_KEY_WIRE), and the      *)
(* remote's services that take them (remote.py).  Parsing looks at a name  *)
(* stripped and in lower case, so that is how a name is written here.      *)
(***************************************************************************)
EXTENDS Keys, Sequences, TLC

(* The receiver's names of the keys whose value, an identifier in lower    *)
(* case, is not simply that name.                                          *)
Renamed ==
  "power_on" :> "Power" @@ "power_off" :> "Power" @@ "power_toggle" :> "Power"
  @@ "select" :> "Enter" @@ "exit" :> "Cancel" @@ "live_tv" :> "TV" @@ "dvr" :> "DVR"
  @@ "channel_up" :> "ChannelUp" @@ "channel_down" :> "ChannelDown"
  @@ "page_up" :> "PageUp" @@ "page_down" :> "PageDown"

SameName ==
  "dash" :> "Dash" @@ "enter" :> "Enter" @@ "up" :> "Up" @@ "down" :> "Down"
  @@ "left" :> "Left" @@ "right" :> "Right" @@ "guide" :> "Guide" @@ "menu" :> "Menu"
  @@ "info" :> "Info" @@ "back" :> "Back" @@ "options" :> "Options" @@ "home" :> "Home"
  @@ "search" :> "Search" @@ "input" :> "Input" @@ "applications" :> "Applications"
  @@ "help" :> "Help" @@ "microphone" :> "Microphone" @@ "keypad" :> "Keypad"
  @@ "backspace" :> "Backspace" @@ "delete" :> "Delete" @@ "format" :> "Format"
  @@ "recall" :> "Recall" @@ "play" :> "Play" @@ "pause" :> "Pause" @@ "stop" :> "Stop"
  @@ "rewind" :> "Rewind" @@ "jump" :> "Jump" @@ "record" :> "Record" @@ "red" :> "Red"
  @@ "green" :> "Green" @@ "yellow" :> "Yellow" @@ "blue" :> "Blue" @@ "mute" :> "Mute"
  @@ "mode" :> "Mode" @@ "space" :> "Space"

KEY_WIRE == [digit \in Digits |-> digit] @@ Renamed @@ SameName

(* The members of RemoteKey whose own name is not their value. *)
Aliases ==
  "num_0" :> "0" @@ "num_1" :> "1" @@ "num_2" :> "2" @@ "num_3" :> "3" @@ "num_4" :> "4"
  @@ "num_5" :> "5" @@ "num_6" :> "6" @@ "num_7" :> "7" @@ "num_8" :> "8" @@ "num_9" :> "9"
  @@ "ch_up" :> "channel_up" @@ "ch_down" :> "channel_down"

Known(name) == name \in DOMAIN KEY_WIRE \cup DOMAIN Aliases

parse_key(name) == IF name \in DOMAIN Aliases THEN Aliases[name] ELSE name

(* Names that are not known are left out, the others are sent. *)
send_command(names, num_repeats) ==
  LET known == SelectSeq(names, Known)
  IN SendCommand([i \in DOMAIN known |-> KEY_WIRE[parse_key(known[i])]], num_repeats)

(* One key, or nothing if its name is not known. *)
send_single_key(name) ==
  IF Known(name) THEN SingleKey(KEY_WIRE[parse_key(name)]) ELSE SendCommand(<<>>, 1)
=============================================================================
