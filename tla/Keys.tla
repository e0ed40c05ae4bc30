-------------------------------- MODULE Keys --------------------------------
(***************************************************************************)
(* Remote keys and the key sequence each service call replays (keys.py,    *)
(* media_player.py, remote.py).  A channel is a sequence of one-character  *)
(* strings, stripped of its surrounding blanks.                            *)
(***************************************************************************)
LOCAL INSTANCE Naturals
LOCAL INSTANCE Sequences

Digits == {"0", "1", "2", "3", "4", "5", "6", "7", "8", "9"}

(* The key names the receiver knows (the values of _KEY_WIRE). *)
KeyNames == Digits \cup
  {"Power", "Dash", "Enter", "Up", "Down", "Left", "Right", "Guide",
   "Menu", "Info", "DVR", "Back", "Cancel", "Options", "TV", "Home",
   "Search", "Input", "Applications", "Help", "Microphone", "Keypad",
   "Backspace", "Delete", "Format", "ChannelUp", "ChannelDown",
   "PageUp", "PageDown", "Recall", "Play", "Pause", "Stop", "Rewind",
   "Jump", "Record", "Red", "Green", "Yellow", "Blue", "Mute", "Mode",
   "Space"}

(* The map from a channel character to its key; a digit names its own key. *)
DIGIT_KEYS == [char \in Digits \cup {"-"} |-> IF char = "-" THEN "Dash" ELSE char]

Valid(channel) == \A i \in DOMAIN channel : channel[i] \in DOMAIN DIGIT_KEYS

(* The digits, then ENTER; for a valid channel only. *)
channel_to_keys(channel) ==
  Append([i \in DOMAIN channel |-> DIGIT_KEYS[channel[i]]], "Enter")

(* `keys` sent num_repeats times over. *)
Repeated(keys, num_repeats) ==
  [i \in 1..(num_repeats * Len(keys)) |-> keys[((i - 1) % Len(keys)) + 1]]

(***************************************************************************)
(* A service call, as the entities turn it into key presses: a tune        *)
(* (tune_channel, play_media, a favorite chosen as source), a remote       *)
(* command, one key (send_key, play, pause, stop), turn_on or turn_off.    *)
(***************************************************************************)
Tune(channel) == [op |-> "tune", channel |-> channel]
SendCommand(keys, num_repeats) ==
  [op |-> "send_command", keys |-> keys, num_repeats |-> num_repeats]
SingleKey(key) == [op |-> "key", key |-> key]
TurnOnOff == [op |-> "power"]
LaunchApp(app) == [op |-> "launch_app", app |-> app]

IsCall(call) ==
  \/ call.op = "tune" /\ call.channel \in Seq(STRING)
  \/ call.op = "send_command" /\ call.keys \in Seq(KeyNames) /\ call.num_repeats \in Nat
  \/ call.op = "key" /\ call.key \in KeyNames
  \/ call.op \in {"power", "launch_app"}

(* The keys the call sends, in order. *)
Plan(call) ==
  CASE call.op = "tune" /\ Valid(call.channel) -> channel_to_keys(call.channel)
    [] call.op = "send_command" -> Repeated(call.keys, call.num_repeats)
    [] call.op = "key" -> <<call.key>>
    [] call.op = "power" -> <<"Power">>
    [] OTHER -> <<>>

(* channel_to_keys raises before any key is sent. *)
RaisesValueError(call) == call.op = "tune" /\ ~Valid(call.channel)
=============================================================================
