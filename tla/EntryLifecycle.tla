--------------------------- MODULE EntryLifecycle ---------------------------
(***************************************************************************)
(* Setting config entries up, unloading and reloading them (__init__.py,   *)
(* frontend.py), the options form (config_flow.py) and the media player    *)
(* that works with its favorites.  Home Assistant sets several entries up  *)
(* at once, but does one thing at a time to each; a step is what a setup   *)
(* or an unload does between two awaits.                                   *)
(***************************************************************************)
EXTENDS Favorites

CONSTANTS
  Entries,      \* config entries of the domain
  Forms,        \* what a user makes of the options form: its poll interval, in
                \* seconds, and the text of its favorites, or None if left as it is
  Faults,       \* steps that may fail
  MaxFaults,    \* how often they do
  MaxOptions,   \* how often options change
  None

ASSUME LifecycleAssumption ==
  /\ \A form \in Forms : /\ form.scan_interval \in 0..3600
                          /\ form.text \in Seq(Seq(STRING)) \cup {None}
  /\ Faults \subseteq {"connect", "subscribe", "unload", "hang_up"}
  /\ MaxFaults \in Nat /\ MaxOptions \in Nat

DEFAULT_SCAN_INTERVAL == 10
Scans == {form.scan_interval : form \in Forms}

(* The lines of the texts that name a channel, and the favorites of them. *)
Lines ==
  {line \in UNION {ToSet(form.text) : form \in {f \in Forms : f.text # None}} : Assigns(line)}
Dicts ==
  UNION {[given -> {Tail(line) : line \in Lines}] : given \in SUBSET {Head(line) : line \in Lines}}

VARIABLES
  entry,       \* what Home Assistant and the integration keep of each entry
  flag,        \* frontend_registered
  registered,  \* how often the static path was registered
  faults, changes

vars == <<entry, flag, registered, faults, changes>>

Setup == {"frontend", "connect", "refresh", "subscribe", "platforms", "entities"}
Unload == {"unload_platforms", "unsubscribe"}
Rest == {"not_loaded", "setup_retry", "loaded", "failed_unload"}

(* entry.options.get(CONF_FAVORITES, {}), before there are any. *)
NoFavorites == [name \in {} |-> <<>>]

(* stage: what the entry's setup or unload awaits, or its state; options:  *)
(* those the form saved, no interval and no favorites before; config: the  *)
(* interval its setup read; interval: that of its coordinator; favorites:  *)
(* those of its media player; session: has the transport one?; listener:   *)
(* GENA listeners left open; gena: does the runtime data hold a            *)
(* subscription?; reload: is a setup or reload due?; typed (history): what *)
(* the user typed last of each favorite; missed (history): which options   *)
(* changed after the last setup read them, before it listened to changes.  *)
NewEntry ==
  [stage |-> "not_loaded", options |-> [scan_interval |-> None, favorites |-> NoFavorites],
   config |-> None, interval |-> None, favorites |-> NoFavorites,
   session |-> FALSE, listener |-> 0, gena |-> FALSE, reload |-> TRUE,
   typed |-> {}, missed |-> {}]

Init ==
  /\ entry = [e \in Entries |-> NewEntry]
  /\ flag = FALSE /\ registered = 0
  /\ faults = 0 /\ changes = 0

At(e, stage) == entry[e].stage = stage

Fault(kind) == kind \in Faults /\ faults < MaxFaults /\ faults' = faults + 1

(* Mutant: the form's interval is taken as it is. *)
ScanIntervalRaw(seconds) == IF seconds = None THEN DEFAULT_SCAN_INTERVAL ELSE seconds

(* An interval of zero counts as none given. *)
ScanInterval(seconds) ==
  IF seconds \in {None, 0} THEN DEFAULT_SCAN_INTERVAL ELSE seconds

-----------------------------------------------------------------------------
(* Setup. *)

(* The options are read and the transport opens its session. *)
StartConnecting(e) ==
  entry' = [entry EXCEPT ![e] = [@ EXCEPT !.stage = "connect", !.session = TRUE,
                                          !.config = entry[e].options.scan_interval,
                                          !.reload = FALSE, !.missed = {}]]

BeginSetup(e) ==
  /\ entry[e].reload /\ entry[e].stage \in {"not_loaded", "setup_retry"}
  /\ \/ ~flag /\ entry' = [entry EXCEPT ![e] = [@ EXCEPT !.stage = "frontend", !.reload = FALSE]]
     \/ flag /\ StartConnecting(e)
  /\ UNCHANGED <<flag, registered, faults, changes>>

(* Mutant: the flag is never set. *)
RegisterFrontendAgain(e) ==
  /\ At(e, "frontend")
  /\ registered' = registered + 1 /\ flag' = flag
  /\ StartConnecting(e)
  /\ UNCHANGED <<faults, changes>>

RegisterFrontend(e) ==
  /\ At(e, "frontend")
  /\ registered' = registered + 1 /\ flag' = TRUE
  /\ StartConnecting(e)
  /\ UNCHANGED <<faults, changes>>

Connected(e) ==
  /\ entry' = [entry EXCEPT ![e] = [@ EXCEPT !.stage = "refresh",
                                             !.interval = ScanInterval(entry[e].config)]]
  /\ UNCHANGED faults

(* Mutant: no attempt follows the one that could not reach the receiver. *)
ConnectOrFail(e) ==
  /\ At(e, "connect")
  /\ \/ Connected(e)
     \/ /\ Fault("connect")
        /\ entry' = [entry EXCEPT ![e] = [@ EXCEPT !.stage = "setup_retry", !.session = FALSE]]
  /\ UNCHANGED <<flag, registered, changes>>

(* Connected: the coordinator is made and refreshes.  Otherwise the        *)
(* transport is closed and Home Assistant tries again later.               *)
Connect(e) ==
  /\ At(e, "connect")
  /\ \/ Connected(e)
     \/ /\ Fault("connect")
        /\ entry' = [entry EXCEPT ![e] = [@ EXCEPT !.stage = "setup_retry", !.session = FALSE,
                                                   !.reload = TRUE]]
  /\ UNCHANGED <<flag, registered, changes>>

(* After the first refresh: subscribe, if the receiver has an event URL. *)
Refreshed(e) ==
  /\ At(e, "refresh")
  /\ \/ entry' = [entry EXCEPT ![e] = [@ EXCEPT !.stage = "subscribe",
                                                   !.listener = entry[e].listener + 1]]
     \/ entry' = [entry EXCEPT ![e].stage = "platforms"]
  /\ UNCHANGED <<flag, registered, faults, changes>>

(* async_start returned; when it failed it closed the listener itself. *)
Subscribed(e) ==
  /\ At(e, "subscribe")
  /\ \/ /\ entry' = [entry EXCEPT ![e] = [@ EXCEPT !.stage = "platforms", !.gena = TRUE]]
        /\ UNCHANGED faults
     \/ /\ Fault("subscribe")
        /\ entry' = [entry EXCEPT ![e] = [@ EXCEPT !.stage = "platforms",
                                                   !.listener = entry[e].listener - 1]]
  /\ UNCHANGED <<flag, registered, changes>>

(* The media player is made and takes the favorites of the options. *)
AddEntities(e) ==
  /\ At(e, "platforms")
  /\ entry' = [entry EXCEPT ![e] = [@ EXCEPT !.stage = "entities",
                                             !.favorites = entry[e].options.favorites]]
  /\ UNCHANGED <<flag, registered, faults, changes>>

(* From now on a change of options reloads the entry. *)
PlatformsUp(e) ==
  /\ At(e, "entities")
  /\ entry' = [entry EXCEPT ![e].stage = "loaded"]
  /\ UNCHANGED <<flag, registered, faults, changes>>

-----------------------------------------------------------------------------
(* Unload. *)

(* For a reload; or the user disables the entry and no setup follows. *)
BeginUnload(e) ==
  /\ At(e, "loaded") /\ entry[e].reload
  /\ entry' = [entry EXCEPT ![e].stage = "unload_platforms"]
  /\ UNCHANGED <<flag, registered, faults, changes>>

Disable(e) ==
  /\ At(e, "loaded") /\ ~entry[e].reload
  /\ entry' = [entry EXCEPT ![e].stage = "unload_platforms"]
  /\ UNCHANGED <<flag, registered, faults, changes>>

(* The transport is closed and the runtime data dropped. *)
Unloaded(e, listeners) ==
  /\ entry' = [entry EXCEPT ![e] = [@ EXCEPT !.stage = "not_loaded", !.session = FALSE,
                                             !.interval = None, !.gena = FALSE,
                                             !.favorites = NoFavorites,
                                             !.listener = listeners]]
  /\ UNCHANGED faults

(* Mutant: the subscription is left alone. *)
PlatformsDownOnly(e) ==
  /\ At(e, "unload_platforms")
  /\ Unloaded(e, entry[e].listener)
  /\ UNCHANGED <<flag, registered, changes>>

(* Once the entities are gone the subscription is given back, then the     *)
(* transport closed; if an entity stays, nothing is torn down.             *)
PlatformsDown(e) ==
  /\ At(e, "unload_platforms")
  /\ \/ /\ entry[e].gena
        /\ entry' = [entry EXCEPT ![e].stage = "unsubscribe"]
        /\ UNCHANGED faults
     \/ ~entry[e].gena /\ Unloaded(e, entry[e].listener)
     \/ Fault("unload") /\ entry' = [entry EXCEPT ![e].stage = "failed_unload"]
  /\ UNCHANGED <<flag, registered, changes>>

(* async_stop returned, or raised because the receiver hung up. *)
Unsubscribed(e) ==
  /\ At(e, "unsubscribe")
  /\ \/ Unloaded(e, entry[e].listener - 1)
     \/ Fault("hang_up") /\ entry' = [entry EXCEPT ![e].stage = "failed_unload"]
  /\ UNCHANGED <<flag, registered, changes>>

(* Options whose change the setup under way does not see, nor hear of. *)
Unseen(e) ==
  IF At(e, "entities") THEN {"scan_interval", "favorites"}
  ELSE IF entry[e].stage \in Setup \ {"frontend"} THEN {"scan_interval"} ELSE {}

(* What the form says of each favorite: its last line with a channel. *)
LastLines(text) ==
  {text[i] : i \in {i \in Given(text) : \A j \in Given(text) : j > i => Head(text[j]) # Head(text[i])}}

(* The form is saved with an interval and a text, which may be the one it  *)
(* was opened with.  Home Assistant tells of options that differ.          *)
Save(e, heard) ==
  \E form \in Forms :
    LET text == IF form.text = None THEN favorites_to_text(entry[e].options.favorites)
                ELSE form.text
        options == [scan_interval |-> form.scan_interval,
                    favorites |-> favorites_from_text(text)]
    IN /\ options # entry[e].options
       /\ entry' = [entry EXCEPT ![e] = [@ EXCEPT
                       !.options = options, !.typed = LastLines(text),
                       !.reload = entry[e].reload \/ heard,
                       !.missed = entry[e].missed \cup Unseen(e)]]

(* Mutant: nobody listens for changes. *)
ChangeOptionsUnheard(e) ==
  /\ changes < MaxOptions /\ changes' = changes + 1
  /\ Save(e, FALSE)
  /\ UNCHANGED <<flag, registered, faults>>

(* The user submits the options form; the listener that setup registered   *)
(* last asks for a reload.  A reload asked for during an unload is the one *)
(* that is due, or finds the entry disabled.                               *)
ChangeOptions(e) ==
  /\ changes < MaxOptions /\ changes' = changes + 1
  /\ Save(e, At(e, "loaded"))
  /\ UNCHANGED <<flag, registered, faults>>

Step(e) ==
  \/ BeginSetup(e) \/ RegisterFrontend(e) \/ Connect(e) \/ Refreshed(e) \/ Subscribed(e)
  \/ AddEntities(e) \/ PlatformsUp(e) \/ BeginUnload(e) \/ PlatformsDown(e) \/ Unsubscribed(e)

Next == \E e \in Entries : Step(e) \/ Disable(e) \/ ChangeOptions(e)

Spec == Init /\ [][Next]_vars

(* Home Assistant runs what it started, and retries. *)
FairSpec == Spec /\ \A e \in Entries : WF_vars(Step(e))

-----------------------------------------------------------------------------
(* Properties. *)

(* Type correctness of the entries and of the frontend's registration. *)
TypeOK ==
  /\ entry \in [Entries ->
       [stage : Setup \cup Unload \cup Rest,
        options : [scan_interval : Scans \cup {None}, favorites : Dicts],
        config : Scans \cup {None}, favorites : Dicts,
        interval : (Scans \ {0}) \cup {None, DEFAULT_SCAN_INTERVAL},
        session : BOOLEAN, listener : Nat, gena : BOOLEAN, reload : BOOLEAN,
        typed : SUBSET Lines, missed : SUBSET {"scan_interval", "favorites"}]]
  /\ flag \in BOOLEAN /\ registered \in Nat
  /\ faults \in 0..MaxFaults /\ changes \in 0..MaxOptions

(* Through retries, reloads and failed subscriptions an entry has at most  *)
(* one listener, the one its runtime data can stop; an entry that is not   *)
(* loaded has none, and no session.                                        *)
ListenersOwned ==
  \A e \in Entries :
    /\ entry[e].listener = IF entry[e].gena \/ At(e, "subscribe") THEN 1 ELSE 0
    /\ At(e, "not_loaded") \/ At(e, "setup_retry") =>
         ~entry[e].session /\ ~entry[e].gena

(* A setup or a reload that is due comes to an end with the entry loaded,  *)
(* however often the receiver could not be reached, unless the entry fails *)
(* to unload, after which only a restart of Home Assistant helps.          *)
ReloadEnds ==
  \A e \in Entries :
    entry[e].reload ~> (At(e, "loaded") /\ ~entry[e].reload) \/ At(e, "failed_unload")

(* The entry is loaded, no reload is due, and its setup did not miss a     *)
(* change of the option.                                                   *)
Works(e, option) == At(e, "loaded") /\ ~entry[e].reload /\ option \notin entry[e].missed

(* "Reload when options change": an entry that is loaded, with no reload   *)
(* due, polls every so many seconds as its options say now, or at the      *)
(* default if they say nothing, also when they changed twice, between      *)
(* attempts, or in an unload; but for options that changed in the course   *)
(* of its last setup.  What zero seconds mean is left to ZeroDisables.     *)
OptionsApplied ==
  \A e \in Entries :
    LET seconds == entry[e].options.scan_interval
    IN Works(e, "scan_interval") /\ seconds # 0 =>
         entry[e].interval = IF seconds = None THEN DEFAULT_SCAN_INTERVAL ELSE seconds

(* "State poll interval (seconds, 0 to disable)" (strings.json): an entry  *)
(* that works with an interval of zero does not poll.                      *)
ZeroDisables ==
  \A e \in Entries :
    Works(e, "scan_interval") /\ entry[e].options.scan_interval = 0 => entry[e].interval = None

(* The favorites of a loaded entry are what its user typed, the last line  *)
(* of each: every one is offered as a source, and selecting it, or playing *)
(* it by name, tunes its channel; an app's name selects the app.  The form *)
(* that is opened next and saved as it is leaves them as they are.         *)
SourcesWork ==
  \A e \in Entries :
    Works(e, "favorites") =>
      LET favorites == entry[e].favorites
      IN /\ source_list(favorites) = {Head(line) : line \in entry[e].typed} \cup Apps
         /\ \A line \in entry[e].typed :
              /\ \A media_type \in ChannelTypes :
                   play_media(favorites, media_type, Head(line)) = <<"tune", Tail(line)>>
              /\ select_source(favorites, Head(line)) =
                   IF Head(line) \in Apps THEN <<"launch", Head(line)>>
                   ELSE <<"tune", Tail(line)>>
         /\ favorites_from_text(favorites_to_text(favorites)) = favorites

(* Every loaded entry has the card, and once it is registered no setup,    *)
(* retry, reload or entry added later registers it again.  Setups that     *)
(* were about to register it by then still do: the flag is set only after  *)
(* the await, so that entries set up at once register it several times.    *)
CardServed ==
  /\ [](\A e \in Entries : At(e, "loaded") => registered > 0)
  /\ [][registered > 0 => \A e \in Entries : At(e, "frontend")' => At(e, "frontend")]_vars
=============================================================================
