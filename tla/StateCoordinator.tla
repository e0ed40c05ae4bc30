-------------------------- MODULE StateCoordinator --------------------------
(***************************************************************************)
(* How the entities learn whether the receiver is on: the coordinator      *)
(* polls it (coordinator.py, LocalHttpTransport.async_get_state) and takes *)
(* what the receiver pushes (GENA NOTIFY); what came last is shown, by the *)
(* media player and by the remote, which falls back on its own commands.   *)
(*                                                                         *)
(* The receiver only goes from on to standby and back, so the number of    *)
(* its changes tells its power, and tells old news from new.               *)
(***************************************************************************)
EXTENDS Naturals, Sequences

CONSTANTS
  MaxChanges,   \* how often the receiver changes
  MaxFaults,    \* how many polls fail, notifications are lost or tell nothing
  None,         \* no ReceiverState at all
  Unknown,      \* a ReceiverState that does not know the power
  Idle, Asked,  \* no poll, a poll not answered yet
  Failed        \* a poll that got no answer

ASSUME CoordinatorAssumption ==
  /\ MaxChanges \in Nat /\ MaxFaults \in Nat
  /\ {None, Unknown, Idle, Asked, Failed} \cap Nat = {}
  /\ Idle \notin {Unknown, Asked, Failed} /\ Asked \notin {Unknown, Failed}

(* The timer's own refresh and one that a service call requested: Home     *)
(* Assistant keeps each from overlapping itself, not the other.            *)
Slots == {"timer", "request"}

VARIABLES
  described,  \* did async_connect find the device description?
  push,       \* is the GENA subscription active?
  changes,    \* receiver: how often it changed
  data,       \* coordinator.data: the change it reflects, Unknown or None
  timer,      \* is the next timed refresh scheduled?
  requested,  \* is a requested refresh pending?
  polls,      \* slot -> Idle, Asked, or the answer on its way back
  notes,      \* notifications on their way, oldest first
  assumed_on, \* the remote's _assumed_on
  faults      \* how many faults happened

source == <<described, push>>
vars == <<described, push, changes, data, timer, requested, polls, notes, assumed_on, faults>>

(* The receiver starts on; every change turns it. *)
Power(change) == change % 2 = 0

(* DishMediaPlayer.state: on unless the receiver is known to be off. *)
media_state == data \notin Nat \/ Power(data)

(* Mutant: the remote believes itself. *)
is_onAssumed == assumed_on

(* DishRemote.is_on: the power if it is known, else its last own command. *)
is_on == IF data \in Nat THEN Power(data) ELSE assumed_on

(* The transport reads state only if it found a control URL at connect. *)
supports_state == described

(* The coordinator schedules refreshes: its update_interval is not None. *)
update_interval == supports_state

(* Mutant: a read that failed is handed on as it is. *)
state_from_devinfoRaw(answer) == answer

(* What a poll makes of its answer: the change it reports, a state whose   *)
(* power is unknown if the field is missing, nothing if the read failed.   *)
state_from_devinfo(answer) ==
  IF answer = Failed THEN None ELSE answer

(* The entry is set up: the first refresh succeeded, and the receiver sends *)
(* its state to a new subscriber.                                          *)
Init ==
  /\ described \in BOOLEAN
  /\ push \in BOOLEAN
  /\ changes = 0
  /\ data = IF supports_state THEN 0 ELSE None
  /\ timer = update_interval
  /\ requested = FALSE
  /\ polls = [s \in Slots |-> Idle]
  /\ notes = IF push THEN <<0>> ELSE <<>>
  /\ assumed_on = TRUE
  /\ faults = 0

-----------------------------------------------------------------------------
(* A service call ended: async_request_refresh. *)
RequestRefresh ==
  /\ requested' = TRUE
  /\ UNCHANGED <<source, changes, data, timer, polls, notes, faults, assumed_on>>

(* A refresh starts; it replaces the ones that are scheduled.  Without     *)
(* state to read _async_update_data returns None at once.                  *)
StartPoll(s) ==
  /\ polls[s] = Idle
  /\ IF s = "timer" THEN timer ELSE requested
  /\ requested' = FALSE
  /\ \/ /\ supports_state
        /\ polls' = [polls EXCEPT ![s] = Asked] /\ timer' = FALSE
        /\ UNCHANGED data
     \/ /\ ~supports_state
        /\ data' = None /\ timer' = update_interval
        /\ UNCHANGED polls
  /\ UNCHANGED <<source, changes, notes, faults, assumed_on>>

(* The answer of GetEchostarDevInfo, or none: unreachable, a time out, or  *)
(* a SOAP fault in its place.                                              *)
AnswerPoll(s) ==
  /\ polls[s] = Asked
  /\ \/ /\ polls' = [polls EXCEPT ![s] = changes]
        /\ UNCHANGED faults
     \/ /\ faults < MaxFaults /\ faults' = faults + 1
        /\ \E answer \in {Failed, Unknown} : polls' = [polls EXCEPT ![s] = answer]
  /\ UNCHANGED <<source, changes, data, timer, requested, notes, assumed_on>>

(* Mutant: a refresh that failed schedules no other. *)
EndPollOrStop(s) ==
  /\ polls[s] \notin {Idle, Asked}
  /\ data' = state_from_devinfo(polls[s])
  /\ polls' = [polls EXCEPT ![s] = Idle]
  /\ timer' = (update_interval /\ polls[s] # Failed)
  /\ UNCHANGED <<source, changes, requested, notes, faults, assumed_on>>

(* The refresh ends: its result is the data, whatever came meanwhile. *)
EndPoll(s) ==
  /\ polls[s] \notin {Idle, Asked}
  /\ data' = state_from_devinfo(polls[s])
  /\ polls' = [polls EXCEPT ![s] = Idle]
  /\ timer' = update_interval
  /\ UNCHANGED <<source, changes, requested, notes, faults, assumed_on>>

(* A NOTIFY arrives: async_set_updated_data, which schedules anew. *)
handle_push ==
  /\ notes # <<>>
  /\ data' = Head(notes) /\ notes' = Tail(notes)
  /\ timer' = update_interval /\ requested' = FALSE
  /\ UNCHANGED <<source, changes, polls, assumed_on, faults>>

(* A notification is lost, or one comes of other properties than the power. *)
LoseNote ==
  /\ notes # <<>>
  /\ notes' = Tail(notes)
  /\ UNCHANGED assumed_on

OtherNote ==
  /\ push
  /\ notes' = Append(notes, Unknown)
  /\ UNCHANGED assumed_on

NoteFault ==
  /\ faults < MaxFaults /\ faults' = faults + 1
  /\ LoseNote \/ OtherNote
  /\ UNCHANGED <<source, changes, data, timer, requested, polls>>

(* The receiver goes on or to standby and notifies its subscriber. *)
Turn ==
  /\ changes < MaxChanges
  /\ changes' = changes + 1
  /\ notes' = IF push THEN Append(notes, changes + 1) ELSE notes
  /\ UNCHANGED <<source, data, timer, requested, polls, faults>>

(* Somebody else turns it. *)
Change == Turn /\ UNCHANGED assumed_on

(* turn_on or turn_off: the same key, which a receiver that takes it takes *)
(* for a toggle.  One that rejects it changes nothing; none is refreshed.  *)
try_power(on) == Turn /\ assumed_on' = on

Next ==
  \/ RequestRefresh \/ handle_push \/ NoteFault \/ Change
  \/ \E on \in BOOLEAN : try_power(on)
  \/ \E s \in Slots : StartPoll(s) \/ AnswerPoll(s) \/ EndPoll(s)

Spec == Init /\ [][Next]_vars

(* The timers, the receiver and the network go on; calls and changes need  *)
(* not come.                                                               *)
FairSpec ==
  /\ Spec
  /\ \A s \in Slots : WF_vars(StartPoll(s)) /\ WF_vars(AnswerPoll(s)) /\ WF_vars(EndPoll(s))
  /\ WF_vars(handle_push)

-----------------------------------------------------------------------------
(* Properties. *)

(* Type correctness of the coordinator, its polls and the notifications. *)
TypeOK ==
  /\ described \in BOOLEAN /\ push \in BOOLEAN
  /\ changes \in 0..MaxChanges
  /\ data \in 0..MaxChanges \cup {Unknown, None}
  /\ timer \in BOOLEAN /\ requested \in BOOLEAN
  /\ polls \in [Slots -> 0..MaxChanges \cup {Idle, Asked, Unknown, Failed}]
  /\ notes \in Seq(0..MaxChanges \cup {Unknown})
  /\ assumed_on \in BOOLEAN
  /\ faults \in 0..MaxFaults

(* However polls, pushes, losses and commands overlap, once the receiver   *)
(* stays as it is both entities come to show it and keep showing it, if    *)
(* its description was found at connect: polling is the fallback source of *)
(* truth, also for turn_on and turn_off, which request no refresh.         *)
CatchesUp ==
  <>[](described => data = changes /\ media_state = Power(changes) /\ is_on = Power(changes))

(* Whatever the entities show wrongly will be looked at again: a refresh   *)
(* is scheduled or under way at all times, also after one that failed and  *)
(* after a push, each of which replaces the refresh that was scheduled.    *)
RefreshAhead == described => timer \/ \E s \in Slots : polls[s] # Idle
=============================================================================
