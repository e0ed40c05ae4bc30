---------------------------- MODULE KeyDelivery -----------------------------
(***************************************************************************)
(* What a transport promises a service call that sends keys (the contract  *)
(* of DishTransport.async_send_keys): the keys are pressed in order, each  *)
(* at most once; the next one is attempted only after the receiver         *)
(* answered for the one before; success means that it answered for all; a  *)
(* call that failed may still see the key it was at being pressed, and     *)
(* none after it.  A receiver may answer for a key that it leaves out, in  *)
(* an answer no caller can tell from success: that key is skipped.  A      *)
(* forgiving call reports success whatever became of its keys.             *)
(***************************************************************************)
EXTENDS Naturals, Sequences

CONSTANTS Calls, keys, Forgiving

VARIABLES typed, skipped, pos, status

vars == <<typed, skipped, pos, status>>

At(c) == [cmd |-> c, pos |-> pos[c]]

Served(c) == At(c) \in skipped \/ \E i \in DOMAIN typed : typed[i] = At(c)

Init ==
  /\ typed = <<>>
  /\ skipped = {}
  /\ pos = [c \in Calls |-> 1]
  /\ status = [c \in Calls |-> "pending"]

(* The receiver takes the key the call is at: it presses it or skips it. *)
Serve(c) ==
  /\ pos[c] \in DOMAIN keys[c] /\ ~Served(c)
  /\ status[c] # "ok" \/ c \in Forgiving
  /\ \/ typed' = Append(typed, At(c)) /\ UNCHANGED skipped
     \/ skipped' = skipped \cup {At(c)} /\ UNCHANGED typed
  /\ UNCHANGED <<pos, status>>

Advance(c) ==
  /\ status[c] = "pending" /\ pos[c] < Len(keys[c]) /\ Served(c)
  /\ pos' = [pos EXCEPT ![c] = @ + 1]
  /\ UNCHANGED <<typed, skipped, status>>

Succeed(c) ==
  /\ status[c] = "pending"
  /\ keys[c] = <<>> \/ (pos[c] = Len(keys[c]) /\ Served(c)) \/ c \in Forgiving
  /\ status' = [status EXCEPT ![c] = "ok"]
  /\ UNCHANGED <<typed, skipped, pos>>

Fail(c) ==
  /\ status[c] = "pending"
  /\ status' = [status EXCEPT ![c] = "failed"]
  /\ UNCHANGED <<typed, skipped, pos>>

Next == \E c \in Calls : Serve(c) \/ Advance(c) \/ Succeed(c) \/ Fail(c)

Spec == Init /\ [][Next]_vars
=============================================================================
