-------------------------- MODULE GenaSubscription --------------------------
(***************************************************************************)
(* The GENA client (gena.py): a callback listener, one subscription at the *)
(* receiver, the task that renews it, and its stop.  With it the receiver  *)
(* it subscribes at, which counts subscriptions down and may restart.      *)
(*                                                                         *)
(* Time advances by Tick.  A step of the client is what it does between    *)
(* two awaits; it has at most one request outstanding, and one that it     *)
(* abandoned (a timeout, a cancelled task) may still reach the receiver.   *)
(***************************************************************************)
EXTENDS Naturals, FiniteSets, FiniteSetsExt

CONSTANTS
  Sids,          \* subscription ids the receiver hands out
  Grants,        \* durations it may grant, in ticks
  RENEW_MARGIN,  \* _RENEW_MARGIN, in ticks
  DEFAULT_TIMEOUT, \* _DEFAULT_TIMEOUT, which the client asks for, in ticks
  MIN_DELAY,     \* the shortest wait of _schedule_renew, in ticks
  TIMEOUT,       \* _client_timeout, in ticks
  Faults,        \* what the network and the receiver may do wrong
  MaxFaults,     \* how many times they may
  MaxReboots,    \* how often the receiver restarts
  NoSid, NoCall, NoAnswer,
  NoTimeout      \* a TIMEOUT header that is missing or malformed

FaultKinds == {"status", "oserror", "disconnected", "no_sid", "no_timeout", "lost", "late", "bind"}

Kinds == {"SUBSCRIBE", "RENEW", "UNSUBSCRIBE"}
Calls == [kind : Kinds, sid : Sids \cup {NoSid}, age : 0..TIMEOUT, served : BOOLEAN]
Answers == [how : {"ok", "status", "oserror", "disconnected"},
            sid : Sids \cup {NoSid}, secs : Grants \cup {NoTimeout}]

ASSUME GenaAssumption ==
  /\ Grants \subseteq Nat \ {0} /\ Grants # {}
  /\ DEFAULT_TIMEOUT \in Nat \ {0} /\ NoTimeout \notin Grants
  /\ RENEW_MARGIN \in Nat /\ MIN_DELAY \in Nat /\ TIMEOUT \in Nat \ {0}
  /\ Faults \subseteq FaultKinds /\ MaxFaults \in Nat /\ MaxReboots \in Nat
  /\ NoSid \notin Sids /\ NoCall \notin Calls /\ NoAnswer \notin Answers

VARIABLES
  main,      \* where async_start or async_stop is, or what it left
  runner,    \* is the callback listener up?
  sid,       \* self._sid
  task,      \* the renew task: none, sleep, call, or ended with nothing after it
  wake,      \* ticks until the renew task wakes
  call,      \* the outstanding request of the client
  answer,    \* the answer to it, not yet read
  stray,     \* abandoned requests that may still reach the receiver
  expiry,    \* receiver: ticks each subscription has left, 0 when it is none
  faults,    \* how many faults happened
  reboots    \* how often the receiver restarted

client == <<main, runner, sid, task, wake>>
vars == <<main, runner, sid, task, wake, call, answer, stray, expiry, faults, reboots>>

Subscribed == {s \in Sids : expiry[s] > 0}

(* Nothing refers to the id any more: the receiver may hand it out again. *)
Fresh(s) ==
  /\ expiry[s] = 0 /\ sid # s
  /\ \A q \in stray : q.sid # s
  /\ call # NoCall => call.sid # s
  /\ answer # NoAnswer => answer.sid # s

Init ==
  /\ main = "off" /\ runner = FALSE /\ sid = NoSid
  /\ task = "none" /\ wake = 0
  /\ call = NoCall /\ answer = NoAnswer /\ stray = {}
  /\ expiry = [s \in Sids |-> 0]
  /\ faults = 0 /\ reboots = 0

Fault(kind) == kind \in Faults /\ faults < MaxFaults /\ faults' = faults + 1

-----------------------------------------------------------------------------
(* The client. *)

Send(kind, s) ==
  /\ call' = [kind |-> kind, sid |-> s, age |-> 0, served |-> FALSE]
  /\ answer' = NoAnswer

(* A request that has not reached the receiver yet. *)
Pending == call # NoCall /\ answer = NoAnswer /\ ~call.served

Hang == call' = NoCall /\ answer' = NoAnswer

(* Mutants: the difference the wrong way round; no margin. *)
schedule_renewSwapped(secs) == task' = "sleep" /\ wake' = RENEW_MARGIN - secs
schedule_renewAtExpiry(secs) == task' = "sleep" /\ wake' = Max({MIN_DELAY, secs})

timeout_seconds(header) == IF header = NoTimeout THEN DEFAULT_TIMEOUT ELSE header

(* _schedule_renew: the task before it has run out, a new one sleeps. *)
schedule_renew(secs) ==
  /\ task' = "sleep"
  /\ wake' = Max({MIN_DELAY, IF secs > RENEW_MARGIN THEN secs - RENEW_MARGIN ELSE 0})

(* async_start up to its SUBSCRIBE; the socket may fail to bind. *)
Start ==
  /\ main = "off"
  /\ \/ /\ main' = "starting" /\ runner' = TRUE
        /\ Send("SUBSCRIBE", NoSid)
        /\ UNCHANGED faults
     \/ /\ Fault("bind")
        /\ main' = "fallback"
        /\ UNCHANGED <<runner, call, answer>>
  /\ UNCHANGED <<sid, task, wake, stray, expiry, reboots>>

(* _async_subscribe got 200: of async_start or of a renewal that failed. *)
SubscribeOk ==
  /\ call # NoCall /\ call.kind = "SUBSCRIBE" /\ answer # NoAnswer /\ answer.how = "ok"
  /\ sid' = answer.sid
  /\ schedule_renew(timeout_seconds(answer.secs))
  /\ main' = "on"
  /\ Hang
  /\ UNCHANGED <<runner, stray, expiry, faults, reboots>>

(* It failed: async_start stops what it started and falls back to polling; *)
(* the renew task ends, and nothing schedules another.                     *)
SubscribeFailed ==
  /\ main' = (IF main = "starting" THEN "fallback" ELSE main)
  /\ runner' = (IF main = "starting" THEN FALSE ELSE runner)
  /\ task' = (IF main = "starting" THEN task ELSE "ended")
  /\ UNCHANGED <<sid, wake>>

SubscribeRefused ==
  /\ call # NoCall /\ call.kind = "SUBSCRIBE" /\ answer # NoAnswer /\ answer.how # "ok"
  /\ SubscribeFailed
  /\ Hang
  /\ UNCHANGED <<stray, expiry, faults, reboots>>

(* Mutant: each renewal subscribes afresh, without the id. *)
RenewAfresh ==
  /\ task = "sleep" /\ wake = 0
  /\ IF sid = NoSid
     THEN task' = "ended" /\ UNCHANGED <<call, answer>>
     ELSE task' = "call" /\ Send("SUBSCRIBE", NoSid)
  /\ UNCHANGED <<main, runner, sid, wake, stray, expiry, faults, reboots>>

(* The renew task wakes and sends its request.  Without an id (a 200 that  *)
(* carried none) there is no header to send and the task dies.             *)
Renew ==
  /\ task = "sleep" /\ wake = 0
  /\ IF sid = NoSid
     THEN task' = "ended" /\ UNCHANGED <<call, answer>>
     ELSE task' = "call" /\ Send("RENEW", sid)
  /\ UNCHANGED <<main, runner, sid, wake, stray, expiry, faults, reboots>>

RenewOk ==
  /\ call # NoCall /\ call.kind = "RENEW" /\ answer # NoAnswer /\ answer.how = "ok"
  /\ schedule_renew(timeout_seconds(answer.secs))
  /\ Hang
  /\ UNCHANGED <<main, runner, sid, stray, expiry, faults, reboots>>

(* Mutant: a refused renewal is not followed by a fresh subscription. *)
RenewRefusedGivesUp ==
  /\ call # NoCall /\ call.kind = "RENEW" /\ answer # NoAnswer
  /\ answer.how \in {"status", "oserror"}
  /\ sid' = NoSid /\ task' = "ended" /\ Hang
  /\ UNCHANGED <<main, runner, wake, stray, expiry, faults, reboots>>

(* Any other status, or an OSError: forget the id and subscribe anew. *)
RenewRefused ==
  /\ call # NoCall /\ call.kind = "RENEW" /\ answer # NoAnswer
  /\ answer.how \in {"status", "oserror"}
  /\ sid' = NoSid
  /\ Send("SUBSCRIBE", NoSid)
  /\ UNCHANGED <<main, runner, task, wake, stray, expiry, faults, reboots>>

(* The server hung up: aiohttp's error is no OSError, so the task dies of  *)
(* it and keeps the id.                                                    *)
RenewDisconnected ==
  /\ call # NoCall /\ call.kind = "RENEW" /\ answer # NoAnswer
  /\ answer.how = "disconnected"
  /\ task' = "ended"
  /\ Hang
  /\ UNCHANGED <<main, runner, sid, wake, stray, expiry, faults, reboots>>

(* Mutants: a stop that does not unsubscribe, that closes the listener     *)
(* before it does, that forgets to cancel the renew task.                  *)
StopSilently ==
  /\ main = "on"
  /\ task' = "none" /\ wake' = 0
  /\ stray' = IF Pending THEN stray \cup {call} ELSE stray
  /\ main' = "stopped" /\ runner' = FALSE /\ Hang
  /\ UNCHANGED <<sid, expiry, faults, reboots>>

StopListenerFirst ==
  /\ main = "on" /\ sid # NoSid
  /\ task' = "none" /\ wake' = 0
  /\ stray' = IF Pending THEN stray \cup {call} ELSE stray
  /\ main' = "stopping" /\ Send("UNSUBSCRIBE", sid) /\ runner' = FALSE
  /\ UNCHANGED <<sid, expiry, faults, reboots>>

StopKeepingTask ==
  /\ main = "on" /\ sid # NoSid
  /\ stray' = IF Pending THEN stray \cup {call} ELSE stray
  /\ main' = "stopping" /\ Send("UNSUBSCRIBE", sid)
  /\ UNCHANGED <<task, wake, runner, sid, expiry, faults, reboots>>

(* async_stop: cancel the task, give the id back, close the listener. *)
Stop ==
  /\ main = "on"
  /\ task' = "none" /\ wake' = 0
  /\ stray' = IF Pending THEN stray \cup {call} ELSE stray
  /\ \/ /\ sid # NoSid
        /\ main' = "stopping" /\ Send("UNSUBSCRIBE", sid)
        /\ UNCHANGED runner
     \/ /\ sid = NoSid
        /\ main' = "stopped" /\ runner' = FALSE /\ Hang
  /\ UNCHANGED <<sid, expiry, faults, reboots>>

(* Mutant: only a 200 counts as an answer. *)
UnsubscribeDoneIfOk ==
  /\ call # NoCall /\ call.kind = "UNSUBSCRIBE" /\ answer # NoAnswer
  /\ answer.how = "ok"
  /\ main' = "stopped" /\ sid' = NoSid /\ runner' = FALSE
  /\ Hang
  /\ UNCHANGED <<task, wake, stray, expiry, faults, reboots>>

UnsubscribeDone ==
  /\ call # NoCall /\ call.kind = "UNSUBSCRIBE" /\ answer # NoAnswer
  /\ \/ /\ answer.how # "disconnected"
        /\ main' = "stopped" /\ sid' = NoSid /\ runner' = FALSE
     \/ /\ answer.how = "disconnected"
        /\ main' = "stop_raised"
        /\ UNCHANGED <<sid, runner>>
  /\ Hang
  /\ UNCHANGED <<task, wake, stray, expiry, faults, reboots>>

(* The request timed out: its answer was lost, or it is late itself and    *)
(* the receiver may still get it.                                          *)
TimedOut ==
  /\ call # NoCall /\ answer = NoAnswer /\ call.age = TIMEOUT
  /\ IF call.served THEN UNCHANGED <<stray, faults>>
     ELSE Fault("late") /\ stray' = stray \cup {call}
  /\ \/ /\ call.kind = "SUBSCRIBE" /\ SubscribeFailed /\ Hang
     \/ /\ call.kind = "RENEW" /\ sid' = NoSid /\ Send("SUBSCRIBE", NoSid)
        /\ UNCHANGED <<main, runner, task, wake>>
     \/ /\ call.kind = "UNSUBSCRIBE"
        /\ main' = "stopped" /\ sid' = NoSid /\ runner' = FALSE /\ Hang
        /\ UNCHANGED <<task, wake>>
  /\ UNCHANGED <<expiry, reboots>>

-----------------------------------------------------------------------------
(* The receiver and the network. *)

(* What a request does at the receiver, and the answer it deserves. *)
Process(q, how, s, secs) ==
  \/ /\ q.kind = "SUBSCRIBE" /\ how = "ok"
     /\ s \in Sids /\ Fresh(s)
     /\ expiry' = [expiry EXCEPT ![s] = secs]
  \/ /\ q.kind = "RENEW" /\ how = "ok"
     /\ s = q.sid /\ s \in Subscribed
     /\ expiry' = [expiry EXCEPT ![s] = secs]
  \/ /\ q.kind = "UNSUBSCRIBE" /\ how = "ok"
     /\ s = q.sid /\ s \in Subscribed
     /\ expiry' = [expiry EXCEPT ![s] = 0]
  \/ /\ q.kind # "SUBSCRIBE" /\ how = "status"
     /\ s = q.sid /\ s \notin Subscribed
     /\ UNCHANGED expiry

Answer(how, s, secs) == answer' = [how |-> how, sid |-> s, secs |-> secs]

(* The request is served and its answer arrives; on the way back the       *)
(* server may hang up, and a new subscription may come without an id.  The *)
(* answer to a grant of at least what the client asked for may tell its    *)
(* duration in no form the client reads.                                   *)
Serve ==
  /\ Pending
  /\ \E how \in {"ok", "status"}, s \in Sids, secs \in Grants :
       /\ Process(call, how, s, secs)
       /\ \/ Answer(how, s, secs) /\ UNCHANGED faults
          \/ Fault("disconnected") /\ Answer("disconnected", s, secs)
          \/ Fault("no_sid") /\ call.kind = "SUBSCRIBE" /\ Answer("ok", NoSid, secs)
          \/ /\ Fault("no_timeout") /\ how = "ok" /\ secs >= DEFAULT_TIMEOUT
             /\ Answer("ok", s, NoTimeout)
  /\ UNCHANGED <<client, call, stray, reboots>>

(* The request is refused without being served. *)
Refuse ==
  /\ Pending
  /\ \E how \in {"status", "oserror", "disconnected"} :
       /\ Fault(how)
       /\ \E secs \in Grants : Answer(how, NoSid, secs)
  /\ UNCHANGED <<client, call, stray, expiry, reboots>>

(* Served, and the answer lost: the client will time out. *)
LoseAnswer ==
  /\ Pending /\ Fault("lost")
  /\ \E how \in {"ok", "status"}, s \in Sids, secs \in Grants : Process(call, how, s, secs)
  /\ call' = [call EXCEPT !.served = TRUE]
  /\ UNCHANGED <<client, answer, stray, reboots>>

(* An abandoned request is served late, or never. *)
ServeStray(q) ==
  /\ \/ \E how \in {"ok", "status"}, s \in Sids, secs \in Grants : Process(q, how, s, secs)
     \/ UNCHANGED expiry
  /\ stray' = stray \ {q}
  /\ UNCHANGED <<client, call, answer, faults, reboots>>

(* The receiver restarts and forgets its subscriptions. *)
Reboot ==
  /\ Subscribed # {} /\ reboots < MaxReboots
  /\ reboots' = reboots + 1
  /\ expiry' = [s \in Sids |-> 0]
  /\ UNCHANGED <<client, call, answer, stray, faults>>

(* Time passes only when the client has nothing to do at once. *)
Tick ==
  /\ main # "off" /\ answer = NoAnswer
  /\ task = "sleep" => wake > 0
  /\ call # NoCall => call.age < TIMEOUT
  /\ wake' = IF wake > 0 THEN wake - 1 ELSE 0
  /\ call' = IF call = NoCall THEN NoCall ELSE [call EXCEPT !.age = @ + 1]
  /\ expiry' = [s \in Sids |-> IF expiry[s] > 0 THEN expiry[s] - 1 ELSE 0]
  /\ UNCHANGED <<main, runner, sid, task, answer, stray, faults, reboots>>

-----------------------------------------------------------------------------
(* What runs by itself: the event loop, its timers and the clock. *)
ClientStep ==
  \/ SubscribeOk \/ SubscribeRefused \/ Renew \/ RenewOk \/ RenewRefused
  \/ RenewDisconnected \/ UnsubscribeDone \/ TimedOut

Next ==
  \/ Start \/ Stop \/ ClientStep
  \/ Serve \/ Refuse \/ LoseAnswer \/ Reboot \/ Tick
  \/ \E q \in stray : ServeStray(q)

Spec == Init /\ [][Next]_vars

FairSpec == Spec /\ WF_vars(ClientStep) /\ WF_vars(Serve) /\ WF_vars(Tick)

-----------------------------------------------------------------------------
(* Properties. *)

(* Type correctness of the client, its requests and the receiver. *)
TypeOK ==
  /\ main \in {"off", "starting", "on", "stopping", "stopped", "stop_raised", "fallback"}
  /\ runner \in BOOLEAN
  /\ sid \in Sids \cup {NoSid}
  /\ task \in {"none", "sleep", "call", "ended"}
  /\ wake \in Nat
  /\ call \in Calls \cup {NoCall}
  /\ answer \in Answers \cup {NoAnswer}
  /\ stray \subseteq Calls
  /\ expiry \in [Sids -> Nat]
  /\ faults \in 0..MaxFaults /\ reboots \in 0..MaxReboots

(* "The subscription is renewed before it expires": while the renew task  *)
(* lives, the receiver knows the subscription the client holds, whatever   *)
(* was refused, lost or late before, for a receiver that did not restart.  *)
RenewedInTime ==
  reboots = 0 /\ main = "on" /\ task # "ended" /\ sid # NoSid => sid \in Subscribed

(* The renew task is the only one to talk to the receiver while the client *)
(* is on, and a client that stopped has no task left to subscribe again.   *)
TaskDiscipline ==
  /\ task = "call" <=> main = "on" /\ call # NoCall
  /\ main \in {"stopping", "stopped", "stop_raised", "fallback"} => task = "none"

(* "UNSUBSCRIBE + server shutdown on stop": a stop that returned, or a     *)
(* start that failed, took the listener down; without a fault or a restart *)
(* on the way the receiver has no subscription of this client left.        *)
StopLeavesNothing ==
  /\ main \in {"stopped", "fallback"} => ~runner
  /\ main = "stopped" /\ faults = 0 /\ reboots = 0 => Subscribed = {}

(* However async_stop or a failed async_start ends, by returning or by     *)
(* raising, the listener is down.                                          *)
StopShutsDown ==
  main \in {"stopped", "stop_raised", "fallback"} => ~runner

(* The listener is up as long as the receiver has the subscription that    *)
(* the client holds, through every failed start, renewal and stop.         *)
ListenerBeforeSubscription == sid \in Subscribed => runner

(* A subscription too many at the receiver is the price of a fault: what   *)
(* renewals, restarts, stops and requests that come late do by themselves  *)
(* never leaves it more than the one the client holds.                     *)
FewSubscriptions == Cardinality(Subscribed) <= 1 + faults

(* When nothing goes wrong but restarts of the receiver, the client finds  *)
(* its way back to a live subscription after the last, unless it stops.    *)
PushRecovers == [](faults = 0) => <>[](main = "on" => sid \in Subscribed)

(* Every start and every stop ends, in time, whatever the receiver does. *)
StopEnds == main \in {"starting", "stopping"} ~> main \notin {"starting", "stopping"}
=============================================================================
