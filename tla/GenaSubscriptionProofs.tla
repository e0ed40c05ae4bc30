------------------------ MODULE GenaSubscriptionProofs ------------------------
(***************************************************************************)
(* Proofs about the GENA client for any receiver, durations, faults and    *)
(* restarts: who talks to the receiver, when the listener is up, that the  *)
(* subscription is renewed in time and what a stop leaves behind.          *)
(***************************************************************************)
EXTENDS GenaSubscription, FiniteSetTheorems, TLAPS

(* What Max is of two numbers. *)
LEMMA MaxOfTwo ==
  ASSUME NEW a \in Nat, NEW b \in Nat
  PROVE  Max({a, b}) \in {a, b} /\ Max({a, b}) >= a /\ Max({a, b}) >= b
<1>1. \E x \in {a, b} : \A y \in {a, b} : x >= y
  <2>1. CASE a >= b
    BY <2>1
  <2>2. CASE b >= a
    BY <2>2
  <2> QED
    BY <2>1, <2>2
<1> QED
  BY <1>1 DEF Max

(* What a client reads in an answer is a duration. *)
LEMMA TimeoutSeconds ==
  ASSUME NEW header \in Grants \cup {NoTimeout}
  PROVE  timeout_seconds(header) \in Nat \ {0}
  BY GenaAssumption DEF timeout_seconds

(* The wait of the renew task: the shortest, or up to the margin. *)
LEMMA ScheduleRenew ==
  ASSUME NEW secs \in Nat \ {0}, schedule_renew(secs)
  PROVE  /\ task' = "sleep" /\ wake' \in Nat
         /\ wake' = MIN_DELAY \/ wake' + RENEW_MARGIN = secs \/ wake' = 0
<1> DEFINE rest == IF secs > RENEW_MARGIN THEN secs - RENEW_MARGIN ELSE 0
<1>1. rest \in Nat /\ MIN_DELAY \in Nat
  BY GenaAssumption
<1>2. wake' = Max({MIN_DELAY, rest})
  BY DEF schedule_renew
<1>3. wake' \in {MIN_DELAY, rest}
  BY <1>1, <1>2, MaxOfTwo
<1> QED
  BY <1>1, <1>3, GenaAssumption DEF schedule_renew

LEMMA InitTypeOK == Init => TypeOK
<1>1. 0 \in 0..MaxFaults /\ 0 \in 0..MaxReboots /\ 0 \in Nat
  BY GenaAssumption
<1>2. Init => expiry \in [Sids -> Nat] /\ stray \subseteq Calls
  BY DEF Init
<1> QED
  BY <1>1, <1>2 DEF Init, TypeOK

LEMMA SendType ==
  ASSUME NEW kind \in Kinds, NEW s \in Sids \cup {NoSid}, Send(kind, s)
  PROVE  /\ call' \in Calls /\ answer' = NoAnswer
         /\ call'.kind = kind /\ call'.sid = s /\ call'.age = 0 /\ call'.served = FALSE
<1>1. 0 \in 0..TIMEOUT
  BY GenaAssumption
<1> QED
  BY <1>1 DEF Send, Calls

(* What the receiver makes of its subscriptions. *)
LEMMA ProcessType ==
  ASSUME expiry \in [Sids -> Nat], NEW q \in Calls, NEW how, NEW s, NEW secs \in Grants,
         Process(q, how, s, secs)
  PROVE  expiry' \in [Sids -> Nat]
  BY GenaAssumption DEF Process, Subscribed

LEMMA NextTypeOK == TypeOK /\ [Next]_vars => TypeOK'
<1> SUFFICES ASSUME TypeOK, [Next]_vars
             PROVE  TypeOK'
  OBVIOUS
<1> USE GenaAssumption
<1>1. CASE Start
  <2>1. CASE main' = "starting" /\ runner' = TRUE /\ Send("SUBSCRIBE", NoSid) /\ UNCHANGED faults
    BY <1>1, <2>1, SendType DEF Start, TypeOK, Kinds
  <2>2. CASE Fault("bind") /\ main' = "fallback" /\ UNCHANGED <<runner, call, answer>>
    BY <1>1, <2>2 DEF Start, TypeOK, Fault
  <2> QED
    BY <1>1, <2>1, <2>2 DEF Start
<1>2. CASE Stop
  <2>1. CASE sid # NoSid /\ main' = "stopping" /\ Send("UNSUBSCRIBE", sid) /\ UNCHANGED runner
    BY <1>2, <2>1, SendType DEF Stop, TypeOK, Kinds, Pending
  <2>2. CASE sid = NoSid /\ main' = "stopped" /\ runner' = FALSE /\ Hang
    BY <1>2, <2>2 DEF Stop, TypeOK, Hang, Pending
  <2> QED
    BY <1>2, <2>1, <2>2 DEF Stop
<1>3. CASE SubscribeOk
  <2>1. answer.sid \in Sids \cup {NoSid} /\ answer.secs \in Grants \cup {NoTimeout}
    BY <1>3 DEF SubscribeOk, TypeOK, Answers
  <2> QED
    BY <1>3, <2>1, TimeoutSeconds, ScheduleRenew DEF SubscribeOk, TypeOK, Hang
<1>4. CASE SubscribeRefused
  BY <1>4 DEF SubscribeRefused, SubscribeFailed, TypeOK, Hang
<1>5. CASE Renew
  <2>1. CASE sid = NoSid
    BY <1>5, <2>1 DEF Renew, TypeOK
  <2>2. CASE sid # NoSid
    BY <1>5, <2>2, SendType DEF Renew, TypeOK, Kinds
  <2> QED
    BY <2>1, <2>2
<1>6. CASE RenewOk
  <2>1. answer.secs \in Grants \cup {NoTimeout}
    BY <1>6 DEF RenewOk, TypeOK, Answers
  <2> QED
    BY <1>6, <2>1, TimeoutSeconds, ScheduleRenew DEF RenewOk, TypeOK, Hang
<1>7. CASE RenewRefused
  BY <1>7, SendType DEF RenewRefused, TypeOK, Kinds
<1>8. CASE RenewDisconnected
  BY <1>8 DEF RenewDisconnected, TypeOK, Hang
<1>9. CASE UnsubscribeDone
  BY <1>9 DEF UnsubscribeDone, TypeOK, Hang
<1>10. CASE TimedOut
  <2>1. stray' \subseteq Calls /\ faults' \in 0..MaxFaults
    BY <1>10 DEF TimedOut, TypeOK, Fault
  <2>2. CASE SubscribeFailed /\ Hang
    BY <1>10, <2>1, <2>2 DEF TimedOut, SubscribeFailed, TypeOK, Hang
  <2>3. CASE sid' = NoSid /\ Send("SUBSCRIBE", NoSid) /\ UNCHANGED <<main, runner, task, wake>>
    BY <1>10, <2>1, <2>3, SendType DEF TimedOut, TypeOK, Kinds
  <2>4. CASE /\ main' = "stopped" /\ sid' = NoSid /\ runner' = FALSE /\ Hang
             /\ UNCHANGED <<task, wake>>
    BY <1>10, <2>1, <2>4 DEF TimedOut, TypeOK, Hang
  <2> QED
    BY <1>10, <2>2, <2>3, <2>4 DEF TimedOut
<1>11. CASE Serve
  <2>1. PICK how \in {"ok", "status"}, s \in Sids, secs \in Grants :
          /\ Process(call, how, s, secs)
          /\ \/ Answer(how, s, secs) /\ UNCHANGED faults
             \/ Fault("disconnected") /\ Answer("disconnected", s, secs)
             \/ Fault("no_sid") /\ call.kind = "SUBSCRIBE" /\ Answer("ok", NoSid, secs)
             \/ Fault("no_timeout") /\ how = "ok" /\ Answer("ok", s, NoTimeout)
    BY <1>11 DEF Serve
  <2>2. expiry' \in [Sids -> Nat]
    BY <1>11, <2>1, ProcessType DEF Serve, Pending, TypeOK
  <2>3. answer' \in Answers
    BY <2>1 DEF Answer, Answers
  <2>4. faults' \in 0..MaxFaults
    BY <2>1 DEF Fault, TypeOK
  <2> QED
    BY <1>11, <2>2, <2>3, <2>4 DEF Serve, TypeOK, client
<1>12. CASE Refuse
  <2>1. answer' \in Answers
    BY <1>12 DEF Refuse, Answer, Answers
  <2>2. faults' \in 0..MaxFaults
    BY <1>12 DEF Refuse, Fault, TypeOK
  <2> QED
    BY <1>12, <2>1, <2>2 DEF Refuse, TypeOK, client
<1>13. CASE LoseAnswer
  <2>1. expiry' \in [Sids -> Nat]
    BY <1>13, ProcessType DEF LoseAnswer, Pending, TypeOK
  <2>2. call' \in Calls
    BY <1>13 DEF LoseAnswer, Pending, TypeOK, Calls
  <2> QED
    BY <1>13, <2>1, <2>2 DEF LoseAnswer, Fault, TypeOK, client
<1>14. CASE Reboot
  BY <1>14 DEF Reboot, TypeOK, client
<1>15. CASE Tick
  <2>1. call' \in Calls \cup {NoCall}
    BY <1>15 DEF Tick, TypeOK, Calls
  <2>2. expiry' \in [Sids -> Nat] /\ wake' \in Nat
    BY <1>15 DEF Tick, TypeOK
  <2> QED
    BY <1>15, <2>1, <2>2 DEF Tick, TypeOK
<1>16. ASSUME NEW q \in stray, ServeStray(q)
       PROVE  TypeOK'
  <2>1. expiry' \in [Sids -> Nat]
    BY <1>16, ProcessType DEF ServeStray, TypeOK
  <2> QED
    BY <1>16, <2>1 DEF ServeStray, TypeOK, client
<1>17. CASE UNCHANGED vars
  BY <1>17 DEF vars, TypeOK
<1> QED
  BY <1>1, <1>2, <1>3, <1>4, <1>5, <1>6, <1>7, <1>8, <1>9, <1>10, <1>11, <1>12, <1>13,
     <1>14, <1>15, <1>16, <1>17 DEF Next, ClientStep

(* Type correctness of the client, its requests and the receiver. *)
THEOREM TypeInvariant == Spec => []TypeOK
  BY InitTypeOK, NextTypeOK, PTL DEF Spec

-----------------------------------------------------------------------------
(* What goes on in each phase of the client: which request is under way,   *)
(* with which id, and whether the task and the listener live.              *)
Phases ==
  /\ main = "off" => task = "none" /\ sid = NoSid /\ call = NoCall
  /\ main = "starting" =>
       task = "none" /\ sid = NoSid /\ call # NoCall /\ call.kind = "SUBSCRIBE"
  /\ main = "on" =>
       /\ task # "none" /\ (task = "call" <=> call # NoCall)
       /\ call # NoCall => \/ call.kind = "SUBSCRIBE" /\ sid = NoSid
                           \/ call.kind = "RENEW" /\ sid # NoSid /\ call.sid = sid
  /\ main = "stopping" =>
       /\ task = "none" /\ sid # NoSid
       /\ call # NoCall /\ call.kind = "UNSUBSCRIBE" /\ call.sid = sid
  /\ main \in {"stopped", "stop_raised", "fallback"} => task = "none" /\ call = NoCall
  /\ main \in {"stopped", "fallback"} => sid = NoSid
  /\ call = NoCall => answer = NoAnswer
  /\ runner <=> main \in {"starting", "on", "stopping", "stop_raised"}

LEMMA InitPhases == Init => Phases
  BY DEF Init, Phases

LEMMA NextPhases == TypeOK /\ Phases /\ [Next]_vars => Phases'
<1> SUFFICES ASSUME TypeOK, Phases, [Next]_vars
             PROVE  Phases'
  OBVIOUS
<1> USE GenaAssumption
<1>1. CASE Start
  <2>1. CASE main' = "starting" /\ runner' = TRUE /\ Send("SUBSCRIBE", NoSid)
    BY <1>1, <2>1, SendType DEF Start, Phases, Kinds
  <2>2. CASE main' = "fallback" /\ UNCHANGED <<runner, call, answer>>
    BY <1>1, <2>2 DEF Start, Phases
  <2> QED
    BY <1>1, <2>1, <2>2 DEF Start
<1>2. CASE Stop
  <2>1. CASE sid # NoSid /\ main' = "stopping" /\ Send("UNSUBSCRIBE", sid) /\ UNCHANGED runner
    BY <1>2, <2>1, SendType DEF Stop, Phases, TypeOK, Kinds
  <2>2. CASE sid = NoSid /\ main' = "stopped" /\ runner' = FALSE /\ Hang
    BY <1>2, <2>2 DEF Stop, Phases, Hang
  <2> QED
    BY <1>2, <2>1, <2>2 DEF Stop
<1>3. CASE SubscribeOk
  BY <1>3 DEF SubscribeOk, Phases, TypeOK, Hang, schedule_renew
<1>4. CASE SubscribeRefused
  BY <1>4 DEF SubscribeRefused, SubscribeFailed, Phases, TypeOK, Hang
<1>5. CASE Renew
  BY <1>5, SendType DEF Renew, Phases, TypeOK, Kinds
<1>6. CASE RenewOk
  BY <1>6 DEF RenewOk, Phases, TypeOK, Hang, schedule_renew
<1>7. CASE RenewRefused
  BY <1>7, SendType DEF RenewRefused, Phases, TypeOK, Kinds
<1>8. CASE RenewDisconnected
  BY <1>8 DEF RenewDisconnected, Phases, TypeOK, Hang
<1>9. CASE UnsubscribeDone
  BY <1>9 DEF UnsubscribeDone, Phases, TypeOK, Hang
<1>10. CASE TimedOut
  <2>1. CASE call.kind = "SUBSCRIBE" /\ SubscribeFailed /\ Hang
    BY <1>10, <2>1 DEF TimedOut, SubscribeFailed, Phases, TypeOK, Hang
  <2>2. CASE /\ call.kind = "RENEW" /\ sid' = NoSid /\ Send("SUBSCRIBE", NoSid)
             /\ UNCHANGED <<main, runner, task, wake>>
    BY <1>10, <2>2, SendType DEF TimedOut, Phases, TypeOK, Kinds
  <2>3. CASE /\ call.kind = "UNSUBSCRIBE"
             /\ main' = "stopped" /\ sid' = NoSid /\ runner' = FALSE /\ Hang
             /\ UNCHANGED <<task, wake>>
    BY <1>10, <2>3 DEF TimedOut, Phases, TypeOK, Hang
  <2> QED
    BY <1>10, <2>1, <2>2, <2>3 DEF TimedOut
<1>11. CASE Serve
  BY <1>11 DEF Serve, Pending, client, Phases
<1>12. CASE Refuse
  BY <1>12 DEF Refuse, Pending, client, Phases
<1>13. CASE LoseAnswer
  <2>1. call' # NoCall /\ call'.kind = call.kind /\ call'.sid = call.sid
    BY <1>13 DEF LoseAnswer, Pending, TypeOK, Calls
  <2> QED
    BY <1>13, <2>1 DEF LoseAnswer, Pending, client, Phases
<1>14. CASE Reboot
  BY <1>14 DEF Reboot, client, Phases
<1>15. CASE Tick
  <2>1. CASE call = NoCall
    BY <1>15, <2>1 DEF Tick, Phases
  <2>2. CASE call # NoCall
    <3>1. call' # NoCall /\ call'.kind = call.kind /\ call'.sid = call.sid
      BY <1>15, <2>2 DEF Tick, TypeOK, Calls
    <3> QED
      BY <1>15, <2>2, <3>1 DEF Tick, Phases
  <2> QED
    BY <2>1, <2>2
<1>16. CASE \E q \in stray : ServeStray(q)
  BY <1>16 DEF ServeStray, Phases, client
<1>17. CASE UNCHANGED vars
  BY <1>17 DEF vars, Phases
<1> QED
  BY <1>1, <1>2, <1>3, <1>4, <1>5, <1>6, <1>7, <1>8, <1>9,
     <1>10, <1>11, <1>12, <1>13, <1>14, <1>15, <1>16, <1>17 DEF Next, ClientStep

LEMMA AlwaysPhases == Spec => [](TypeOK /\ Phases)
  BY TypeInvariant, InitPhases, NextPhases, PTL DEF Spec

(* The renew task is the only one to talk to the receiver while the client *)
(* is on, and a client that stopped, or fell back to polling, has no task  *)
(* left to subscribe again (_renew_task, async_stop).                      *)
THEOREM DisciplinedTask == Spec => []TaskDiscipline
<1>1. TypeOK /\ Phases => TaskDiscipline
  BY DEF TypeOK, Phases, TaskDiscipline
<1> QED
  BY <1>1, AlwaysPhases, PTL

(* The listener is up as long as the receiver has the subscription that    *)
(* the client holds: async_start opens it first, async_stop closes it last. *)
THEOREM ListenerUp == Spec => []ListenerBeforeSubscription
<1>1. TypeOK /\ Phases => ListenerBeforeSubscription
  BY GenaAssumption DEF TypeOK, Phases, ListenerBeforeSubscription, Subscribed
<1> QED
  BY <1>1, AlwaysPhases, PTL

(* No answer hangs up and no stop raises. *)
NoHangUp == main # "stop_raised" /\ (answer # NoAnswer => answer.how # "disconnected")

LEMMA NextNoHangUp ==
  ASSUME "disconnected" \notin Faults, TypeOK, NoHangUp, [Next]_vars
  PROVE  NoHangUp'
<1> USE DEF NoHangUp, Hang, Send, client
<1>1. CASE Start
  BY <1>1 DEF Start
<1>2. CASE Stop
  BY <1>2 DEF Stop
<1>3. CASE ClientStep
  BY <1>3 DEF ClientStep, SubscribeOk, SubscribeRefused, SubscribeFailed, Renew, RenewOk,
              RenewRefused, RenewDisconnected, UnsubscribeDone, TimedOut
<1>4. CASE Serve
  BY <1>4 DEF Serve, Answer, Fault
<1>5. CASE Refuse
  BY <1>5 DEF Refuse, Answer, Fault
<1>6. CASE LoseAnswer \/ Reboot \/ Tick \/ (\E q \in stray : ServeStray(q)) \/ UNCHANGED vars
  BY <1>6 DEF LoseAnswer, Reboot, Tick, ServeStray, vars
<1> QED
  BY <1>1, <1>2, <1>3, <1>4, <1>5, <1>6 DEF Next

(* Unless the receiver hangs up, the listener is down however a stop or a  *)
(* failed start ends: what gena_stop_raises shows is the only way to leave *)
(* it up.                                                                  *)
THEOREM ShutDownUnlessHungUp ==
  ASSUME "disconnected" \notin Faults
  PROVE  Spec => []StopShutsDown
<1>1. Init => NoHangUp
  BY DEF Init, NoHangUp
<1>2. TypeOK /\ NoHangUp /\ [Next]_vars => NoHangUp'
  BY NextNoHangUp
<1>3. TypeOK /\ Phases /\ NoHangUp => StopShutsDown
  BY DEF TypeOK, Phases, NoHangUp, StopShutsDown
<1> QED
  BY <1>1, <1>2, <1>3, AlwaysPhases, PTL DEF Spec

-----------------------------------------------------------------------------
(* Abandoned requests are about ids the client has given up: nothing that  *)
(* arrives late ends or shortens the subscription it holds.                *)
StraysOld ==
  /\ call # NoCall /\ call.kind = "SUBSCRIBE" => call.sid = NoSid
  /\ main \in {"off", "starting"} => stray = {}
  /\ main = "on" =>
       \A q \in stray :
         /\ q.kind # "UNSUBSCRIBE"
         /\ q.sid = NoSid \/ q.sid # sid
         /\ call # NoCall /\ call.kind = "SUBSCRIBE" /\ answer # NoAnswer =>
              q.sid = NoSid \/ q.sid # answer.sid

LEMMA InitStraysOld == Init => StraysOld
  BY DEF Init, StraysOld

LEMMA NextStraysOld == TypeOK /\ Phases /\ StraysOld /\ [Next]_vars => StraysOld'
<1> SUFFICES ASSUME TypeOK, Phases, StraysOld, [Next]_vars
             PROVE  StraysOld'
  OBVIOUS
<1> USE GenaAssumption
<1>1. CASE Start
  BY <1>1, SendType DEF Start, StraysOld, Phases, Kinds
<1>2. CASE Stop
  BY <1>2, SendType DEF Stop, StraysOld, TypeOK, Hang, Kinds
<1>3. CASE SubscribeOk
  BY <1>3 DEF SubscribeOk, StraysOld, Phases, TypeOK, Hang
<1>4. CASE SubscribeRefused
  BY <1>4 DEF SubscribeRefused, SubscribeFailed, StraysOld, Phases, TypeOK, Hang
<1>5. CASE Renew
  BY <1>5, SendType DEF Renew, StraysOld, Phases, TypeOK, Kinds
<1>6. CASE RenewOk
  BY <1>6 DEF RenewOk, StraysOld, Phases, TypeOK, Hang
<1>7. CASE RenewRefused
  BY <1>7, SendType DEF RenewRefused, StraysOld, Phases, TypeOK, Kinds
<1>8. CASE RenewDisconnected
  BY <1>8 DEF RenewDisconnected, StraysOld, Phases, TypeOK, Hang
<1>9. CASE UnsubscribeDone
  BY <1>9 DEF UnsubscribeDone, StraysOld, Phases, TypeOK, Hang
<1>10. CASE TimedOut
  <2>1. CASE call.kind = "SUBSCRIBE" /\ SubscribeFailed /\ Hang
    BY <1>10, <2>1 DEF TimedOut, SubscribeFailed, StraysOld, Phases, TypeOK, Hang
  <2>2. CASE /\ call.kind = "RENEW" /\ sid' = NoSid /\ Send("SUBSCRIBE", NoSid)
             /\ UNCHANGED <<main, runner, task, wake>>
    BY <1>10, <2>2, SendType DEF TimedOut, StraysOld, Phases, TypeOK, Kinds
  <2>3. CASE /\ call.kind = "UNSUBSCRIBE"
             /\ main' = "stopped" /\ sid' = NoSid /\ runner' = FALSE /\ Hang
             /\ UNCHANGED <<task, wake>>
    BY <1>10, <2>3 DEF TimedOut, StraysOld, Hang
  <2> QED
    BY <1>10, <2>1, <2>2, <2>3 DEF TimedOut
<1>11. CASE Serve
  <2>1. PICK how \in {"ok", "status"}, s \in Sids, secs \in Grants :
          /\ Process(call, how, s, secs)
          /\ \/ Answer(how, s, secs)
             \/ Answer("disconnected", s, secs)
             \/ Answer("ok", NoSid, secs)
             \/ Answer("ok", s, NoTimeout)
    BY <1>11 DEF Serve
  <2>2. answer'.sid \in {s, NoSid}
    BY <2>1 DEF Answer
  <2>3. call.kind = "SUBSCRIBE" => \A q \in stray : q.sid # s
    BY <2>1 DEF Process, Fresh
  <2> QED
    BY <1>11, <2>2, <2>3 DEF Serve, client, StraysOld
<1>12. CASE Refuse
  <2>1. answer'.sid = NoSid
    BY <1>12 DEF Refuse, Answer
  <2> QED
    BY <1>12, <2>1 DEF Refuse, client, StraysOld
<1>13. CASE LoseAnswer
  <2>1. call' # NoCall /\ call'.kind = call.kind /\ call'.sid = call.sid
    BY <1>13 DEF LoseAnswer, Pending, TypeOK, Calls
  <2> QED
    BY <1>13, <2>1 DEF LoseAnswer, Pending, client, StraysOld
<1>14. CASE Reboot
  BY <1>14 DEF Reboot, client, StraysOld
<1>15. CASE Tick
  <2>1. CASE call = NoCall
    BY <1>15, <2>1 DEF Tick, StraysOld
  <2>2. CASE call # NoCall
    <3>1. call' # NoCall /\ call'.kind = call.kind /\ call'.sid = call.sid
      BY <1>15, <2>2 DEF Tick, TypeOK, Calls
    <3> QED
      BY <1>15, <2>2, <3>1 DEF Tick, StraysOld
  <2> QED
    BY <2>1, <2>2
<1>16. CASE \E q \in stray : ServeStray(q)
  BY <1>16 DEF ServeStray, StraysOld, client
<1>17. CASE UNCHANGED vars
  BY <1>17 DEF vars, StraysOld
<1> QED
  BY <1>1, <1>2, <1>3, <1>4, <1>5, <1>6, <1>7, <1>8, <1>9,
     <1>10, <1>11, <1>12, <1>13, <1>14, <1>15, <1>16, <1>17 DEF Next, ClientStep

(* The receiver grants more than the shortest wait and a request last      *)
(* together, and the margin leaves room for a request.                     *)
Timely ==
  /\ RENEW_MARGIN > TIMEOUT
  /\ \A secs \in Grants : secs > MIN_DELAY + TIMEOUT

(* A lease is no shorter than the duration its holder read of it. *)
Read(lease, header) == lease \in Grants /\ timeout_seconds(header) <= lease

(* The subscription the client holds lasts beyond the next renewal, and    *)
(* one that was just granted, beyond its answer, for all that was granted. *)
Lasting ==
  /\ main = "on" /\ sid # NoSid =>
       /\ task = "sleep" => expiry[sid] > wake + TIMEOUT
       /\ task = "call" /\ answer = NoAnswer => expiry[sid] + call.age > TIMEOUT
       /\ task = "call" /\ answer # NoAnswer =>
            expiry[sid] > 0 /\ (answer.how = "ok" => Read(expiry[sid], answer.secs))
  /\ call # NoCall /\ call.kind = "SUBSCRIBE" /\ answer # NoAnswer =>
       (answer.how = "ok" /\ answer.sid # NoSid => Read(expiry[answer.sid], answer.secs))

Held == reboots = 0 => Lasting

LEMMA WaitsLess ==
  ASSUME NEW w \in Nat, NEW secs \in Nat, NEW lease \in Nat, NEW least \in Nat,
         NEW margin \in Nat, NEW timeout \in Nat,
         margin > timeout, lease > least + timeout, secs <= lease,
         w = least \/ w + margin = secs \/ w = 0
  PROVE  lease > w + timeout
  OBVIOUS

(* A wait after a grant ends in time for the next renewal. *)
LEMMA WaitEnds ==
  ASSUME Timely, NEW header \in Grants \cup {NoTimeout},
         schedule_renew(timeout_seconds(header))
  PROVE  wake' \in Nat /\ \A lease : Read(lease, header) => lease > wake' + TIMEOUT
<1>1. timeout_seconds(header) \in Nat \ {0}
  BY TimeoutSeconds
<1>2. /\ wake' \in Nat
      /\ wake' = MIN_DELAY \/ wake' + RENEW_MARGIN = timeout_seconds(header) \/ wake' = 0
  BY <1>1, ScheduleRenew
<1>3. ASSUME NEW lease, Read(lease, header)
      PROVE  lease > wake' + TIMEOUT
  <2>1. lease \in Nat /\ timeout_seconds(header) <= lease /\ lease > MIN_DELAY + TIMEOUT
    BY <1>3, GenaAssumption DEF Read, Timely
  <2>2. /\ RENEW_MARGIN \in Nat /\ TIMEOUT \in Nat /\ MIN_DELAY \in Nat
        /\ RENEW_MARGIN > TIMEOUT /\ timeout_seconds(header) \in Nat
    BY <1>1, GenaAssumption DEF Timely
  <2> QED
    BY <1>2, <2>1, <2>2, WaitsLess
<1> QED
  BY <1>2, <1>3

LEMMA InitHeld == Init => Held
  BY DEF Init, Held, Lasting

LEMMA NextHeld ==
  ASSUME Timely, TypeOK, TypeOK', Phases, Phases', StraysOld, Held, [Next]_vars
  PROVE  Held'
<1> SUFFICES ASSUME reboots' = 0
             PROVE  Lasting'
  BY DEF Held
<1> USE GenaAssumption
<1>0. reboots = 0 /\ Lasting
  <2>1. reboots' = reboots \/ reboots' = reboots + 1
    BY DEF Next, ClientStep, vars, client, Start, Stop, SubscribeOk, SubscribeRefused, Renew,
           RenewOk, RenewRefused, RenewDisconnected, UnsubscribeDone, TimedOut, Serve, Refuse,
           LoseAnswer, Reboot, Tick, ServeStray
  <2> QED
    BY <2>1 DEF TypeOK, Held
<1>1. CASE Start \/ Stop
  BY <1>1, SendType DEF Start, Stop, Lasting, Phases, TypeOK, Hang, Kinds
<1>3. CASE SubscribeOk
  <2>1. answer.secs \in Grants \cup {NoTimeout} /\ answer.sid \in Sids \cup {NoSid}
    BY <1>3 DEF SubscribeOk, TypeOK, Answers
  <2>2. answer.sid # NoSid => Read(expiry[answer.sid], answer.secs)
    BY <1>0, <1>3 DEF SubscribeOk, Lasting
  <2>3. /\ \A lease : Read(lease, answer.secs) => lease > wake' + TIMEOUT
        /\ task' = "sleep"
    BY <1>3, <2>1, WaitEnds DEF SubscribeOk, schedule_renew
  <2> QED
    BY <1>3, <2>1, <2>2, <2>3 DEF SubscribeOk, Lasting, Hang
<1>4. CASE SubscribeRefused
  BY <1>0, <1>4 DEF SubscribeRefused, SubscribeFailed, Lasting, Phases, TypeOK, Hang
<1>5. CASE Renew
  <2>1. CASE sid = NoSid
    BY <1>0, <1>5, <2>1 DEF Renew, Lasting
  <2>2. CASE sid # NoSid
    <3>1. /\ task' = "call" /\ call'.kind = "RENEW" /\ call'.age = 0 /\ answer' = NoAnswer
          /\ call' \in Calls
      BY <1>5, <2>2, SendType DEF Renew, TypeOK, Kinds
    <3>2. main = "on" => expiry[sid] > TIMEOUT
      BY <1>0, <1>5, <2>2 DEF Renew, Lasting, TypeOK
    <3> QED
      BY <1>5, <2>2, <3>1, <3>2 DEF Renew, Lasting, TypeOK
  <2> QED
    BY <2>1, <2>2
<1>6. CASE RenewOk
  <2>1. answer.secs \in Grants \cup {NoTimeout}
    BY <1>6 DEF RenewOk, TypeOK, Answers
  <2>2. /\ \A lease : Read(lease, answer.secs) => lease > wake' + TIMEOUT
        /\ task' = "sleep"
    BY <1>6, <2>1, WaitEnds DEF RenewOk, schedule_renew
  <2>3. main = "on" /\ sid # NoSid => Read(expiry[sid], answer.secs)
    BY <1>0, <1>6 DEF RenewOk, Lasting, Phases
  <2> QED
    BY <1>6, <2>1, <2>2, <2>3 DEF RenewOk, Lasting, Hang
<1>7. CASE RenewRefused
  BY <1>7, SendType DEF RenewRefused, Lasting, Kinds
<1>8. CASE RenewDisconnected
  BY <1>8 DEF RenewDisconnected, Lasting, Hang
<1>9. CASE UnsubscribeDone
  BY <1>9 DEF UnsubscribeDone, Lasting, Phases, TypeOK, Hang
<1>10. CASE TimedOut
  <2>1. CASE call.kind = "SUBSCRIBE" /\ SubscribeFailed /\ Hang
    BY <1>10, <2>1 DEF TimedOut, SubscribeFailed, Lasting, Phases, TypeOK, Hang
  <2>2. CASE /\ call.kind = "RENEW" /\ sid' = NoSid /\ Send("SUBSCRIBE", NoSid)
             /\ UNCHANGED <<main, runner, task, wake>>
    BY <1>10, <2>2, SendType DEF TimedOut, Lasting, Kinds
  <2>3. CASE /\ call.kind = "UNSUBSCRIBE"
             /\ main' = "stopped" /\ sid' = NoSid /\ runner' = FALSE /\ Hang
             /\ UNCHANGED <<task, wake>>
    BY <1>10, <2>3 DEF TimedOut, Lasting, Hang
  <2> QED
    BY <1>10, <2>1, <2>2, <2>3 DEF TimedOut
<1>11. CASE Serve
  <2>1. PICK how \in {"ok", "status"}, s \in Sids, secs \in Grants :
          /\ Process(call, how, s, secs)
          /\ \/ Answer(how, s, secs)
             \/ Answer("disconnected", s, secs)
             \/ call.kind = "SUBSCRIBE" /\ Answer("ok", NoSid, secs)
             \/ secs >= DEFAULT_TIMEOUT /\ Answer("ok", s, NoTimeout)
    BY <1>11 DEF Serve
  <2>2. /\ call # NoCall /\ answer = NoAnswer /\ answer' # NoAnswer
        /\ UNCHANGED <<main, sid, task, wake, call>>
    BY <1>11, <2>1 DEF Serve, Pending, client, TypeOK, Answer, Answers
  <2>6. secs \in Nat /\ secs > 0 /\ Read(secs, answer'.secs)
    BY <2>1 DEF Answer, Read, timeout_seconds
  <2>3. CASE call.kind = "SUBSCRIBE"
    <3>1. how = "ok" /\ expiry'[s] = secs
      BY <2>1, <2>3 DEF Process, TypeOK
    <3>2. answer'.sid = NoSid \/ answer'.sid = s
      BY <2>1 DEF Answer
    <3>3. ~(main = "on" /\ sid # NoSid)
      BY <2>2, <2>3 DEF Phases
    <3> QED
      BY <2>2, <2>3, <2>6, <3>1, <3>2, <3>3 DEF Lasting
  <2>4. CASE call.kind = "RENEW"
    <3>1. main = "on" /\ sid # NoSid /\ call.sid = sid /\ task = "call"
      BY <2>2, <2>4 DEF Phases, TypeOK
    <3>2. expiry[sid] > 0
      <4>1. expiry[sid] + call.age > TIMEOUT
        BY <1>0, <2>2, <3>1 DEF Lasting
      <4>2. call.age \in Nat /\ call.age <= TIMEOUT /\ expiry[sid] \in Nat
        BY <2>2, <3>1 DEF TypeOK, Calls
      <4> QED
        BY <4>1, <4>2
    <3>3. how = "ok" /\ s = sid /\ expiry'[sid] = secs
      BY <2>1, <2>4, <3>1, <3>2 DEF Process, TypeOK, Subscribed
    <3> QED
      BY <2>2, <2>4, <2>6, <3>1, <3>3 DEF Lasting
  <2>5. CASE call.kind = "UNSUBSCRIBE"
    BY <2>2, <2>5 DEF Lasting, Phases, TypeOK
  <2> QED
    BY <2>2, <2>3, <2>4, <2>5 DEF TypeOK, Calls, Kinds
<1>12. CASE Refuse
  <2>1. /\ call # NoCall /\ answer = NoAnswer
        /\ answer' # NoAnswer /\ answer'.how # "ok"
        /\ UNCHANGED <<main, sid, task, wake, call, expiry>>
    BY <1>12 DEF Refuse, Pending, client, Answer, Answers
  <2>2. ASSUME main = "on", sid # NoSid, task = "call"
        PROVE  expiry[sid] > 0
    <3>1. expiry[sid] + call.age > TIMEOUT
      BY <1>0, <2>1, <2>2 DEF Lasting
    <3>2. call.age \in Nat /\ call.age <= TIMEOUT /\ expiry[sid] \in Nat
      BY <2>1, <2>2 DEF TypeOK, Calls
    <3> QED
      BY <3>1, <3>2
  <2>3. main = "on" /\ sid # NoSid => task = "call"
    BY <2>1 DEF Phases
  <2> QED
    BY <2>1, <2>2, <2>3 DEF Lasting, Phases, TypeOK
<1>13. CASE LoseAnswer
  <2>1. PICK how \in {"ok", "status"}, s \in Sids, secs \in Grants : Process(call, how, s, secs)
    BY <1>13 DEF LoseAnswer
  <2>2. /\ call # NoCall /\ answer = NoAnswer /\ answer' = NoAnswer
        /\ call'.kind = call.kind /\ call'.age = call.age
        /\ UNCHANGED <<main, sid, task, wake>>
    BY <1>13 DEF LoseAnswer, Pending, client, TypeOK, Calls
  <2>3. ASSUME main = "on", sid # NoSid
        PROVE  expiry'[sid] > TIMEOUT \/ expiry'[sid] = expiry[sid]
    BY <2>1, <2>2, <2>3 DEF Process, Phases, TypeOK, Timely
  <2>4. ASSUME main = "on", sid # NoSid
        PROVE  expiry'[sid] + call.age > TIMEOUT /\ task = "call"
    <3>1. task = "call" /\ expiry[sid] + call.age > TIMEOUT
      BY <1>0, <2>2, <2>4 DEF Phases, Lasting
    <3>2. call.age \in Nat /\ expiry'[sid] \in Nat
      BY <2>2, <2>4 DEF TypeOK, Calls
    <3> QED
      BY <2>3, <2>4, <3>1, <3>2
  <2> QED
    BY <2>2, <2>4 DEF Lasting
<1>14. CASE Reboot
  BY <1>0, <1>14 DEF Reboot
<1>15. CASE Tick
  <2>1. answer = NoAnswer /\ answer' = NoAnswer /\ UNCHANGED <<main, sid, task>>
    BY <1>15 DEF Tick
  <2>2. ASSUME main = "on", sid # NoSid, task = "sleep"
        PROVE  expiry'[sid] > wake' + TIMEOUT
    <3>1. expiry[sid] > wake + TIMEOUT /\ expiry[sid] \in Nat /\ wake \in Nat
      BY <1>0, <2>2 DEF Lasting, TypeOK
    <3>2. wake > 0 /\ wake' = wake - 1
      BY <1>15, <2>2 DEF Tick
    <3>3. expiry'[sid] = IF expiry[sid] > 0 THEN expiry[sid] - 1 ELSE 0
      BY <1>15, <2>2 DEF Tick, TypeOK
    <3> QED
      BY <3>1, <3>2, <3>3
  <2>3. ASSUME main = "on", sid # NoSid, task = "call"
        PROVE  expiry'[sid] + call'.age > TIMEOUT
    <3>1. call # NoCall /\ call \in Calls /\ call'.age = call.age + 1
      BY <1>15, <2>3 DEF Tick, Phases, TypeOK, Calls
    <3>2. expiry[sid] + call.age > TIMEOUT /\ expiry[sid] \in Nat
      BY <1>0, <2>1, <2>3 DEF Lasting, TypeOK
    <3>3. expiry'[sid] = IF expiry[sid] > 0 THEN expiry[sid] - 1 ELSE 0
      BY <1>15, <2>3 DEF Tick, TypeOK
    <3>4. call.age \in Nat /\ call.age <= TIMEOUT /\ call.age < TIMEOUT
      BY <1>15, <3>1 DEF Tick, Calls
    <3> QED
      BY <3>1, <3>2, <3>3, <3>4
  <2> QED
    BY <2>1, <2>2, <2>3 DEF Lasting
<1>16. ASSUME NEW q \in stray, ServeStray(q)
       PROVE  Lasting'
  <2>1. UNCHANGED <<main, sid, task, wake, call, answer>>
    BY <1>16 DEF ServeStray, client
  <2>2. main = "on" /\ sid # NoSid => expiry'[sid] = expiry[sid]
    BY <1>16 DEF ServeStray, Process, Fresh, StraysOld, TypeOK
  <2>3. ASSUME main = "on", call # NoCall, call.kind = "SUBSCRIBE", answer # NoAnswer,
               answer.sid # NoSid
        PROVE  expiry'[answer.sid] = expiry[answer.sid]
    <3>1. CASE UNCHANGED expiry
      BY <3>1
    <3>2. ASSUME NEW how, NEW s, NEW secs, Process(q, how, s, secs)
          PROVE  expiry'[answer.sid] = expiry[answer.sid]
      <4>1. q.kind # "UNSUBSCRIBE" /\ (q.sid = NoSid \/ q.sid # answer.sid)
        BY <1>16, <2>3 DEF StraysOld
      <4>2. CASE how = "status"
        BY <3>2, <4>2 DEF Process
      <4>3. CASE q.kind = "SUBSCRIBE" /\ how # "status"
        <5>1. answer.sid # s /\ expiry' = [expiry EXCEPT ![s] = secs]
          BY <2>3, <3>2, <4>3 DEF Process, Fresh
        <5>2. answer.sid \in Sids /\ expiry \in [Sids -> Nat]
          BY <2>3 DEF TypeOK, Answers
        <5> QED
          BY <5>1, <5>2
      <4>4. CASE q.kind = "RENEW" /\ how # "status"
        <5>1. s = q.sid /\ s \in Sids /\ expiry' = [expiry EXCEPT ![s] = secs]
          BY <3>2, <4>4 DEF Process, Subscribed
        <5>2. answer.sid \in Sids /\ expiry \in [Sids -> Nat]
          BY <2>3 DEF TypeOK, Answers
        <5> QED
          BY <4>1, <5>1, <5>2
      <4> QED
        BY <3>2, <4>1, <4>2, <4>3, <4>4 DEF Process
    <3> QED
      BY <1>16, <3>1, <3>2 DEF ServeStray
  <2>4. call # NoCall /\ call.kind = "SUBSCRIBE" => main = "on"
    BY <1>16 DEF StraysOld, Phases, TypeOK
  <2> QED
    BY <1>0, <2>1, <2>2, <2>3, <2>4 DEF Lasting
<1>17. CASE UNCHANGED vars
  BY <1>0, <1>17 DEF vars, Lasting
<1> QED
  BY <1>1, <1>3, <1>4, <1>5, <1>6, <1>7, <1>8, <1>9,
     <1>10, <1>11, <1>12, <1>13, <1>14, <1>15, <1>16, <1>17 DEF Next, ClientStep

LEMMA HeldRenews ==
  ASSUME Timely, TypeOK, Phases, Held
  PROVE  RenewedInTime
<1> SUFFICES ASSUME reboots = 0, main = "on", task # "ended", sid # NoSid
             PROVE  sid \in Subscribed
  BY DEF RenewedInTime
<1>1. Lasting /\ sid \in Sids /\ expiry[sid] \in Nat
  BY DEF Held, TypeOK
<1>2. CASE task = "sleep"
  <2>1. expiry[sid] > wake + TIMEOUT /\ wake \in Nat /\ TIMEOUT \in Nat
    BY <1>1, <1>2, GenaAssumption DEF Lasting, TypeOK
  <2> QED
    BY <1>1, <2>1 DEF Subscribed
<1>3. CASE task = "call" /\ answer = NoAnswer
  <2>1. expiry[sid] + call.age > TIMEOUT
    BY <1>1, <1>3 DEF Lasting
  <2>2. call.age \in Nat /\ call.age <= TIMEOUT /\ TIMEOUT \in Nat
    BY <1>3, GenaAssumption DEF Phases, TypeOK, Calls
  <2> QED
    BY <1>1, <2>1, <2>2 DEF Subscribed
<1>4. CASE task = "call" /\ answer # NoAnswer
  BY <1>1, <1>4 DEF Lasting, Subscribed
<1> QED
  BY <1>2, <1>3, <1>4 DEF Phases, TypeOK

LEMMA AlwaysHeld ==
  ASSUME Timely
  PROVE  Spec => [](TypeOK /\ Phases /\ StraysOld /\ Held)
<1>1. TypeOK /\ Phases /\ StraysOld /\ Held /\ [Next]_vars => TypeOK' /\ Phases' /\ StraysOld' /\ Held'
  BY NextTypeOK, NextPhases, NextStraysOld, NextHeld
<1> QED
  BY <1>1, InitTypeOK, InitPhases, InitStraysOld, InitHeld, PTL DEF Spec

(* The subscription is renewed before it expires: while the renew task     *)
(* lives, the receiver knows the subscription that the client holds, with  *)
(* any number of requests refused, lost or late before, as long as it did  *)
(* not restart, grants more than the shortest wait and a time out, and no  *)
(* less than _timeout_seconds assumes where its header cannot be read.     *)
THEOREM RenewedBeforeExpiry ==
  ASSUME Timely
  PROVE  Spec => []RenewedInTime
<1>1. TypeOK /\ Phases /\ Held => RenewedInTime
  BY HeldRenews
<1> QED
  BY <1>1, AlwaysHeld, PTL

-----------------------------------------------------------------------------
(* Without faults and restarts the receiver has only the subscription that *)
(* the client holds, or is about to hear of; none when the client is off   *)
(* or done, and late requests are renewals that make none.                 *)
Only(ids) == \A s \in Sids : expiry[s] > 0 => s \in ids

Tidy ==
  /\ main \in {"off", "starting", "on", "stopping", "stopped"}
  /\ call # NoCall => call.served = FALSE
  /\ main \in {"off", "stopped"} => Only({})
  /\ main = "starting" => IF answer = NoAnswer THEN Only({})
                          ELSE answer.how = "ok" /\ answer.sid # NoSid /\ Only({answer.sid})
  /\ main = "on" => /\ sid # NoSid /\ stray = {} /\ task # "ended" /\ Only({sid})
                    /\ answer # NoAnswer => answer.how = "ok"
  /\ main = "stopping" => /\ Only({sid})
                          /\ answer # NoAnswer => answer.how # "disconnected" /\ Only({})
  /\ \A q \in stray : q.kind = "RENEW" /\ (main = "stopping" => q.sid = sid)

Untouched == faults = 0 /\ reboots = 0 => Tidy

LEMMA InitUntouched == Init => Untouched
  BY DEF Init, Untouched, Tidy, Only

LEMMA NextUntouched ==
  ASSUME Timely, TypeOK, TypeOK', Phases, StraysOld, Held, Untouched, [Next]_vars
  PROVE  Untouched'
<1> SUFFICES ASSUME faults' = 0, reboots' = 0
             PROVE  Tidy'
  BY DEF Untouched
<1> USE GenaAssumption
<1>0. /\ faults = 0 /\ reboots = 0 /\ Tidy /\ Lasting /\ RenewedInTime
      /\ \A kind : ~Fault(kind)
  <2>1. reboots' = reboots \/ reboots' = reboots + 1
    BY DEF Next, ClientStep, vars, client, Start, Stop, SubscribeOk, SubscribeRefused, Renew,
           RenewOk, RenewRefused, RenewDisconnected, UnsubscribeDone, TimedOut, Serve, Refuse,
           LoseAnswer, Reboot, Tick, ServeStray
  <2>2. faults' = faults \/ faults' = faults + 1
    BY DEF Next, ClientStep, vars, client, Start, Stop, SubscribeOk, SubscribeRefused, Renew,
           RenewOk, RenewRefused, RenewDisconnected, UnsubscribeDone, TimedOut, Serve, Refuse,
           LoseAnswer, Reboot, Tick, ServeStray, Fault
  <2>3. faults = 0 /\ reboots = 0 /\ \A kind : ~Fault(kind)
    BY <2>1, <2>2 DEF TypeOK, Fault
  <2> QED
    BY <2>3, HeldRenews DEF Untouched, Held
<1>1. CASE Start
  BY <1>0, <1>1, SendType DEF Start, Tidy, Only, Phases, StraysOld, Kinds
<1>2. CASE Stop
  <2>1. sid # NoSid /\ main = "on" /\ Send("UNSUBSCRIBE", sid) /\ main' = "stopping"
    BY <1>0, <1>2 DEF Stop, Tidy
  <2>2. \A q \in stray' : q.kind = "RENEW" /\ q.sid = sid
    BY <1>0, <1>2, <2>1 DEF Stop, Pending, Tidy, Phases
  <2> QED
    BY <1>0, <1>2, <2>1, <2>2, SendType DEF Stop, Tidy, Only, TypeOK, Kinds
<1>3. CASE SubscribeOk
  BY <1>0, <1>3 DEF SubscribeOk, Tidy, Only, Phases, StraysOld, TypeOK, Hang, schedule_renew
<1>4. CASE SubscribeRefused
  BY <1>0, <1>4 DEF SubscribeRefused, Tidy, Phases, TypeOK
<1>5. CASE Renew
  BY <1>0, <1>5, SendType DEF Renew, Tidy, Only, Phases, TypeOK, Kinds
<1>6. CASE RenewOk
  BY <1>0, <1>6 DEF RenewOk, Tidy, Only, Phases, TypeOK, Hang, schedule_renew
<1>7. CASE RenewRefused \/ RenewDisconnected
  BY <1>0, <1>7 DEF RenewRefused, RenewDisconnected, Tidy, Phases, TypeOK
<1>9. CASE UnsubscribeDone
  BY <1>0, <1>9 DEF UnsubscribeDone, Tidy, Only, Phases, TypeOK, Hang
<1>10. CASE TimedOut
  BY <1>0, <1>10 DEF TimedOut, Tidy
<1>11. CASE Serve
  <2>1. PICK how \in {"ok", "status"}, s \in Sids, secs \in Grants :
          Process(call, how, s, secs) /\ Answer(how, s, secs)
    BY <1>0, <1>11 DEF Serve
  <2>2. /\ call # NoCall /\ answer = NoAnswer /\ UNCHANGED <<main, sid, task, call, stray>>
        /\ answer'.how = how /\ answer'.sid = s /\ answer' # NoAnswer
    BY <1>11, <2>1 DEF Serve, Pending, client, Answer, Answers
  <2>3. CASE call.kind = "SUBSCRIBE"
    <3>1. how = "ok" /\ expiry' = [expiry EXCEPT ![s] = secs]
      BY <2>1, <2>3 DEF Process
    <3>2. main = "starting"
      BY <1>0, <2>2, <2>3 DEF Tidy, Phases
    <3> QED
      BY <1>0, <2>2, <3>1, <3>2 DEF Tidy, Only, TypeOK
  <2>4. CASE call.kind = "RENEW"
    <3>1. main = "on" /\ call.sid = sid /\ sid \in Subscribed
      BY <1>0, <2>2, <2>4 DEF Tidy, Phases, RenewedInTime
    <3>2. how = "ok" /\ s = sid /\ expiry' = [expiry EXCEPT ![s] = secs]
      BY <2>1, <2>4, <3>1 DEF Process
    <3> QED
      BY <1>0, <2>2, <3>1, <3>2 DEF Tidy, Only, TypeOK
  <2>5. CASE call.kind = "UNSUBSCRIBE"
    <3>1. main = "stopping" /\ call.sid = sid
      BY <1>0, <2>2, <2>5 DEF Tidy, Phases
    <3>2. s = sid /\ \A t \in Sids : t # s => expiry'[t] = expiry[t]
      BY <2>1, <2>5, <3>1 DEF Process, TypeOK
    <3>3. ~(expiry'[s] > 0)
      BY <2>1, <2>5 DEF Process, TypeOK, Subscribed
    <3>4. \A t \in Sids : ~(expiry'[t] > 0)
      BY <1>0, <3>1, <3>2, <3>3 DEF Tidy, Only
    <3> QED
      BY <1>0, <2>2, <3>1, <3>4 DEF Tidy, Only
  <2> QED
    BY <2>2, <2>3, <2>4, <2>5 DEF TypeOK, Calls, Kinds
<1>12. CASE Refuse \/ LoseAnswer \/ Reboot
  BY <1>0, <1>12 DEF Refuse, LoseAnswer, Reboot
<1>15. CASE Tick
  <2>1. \A s \in Sids : expiry'[s] > 0 => expiry[s] > 0
    BY <1>15 DEF Tick, TypeOK
  <2>2. call' # NoCall => call # NoCall /\ call'.served = call.served
    BY <1>15 DEF Tick, TypeOK, Calls
  <2>3. answer = NoAnswer /\ UNCHANGED <<main, sid, task, answer, stray>>
    BY <1>15 DEF Tick
  <2> QED
    BY <1>0, <2>1, <2>2, <2>3 DEF Tidy, Only
<1>16. ASSUME NEW q \in stray, ServeStray(q)
       PROVE  Tidy'
  <2>1. q.kind = "RENEW" /\ (main = "stopping" => q.sid = sid)
    BY <1>0, <1>16 DEF Tidy
  <2>2. \A s \in Sids : expiry'[s] > 0 => expiry[s] > 0
    BY <1>16, <2>1 DEF ServeStray, Process, TypeOK, Subscribed
  <2>3. UNCHANGED <<main, sid, task, call, answer>> /\ stray' \subseteq stray
    BY <1>16 DEF ServeStray, client
  <2> QED
    BY <1>0, <2>2, <2>3 DEF Tidy, Only
<1>17. CASE UNCHANGED vars
  BY <1>0, <1>17 DEF vars, Tidy, Only
<1> QED
  BY <1>1, <1>2, <1>3, <1>4, <1>5, <1>6, <1>7, <1>9, <1>10, <1>11, <1>12, <1>15, <1>16, <1>17
     DEF Next, ClientStep

(* A stop that returned, or a start that failed, took the listener down;   *)
(* without a fault or a restart on the way the receiver has no             *)
(* subscription of this client left, whenever the stop came.               *)
THEOREM NothingLeft ==
  ASSUME Timely
  PROVE  Spec => []StopLeavesNothing
<1>1. TypeOK /\ Phases /\ Untouched => StopLeavesNothing
  BY DEF TypeOK, Phases, Untouched, Tidy, Only, StopLeavesNothing, Subscribed
<1>2. Init => Untouched
  BY InitUntouched
<1>3. /\ TypeOK /\ Phases /\ StraysOld /\ Held /\ Untouched /\ TypeOK' /\ [Next]_vars
      => Untouched'
  BY NextUntouched
<1> QED
  BY <1>1, <1>2, <1>3, AlwaysHeld, PTL DEF Spec

-----------------------------------------------------------------------------
(* What the receiver has or may still get of this client: subscriptions,   *)
(* and abandoned requests for one.  Each but the one the client holds was  *)
(* paid for by a fault; so was that one when the client is about to give   *)
(* it up, or holds none that the receiver knows.                           *)
Late == {q \in stray : q.kind = "SUBSCRIBE"}

Cost == Cardinality(Subscribed) + Cardinality(Late)

Own == IF call # NoCall /\ call.kind = "SUBSCRIBE"
       THEN IF answer # NoAnswer THEN answer.sid ELSE NoSid
       ELSE sid

Alive == main \in {"off", "starting"} \/ (main = "on" /\ task # "ended")

Failing ==
  /\ call # NoCall /\ call.kind = "RENEW"
  /\ call.served \/ (answer # NoAnswer /\ answer.how \in {"status", "oserror"})

Countable == IsFiniteSet(Subscribed) /\ IsFiniteSet(Late)

Priced ==
  /\ Countable
  /\ Cost <= faults + 1
  /\ Alive /\ (Own \notin Subscribed \/ Failing) => Cost <= faults

(* One element more counts at most one more. *)
LEMMA Added ==
  ASSUME NEW S, NEW x, IsFiniteSet(S)
  PROVE  /\ IsFiniteSet(S \cup {x})
         /\ Cardinality(S) \in Nat /\ Cardinality(S \cup {x}) \in Nat
         /\ Cardinality(S \cup {x}) <= Cardinality(S) + 1
<1> DEFINE n == Cardinality(S)
           m == Cardinality(S \cup {x})
<1>1. IsFiniteSet(S \cup {x}) /\ (m = n \/ m = n + 1)
  BY FS_AddElement
<1>2. n \in Nat /\ m \in Nat
  BY <1>1, FS_CardinalityType
<1> HIDE DEF n, m
<1>3. m <= n + 1
  BY <1>1, <1>2
<1> QED
  BY <1>1, <1>2, <1>3 DEF n, m

LEMMA CostType == Countable => Cost \in Nat
  BY FS_CardinalityType DEF Countable, Cost

(* Where none is added the cost does not grow, and where one goes it falls. *)
LEMMA NoMore ==
  ASSUME Countable, Subscribed' \subseteq Subscribed, Late' \subseteq Late
  PROVE  /\ Countable' /\ Cost' \in Nat /\ Cost' <= Cost
         /\ Subscribed' # Subscribed \/ Late' # Late => Cost' + 1 <= Cost
<1>1. /\ IsFiniteSet(Subscribed') /\ Cardinality(Subscribed') <= Cardinality(Subscribed)
      /\ Subscribed' # Subscribed => Cardinality(Subscribed') # Cardinality(Subscribed)
  BY FS_Subset DEF Countable
<1>2. /\ IsFiniteSet(Late') /\ Cardinality(Late') <= Cardinality(Late)
      /\ Late' # Late => Cardinality(Late') # Cardinality(Late)
  BY FS_Subset DEF Countable
<1>3. /\ Cardinality(Subscribed) \in Nat /\ Cardinality(Subscribed') \in Nat
      /\ Cardinality(Late) \in Nat /\ Cardinality(Late') \in Nat
  BY <1>1, <1>2, FS_CardinalityType DEF Countable
<1> QED
  BY <1>1, <1>2, <1>3 DEF Countable, Cost

(* A new subscription costs one. *)
LEMMA OneMore ==
  ASSUME Countable, NEW s, Subscribed' = Subscribed \cup {s}, Late' = Late
  PROVE  Countable' /\ Cost' \in Nat /\ Cost' <= Cost + 1
<1>1. /\ IsFiniteSet(Subscribed \cup {s})
      /\ Cardinality(Subscribed \cup {s}) <= Cardinality(Subscribed) + 1
  BY Added DEF Countable
<1>2. Cardinality(Subscribed) \in Nat /\ Cardinality(Subscribed') \in Nat /\ Cardinality(Late) \in Nat
  BY <1>1, FS_CardinalityType DEF Countable
<1> QED
  BY <1>1, <1>2 DEF Countable, Cost

(* So does a request for one that the client abandons. *)
LEMMA OneLater ==
  ASSUME Countable, NEW q, Subscribed' = Subscribed, Late' \subseteq Late \cup {q}
  PROVE  Countable' /\ Cost' \in Nat /\ Cost' <= Cost + 1
<1>1. /\ IsFiniteSet(Late \cup {q}) /\ Cardinality(Late) \in Nat
      /\ Cardinality(Late \cup {q}) <= Cardinality(Late) + 1
  BY Added DEF Countable
<1>2. IsFiniteSet(Late') /\ Cardinality(Late') <= Cardinality(Late \cup {q})
  BY <1>1, FS_Subset
<1>3. /\ Cardinality(Subscribed) \in Nat /\ Cardinality(Late') \in Nat
      /\ Cardinality(Late \cup {q}) \in Nat
  BY <1>1, <1>2, FS_CardinalityType DEF Countable
<1> QED
  BY <1>1, <1>2, <1>3 DEF Countable, Cost

(* A late request that is served turns into the subscription it cost. *)
LEMMA LateServed ==
  ASSUME Countable, NEW s, NEW q \in Late, Subscribed' = Subscribed \cup {s}, Late' = Late \ {q}
  PROVE  Countable' /\ Cost' \in Nat /\ Cost' <= Cost
<1>1. /\ Cardinality(Subscribed) \in Nat /\ Cardinality(Late) \in Nat
  BY FS_CardinalityType DEF Countable
<1>2. /\ IsFiniteSet(Subscribed \cup {s})
      /\ Cardinality(Subscribed \cup {s}) <= Cardinality(Subscribed) + 1
  BY Added DEF Countable
<1>3. IsFiniteSet(Late \ {q}) /\ Cardinality(Late \ {q}) = Cardinality(Late) - 1
  BY <1>1, FS_RemoveElement DEF Countable
<1>4. Cardinality(Subscribed') \in Nat /\ Cardinality(Late') \in Nat
  BY <1>2, <1>3, FS_CardinalityType
<1> QED
  BY <1>1, <1>2, <1>3, <1>4 DEF Countable, Cost

LEMMA InitPriced == Init => Priced
<1> SUFFICES ASSUME Init
             PROVE  Priced
  OBVIOUS
<1>1. Subscribed = {} /\ Late = {}
  BY DEF Init, Subscribed, Late
<1>2. Countable /\ Cost = 0
  BY <1>1, FS_EmptySet DEF Countable, Cost
<1>3. faults = 0
  BY DEF Init
<1> QED
  BY <1>2, <1>3 DEF Priced

(* The receiver serves a request: the subscriptions it then has. *)
LEMMA ProcessSubscribed ==
  ASSUME TypeOK, NEW q \in Calls, NEW how, NEW s \in Sids, NEW secs \in Grants,
         Process(q, how, s, secs)
  PROVE  /\ q.kind = "SUBSCRIBE" => how = "ok" /\ Subscribed' = Subscribed \cup {s}
         /\ q.kind = "RENEW" =>
              /\ Subscribed' = Subscribed
              /\ how = "ok" \/ (how = "status" /\ q.sid \notin Subscribed)
         /\ q.kind = "UNSUBSCRIBE" =>
              Subscribed' = Subscribed \/ (s \in Subscribed /\ Subscribed' = Subscribed \ {s})
  BY GenaAssumption DEF Process, TypeOK, Subscribed

LEMMA NextPriced ==
  ASSUME TypeOK, Phases, Priced, [Next]_vars
  PROVE  Priced'
<1> USE GenaAssumption
<1>0. /\ Countable /\ Cost \in Nat /\ faults \in Nat /\ Cost <= faults + 1
      /\ Alive /\ (Own \notin Subscribed \/ Failing) => Cost <= faults
  BY CostType DEF Priced, TypeOK
(* Nothing changes at the receiver. *)
<1>a. ASSUME UNCHANGED <<expiry, stray, faults>>,
             Alive' /\ (Own' \notin Subscribed' \/ Failing') =>
               Alive /\ (Own \notin Subscribed \/ Failing)
      PROVE  Priced'
  <2>1. Subscribed' = Subscribed /\ Late' = Late
    BY <1>a DEF Subscribed, Late
  <2>2. Countable' /\ Cost' = Cost
    BY <1>0, <2>1 DEF Countable, Cost
  <2> QED
    BY <1>0, <1>a, <2>2 DEF Priced
(* A fault pays for what is added. *)
<1>b. ASSUME Countable', Cost' \in Nat, faults' = faults + 1,
             Cost' <= Cost \/ (Cost' <= Cost + 1 /\ (~Alive' \/ Cost <= faults))
      PROVE  Priced'
  <2>1. Cost' <= faults' + 1
    BY <1>0, <1>b
  <2>2. Alive' => Cost' <= faults'
    BY <1>0, <1>b
  <2> QED
    BY <1>b, <2>1, <2>2 DEF Priced
(* Something goes. *)
<1>c. ASSUME Countable', Cost' \in Nat, faults' = faults, Cost' + 1 <= Cost
      PROVE  Priced'
  <2>1. \A c \in Nat, n \in Nat, f \in Nat : n + 1 <= c /\ c <= f + 1 => n <= f /\ n <= f + 1
    OBVIOUS
  <2>2. Cost' <= faults /\ Cost' <= faults + 1
    BY ONLY <1>0, <1>c, <2>1
  <2> QED
    BY <1>c, <2>2 DEF Priced
<1>1. CASE Start
  <2>1. CASE main' = "starting" /\ Send("SUBSCRIBE", NoSid) /\ UNCHANGED faults
    <3>1. Own = NoSid /\ NoSid \notin Subscribed /\ Alive
      BY <1>1, <2>1 DEF Start, Phases, Own, Alive, Subscribed
    <3> QED
      BY <1>a, <1>1, <2>1, <3>1 DEF Start
  <2>2. CASE Fault("bind") /\ main' = "fallback"
    <3>1. Subscribed' = Subscribed /\ Late' = Late /\ faults' = faults + 1
      BY <1>1, <2>2 DEF Start, Subscribed, Late, Fault
    <3> QED
      BY <1>0, <1>b, <3>1, NoMore
  <2> QED
    BY <1>1, <2>1, <2>2 DEF Start
<1>2. CASE Stop
  <2>1. Subscribed' = Subscribed /\ faults' = faults /\ ~Alive' /\ main = "on"
    BY <1>2 DEF Stop, Subscribed, Alive
  <2>2. CASE Pending /\ call.kind = "SUBSCRIBE"
    <3>1. Cost <= faults
      <4>1. Own = NoSid /\ NoSid \notin Subscribed
        BY <2>2 DEF Own, Pending, Subscribed
      <4>2. Alive
        BY <2>1, <2>2 DEF Alive, Phases, Pending
      <4> QED
        BY <1>0, <4>1, <4>2
    <3>2. Late' \subseteq Late \cup {call}
      BY <1>2 DEF Stop, Late
    <3>3. Countable' /\ Cost' \in Nat /\ Cost' <= Cost + 1
      BY <1>0, <2>1, <3>2, OneLater
    <3>4. Cost' <= faults' + 1
      BY <1>0, <2>1, <3>1, <3>3
    <3> QED
      BY <2>1, <3>3, <3>4 DEF Priced
  <2>3. CASE ~(Pending /\ call.kind = "SUBSCRIBE")
    <3>1. Late' = Late
      BY <1>2, <2>3 DEF Stop, Late
    <3>2. Countable' /\ Cost' \in Nat /\ Cost' <= Cost
      BY <1>0, <2>1, <3>1, NoMore
    <3>3. Cost' <= faults' + 1
      BY <1>0, <2>1, <3>2
    <3> QED
      BY <2>1, <3>2, <3>3 DEF Priced
  <2> QED
    BY <2>2, <2>3
<1>3. CASE SubscribeOk
  <2>1. Alive /\ Own = answer.sid
    BY <1>3 DEF SubscribeOk, Phases, TypeOK, Alive, Own
  <2>2. Own' = answer.sid /\ ~Failing' /\ UNCHANGED <<expiry, stray, faults>>
    BY <1>3 DEF SubscribeOk, Hang, Own, Failing
  <2>3. Subscribed' = Subscribed
    BY <2>2 DEF Subscribed
  <2> QED
    BY <1>a, <2>1, <2>2, <2>3
<1>4. CASE SubscribeRefused
  <2>1. ~Alive' /\ UNCHANGED <<expiry, stray, faults>>
    BY <1>4 DEF SubscribeRefused, SubscribeFailed, Phases, TypeOK, Alive
  <2> QED
    BY <1>a, <2>1
<1>5. CASE Renew
  <2>1. main = "on" /\ call = NoCall /\ UNCHANGED <<main, sid, expiry, stray, faults>>
    BY <1>5 DEF Renew, Phases, TypeOK
  <2>2. CASE sid = NoSid
    BY <1>a, <1>5, <2>1, <2>2 DEF Renew, Alive
  <2>3. CASE sid # NoSid
    <3>1. Send("RENEW", sid) /\ sid \in Sids \cup {NoSid}
      BY <1>5, <2>3 DEF Renew, TypeOK
    <3>2. Own' = Own /\ ~Failing' /\ Alive
      BY <1>5, <2>1, <3>1, SendType DEF Own, Failing, Alive, Renew, Kinds
    <3>3. Subscribed' = Subscribed
      BY <2>1 DEF Subscribed
    <3> QED
      BY <1>a, <2>1, <3>2, <3>3
  <2> QED
    BY <2>2, <2>3
<1>6. CASE RenewOk
  <2>1. Alive /\ Own = sid
    BY <1>6 DEF RenewOk, Phases, TypeOK, Alive, Own
  <2>2. Own' = sid /\ ~Failing' /\ UNCHANGED <<expiry, stray, faults>>
    BY <1>6 DEF RenewOk, Hang, Own, Failing
  <2>3. Subscribed' = Subscribed
    BY <2>2 DEF Subscribed
  <2> QED
    BY <1>a, <2>1, <2>2, <2>3
<1>7. CASE RenewRefused
  <2>1. Alive /\ Failing /\ UNCHANGED <<expiry, stray, faults>>
    BY <1>7 DEF RenewRefused, Phases, TypeOK, Alive, Failing
  <2> QED
    BY <1>a, <2>1
<1>8. CASE RenewDisconnected
  <2>1. ~Alive' /\ UNCHANGED <<expiry, stray, faults>>
    BY <1>8 DEF RenewDisconnected, Phases, TypeOK, Alive
  <2> QED
    BY <1>a, <2>1
<1>9. CASE UnsubscribeDone
  <2>1. ~Alive' /\ UNCHANGED <<expiry, stray, faults>>
    BY <1>9 DEF UnsubscribeDone, Phases, TypeOK, Alive
  <2> QED
    BY <1>a, <2>1
<1>10. CASE TimedOut
  <2>1. /\ call # NoCall /\ answer = NoAnswer /\ Subscribed' = Subscribed
        /\ IF call.served THEN UNCHANGED <<stray, faults>>
           ELSE faults' = faults + 1 /\ stray' = stray \cup {call}
    BY <1>10 DEF TimedOut, Fault, Subscribed
  <2>2. CASE call.kind = "SUBSCRIBE"
    <3>1. ~Alive'
      BY <1>10, <2>1, <2>2 DEF TimedOut, SubscribeFailed, Phases, TypeOK, Alive
    <3>2. CASE call.served
      BY <1>a, <1>10, <2>1, <3>1, <3>2 DEF TimedOut
    <3>3. CASE ~call.served
      <4>1. Late' \subseteq Late \cup {call}
        BY <2>1, <3>3 DEF Late
      <4> QED
        BY <1>0, <1>b, <2>1, <3>1, <3>3, <4>1, OneLater
    <3> QED
      BY <3>2, <3>3
  <2>3. CASE call.kind = "RENEW"
    <3>1. CASE call.served
      <4>1. Alive /\ Failing
        BY <2>1, <2>3, <3>1 DEF Phases, TypeOK, Alive, Failing
      <4> QED
        BY <1>a, <1>10, <2>1, <3>1, <4>1 DEF TimedOut
    <3>2. CASE ~call.served
      <4>1. Late' = Late
        BY <2>1, <2>3, <3>2 DEF Late
      <4> QED
        BY <1>0, <1>b, <2>1, <3>2, <4>1, NoMore
    <3> QED
      BY <3>1, <3>2
  <2>4. CASE call.kind = "UNSUBSCRIBE"
    <3>1. ~Alive'
      BY <1>10, <2>4 DEF TimedOut, Alive
    <3>2. CASE call.served
      BY <1>a, <1>10, <2>1, <3>1, <3>2 DEF TimedOut
    <3>3. CASE ~call.served
      <4>1. Late' = Late
        BY <2>1, <2>4, <3>3 DEF Late
      <4> QED
        BY <1>0, <1>b, <2>1, <3>3, <4>1, NoMore
    <3> QED
      BY <3>2, <3>3
  <2> QED
    BY <2>1, <2>2, <2>3, <2>4 DEF TypeOK, Calls, Kinds
<1>11. CASE Serve
  <2>1. PICK how \in {"ok", "status"}, s \in Sids, secs \in Grants :
          /\ Process(call, how, s, secs)
          /\ \/ Answer(how, s, secs) /\ UNCHANGED faults
             \/ Fault("disconnected") /\ Answer("disconnected", s, secs)
             \/ Fault("no_sid") /\ call.kind = "SUBSCRIBE" /\ Answer("ok", NoSid, secs)
             \/ Fault("no_timeout") /\ how = "ok" /\ Answer("ok", s, NoTimeout)
    BY <1>11 DEF Serve
  <2>2. /\ call \in Calls /\ call # NoCall /\ answer = NoAnswer /\ call.served = FALSE
        /\ UNCHANGED <<main, sid, task, call, stray>> /\ Late' = Late
        /\ faults' = faults \/ faults' = faults + 1
    BY <1>11, <2>1 DEF Serve, Pending, client, TypeOK, Calls, Late, Fault
  <2>3. faults' = faults => answer' # NoAnswer /\ answer'.how = how /\ answer'.sid = s
    BY <1>0, <2>1 DEF Answer, Answers, Fault
  <2>4. CASE call.kind = "SUBSCRIBE"
    <3>1. Alive /\ Own = NoSid /\ NoSid \notin Subscribed
      BY <2>2, <2>4 DEF Alive, Own, Phases, TypeOK, Subscribed
    <3>2. Subscribed' = Subscribed \cup {s}
      BY <2>1, <2>2, <2>4, ProcessSubscribed
    <3>3. Cost <= faults /\ Countable' /\ Cost' \in Nat /\ Cost' <= Cost + 1
      BY <1>0, <2>2, <3>1, <3>2, OneMore
    <3>4. CASE faults' = faults
      <4>1. Own' = s /\ s \in Subscribed' /\ ~Failing'
        BY <2>2, <2>3, <2>4, <3>2, <3>4 DEF Own, Failing
      <4>2. Cost' <= faults' + 1
        BY <1>0, <3>3, <3>4
      <4> QED
        BY <3>3, <4>1, <4>2 DEF Priced
    <3> QED
      BY <1>b, <2>2, <3>3, <3>4
  <2>5. CASE call.kind = "RENEW"
    <3>1. Subscribed' = Subscribed
      BY <2>1, <2>2, <2>5, ProcessSubscribed
    <3>2. Countable' /\ Cost' \in Nat /\ Cost' <= Cost
      BY <1>0, <2>2, <3>1, NoMore
    <3>3. CASE faults' = faults
      <4>1. Alive /\ Own = sid /\ sid = call.sid /\ Own' = sid
        BY <2>2, <2>5 DEF Alive, Own, Phases, TypeOK
      <4>2. how = "ok" \/ call.sid \notin Subscribed
        BY <2>1, <2>2, <2>5, ProcessSubscribed
      <4>3. Failing' => Own \notin Subscribed
        BY <2>2, <2>3, <3>3, <4>1, <4>2 DEF Failing
      <4>4. Own' \notin Subscribed' \/ Failing' => Cost <= faults
        BY <1>0, <3>1, <4>1, <4>3
      <4>5. Cost' <= faults' + 1 /\ (Own' \notin Subscribed' \/ Failing' => Cost' <= faults')
        BY <1>0, <3>2, <3>3, <4>4
      <4> QED
        BY <3>2, <4>5 DEF Priced
    <3> QED
      BY <1>b, <2>2, <3>2, <3>3
  <2>6. CASE call.kind = "UNSUBSCRIBE"
    <3>1. Subscribed' \subseteq Subscribed
      BY <2>1, <2>2, <2>6, ProcessSubscribed
    <3>2. Countable' /\ Cost' \in Nat /\ Cost' <= Cost
      BY <1>0, <2>2, <3>1, NoMore
    <3>3. ~Alive'
      BY <2>2, <2>6 DEF Alive, Phases, TypeOK
    <3>4. Cost' <= faults' + 1
      BY <1>0, <2>2, <3>2
    <3> QED
      BY <3>2, <3>3, <3>4 DEF Priced
  <2> QED
    BY <2>2, <2>4, <2>5, <2>6 DEF Calls, Kinds
<1>12. CASE Refuse
  <2>1. Subscribed' = Subscribed /\ Late' = Late /\ faults' = faults + 1
    BY <1>12 DEF Refuse, Fault, Subscribed, Late
  <2> QED
    BY <1>0, <1>b, <2>1, NoMore
<1>13. CASE LoseAnswer
  <2>1. PICK how \in {"ok", "status"}, s \in Sids, secs \in Grants : Process(call, how, s, secs)
    BY <1>13 DEF LoseAnswer
  <2>2. /\ call \in Calls /\ call # NoCall /\ answer = NoAnswer
        /\ Late' = Late /\ faults' = faults + 1
    BY <1>13 DEF LoseAnswer, Pending, TypeOK, Fault, Late
  <2>3. CASE call.kind = "SUBSCRIBE"
    <3>1. Alive /\ Own = NoSid /\ NoSid \notin Subscribed
      BY <2>2, <2>3 DEF Alive, Own, Phases, TypeOK, Subscribed
    <3>2. Subscribed' = Subscribed \cup {s}
      BY <2>1, <2>2, <2>3, ProcessSubscribed
    <3> QED
      BY <1>0, <1>b, <2>2, <3>1, <3>2, OneMore
  <2>4. CASE call.kind # "SUBSCRIBE"
    <3>1. Subscribed' \subseteq Subscribed
      BY <2>1, <2>2, <2>4, ProcessSubscribed DEF Calls, Kinds
    <3> QED
      BY <1>0, <1>b, <2>2, <3>1, NoMore
  <2> QED
    BY <2>3, <2>4
<1>14. CASE Reboot
  <2>1. Subscribed' = {} /\ Subscribed # {} /\ Late' = Late /\ faults' = faults
    BY <1>14 DEF Reboot, Subscribed, Late
  <2> QED
    BY <1>0, <1>c, <2>1, NoMore
<1>15. CASE Tick
  <2>1. Subscribed' \subseteq Subscribed /\ Late' = Late /\ faults' = faults
    BY <1>15 DEF Tick, TypeOK, Subscribed, Late
  <2>2. CASE Subscribed' # Subscribed
    BY <1>0, <1>c, <2>1, <2>2, NoMore
  <2>3. CASE Subscribed' = Subscribed
    <3>1. Alive' => Alive
      BY <1>15 DEF Tick, Alive
    <3>2. Own' = Own /\ (Failing' => Failing)
      <4>1. CASE call = NoCall
        BY <1>15, <4>1 DEF Tick, Own, Failing
      <4>2. CASE call # NoCall
        <5>1. call' # NoCall /\ call'.kind = call.kind /\ call'.served = call.served
          BY <1>15, <4>2 DEF Tick, TypeOK, Calls
        <5> QED
          BY <1>15, <4>2, <5>1 DEF Tick, Own, Failing
      <4> QED
        BY <4>1, <4>2
    <3>3. Countable' /\ Cost' = Cost
      BY <1>0, <2>1, <2>3 DEF Countable, Cost
    <3> QED
      BY <1>0, <2>1, <2>3, <3>1, <3>2, <3>3 DEF Priced
  <2> QED
    BY <2>2, <2>3
<1>16. ASSUME NEW q \in stray, ServeStray(q)
       PROVE  Priced'
  <2>1. /\ q \in Calls /\ Late' = Late \ {q} /\ faults' = faults
        /\ Alive' = Alive /\ Own' = Own /\ Failing' = Failing
    BY <1>16 DEF ServeStray, client, TypeOK, Late, Alive, Own, Failing
  <2>2. CASE Subscribed' \subseteq Subscribed /\ (Subscribed' # Subscribed \/ Late' # Late)
    BY <1>0, <1>c, <2>1, <2>2, NoMore
  <2>3. CASE Subscribed' = Subscribed /\ Late' = Late
    <3>1. Countable' /\ Cost' = Cost
      BY <1>0, <2>3 DEF Countable, Cost
    <3> QED
      BY <1>0, <2>1, <2>3, <3>1 DEF Priced
  <2>4. ASSUME NEW s, q \in Late, Subscribed' = Subscribed \cup {s}
        PROVE  Priced'
    <3>1. Countable' /\ Cost' \in Nat /\ Cost' <= Cost
      BY <1>0, <2>1, <2>4, LateServed
    <3>2. Cost' <= faults' + 1
      BY <1>0, <2>1, <3>1
    <3>3. ASSUME Alive', Own' \notin Subscribed' \/ Failing'
          PROVE  Cost' <= faults'
      <4>1. Cost <= faults
        BY <1>0, <2>1, <2>4, <3>3
      <4> QED
        BY <1>0, <2>1, <3>1, <4>1
    <3> QED
      BY <3>1, <3>2, <3>3 DEF Priced
  <2>5. \/ Subscribed' \subseteq Subscribed
        \/ q \in Late /\ \E s \in Sids : Subscribed' = Subscribed \cup {s}
    <3>1. CASE UNCHANGED expiry
      BY <3>1 DEF Subscribed
    <3>2. ASSUME NEW how \in {"ok", "status"}, NEW s \in Sids, NEW secs \in Grants,
                 Process(q, how, s, secs)
          PROVE  \/ Subscribed' \subseteq Subscribed
                 \/ q \in Late /\ Subscribed' = Subscribed \cup {s}
      <4>1. q.kind = "SUBSCRIBE" \/ q.kind = "RENEW" \/ q.kind = "UNSUBSCRIBE"
        BY <2>1 DEF Calls, Kinds
      <4> QED
        BY <2>1, <3>2, <4>1, ProcessSubscribed DEF Late
    <3> QED
      BY <1>16, <3>1, <3>2 DEF ServeStray
  <2> QED
    BY <2>1, <2>2, <2>3, <2>4, <2>5
<1>17. CASE UNCHANGED vars
  <2>1. /\ UNCHANGED <<expiry, stray, faults>> /\ Subscribed' = Subscribed
        /\ Alive' = Alive /\ Own' = Own /\ Failing' = Failing
    BY <1>17 DEF vars, Subscribed, Alive, Own, Failing
  <2> QED
    BY <1>a, <2>1
<1> QED
  BY <1>1, <1>2, <1>3, <1>4, <1>5, <1>6, <1>7, <1>8, <1>9,
     <1>10, <1>11, <1>12, <1>13, <1>14, <1>15, <1>16, <1>17 DEF Next, ClientStep

(* A subscription too many at the receiver is the price of a fault: what   *)
(* renewals, restarts, stops and requests that come late do by themselves  *)
(* never leaves it more than the one the client holds (_async_renew,       *)
(* async_stop), for any durations, margin and time out.                    *)
THEOREM PricedSubscriptions == Spec => []FewSubscriptions
<1>1. ASSUME TypeOK, Priced
      PROVE  FewSubscriptions
  <2>1. /\ Cardinality(Subscribed) \in Nat /\ Cardinality(Late) \in Nat
        /\ Cost = Cardinality(Subscribed) + Cardinality(Late)
    BY <1>1, FS_CardinalityType DEF Priced, Countable, Cost
  <2>2. Cost <= faults + 1 /\ faults \in Nat
    BY <1>1, GenaAssumption DEF Priced, TypeOK
  <2> QED
    BY <2>1, <2>2 DEF FewSubscriptions
<1>2. TypeOK /\ Phases /\ Priced /\ [Next]_vars => Priced'
  BY NextPriced
<1> QED
  BY <1>1, <1>2, AlwaysPhases, InitPriced, PTL DEF Spec
=============================================================================
