---------------------------- MODULE SgsTransport ----------------------------
(***************************************************************************)
(* The command path of the local transport: service calls that replay key  *)
(* sequences, the two-step Digest exchange of each key under the lock of   *)
(* its LocalHttpTransport, and the receiver that answers.                  *)
(*                                                                         *)
(* One event loop runs all calls: a step of a call is what it does between *)
(* two awaits.  Requests travel to the receiver and answers back; either   *)
(* may be lost, and a request may be served after its sender gave up.      *)
(***************************************************************************)
EXTENDS Keys, Naturals, Sequences, SequencesExt

CONSTANTS
  Calls,        \* service calls
  Together,     \* the sets of them that may be made at about the same time
  Transports,   \* LocalHttpTransport objects (one per config entry)
  TransportOf,  \* the transport of the entity a call addresses
  CallOf,       \* what a call asks for: a record of Keys
  DialAt,       \* the transports that found a DIAL server
  Unsupported,  \* keys this receiver does not accept over IP
  OneNonce,     \* does a new challenge void the previous nonces?
  Faults,       \* receiver and network faults that may happen
  Nobody, NoNonce, NoReply

FaultKinds == {"timeout", "client_error", "redirect", "http_error", "not_digest",
               "no_nonce", "no_auth", "no_result", "close", "revoke", "cancel"}

ASSUME TransportAssumption ==
  /\ TransportOf \in [Calls -> Transports] /\ Together \subseteq SUBSET Calls
  /\ Nobody \notin Calls
  /\ DialAt \subseteq Transports /\ OneNonce \in BOOLEAN
  /\ Faults \subseteq FaultKinds
  /\ NoNonce \notin Calls \X (Nat \ {0})
  /\ NoReply \notin [kind : STRING, nonce : Calls \X (Nat \ {0}) \cup {NoNonce}]
  /\ \A c \in Calls : IsCall(CallOf[c])

VARIABLES
  session,   \* transport -> is self._session set?
  creds,     \* transport -> the Digest credentials it holds
  holder,    \* transport -> the call inside `async with self._lock`
  waiters,   \* transport -> calls queued on the lock, first come first
  pc,        \* call -> where its task is suspended
  pos,       \* call -> the key of its plan it is at
  outcome,   \* call -> how the service call ended
  net,       \* requests on their way to the receiver
  reply,     \* call -> the answer waiting to be read
  live,      \* nonces the receiver still honours
  typed,     \* the keys the receiver executed, in order
  skipped,   \* the keys it left out in an answer that is read as success
  overtaken  \* calls during whose exchange the receiver served a request
             \* that its sender had given up

client == <<session, creds, holder, waiters, pc, pos, outcome>>
receiver == <<live, typed, skipped, overtaken>>
box == <<net, reply, receiver>>
vars == <<client, box>>

keys == [c \in Calls |-> Plan(CallOf[c])]

Nonces == Calls \X (Nat \ {0})
Requests == [cmd : Calls, pos : Nat \ {0}, nonce : Nonces \cup {NoNonce}]
Answers == {"redirect", "http_error", "not_digest", "no_nonce", "challenge",
            "ok", "no_result", "denied", "rejected"}
Replies == [kind : Answers, nonce : Nonces \cup {NoNonce}]
TransportErrors == {"transport_error", "pairing_required"}
Failures == TransportErrors \cup
            {"attribute_error", "value_error", "timeout_error", "cancelled"}
Places == {"absent", "idle", "ready", "waiting", "challenge", "auth", "launch", "done"}

(* Places where the call owns the lock of its transport. *)
InExchange(c) == pc[c] \in {"challenge", "auth"}

Init ==
  /\ session = [t \in Transports |-> TRUE]
  /\ creds \in [Transports -> {"none", "valid"}]
  /\ holder = [t \in Transports |-> Nobody]
  /\ waiters = [t \in Transports |-> <<>>]
  /\ \E made \in Together :
       pc = [c \in Calls |-> IF c \in made THEN "idle" ELSE "absent"]
  /\ pos = [c \in Calls |-> 1]
  /\ outcome = [c \in Calls |-> "pending"]
  /\ net = {}
  /\ reply = [c \in Calls |-> NoReply]
  /\ live = {}
  /\ typed = <<>> /\ skipped = {} /\ overtaken = {}

-----------------------------------------------------------------------------
(* How a task goes on. *)

Finish(c, how) ==
  /\ pc' = [pc EXCEPT ![c] = "done"]
  /\ outcome' = [outcome EXCEPT ![c] = how]
  /\ UNCHANGED pos

(* A TransportError ends the service call with it, but turn_on and turn_off *)
(* return as if nothing had happened (_try_power).                         *)
Raise(c, error) ==
  Finish(c, IF CallOf[c].op = "power" THEN "swallowed" ELSE error)

(* Mutant: the last key of a plan is left out. *)
KeyDoneEarly(c) ==
  IF pos[c] + 1 < Len(keys[c])
  THEN /\ pos' = [pos EXCEPT ![c] = @ + 1]
       /\ pc' = [pc EXCEPT ![c] = "ready"]
       /\ UNCHANGED outcome
  ELSE Finish(c, "ok")

(* async_send_key returned: sleep before the next key, or return. *)
KeyDone(c) ==
  IF pos[c] < Len(keys[c])
  THEN /\ pos' = [pos EXCEPT ![c] = @ + 1]
       /\ pc' = [pc EXCEPT ![c] = "ready"]
       /\ UNCHANGED outcome
  ELSE Finish(c, "ok")

Release(c) == holder' = [holder EXCEPT ![TransportOf[c]] = Nobody]

(* Mutant: positions counted from zero. *)
RequestZeroBased(c, nonce) == [cmd |-> c, pos |-> pos[c] - 1, nonce |-> nonce]

Request(c, nonce) == [cmd |-> c, pos |-> pos[c], nonce |-> nonce]

(* Inside the lock: `self._session.post` without and with authorization.   *)
(* By then async_close may have cleared the session.                       *)
FirstPost(c) ==
  LET t == TransportOf[c] IN
  \/ /\ session[t]
     /\ holder' = [holder EXCEPT ![t] = c]
     /\ pc' = [pc EXCEPT ![c] = "challenge"]
     /\ net' = net \cup {Request(c, NoNonce)}
     /\ UNCHANGED <<pos, outcome>>
  \/ /\ ~session[t]
     /\ Finish(c, "attribute_error")
     /\ UNCHANGED <<holder, net>>

SecondPost(c, nonce) ==
  \/ /\ session[TransportOf[c]]
     /\ pc' = [pc EXCEPT ![c] = "auth"]
     /\ net' = net \cup {Request(c, nonce)}
     /\ UNCHANGED <<pos, outcome, holder>>
  \/ /\ ~session[TransportOf[c]]
     /\ Finish(c, "attribute_error")
     /\ Release(c)
     /\ UNCHANGED net

-----------------------------------------------------------------------------
(* The service calls. *)

(* The task starts: the channel is checked before any key is sent. *)
Call(c) ==
  /\ pc[c] = "idle"
  /\ \/ /\ RaisesValueError(CallOf[c])
        /\ Finish(c, "value_error")
     \/ /\ ~RaisesValueError(CallOf[c]) /\ CallOf[c].op # "launch_app" /\ keys[c] = <<>>
        /\ Finish(c, "ok")
     \/ /\ keys[c] # <<>>
        /\ pc' = [pc EXCEPT ![c] = "ready"]
        /\ UNCHANGED <<pos, outcome>>
  /\ UNCHANGED <<session, creds, holder, waiters, box>>

(* Mutant: the exchange is not under the lock. *)
SendKeyUnlocked(c) ==
  /\ pc[c] = "ready" /\ session[TransportOf[c]] /\ creds[TransportOf[c]] # "none"
  /\ FirstPost(c)
  /\ UNCHANGED <<session, creds, waiters, reply, receiver>>

(* async_send_key up to its first await: _post_sgs checks session and      *)
(* credentials, then takes the lock or queues for it.                      *)
SendKey(c) ==
  LET t == TransportOf[c] IN
  /\ pc[c] = "ready"
  /\ \/ /\ ~session[t]
        /\ Raise(c, "transport_error")
        /\ UNCHANGED <<holder, waiters, net>>
     \/ /\ session[t] /\ creds[t] = "none"
        /\ Raise(c, "pairing_required")
        /\ UNCHANGED <<holder, waiters, net>>
     \/ /\ session[t] /\ creds[t] # "none"
        /\ holder[t] = Nobody /\ waiters[t] = <<>>
        /\ FirstPost(c)
        /\ UNCHANGED waiters
     \/ /\ session[t] /\ creds[t] # "none"
        /\ ~(holder[t] = Nobody /\ waiters[t] = <<>>)
        /\ waiters' = [waiters EXCEPT ![t] = Append(@, c)]
        /\ pc' = [pc EXCEPT ![c] = "waiting"]
        /\ UNCHANGED <<pos, outcome, holder, net>>
  /\ UNCHANGED <<session, creds, reply, receiver>>

(* The lock was released and this call is the first in the queue. *)
Acquire(c) ==
  LET t == TransportOf[c] IN
  /\ pc[c] = "waiting"
  /\ holder[t] = Nobody /\ waiters[t] # <<>> /\ Head(waiters[t]) = c
  /\ waiters' = [waiters EXCEPT ![t] = Tail(@)]
  /\ FirstPost(c)
  /\ UNCHANGED <<session, creds, reply, receiver>>

(* The answer to the first POST.  A 200 is success, whatever its body says. *)
ReadChallenge(c) ==
  /\ pc[c] = "challenge" /\ reply[c] # NoReply
  /\ \/ /\ reply[c].kind \in {"redirect", "http_error", "no_nonce"}
        /\ Raise(c, "transport_error") /\ Release(c)
        /\ UNCHANGED net
     \/ /\ reply[c].kind = "not_digest"
        /\ Finish(c, "value_error") /\ Release(c)
        /\ UNCHANGED net
     \/ /\ reply[c].kind \in {"ok", "rejected"}
        /\ KeyDone(c) /\ Release(c)
        /\ UNCHANGED net
     \/ /\ reply[c].kind = "challenge"
        /\ SecondPost(c, reply[c].nonce)
  /\ reply' = [reply EXCEPT ![c] = NoReply]
  /\ UNCHANGED <<session, creds, waiters, receiver>>

(* Mutant: the result in the body of the answer is not looked at. *)
ReadResultByStatus(c) ==
  /\ pc[c] = "auth" /\ reply[c] # NoReply
  /\ IF reply[c].kind = "denied" THEN Raise(c, "pairing_required") ELSE KeyDone(c)
  /\ Release(c)
  /\ reply' = [reply EXCEPT ![c] = NoReply]
  /\ UNCHANGED <<session, creds, waiters, net, receiver>>

(* The answer to the authorized POST.  Below 400 the body decides; one      *)
(* without a result is success.                                            *)
ReadResult(c) ==
  /\ pc[c] = "auth" /\ reply[c] # NoReply
  /\ \/ /\ reply[c].kind = "denied"
        /\ Raise(c, "pairing_required")
     \/ /\ reply[c].kind \in {"http_error", "rejected"}
        /\ Raise(c, "transport_error")
     \/ /\ reply[c].kind \in {"ok", "no_result"}
        /\ KeyDone(c)
  /\ Release(c)
  /\ reply' = [reply EXCEPT ![c] = NoReply]
  /\ UNCHANGED <<session, creds, waiters, net, receiver>>

(* Mutant: a POST that timed out is sent again. *)
GiveUpAndRetry(c) ==
  /\ InExchange(c) /\ Faults \cap {"timeout", "client_error"} # {}
  /\ pc' = [pc EXCEPT ![c] = "ready"] /\ Release(c)
  /\ reply' = [reply EXCEPT ![c] = NoReply]
  /\ UNCHANGED <<session, creds, waiters, pos, outcome, net, receiver>>

(* Mutant: the lock stays taken after a timeout. *)
GiveUpKeepingLock(c) ==
  /\ InExchange(c) /\ Faults \cap {"timeout", "client_error"} # {}
  /\ Raise(c, "transport_error")
  /\ reply' = [reply EXCEPT ![c] = NoReply]
  /\ UNCHANGED <<session, creds, holder, waiters, net, receiver>>

(* The ten-second limit of a POST, or an error of the connection. *)
GiveUp(c) ==
  /\ InExchange(c) /\ Faults \cap {"timeout", "client_error"} # {}
  /\ Raise(c, "transport_error") /\ Release(c)
  /\ reply' = [reply EXCEPT ![c] = NoReply]
  /\ UNCHANGED <<session, creds, waiters, net, receiver>>

(* async_launch_app: one POST to the DIAL server, outside the lock. *)
LaunchPost(c) ==
  /\ pc[c] = "idle" /\ CallOf[c].op = "launch_app"
  /\ \/ /\ TransportOf[c] \in DialAt /\ session[TransportOf[c]]
        /\ pc' = [pc EXCEPT ![c] = "launch"]
        /\ UNCHANGED <<pos, outcome>>
     \/ /\ ~(TransportOf[c] \in DialAt /\ session[TransportOf[c]])
        /\ Raise(c, "transport_error")
  /\ UNCHANGED <<session, creds, holder, waiters, box>>

(* Its end: a status, an error of the connection or, uncaught, a timeout. *)
LaunchEnd(c) ==
  /\ pc[c] = "launch"
  /\ \/ Finish(c, "ok")
     \/ Faults \cap {"http_error", "client_error"} # {} /\ Raise(c, "transport_error")
     \/ "timeout" \in Faults /\ Finish(c, "timeout_error")
  /\ UNCHANGED <<session, creds, holder, waiters, box>>

(* Home Assistant cancels the task of a service call (a script restarted). *)
Cancel(c) ==
  LET t == TransportOf[c] IN
  /\ "cancel" \in Faults /\ pc[c] \notin {"absent", "idle", "done"}
  /\ Finish(c, "cancelled")
  /\ IF InExchange(c) THEN Release(c) ELSE UNCHANGED holder
  /\ \/ /\ pc[c] = "waiting"
        /\ \E i \in DOMAIN waiters[t] :
             /\ waiters[t][i] = c
             /\ waiters' = [waiters EXCEPT ![t] = RemoveAt(@, i)]
     \/ /\ pc[c] # "waiting"
        /\ UNCHANGED waiters
  /\ reply' = [reply EXCEPT ![c] = NoReply]
  /\ UNCHANGED <<session, creds, net, receiver>>

(* async_unload_entry closes the transport; calls in progress go on. *)
async_close(t) ==
  /\ "close" \in Faults /\ session[t]
  /\ session' = [session EXCEPT ![t] = FALSE]
  /\ UNCHANGED <<creds, holder, waiters, pc, pos, outcome, box>>

-----------------------------------------------------------------------------
(* The receiver. *)

Awaited(r) ==
  /\ pos[r.cmd] = r.pos /\ reply[r.cmd] = NoReply
  /\ pc[r.cmd] = IF r.nonce = NoNonce THEN "challenge" ELSE "auth"

(* The answer reaches its caller, if that still waits, or is lost. *)
Answer(r, kind, nonce) ==
  reply' = [reply EXCEPT ![r.cmd] =
              IF Awaited(r) THEN [kind |-> kind, nonce |-> nonce] ELSE @]

Entry(r) == [cmd |-> r.cmd, pos |-> r.pos]
Execute(r) == typed' = Append(typed, Entry(r)) /\ UNCHANGED skipped
Skip(r) == skipped' = skipped \cup {Entry(r)} /\ UNCHANGED typed

KeyOf(r) == keys[r.cmd][r.pos]

(* Without authorization: a challenge with a fresh nonce, or an error; a   *)
(* receiver that asks for no authorization takes the key, unless it is     *)
(* unsupported, and answers 200 in either case.                            *)
ServeFirst(r) ==
  /\ r.nonce = NoNonce
  /\ \/ \E fault \in Faults \cap {"redirect", "http_error", "not_digest", "no_nonce"} :
          /\ Answer(r, fault, NoNonce)
          /\ UNCHANGED <<live, typed, skipped>>
     \/ /\ live' = (IF OneNonce THEN {} ELSE live) \cup {<<r.cmd, r.pos>>}
        /\ Answer(r, "challenge", <<r.cmd, r.pos>>)
        /\ UNCHANGED <<typed, skipped>>
     \/ /\ "no_auth" \in Faults
        /\ IF KeyOf(r) \in Unsupported
           THEN Answer(r, "rejected", NoNonce) /\ Skip(r)
           ELSE Answer(r, "ok", NoNonce) /\ Execute(r)
        /\ UNCHANGED live

(* With authorization: denied without a live nonce and valid credentials;  *)
(* otherwise the nonce is spent and the key executed unless unsupported.   *)
(* A redirect, or another answer without a result, may stand for either.   *)
ServeSecond(r) ==
  /\ r.nonce # NoNonce
  /\ \/ /\ "http_error" \in Faults
        /\ Answer(r, "http_error", NoNonce)
        /\ UNCHANGED <<live, typed, skipped>>
     \/ /\ "no_result" \in Faults
        /\ Answer(r, "no_result", NoNonce) /\ Skip(r)
        /\ UNCHANGED live
     \/ /\ ~(r.nonce \in live /\ creds[TransportOf[r.cmd]] = "valid")
        /\ Answer(r, "denied", NoNonce)
        /\ UNCHANGED <<live, typed, skipped>>
     \/ /\ r.nonce \in live /\ creds[TransportOf[r.cmd]] = "valid"
        /\ live' = live \ {r.nonce}
        /\ \/ /\ KeyOf(r) \in Unsupported
              /\ Answer(r, "rejected", NoNonce) /\ UNCHANGED <<typed, skipped>>
           \/ /\ KeyOf(r) \notin Unsupported /\ Execute(r)
              /\ \E kind \in {"ok"} \cup (Faults \cap {"no_result"}) : Answer(r, kind, NoNonce)

(* Also a request whose sender gave up may be served. *)
Serve(r) ==
  /\ net' = net \ {r}
  /\ ServeFirst(r) \/ ServeSecond(r)
  /\ overtaken' = IF InExchange(r.cmd) THEN overtaken
                  ELSE overtaken \cup {c \in Calls : InExchange(c)}
  /\ UNCHANGED client

(* The receiver forgets the pairing. *)
Revoke(t) ==
  /\ "revoke" \in Faults /\ creds[t] = "valid"
  /\ creds' = [creds EXCEPT ![t] = "revoked"]
  /\ UNCHANGED <<session, holder, waiters, pc, pos, outcome, box>>

-----------------------------------------------------------------------------
(* What the event loop and the timers run by themselves. *)
Resume(c) ==
  \/ SendKey(c) \/ Acquire(c) \/ ReadChallenge(c) \/ ReadResult(c)
  \/ GiveUp(c) \/ LaunchEnd(c)

Next ==
  \/ \E c \in Calls : Resume(c) \/ Call(c) \/ LaunchPost(c) \/ Cancel(c)
  \/ \E r \in net : Serve(r)
  \/ \E t \in Transports : async_close(t) \/ Revoke(t)

Spec == Init /\ [][Next]_vars

FairSpec == Spec /\ \A c \in Calls : WF_vars(Resume(c))

-----------------------------------------------------------------------------
(* Properties. *)

Typed(c, p) == \E i \in DOMAIN typed : typed[i] = [cmd |-> c, pos |-> p]

(* The receiver executed the key, or left it out in an answer that the     *)
(* transport reads as success.                                             *)
Served(c, p) == Typed(c, p) \/ [cmd |-> c, pos |-> p] \in skipped

(* Type correctness of the transport, the calls, the network and the box. *)
TypeOK ==
  /\ session \in [Transports -> BOOLEAN]
  /\ creds \in [Transports -> {"none", "valid", "revoked"}]
  /\ holder \in [Transports -> Calls \cup {Nobody}]
  /\ waiters \in [Transports -> Seq(Calls)]
  /\ pc \in [Calls -> Places]
  /\ pos \in [Calls -> Nat \ {0}]
  /\ outcome \in [Calls -> Failures \cup {"pending", "ok", "swallowed"}]
  /\ net \subseteq Requests
  /\ reply \in [Calls -> Replies \cup {NoReply}]
  /\ live \subseteq Nonces
  /\ typed \in Seq([cmd : Calls, pos : Nat \ {0}])
  /\ skipped \subseteq [cmd : Calls, pos : Nat \ {0}]
  /\ overtaken \subseteq Calls

(* Between the challenge a call asks for and the answer to its authorized  *)
(* POST no other call of the same transport talks to the receiver: the     *)
(* lock is held throughout, whatever fails or is cancelled meanwhile.      *)
LockIsolatesExchange ==
  \A c, d \in Calls :
    InExchange(c) /\ InExchange(d) /\ TransportOf[c] = TransportOf[d] => c = d

(* The receiver executes the keys of one call in the order of its plan and *)
(* none of them twice, although a POST carries the key both times, answers *)
(* are lost and requests are served after the call gave up on them.        *)
TypedInOrder ==
  \A i, j \in DOMAIN typed :
    i < j /\ typed[i].cmd = typed[j].cmd => typed[i].pos < typed[j].pos

(* What a service call leaves behind is known up to one key.  Every key    *)
(* before the one it is at was served, nothing after that one was executed *)
(* whatever is late; and a call that returns normally had all its keys     *)
(* served, if it is not a turn_on or turn_off.  Served means executed      *)
(* except at a receiver that asks for no authorization and rejects the key *)
(* (the body of its 200 is not read), or that answers the authorized POST  *)
(* below 400 without a result: no caller learns of such a key.             *)
PrefixTyped ==
  \A c \in Calls :
    /\ \A p \in 1..(pos[c] - 1) : Served(c, p)
    /\ \A i \in DOMAIN typed : typed[i].cmd = c => typed[i].pos <= pos[c]
    /\ outcome[c] = "ok" => \A p \in DOMAIN keys[c] : Served(c, p)
    /\ outcome[c] = "swallowed" => CallOf[c].op = "power"

(* "credentials rejected - re-pair" is reported only of a pairing that the *)
(* receiver forgot, even if each challenge voids the nonces before it: the *)
(* lock keeps a second call from voiding the nonce a first one uses.  What *)
(* it cannot prevent: a request that its sender gave up is served during a *)
(* later exchange and draws a challenge that voids the nonce of that one.  *)
NoSpuriousRepair ==
  \A c \in Calls \ overtaken :
    outcome[c] = "pairing_required" => creds[TransportOf[c]] # "valid"

(* Every service call ends: no failure leaves the lock taken, no caller    *)
(* waits for it for ever.                                                  *)
CallsEnd == \A c \in Calls : pc[c] \notin {"absent", "idle"} ~> pc[c] = "done"

(* What makes the delivery of keys inductive.  A request on its way is for *)
(* the key its call is at, is the only one of its call, and means that the *)
(* key was not served yet; an answer waiting to be read is one that the    *)
(* call takes for success exactly if it was, says "ok" only of a key that  *)
(* was executed and "rejected" only of one that was not.                   *)
RequestsCurrent ==
  \A r \in net :
    /\ r.pos = pos[r.cmd] /\ r.pos \in DOMAIN keys[r.cmd]
    /\ ~Served(r.cmd, r.pos)
    /\ pc[r.cmd] \in {"challenge", "auth", "done"}
    /\ reply[r.cmd] = NoReply /\ outcome[r.cmd] # "ok"
    /\ \A q \in net : q.cmd = r.cmd => q = r

TakenForSuccess(c) ==
  \/ reply[c].kind \in {"ok", "no_result"}
  \/ reply[c].kind = "rejected" /\ pc[c] = "challenge"

RepliesTruthful ==
  \A c \in Calls :
    reply[c] # NoReply =>
      /\ InExchange(c)
      /\ TakenForSuccess(c) <=> Served(c, pos[c])
      /\ reply[c].kind = "ok" => Typed(c, pos[c])
      /\ reply[c].kind = "rejected" => ~Typed(c, pos[c])

TasksAtKey ==
  \A c \in Calls :
    /\ pc[c] = "done" <=> outcome[c] # "pending"
    /\ outcome[c] = "ok" =>
         keys[c] = <<>> \/ (pos[c] = Len(keys[c]) /\ Served(c, pos[c]))
    /\ outcome[c] = "swallowed" => CallOf[c].op = "power"
    /\ \A p \in 1..(pos[c] - 1) : Served(c, p)
    /\ pc[c] \in {"idle", "ready", "waiting"} => ~Served(c, pos[c])
    /\ pc[c] \in {"ready", "waiting", "challenge", "auth"} => pos[c] \in DOMAIN keys[c]
    /\ pc[c] \in {"idle", "launch"} => pos[c] = 1
    /\ pc[c] = "launch" => keys[c] = <<>>

TypedOK ==
  /\ \A i \in DOMAIN typed :
       /\ typed[i].pos <= pos[typed[i].cmd]
       /\ \A j \in DOMAIN typed :
            i < j /\ typed[i].cmd = typed[j].cmd => typed[i].pos < typed[j].pos
  /\ \A s \in skipped : s.pos <= pos[s.cmd] /\ ~Typed(s.cmd, s.pos)

DeliveryInv == RequestsCurrent /\ RepliesTruthful /\ TasksAtKey /\ TypedOK

(* The keys of each call as the abstract delivery sees them.  A turn_on or *)
(* turn_off whose TransportError was swallowed returns normally.           *)
Status(c) ==
  IF outcome[c] \in Failures THEN "failed"
  ELSE IF outcome[c] = "swallowed" THEN "ok" ELSE outcome[c]

Delivery == INSTANCE KeyDelivery WITH
  status <- [c \in Calls |-> Status(c)],
  Forgiving <- {c \in Calls : CallOf[c].op = "power"}

(* The transport delivers keys as KeyDelivery promises. *)
DeliversKeys == Delivery!Spec

(* The ENTER of a tune enters that tune's channel: since the ENTER before  *)
(* it the receiver saw the digits of this tune and nothing else.           *)
TuneIsExact ==
  \A j \in DOMAIN typed :
    LET c == typed[j].cmd IN
    CallOf[c].op = "tune" /\ KeyOf(typed[j]) = "Enter" =>
      \A i \in 1..Len(keys[c]) :
        /\ j - Len(keys[c]) + i >= 1
        /\ typed[j - Len(keys[c]) + i] = [cmd |-> c, pos |-> i]
=============================================================================
