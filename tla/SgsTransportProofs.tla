-------------------------- MODULE SgsTransportProofs --------------------------
(***************************************************************************)
(* Proofs about the command path for any calls, transports, plans, faults  *)
(* and either nonce policy.                                                *)
(***************************************************************************)
EXTENDS SgsTransport, SequenceTheorems, WellFoundedInduction, TLAPS

(* The index into a repeated sequence stays within the sequence. *)
LEMMA IndexWithin ==
  ASSUME NEW n \in Nat, NEW m \in Nat, NEW i \in 1..(n * m)
  PROVE  ((i - 1) % m) + 1 \in 1..m
<1>1. m # 0
  OBVIOUS
<1>2. i - 1 \in Nat
  OBVIOUS
<1>3. (i - 1) % m \in 0..(m - 1)
  BY <1>1, <1>2
<1> QED
  BY <1>1, <1>3

(* Whatever a call asks for, its plan is a sequence of keys. *)
LEMMA PlanIsSequence == \A c \in Calls : keys[c] \in Seq(KeyNames)
<1> SUFFICES ASSUME NEW c \in Calls
             PROVE  Plan(CallOf[c]) \in Seq(KeyNames)
  BY DEF keys
<1> DEFINE call == CallOf[c]
<1>1. IsCall(call)
  BY TransportAssumption
<1> SUFFICES Plan(call) \in Seq(KeyNames)
  OBVIOUS
<1> HIDE DEF call
<1>2. ASSUME call.op = "tune", Valid(call.channel), call.channel \in Seq(STRING)
      PROVE  channel_to_keys(call.channel) \in Seq(KeyNames)
  <2>1. \A ch \in DOMAIN DIGIT_KEYS : DIGIT_KEYS[ch] \in KeyNames
    BY DEF DIGIT_KEYS, Digits, KeyNames
  <2>2. [i \in DOMAIN call.channel |-> DIGIT_KEYS[call.channel[i]]] \in Seq(KeyNames)
    BY <1>2, <2>1 DEF Valid
  <2>3. "Enter" \in KeyNames
    BY DEF KeyNames
  <2> QED
    BY <2>2, <2>3 DEF channel_to_keys
<1>3. ASSUME call.keys \in Seq(KeyNames), call.num_repeats \in Nat
      PROVE  Repeated(call.keys, call.num_repeats) \in Seq(KeyNames)
  <2> DEFINE ks == call.keys
             n == call.num_repeats
  <2>1. n * Len(ks) \in Nat
    BY <1>3
  <2>2. \A i \in 1..(n * Len(ks)) : ks[((i - 1) % Len(ks)) + 1] \in KeyNames
    BY <1>3, IndexWithin
  <2> QED
    BY <2>1, <2>2 DEF Repeated
<1>4. CASE call.op = "tune"
  BY <1>1, <1>2, <1>4 DEF IsCall, Plan
<1>5. CASE call.op = "send_command"
  BY <1>1, <1>3, <1>5 DEF IsCall, Plan
<1>6. CASE call.op = "key"
  BY <1>1, <1>6 DEF IsCall, Plan
<1>7. CASE call.op \in {"power", "launch_app"}
  <2>1. "Power" \in KeyNames
    BY DEF KeyNames
  <2> QED
    BY <1>7, <2>1 DEF Plan
<1> QED
  BY <1>1, <1>4, <1>5, <1>6, <1>7 DEF IsCall

-----------------------------------------------------------------------------

LEMMA InitTypeOK == Init => TypeOK
  BY TransportAssumption DEF Init, TypeOK, Places

(* A sequence from which one element is removed keeps its element set. *)
LEMMA RemoveAtType ==
  ASSUME NEW S, NEW s \in Seq(S), NEW i \in DOMAIN s
  PROVE  RemoveAt(s, i) \in Seq(S)
  BY DEF RemoveAt

(* The parts of the type invariant a task changes as it goes on. *)
TasksOK ==
  /\ pc \in [Calls -> Places]
  /\ pos \in [Calls -> Nat \ {0}]
  /\ outcome \in [Calls -> Failures \cup {"pending", "ok", "swallowed"}]

LEMMA FinishType ==
  ASSUME TypeOK, NEW c \in Calls, NEW how \in Failures \cup {"ok", "swallowed"},
         Finish(c, how)
  PROVE  TasksOK'
  BY DEF TypeOK, Finish, TasksOK, Places

(* A TransportError ends its call with it, or unseen if it is a turn_on or *)
(* turn_off.                                                               *)
LEMMA RaiseEnds ==
  ASSUME NEW c \in Calls, NEW error \in TransportErrors, Raise(c, error)
  PROVE  \E how \in {error, "swallowed"} :
           Finish(c, how) /\ (how = "swallowed" => CallOf[c].op = "power")
<1>1. CASE CallOf[c].op = "power"
  <2>1. Finish(c, "swallowed")
    BY <1>1 DEF Raise
  <2> QED
    BY <1>1, <2>1
<1>2. CASE CallOf[c].op # "power"
  <2>1. Finish(c, error) /\ error # "swallowed"
    BY <1>2 DEF Raise, TransportErrors
  <2> QED
    BY <2>1
<1> QED
  BY <1>1, <1>2

LEMMA RaiseType ==
  ASSUME TypeOK, NEW c \in Calls, NEW error \in TransportErrors, Raise(c, error)
  PROVE  TasksOK'
  BY RaiseEnds, FinishType DEF Failures

LEMMA RaiseDone ==
  ASSUME NEW c \in Calls, NEW error, Raise(c, error)
  PROVE  pc' = [pc EXCEPT ![c] = "done"] /\ UNCHANGED pos
  BY DEF Raise, Finish

LEMMA KeyDoneType ==
  ASSUME TypeOK, NEW c \in Calls, KeyDone(c)
  PROVE  TasksOK'
<1>1. CASE pos[c] < Len(keys[c])
  <2>1. /\ pos' = [pos EXCEPT ![c] = pos[c] + 1]
        /\ pc' = [pc EXCEPT ![c] = "ready"]
        /\ UNCHANGED outcome
    BY <1>1 DEF KeyDone
  <2>2. pos[c] + 1 \in Nat \ {0}
    BY DEF TypeOK
  <2>3. pos' \in [Calls -> Nat \ {0}]
    BY <2>1, <2>2 DEF TypeOK
  <2> QED
    BY <2>1, <2>3 DEF TypeOK, TasksOK, Places
<1>2. CASE ~(pos[c] < Len(keys[c]))
  BY <1>2, FinishType DEF KeyDone
<1> QED
  BY <1>1, <1>2

LEMMA RequestType ==
  ASSUME TypeOK, NEW c \in Calls, NEW nonce \in Nonces \cup {NoNonce}
  PROVE  net \cup {Request(c, nonce)} \subseteq Requests
  BY DEF TypeOK, Request, Requests

LEMMA FirstPostType ==
  ASSUME TypeOK, NEW c \in Calls, FirstPost(c)
  PROVE  /\ TasksOK'
         /\ holder' \in [Transports -> Calls \cup {Nobody}]
         /\ net' \subseteq Requests
<1>1. "attribute_error" \in Failures
  BY DEF Failures
<1>2. CASE session[TransportOf[c]]
  <2>1. net' \subseteq Requests
    BY <1>2, RequestType DEF FirstPost
  <2>2. TransportOf[c] \in Transports
    BY TransportAssumption
  <2>3. /\ holder' = [holder EXCEPT ![TransportOf[c]] = c]
        /\ pc' = [pc EXCEPT ![c] = "challenge"]
        /\ UNCHANGED <<pos, outcome>>
    BY <1>2 DEF FirstPost
  <2>4. holder' \in [Transports -> Calls \cup {Nobody}]
    BY <2>2, <2>3 DEF TypeOK
  <2>5. TasksOK'
    BY <2>3 DEF TypeOK, TasksOK, Places
  <2> QED
    BY <2>1, <2>4, <2>5
<1>3. CASE ~session[TransportOf[c]]
  BY <1>1, <1>3, FinishType DEF FirstPost, TypeOK
<1> QED
  BY <1>2, <1>3

LEMMA SecondPostType ==
  ASSUME TypeOK, NEW c \in Calls, NEW nonce \in Nonces \cup {NoNonce},
         SecondPost(c, nonce)
  PROVE  /\ TasksOK'
         /\ holder' \in [Transports -> Calls \cup {Nobody}]
         /\ net' \subseteq Requests
<1>1. "attribute_error" \in Failures
  BY DEF Failures
<1>2. CASE session[TransportOf[c]]
  <2>1. net' \subseteq Requests
    BY <1>2, RequestType DEF SecondPost
  <2> QED
    BY <1>2, <2>1 DEF SecondPost, TypeOK, TasksOK, Places
<1>3. CASE ~session[TransportOf[c]]
  BY <1>1, <1>3, FinishType DEF SecondPost, TypeOK, Release
<1> QED
  BY <1>2, <1>3

LEMMA NextTypeOK == TypeOK /\ [Next]_vars => TypeOK'
<1> SUFFICES ASSUME TypeOK, [Next]_vars
             PROVE  TypeOK'
  OBVIOUS
<1>a. /\ {"value_error", "timeout_error", "cancelled"} \subseteq Failures
      /\ {"transport_error", "pairing_required"} \subseteq TransportErrors
  BY DEF Failures, TransportErrors
<1>1. ASSUME NEW c \in Calls, SendKey(c)
      PROVE  TypeOK'
  <2> DEFINE t == TransportOf[c]
  <2>1. t \in Transports
    BY TransportAssumption
  <2>2. CASE ~session[t] \/ creds[t] = "none"
    <3>1. TasksOK' /\ UNCHANGED <<holder, waiters, net>>
      BY <1>1, <1>a, <2>2, RaiseType, FirstPostType DEF SendKey
    <3> QED
      BY <1>1, <3>1 DEF SendKey, TypeOK, TasksOK, receiver
  <2>3. CASE FirstPost(c) /\ UNCHANGED waiters
    BY <1>1, <2>3, FirstPostType DEF SendKey, TypeOK, TasksOK, receiver
  <2>4. CASE /\ waiters' = [waiters EXCEPT ![t] = Append(@, c)]
             /\ pc' = [pc EXCEPT ![c] = "waiting"]
             /\ UNCHANGED <<pos, outcome, holder, net>>
    BY <1>1, <2>1, <2>4 DEF SendKey, TypeOK, Places, receiver
  <2> QED
    BY <1>1, <2>2, <2>3, <2>4 DEF SendKey
<1>2. ASSUME NEW c \in Calls, Acquire(c)
      PROVE  TypeOK'
  <2>1. waiters' \in [Transports -> Seq(Calls)]
    BY <1>2, TransportAssumption DEF Acquire, TypeOK
  <2> QED
    BY <1>2, <2>1, FirstPostType DEF Acquire, TypeOK, TasksOK, receiver
<1>3. ASSUME NEW c \in Calls, ReadChallenge(c)
      PROVE  TypeOK'
  <2>1. reply' \in [Calls -> Replies \cup {NoReply}]
    BY <1>3 DEF ReadChallenge, TypeOK
  <2>2. reply[c].nonce \in Nonces \cup {NoNonce}
    BY <1>3 DEF ReadChallenge, TypeOK, Replies
  <2>3. CASE SecondPost(c, reply[c].nonce)
    BY <1>3, <2>1, <2>2, <2>3, SecondPostType
       DEF ReadChallenge, TypeOK, TasksOK, receiver
  <2>4. CASE KeyDone(c) /\ Release(c) /\ UNCHANGED net
    BY <1>3, <2>1, <2>4, KeyDoneType
       DEF ReadChallenge, TypeOK, TasksOK, Release, receiver
  <2>5. CASE /\ Raise(c, "transport_error") \/ Finish(c, "value_error")
             /\ Release(c) /\ UNCHANGED net
    <3>1. TasksOK'
      BY <1>a, <2>5, FinishType, RaiseType
    <3> QED
      BY <1>3, <2>1, <2>5, <3>1
         DEF ReadChallenge, TypeOK, TasksOK, Release, receiver
  <2> QED
    BY <1>3, <2>3, <2>4, <2>5 DEF ReadChallenge
<1>4. ASSUME NEW c \in Calls, ReadResult(c)
      PROVE  TypeOK'
  <2>1. TasksOK'
    BY <1>4, <1>a, RaiseType, KeyDoneType DEF ReadResult
  <2> QED
    BY <1>4, <2>1 DEF ReadResult, TypeOK, TasksOK, Release, receiver
<1>5. ASSUME NEW c \in Calls, GiveUp(c)
      PROVE  TypeOK'
  <2>1. TasksOK'
    BY <1>5, <1>a, RaiseType DEF GiveUp
  <2> QED
    BY <1>5, <2>1 DEF TypeOK, TasksOK, GiveUp, Release, receiver
<1>6. ASSUME NEW c \in Calls, LaunchEnd(c)
      PROVE  TypeOK'
  <2>1. TasksOK'
    BY <1>6, <1>a, FinishType, RaiseType DEF LaunchEnd
  <2> QED
    BY <1>6, <2>1 DEF TypeOK, TasksOK, LaunchEnd, box, receiver
<1>7. ASSUME NEW c \in Calls, Call(c)
      PROVE  TypeOK'
  BY <1>7, <1>a, FinishType DEF TypeOK, TasksOK, Call, Places, box, receiver
<1>8. ASSUME NEW c \in Calls, LaunchPost(c)
      PROVE  TypeOK'
  <2>1. TasksOK'
    <3>1. CASE Raise(c, "transport_error")
      BY <1>a, <3>1, RaiseType
    <3>2. CASE pc' = [pc EXCEPT ![c] = "launch"] /\ UNCHANGED <<pos, outcome>>
      BY <3>2 DEF TypeOK, TasksOK, Places
    <3> QED
      BY <1>8, <3>1, <3>2 DEF LaunchPost
  <2> QED
    BY <1>8, <2>1 DEF TypeOK, TasksOK, LaunchPost, box, receiver
<1>9. ASSUME NEW c \in Calls, Cancel(c)
      PROVE  TypeOK'
  <2> DEFINE t == TransportOf[c]
  <2>1. t \in Transports /\ waiters[t] \in Seq(Calls)
    BY TransportAssumption DEF TypeOK
  <2>2. waiters' \in [Transports -> Seq(Calls)]
    <3>1. CASE UNCHANGED waiters
      BY <3>1 DEF TypeOK
    <3>2. ASSUME NEW i \in DOMAIN waiters[t],
                 waiters' = [waiters EXCEPT ![t] = RemoveAt(waiters[t], i)]
          PROVE  waiters' \in [Transports -> Seq(Calls)]
      <4>1. RemoveAt(waiters[t], i) \in Seq(Calls)
        BY <2>1, RemoveAtType
      <4> QED
        BY <2>1, <3>2, <4>1 DEF TypeOK
    <3> QED
      BY <1>9, <3>1, <3>2 DEF Cancel
  <2>3. holder' \in [Transports -> Calls \cup {Nobody}]
    BY <1>9 DEF TypeOK, Cancel, Release
  <2> QED
    BY <1>9, <1>a, <2>2, <2>3, FinishType DEF TypeOK, TasksOK, Cancel, receiver
<1>10. ASSUME NEW r \in net, Serve(r)
       PROVE  TypeOK'
  <2> DEFINE c == r.cmd
  <2>1. c \in Calls /\ r.pos \in Nat \ {0} /\ <<c, r.pos>> \in Nonces
    BY DEF TypeOK, Requests, Nonces
  <2> USE DEF Answers, Replies
  <2>2. ASSUME NEW kind \in Answers, NEW nonce \in Nonces \cup {NoNonce},
               Answer(r, kind, nonce)
        PROVE  reply' \in [Calls -> Replies \cup {NoReply}]
    BY <2>1, <2>2 DEF TypeOK, Answer
  <2>a. Entry(r) \in [cmd : Calls, pos : Nat \ {0}]
    BY <2>1 DEF Entry
  <2>3. /\ Execute(r) => /\ typed' \in Seq([cmd : Calls, pos : Nat \ {0}])
                         /\ UNCHANGED skipped
        /\ Skip(r) => /\ skipped' \subseteq [cmd : Calls, pos : Nat \ {0}]
                      /\ UNCHANGED typed
    <3> DEFINE S == [cmd : Calls, pos : Nat \ {0}]
    <3>1. Entry(r) \in S /\ typed \in Seq(S) /\ skipped \subseteq S
      BY <2>a DEF TypeOK
    <3> HIDE DEF S
    <3>2. Append(typed, Entry(r)) \in Seq(S) /\ skipped \cup {Entry(r)} \subseteq S
      BY <3>1
    <3>3. /\ Execute(r) => typed' \in Seq(S) /\ UNCHANGED skipped
          /\ Skip(r) => skipped' \subseteq S /\ UNCHANGED typed
      BY <3>2 DEF Execute, Skip
    <3> QED
      BY <3>3 DEF S
  <2>4. live' \subseteq Nonces
    BY <1>10, <2>1 DEF TypeOK, Serve, ServeFirst, ServeSecond
  <2>5. /\ typed' \in Seq([cmd : Calls, pos : Nat \ {0}])
        /\ skipped' \subseteq [cmd : Calls, pos : Nat \ {0}]
    BY <1>10, <2>3 DEF TypeOK, Serve, ServeFirst, ServeSecond
  <2>6. reply' \in [Calls -> Replies \cup {NoReply}]
    <3>1. CASE ServeFirst(r)
      BY <3>1, <2>1, <2>2 DEF ServeFirst
    <3>2. CASE ServeSecond(r)
      BY <3>2, <2>1, <2>2 DEF ServeSecond
    <3> QED
      BY <1>10, <3>1, <3>2 DEF Serve
  <2> QED
    BY <1>10, <2>4, <2>5, <2>6 DEF TypeOK, Serve, client
<1>11. ASSUME NEW t \in Transports, async_close(t) \/ Revoke(t)
       PROVE  TypeOK'
  BY <1>11 DEF TypeOK, async_close, Revoke, box, receiver
<1>12. CASE UNCHANGED vars
  BY <1>12 DEF TypeOK, vars, client, box, receiver
<1> QED
  BY <1>1, <1>2, <1>3, <1>4, <1>5, <1>6, <1>7, <1>8, <1>9, <1>10, <1>11, <1>12
     DEF Next, Resume

(* The type invariant, for every instance. *)
THEOREM TypeInvariant == Spec => []TypeOK
  BY InitTypeOK, NextTypeOK, PTL DEF Spec

-----------------------------------------------------------------------------
(* Mutual exclusion.  A call in its exchange holds the lock: the invariant *)
(* that makes LockIsolatesExchange inductive.                              *)

LockOwned == \A c \in Calls : InExchange(c) => holder[TransportOf[c]] = c

LEMMA InitLockOwned == Init => LockOwned
  BY DEF Init, LockOwned, InExchange

(* A call that is in no exchange takes a free lock, or fails before it. *)
LEMMA FirstPostLock ==
  ASSUME TypeOK, LockOwned, NEW c \in Calls, ~InExchange(c),
         holder[TransportOf[c]] = Nobody, FirstPost(c)
  PROVE  LockOwned'
<1>1. TransportOf \in [Calls -> Transports] /\ Nobody \notin Calls
  BY TransportAssumption
<1>2. CASE session[TransportOf[c]]
  <2>1. /\ holder' = [holder EXCEPT ![TransportOf[c]] = c]
        /\ pc' = [pc EXCEPT ![c] = "challenge"]
    BY <1>2 DEF FirstPost
  <2> QED
    BY <1>1, <2>1 DEF LockOwned, InExchange, TypeOK
<1>3. CASE ~session[TransportOf[c]]
  BY <1>3 DEF FirstPost, Finish, LockOwned, InExchange, TypeOK
<1> QED
  BY <1>2, <1>3

(* A call that leaves its exchange gives the lock back. *)
LEMMA ReleaseLock ==
  ASSUME TypeOK, LockOwned, NEW c \in Calls, InExchange(c), Release(c),
         \/ pc' = [pc EXCEPT ![c] = "ready"]
         \/ pc' = [pc EXCEPT ![c] = "done"]
  PROVE  LockOwned'
<1>1. TransportOf \in [Calls -> Transports]
  BY TransportAssumption
<1>2. \A d \in Calls : InExchange(d)' => InExchange(d) /\ d # c
  BY DEF InExchange, TypeOK
<1>3. ASSUME NEW d \in Calls, InExchange(d)'
      PROVE  (holder[TransportOf[d]])' = d
  <2>1. holder[TransportOf[d]] = d /\ holder[TransportOf[c]] = c /\ d # c
    BY <1>2, <1>3 DEF LockOwned
  <2> QED
    BY <1>1, <2>1 DEF Release, TypeOK
<1> QED
  BY <1>3 DEF LockOwned

(* A step that moves a call outside any exchange leaves the locks alone. *)
LEMMA OutsideLock ==
  ASSUME TypeOK, LockOwned, NEW c \in Calls, NEW place \in Places,
         place \notin {"challenge", "auth"},
         pc' = [pc EXCEPT ![c] = place], UNCHANGED holder
  PROVE  LockOwned'
  BY DEF LockOwned, InExchange, TypeOK

LEMMA NextLockOwned == TypeOK /\ LockOwned /\ [Next]_vars => LockOwned'
<1> SUFFICES ASSUME TypeOK, LockOwned, [Next]_vars
             PROVE  LockOwned'
  OBVIOUS
<1>0. {"ready", "waiting", "launch", "done"} \subseteq Places
  BY DEF Places
<1>1. ASSUME NEW c \in Calls, SendKey(c)
      PROVE  LockOwned'
  <2>1. ~InExchange(c)
    BY <1>1 DEF SendKey, InExchange
  <2> QED
    BY <1>0, <1>1, <2>1, FirstPostLock, OutsideLock, RaiseDone DEF SendKey
<1>2. ASSUME NEW c \in Calls, Acquire(c)
      PROVE  LockOwned'
  BY <1>2, FirstPostLock DEF Acquire, InExchange
<1>3. ASSUME NEW c \in Calls, ReadChallenge(c)
      PROVE  LockOwned'
  <2>1. InExchange(c)
    BY <1>3 DEF ReadChallenge, InExchange
  <2>2. CASE SecondPost(c, reply[c].nonce) /\ session[TransportOf[c]]
    <3>1. UNCHANGED holder /\ pc' = [pc EXCEPT ![c] = "auth"]
      BY <2>2 DEF SecondPost
    <3> QED
      BY <2>1, <3>1 DEF LockOwned, InExchange, TypeOK
  <2>3. CASE SecondPost(c, reply[c].nonce) /\ ~session[TransportOf[c]]
    BY <2>1, <2>3, ReleaseLock DEF SecondPost, Finish
  <2>4. CASE KeyDone(c) /\ Release(c)
    BY <2>1, <2>4, ReleaseLock DEF KeyDone, Finish
  <2>5. CASE (Raise(c, "transport_error") \/ Finish(c, "value_error")) /\ Release(c)
    BY <2>1, <2>5, ReleaseLock DEF Raise, Finish
  <2> QED
    BY <1>3, <2>2, <2>3, <2>4, <2>5 DEF ReadChallenge
<1>4. ASSUME NEW c \in Calls, ReadResult(c)
      PROVE  LockOwned'
  <2>1. InExchange(c) /\ Release(c)
    BY <1>4 DEF ReadResult, InExchange
  <2>2. \/ pc' = [pc EXCEPT ![c] = "ready"]
        \/ pc' = [pc EXCEPT ![c] = "done"]
    BY <1>4 DEF ReadResult, KeyDone, Raise, Finish
  <2> QED
    BY <2>1, <2>2, ReleaseLock
<1>5. ASSUME NEW c \in Calls, GiveUp(c)
      PROVE  LockOwned'
  BY <1>5, ReleaseLock DEF GiveUp, Raise, Finish
<1>6. ASSUME NEW c \in Calls, LaunchEnd(c) \/ Call(c) \/ LaunchPost(c)
      PROVE  LockOwned'
  <2>1. /\ UNCHANGED holder
        /\ \/ pc' = [pc EXCEPT ![c] = "ready"]
           \/ pc' = [pc EXCEPT ![c] = "launch"]
           \/ pc' = [pc EXCEPT ![c] = "done"]
    BY <1>6 DEF LaunchEnd, Call, LaunchPost, Raise, Finish
  <2> QED
    BY <1>0, <2>1, OutsideLock
<1>7. ASSUME NEW c \in Calls, Cancel(c)
      PROVE  LockOwned'
  <2>1. pc' = [pc EXCEPT ![c] = "done"]
    BY <1>7 DEF Cancel, Finish
  <2>2. CASE InExchange(c)
    BY <1>7, <2>1, <2>2, ReleaseLock DEF Cancel
  <2>3. CASE ~InExchange(c)
    BY <1>0, <1>7, <2>1, <2>3, OutsideLock DEF Cancel
  <2> QED
    BY <2>2, <2>3
<1>8. CASE \/ \E r \in net : Serve(r)
           \/ \E t \in Transports : async_close(t) \/ Revoke(t)
           \/ UNCHANGED vars
  BY <1>8 DEF Serve, async_close, Revoke, client, vars, LockOwned, InExchange
<1> QED
  BY <1>1, <1>2, <1>3, <1>4, <1>5, <1>6, <1>7, <1>8 DEF Next, Resume

(* Two calls of one transport are never in their exchanges at once. *)
THEOREM LockIsolates == Spec => []LockIsolatesExchange
<1>1. LockOwned => LockIsolatesExchange
  BY DEF LockOwned, LockIsolatesExchange
<1> QED
  BY <1>1, InitTypeOK, NextTypeOK, InitLockOwned, NextLockOwned, PTL DEF Spec

-----------------------------------------------------------------------------
(* Delivery of keys: DeliveryInv is inductive. *)

LEMMA InitDelivery == Init => DeliveryInv
<1> SUFFICES ASSUME Init
             PROVE  DeliveryInv
  OBVIOUS
<1>1. \A c, p : ~Typed(c, p) /\ ~Served(c, p)
  BY DEF Init, Typed, Served
<1> QED
  BY <1>1 DEF Init, DeliveryInv, RequestsCurrent, RepliesTruthful, TasksAtKey, TypedOK

(* Every entry of the receiver's history names a call and a position. *)
LEMMA TypedEntries ==
  ASSUME TypeOK
  PROVE  \A i \in DOMAIN typed :
           /\ typed[i].cmd \in Calls /\ typed[i].pos \in Nat
           /\ typed[i] = [cmd |-> typed[i].cmd, pos |-> typed[i].pos]
<1> DEFINE S == [cmd : Calls, pos : Nat \ {0}]
<1>1. typed \in Seq(S)
  BY DEF TypeOK
<1> HIDE DEF S
<1>2. \A i \in DOMAIN typed : typed[i] \in S
  BY <1>1
<1> QED
  BY <1>2 DEF S

(* A call that has no answer to read and no request on its way. *)
Quiet(c) == reply[c] = NoReply /\ \A r \in net : r.cmd # c

LEMMA QuietOutsideExchange ==
  ASSUME DeliveryInv, NEW c \in Calls, pc[c] \in {"idle", "ready", "waiting", "launch"}
  PROVE  Quiet(c)
  BY DEF DeliveryInv, RequestsCurrent, RepliesTruthful, InExchange, Quiet

LEMMA QuietWhileReading ==
  ASSUME DeliveryInv, TypeOK, NEW c \in Calls, reply[c] # NoReply
  PROVE  \A r \in net : r.cmd # c
  BY DEF DeliveryInv, RequestsCurrent

(* A step that changes neither history changes nothing that was served. *)
LEMMA HistoryKept ==
  ASSUME UNCHANGED <<typed, skipped>>
  PROVE  \A d, p : /\ Typed(d, p)' <=> Typed(d, p)
                   /\ Served(d, p)' <=> Served(d, p)
  BY DEF Typed, Served

LEMMA SkippedEntries ==
  ASSUME TypeOK
  PROVE  \A s \in skipped : /\ s.cmd \in Calls /\ s.pos \in Nat
                            /\ s = [cmd |-> s.cmd, pos |-> s.pos]
  BY DEF TypeOK

(* The step in which a call fails, is cancelled or returns regardless. *)
LEMMA FailDelivery ==
  ASSUME TypeOK, DeliveryInv, NEW c \in Calls, NEW how \in Failures \cup {"swallowed"},
         Finish(c, how), how = "swallowed" => CallOf[c].op = "power",
         reply' = [reply EXCEPT ![c] = NoReply] \/ (reply[c] = NoReply /\ reply' = reply),
         net' = net, UNCHANGED <<typed, skipped>>
  PROVE  DeliveryInv'
<1>1. /\ pc' = [pc EXCEPT ![c] = "done"]
      /\ outcome' = [outcome EXCEPT ![c] = how]
      /\ pos' = pos
      /\ how # "ok" /\ how # "pending"
  BY DEF Finish, Failures, TransportErrors
<1>2. reply'[c] = NoReply /\ \A d \in Calls \ {c} : reply'[d] = reply[d]
  BY DEF TypeOK
<1>3. \A d, p : /\ Typed(d, p)' <=> Typed(d, p)
                /\ Served(d, p)' <=> Served(d, p)
  BY HistoryKept
<1>4. \A r \in net : r.cmd \in Calls /\ r.pos \in Nat
  BY DEF TypeOK, Requests
<1>5. RequestsCurrent'
  BY <1>1, <1>2, <1>3, <1>4 DEF DeliveryInv, RequestsCurrent, TypeOK
<1>6. RepliesTruthful'
  BY <1>1, <1>2, <1>3
     DEF DeliveryInv, RepliesTruthful, TakenForSuccess, InExchange, TypeOK
<1>7. TasksAtKey'
  BY <1>1, <1>3 DEF DeliveryInv, TasksAtKey, TypeOK
<1>8. TypedOK'
  BY <1>1, <1>3 DEF DeliveryInv, TypedOK
<1> QED
  BY <1>5, <1>6, <1>7, <1>8 DEF DeliveryInv

(* The step in which a call meets a TransportError. *)
LEMMA RaiseDelivery ==
  ASSUME TypeOK, DeliveryInv, NEW c \in Calls, NEW error \in TransportErrors,
         Raise(c, error),
         reply' = [reply EXCEPT ![c] = NoReply] \/ (reply[c] = NoReply /\ reply' = reply),
         net' = net, UNCHANGED <<typed, skipped>>
  PROVE  DeliveryInv'
<1>1. PICK how \in {error, "swallowed"} :
        Finish(c, how) /\ (how = "swallowed" => CallOf[c].op = "power")
  BY RaiseEnds
<1>2. how \in Failures \cup {"swallowed"}
  BY DEF Failures
<1> QED
  BY <1>1, <1>2, FailDelivery

(* The step in which a call reads that its key was accepted. *)
LEMMA KeyDoneDelivery ==
  ASSUME TypeOK, DeliveryInv, NEW c \in Calls, KeyDone(c), InExchange(c),
         reply[c] # NoReply, TakenForSuccess(c),
         reply' = [reply EXCEPT ![c] = NoReply], net' = net,
         UNCHANGED <<typed, skipped>>
  PROVE  DeliveryInv'
<1>1. /\ Served(c, pos[c]) /\ pos[c] \in DOMAIN keys[c] /\ pos[c] \in Nat \ {0}
      /\ outcome[c] = "pending" /\ pc[c] # "done"
  BY DEF DeliveryInv, RepliesTruthful, TasksAtKey, InExchange, TypeOK
<1>2. \A r \in net : r.cmd \in Calls \ {c} /\ r.pos \in Nat
  BY QuietWhileReading DEF TypeOK, Requests
<1>3. \A d, p : /\ Typed(d, p)' <=> Typed(d, p)
                /\ Served(d, p)' <=> Served(d, p)
  BY HistoryKept
<1>4. keys[c] \in Seq(KeyNames)
  BY PlanIsSequence
<1>5. CASE pos[c] < Len(keys[c])
  <2>1. /\ pos' = [pos EXCEPT ![c] = pos[c] + 1]
        /\ pc' = [pc EXCEPT ![c] = "ready"] /\ outcome' = outcome
    BY <1>5 DEF KeyDone
  <2>2. ~Served(c, pos[c] + 1)
    <3>1. \A i \in DOMAIN typed : typed[i] # [cmd |-> c, pos |-> pos[c] + 1]
      BY <1>1 DEF DeliveryInv, TypedOK
    <3>2. [cmd |-> c, pos |-> pos[c] + 1] \notin skipped
      BY <1>1 DEF DeliveryInv, TypedOK
    <3> QED
      BY <3>1, <3>2 DEF Served, Typed
  <2>3. RequestsCurrent'
    BY <1>2, <1>3, <2>1 DEF DeliveryInv, RequestsCurrent, TypeOK
  <2>4. RepliesTruthful'
    <3>1. reply'[c] = NoReply
      BY DEF TypeOK
    <3>2. ASSUME NEW d \in Calls \ {c}
          PROVE  reply'[d] = reply[d] /\ pc'[d] = pc[d] /\ pos'[d] = pos[d]
      BY <2>1 DEF TypeOK
    <3> QED
      BY <1>3, <3>1, <3>2
         DEF DeliveryInv, RepliesTruthful, TakenForSuccess, InExchange
  <2>5. TasksAtKey'
    <3>1. ASSUME NEW d \in Calls \ {c}
          PROVE  /\ pc'[d] = pc[d] /\ pos'[d] = pos[d] /\ outcome'[d] = outcome[d]
                 /\ pos[d] \in Nat
      BY <2>1 DEF TypeOK
    <3>2. pc'[c] = "ready" /\ pos'[c] = pos[c] + 1 /\ outcome'[c] = "pending"
      BY <1>1, <2>1 DEF TypeOK
    <3>3. \A p \in 1..pos[c] : Served(c, p)
      BY <1>1 DEF DeliveryInv, TasksAtKey
    <3>4. pos[c] + 1 \in DOMAIN keys[c]
      BY <1>1, <1>4, <1>5
    <3>5. ASSUME NEW d \in Calls \ {c}
          PROVE  /\ (pc[d] = "done" <=> outcome[d] # "pending")'
                 /\ (outcome[d] = "ok" =>
                       keys[d] = <<>> \/ (pos[d] = Len(keys[d]) /\ Served(d, pos[d])))'
                 /\ (outcome[d] = "swallowed" => CallOf[d].op = "power")'
                 /\ (\A p \in 1..(pos[d] - 1) : Served(d, p))'
                 /\ (pc[d] \in {"idle", "ready", "waiting"} => ~Served(d, pos[d]))'
                 /\ (pc[d] \in {"ready", "waiting", "challenge", "auth"} =>
                       pos[d] \in DOMAIN keys[d])'
                 /\ (pc[d] \in {"idle", "launch"} => pos[d] = 1)'
                 /\ (pc[d] = "launch" => keys[d] = <<>>)'
      BY <1>3, <3>1 DEF DeliveryInv, TasksAtKey
    <3> QED
      BY <1>1, <1>3, <2>2, <3>2, <3>3, <3>4, <3>5 DEF TasksAtKey
  <2>6. TypedOK'
    <3>1. \A i \in DOMAIN typed : typed[i].cmd \in Calls /\ typed[i].pos \in Nat
      BY TypedEntries
    <3>2. \A d \in Calls : pos[d] \in Nat /\ pos'[d] \in Nat /\ pos[d] <= pos'[d]
      BY <2>1 DEF TypeOK
    <3>3. \A i \in DOMAIN typed : typed[i].pos <= pos'[typed[i].cmd]
      BY <3>1, <3>2 DEF DeliveryInv, TypedOK
    <3>4. \A s \in skipped : s.pos <= pos'[s.cmd]
      BY <3>2, SkippedEntries DEF DeliveryInv, TypedOK
    <3> QED
      BY <1>3, <3>3, <3>4 DEF DeliveryInv, TypedOK
  <2> QED
    BY <2>3, <2>4, <2>5, <2>6 DEF DeliveryInv
<1>6. CASE ~(pos[c] < Len(keys[c]))
  <2>1. /\ pos' = pos /\ pc' = [pc EXCEPT ![c] = "done"]
        /\ outcome' = [outcome EXCEPT ![c] = "ok"]
    BY <1>6 DEF KeyDone, Finish
  <2>2. pos[c] = Len(keys[c])
    BY <1>1, <1>4, <1>6
  <2>3. RequestsCurrent'
    BY <1>2, <1>3, <2>1 DEF DeliveryInv, RequestsCurrent, TypeOK
  <2>4. RepliesTruthful'
    <3>1. reply'[c] = NoReply
      BY DEF TypeOK
    <3>2. ASSUME NEW d \in Calls \ {c}
          PROVE  reply'[d] = reply[d] /\ pc'[d] = pc[d] /\ pos'[d] = pos[d]
      BY <2>1 DEF TypeOK
    <3> QED
      BY <1>3, <3>1, <3>2
         DEF DeliveryInv, RepliesTruthful, TakenForSuccess, InExchange
  <2>5. TasksAtKey'
    BY <1>1, <1>3, <2>1, <2>2 DEF DeliveryInv, TasksAtKey, TypeOK
  <2>6. TypedOK'
    BY <1>3, <2>1 DEF DeliveryInv, TypedOK
  <2> QED
    BY <2>3, <2>4, <2>5, <2>6 DEF DeliveryInv
<1> QED
  BY <1>5, <1>6

(* The step in which a call sends a POST for the key it is at. *)
LEMMA PostDelivery ==
  ASSUME TypeOK, DeliveryInv, NEW c \in Calls, NEW nonce, NEW place \in {"challenge", "auth"},
         pc[c] \in {"ready", "waiting", "challenge"}, ~Served(c, pos[c]),
         \A r \in net : r.cmd # c,
         pc' = [pc EXCEPT ![c] = place], net' = net \cup {Request(c, nonce)},
         reply' = [reply EXCEPT ![c] = NoReply] \/ (reply[c] = NoReply /\ reply' = reply),
         UNCHANGED <<pos, outcome, typed, skipped>>
  PROVE  DeliveryInv'
<1>1. /\ pos[c] \in DOMAIN keys[c] /\ pos[c] \in Nat \ {0}
      /\ pc[c] # "done" /\ outcome[c] = "pending"
  BY DEF DeliveryInv, TasksAtKey, TypeOK
<1>2. reply'[c] = NoReply /\ \A d \in Calls \ {c} : reply'[d] = reply[d]
  BY DEF TypeOK
<1>3. \A d, p : /\ Typed(d, p)' <=> Typed(d, p)
                /\ Served(d, p)' <=> Served(d, p)
  BY HistoryKept
<1>4. \A r \in net : r.cmd \in Calls \ {c} /\ r.pos \in Nat
  BY DEF TypeOK, Requests
<1>5. Request(c, nonce).cmd = c /\ Request(c, nonce).pos = pos[c]
  BY DEF Request
<1>6. pc'[c] = place /\ \A d \in Calls \ {c} : pc'[d] = pc[d]
  BY DEF TypeOK
<1>7. RequestsCurrent'
  <2>1. ASSUME NEW r \in net
        PROVE  /\ r.pos = pos'[r.cmd] /\ r.pos \in DOMAIN keys[r.cmd]
               /\ ~Served(r.cmd, r.pos)'
               /\ pc'[r.cmd] \in {"challenge", "auth", "done"}
               /\ reply'[r.cmd] = NoReply /\ outcome'[r.cmd] # "ok"
               /\ \A q \in net' : q.cmd = r.cmd => q = r
    BY <1>2, <1>3, <1>4, <1>5, <1>6 DEF DeliveryInv, RequestsCurrent
  <2>2. \A q \in net' : q.cmd = c => q = Request(c, nonce)
    BY <1>4
  <2> QED
    BY <1>1, <1>2, <1>3, <1>5, <1>6, <2>1, <2>2 DEF RequestsCurrent
<1>8. RepliesTruthful'
  BY <1>2, <1>3, <1>6
     DEF DeliveryInv, RepliesTruthful, TakenForSuccess, InExchange, TypeOK
<1>9. TasksAtKey'
  BY <1>1, <1>3, <1>6 DEF DeliveryInv, TasksAtKey, TypeOK
<1>10. TypedOK'
  BY <1>3 DEF DeliveryInv, TypedOK
<1> QED
  BY <1>7, <1>8, <1>9, <1>10 DEF DeliveryInv

(* What the receiver does with a request, and what it may answer then. *)
LEMMA ServeCases ==
  ASSUME NEW r, Serve(r)
  PROVE  \/ /\ UNCHANGED <<typed, skipped>>
            /\ \E kind \in Answers \ {"ok", "no_result"} : \E nonce :
                 Answer(r, kind, nonce) /\ (kind = "rejected" => r.nonce # NoNonce)
         \/ /\ Execute(r)
            /\ \E kind \in {"ok", "no_result"} : \E nonce : Answer(r, kind, nonce)
         \/ /\ Skip(r)
            /\ \E kind \in {"no_result", "rejected"} : \E nonce :
                 Answer(r, kind, nonce) /\ (kind = "rejected" => r.nonce = NoNonce)
<1>1. CASE ServeFirst(r)
  <2>1. CASE \E fault \in Faults \cap {"redirect", "http_error", "not_digest", "no_nonce"} :
               Answer(r, fault, NoNonce) /\ UNCHANGED <<live, typed, skipped>>
    BY <2>1 DEF Answers
  <2>2. CASE Answer(r, "challenge", <<r.cmd, r.pos>>) /\ UNCHANGED <<typed, skipped>>
    BY <2>2 DEF Answers
  <2>3. CASE Answer(r, "rejected", NoNonce) /\ Skip(r)
    BY <1>1, <2>3 DEF ServeFirst
  <2>4. CASE Answer(r, "ok", NoNonce) /\ Execute(r)
    BY <2>4
  <2> QED
    BY <1>1, <2>1, <2>2, <2>3, <2>4 DEF ServeFirst
<1>2. CASE ServeSecond(r)
  <2>1. CASE \E kind \in {"http_error", "denied", "rejected"} :
               Answer(r, kind, NoNonce) /\ UNCHANGED <<typed, skipped>>
    BY <1>2, <2>1 DEF Answers, ServeSecond
  <2>2. CASE Answer(r, "no_result", NoNonce) /\ Skip(r)
    BY <2>2
  <2>3. CASE Execute(r) /\ \E kind \in {"ok"} \cup (Faults \cap {"no_result"}) :
                             Answer(r, kind, NoNonce)
    BY <2>3
  <2> QED
    BY <1>2, <2>1, <2>2, <2>3 DEF ServeSecond
<1> QED
  BY <1>1, <1>2 DEF Serve

(* The step in which the receiver serves a request. *)
LEMMA ServeDelivery ==
  ASSUME TypeOK, DeliveryInv, NEW r \in net, Serve(r)
  PROVE  DeliveryInv'
<1> DEFINE c == r.cmd
           e == [cmd |-> r.cmd, pos |-> r.pos]
<1>1. /\ c \in Calls /\ r.pos = pos[c] /\ r.pos \in Nat \ {0} /\ r.pos \in DOMAIN keys[c]
      /\ ~Served(c, r.pos) /\ ~Typed(c, r.pos) /\ pc[c] \in {"challenge", "auth", "done"}
      /\ reply[c] = NoReply /\ outcome[c] # "ok"
      /\ \A q \in net : q.cmd = c => q = r
  BY DEF DeliveryInv, RequestsCurrent, TypeOK, Requests, Served
<1>2. UNCHANGED <<pc, pos, outcome>> /\ net' = net \ {r}
  BY DEF Serve, client
<1>3. \A q \in net' : q.cmd # c /\ q.cmd \in Calls /\ q.pos \in Nat /\ q \in net
  BY <1>1, <1>2 DEF TypeOK, Requests
<1>4. ASSUME NEW kind, NEW nonce, Answer(r, kind, nonce), kind \in Answers
      PROVE  /\ \A d \in Calls \ {c} : reply'[d] = reply[d]
             /\ \/ reply'[c] = NoReply
                \/ /\ reply'[c].kind = kind
                   /\ pc[c] = IF r.nonce = NoNonce THEN "challenge" ELSE "auth"
  BY <1>1, <1>4 DEF Answer, Awaited, TypeOK
<1>5. "ok" \in Answers /\ "no_result" \in Answers /\ "rejected" \in Answers
  BY DEF Answers
(* The three things that may happen to the key. *)
<1>6. CASE /\ UNCHANGED <<typed, skipped>>
           /\ \E kind \in Answers \ {"ok", "no_result"} : \E nonce :
                Answer(r, kind, nonce) /\ (kind = "rejected" => r.nonce # NoNonce)
  <2>1. \A d, p : /\ Typed(d, p)' <=> Typed(d, p)
                  /\ Served(d, p)' <=> Served(d, p)
    BY <1>6, HistoryKept
  <2>2. /\ \A d \in Calls \ {c} : reply'[d] = reply[d]
        /\ \/ reply'[c] = NoReply
           \/ /\ reply'[c].kind \notin {"ok", "no_result"}
              /\ pc[c] \in {"challenge", "auth"}
              /\ reply'[c].kind = "rejected" => pc[c] = "auth"
    <3>1. PICK kind \in Answers \ {"ok", "no_result"} :
            \E nonce : Answer(r, kind, nonce) /\ (kind = "rejected" => r.nonce # NoNonce)
      BY <1>6
    <3>2. PICK nonce : Answer(r, kind, nonce) /\ (kind = "rejected" => r.nonce # NoNonce)
      BY <3>1
    <3> QED
      BY <1>4, <3>2
  <2>3. RequestsCurrent'
    BY <1>2, <1>3, <2>1, <2>2 DEF DeliveryInv, RequestsCurrent
  <2>4. RepliesTruthful'
    <3>1. ASSUME NEW d \in Calls \ {c}
          PROVE  /\ reply'[d] = reply[d] /\ pc'[d] = pc[d] /\ pos'[d] = pos[d]
                 /\ Typed(d, pos[d])' <=> Typed(d, pos[d])
                 /\ Served(d, pos[d])' <=> Served(d, pos[d])
      BY <1>2, <2>1, <2>2
    <3>2. reply'[c] # NoReply =>
            /\ InExchange(c)'
            /\ TakenForSuccess(c)' <=> Served(c, pos[c])'
            /\ reply'[c].kind = "ok" => Typed(c, pos[c])'
            /\ reply'[c].kind = "rejected" => ~Typed(c, pos[c])'
      BY <1>1, <1>2, <2>1, <2>2 DEF TakenForSuccess, InExchange
    <3>3. \A d \in Calls \ {c} :
            reply'[d] # NoReply =>
              /\ InExchange(d)'
              /\ TakenForSuccess(d)' <=> Served(d, pos[d])'
              /\ reply'[d].kind = "ok" => Typed(d, pos[d])'
              /\ reply'[d].kind = "rejected" => ~Typed(d, pos[d])'
      BY <1>2, <3>1 DEF DeliveryInv, RepliesTruthful, TakenForSuccess, InExchange
    <3> QED
      BY <1>1, <3>2, <3>3 DEF RepliesTruthful
  <2>5. TasksAtKey'
    BY <1>2, <2>1 DEF DeliveryInv, TasksAtKey, TypeOK
  <2>6. TypedOK'
    BY <1>2, <1>6, <2>1 DEF DeliveryInv, TypedOK
  <2> QED
    BY <2>3, <2>4, <2>5, <2>6 DEF DeliveryInv
<1>7. CASE /\ Execute(r)
           /\ \E kind \in {"ok", "no_result"} : \E nonce : Answer(r, kind, nonce)
  <2>a. typed' = Append(typed, e) /\ skipped' = skipped
    BY <1>7 DEF Execute, Entry
  <2>0. typed \in Seq([cmd : Calls, pos : Nat \ {0}])
    BY DEF TypeOK
  <2>1. /\ DOMAIN typed' = DOMAIN typed \cup {Len(typed) + 1}
        /\ \A i \in DOMAIN typed : typed'[i] = typed[i]
        /\ typed'[Len(typed) + 1] = e
        /\ Len(typed) \in Nat /\ DOMAIN typed = 1..Len(typed)
    BY <2>a, <2>0
  <2>2. \A d, p : /\ Typed(d, p)' <=> (Typed(d, p) \/ (d = c /\ p = r.pos))
                  /\ Served(d, p)' <=> (Served(d, p) \/ (d = c /\ p = r.pos))
    <3> SUFFICES ASSUME NEW d, NEW p
                 PROVE  /\ Typed(d, p)' <=> (Typed(d, p) \/ (d = c /\ p = r.pos))
                        /\ Served(d, p)' <=> (Served(d, p) \/ (d = c /\ p = r.pos))
      OBVIOUS
    <3>1. e = [cmd |-> d, pos |-> p] <=> d = c /\ p = r.pos
      OBVIOUS
    <3>2. Typed(d, p)' <=> (Typed(d, p) \/ (d = c /\ p = r.pos))
      BY <2>1, <3>1 DEF Typed
    <3> QED
      BY <2>a, <3>2 DEF Served
  <2>3. /\ \A d \in Calls \ {c} : reply'[d] = reply[d]
        /\ \/ reply'[c] = NoReply
           \/ reply'[c].kind \in {"ok", "no_result"} /\ pc[c] \in {"challenge", "auth"}
    <3>1. PICK kind \in {"ok", "no_result"} : \E nonce : Answer(r, kind, nonce)
      BY <1>7
    <3>2. PICK nonce : Answer(r, kind, nonce)
      BY <3>1
    <3> QED
      BY <1>4, <1>5, <3>2
  <2>4. RequestsCurrent'
    BY <1>2, <1>3, <2>2, <2>3 DEF DeliveryInv, RequestsCurrent
  <2>5. RepliesTruthful'
    <3>1. ASSUME NEW d \in Calls \ {c}
          PROVE  /\ reply'[d] = reply[d] /\ pc'[d] = pc[d] /\ pos'[d] = pos[d]
                 /\ Typed(d, pos[d])' <=> Typed(d, pos[d])
                 /\ Served(d, pos[d])' <=> Served(d, pos[d])
      BY <1>2, <2>2, <2>3
    <3>2. reply'[c] # NoReply =>
            /\ InExchange(c)'
            /\ TakenForSuccess(c)' <=> Served(c, pos[c])'
            /\ reply'[c].kind = "ok" => Typed(c, pos[c])'
            /\ reply'[c].kind = "rejected" => ~Typed(c, pos[c])'
      BY <1>1, <1>2, <2>2, <2>3 DEF TakenForSuccess, InExchange
    <3>3. \A d \in Calls \ {c} :
            reply'[d] # NoReply =>
              /\ InExchange(d)'
              /\ TakenForSuccess(d)' <=> Served(d, pos[d])'
              /\ reply'[d].kind = "ok" => Typed(d, pos[d])'
              /\ reply'[d].kind = "rejected" => ~Typed(d, pos[d])'
      BY <1>2, <3>1 DEF DeliveryInv, RepliesTruthful, TakenForSuccess, InExchange
    <3> QED
      BY <1>1, <3>2, <3>3 DEF RepliesTruthful
  <2>6. TasksAtKey'
    BY <1>1, <1>2, <2>2 DEF DeliveryInv, TasksAtKey, TypeOK
  <2>7. TypedOK'
    <3>1. \A i \in DOMAIN typed : typed[i].cmd \in Calls /\ typed[i].pos \in Nat
      BY TypedEntries
    <3>2. ASSUME NEW i \in DOMAIN typed, typed[i].cmd = c
          PROVE  typed[i].pos < r.pos
      <4>1. typed[i] = [cmd |-> typed[i].cmd, pos |-> typed[i].pos]
        BY TypedEntries
      <4>2. typed[i].pos # r.pos
        BY <1>1, <3>2, <4>1 DEF Typed
      <4> QED
        BY <1>1, <3>1, <3>2, <4>2 DEF DeliveryInv, TypedOK
    <3>3. ASSUME NEW i \in DOMAIN typed'
          PROVE  typed'[i].pos <= pos[typed'[i].cmd]
      BY <1>1, <2>1, <3>1 DEF DeliveryInv, TypedOK
    <3>4. ASSUME NEW i \in DOMAIN typed', NEW j \in DOMAIN typed', i < j,
                 typed'[i].cmd = typed'[j].cmd
          PROVE  typed'[i].pos < typed'[j].pos
      <4>1. i \in DOMAIN typed
        BY <2>1, <3>4
      <4>2. CASE j \in DOMAIN typed
        BY <2>1, <3>4, <4>1, <4>2 DEF DeliveryInv, TypedOK
      <4>3. CASE j = Len(typed) + 1
        BY <2>1, <3>2, <3>4, <4>1, <4>3
      <4> QED
        BY <2>1, <4>2, <4>3
    <3>5. ASSUME NEW s \in skipped
          PROVE  s.pos <= pos[s.cmd] /\ ~Typed(s.cmd, s.pos)'
      <4>1. s = [cmd |-> s.cmd, pos |-> s.pos]
        BY SkippedEntries
      <4>2. ~(s.cmd = c /\ s.pos = r.pos)
        BY <1>1, <3>5, <4>1 DEF Served
      <4> QED
        BY <2>2, <4>2 DEF DeliveryInv, TypedOK
    <3> QED
      BY <1>2, <2>a, <3>3, <3>4, <3>5 DEF TypedOK
  <2> QED
    BY <2>4, <2>5, <2>6, <2>7 DEF DeliveryInv
<1>8. CASE /\ Skip(r)
           /\ \E kind \in {"no_result", "rejected"} : \E nonce :
                Answer(r, kind, nonce) /\ (kind = "rejected" => r.nonce = NoNonce)
  <2>1. typed' = typed /\ skipped' = skipped \cup {e}
    BY <1>8 DEF Skip, Entry
  <2>2. \A d, p : /\ Typed(d, p)' <=> Typed(d, p)
                  /\ Served(d, p)' <=> (Served(d, p) \/ (d = c /\ p = r.pos))
    <3> SUFFICES ASSUME NEW d, NEW p
                 PROVE  /\ Typed(d, p)' <=> Typed(d, p)
                        /\ Served(d, p)' <=> (Served(d, p) \/ (d = c /\ p = r.pos))
      OBVIOUS
    <3>1. e = [cmd |-> d, pos |-> p] <=> d = c /\ p = r.pos
      OBVIOUS
    <3>2. Typed(d, p)' <=> Typed(d, p)
      BY <2>1 DEF Typed
    <3> QED
      BY <2>1, <3>1, <3>2 DEF Served
  <2>3. /\ \A d \in Calls \ {c} : reply'[d] = reply[d]
        /\ \/ reply'[c] = NoReply
           \/ reply'[c].kind = "no_result" /\ pc[c] \in {"challenge", "auth"}
           \/ reply'[c].kind = "rejected" /\ pc[c] = "challenge"
    <3>1. PICK kind \in {"no_result", "rejected"} :
            \E nonce : Answer(r, kind, nonce) /\ (kind = "rejected" => r.nonce = NoNonce)
      BY <1>8
    <3>2. PICK nonce : Answer(r, kind, nonce) /\ (kind = "rejected" => r.nonce = NoNonce)
      BY <3>1
    <3> QED
      BY <1>4, <1>5, <3>2
  <2>4. RequestsCurrent'
    BY <1>2, <1>3, <2>2, <2>3 DEF DeliveryInv, RequestsCurrent
  <2>5. RepliesTruthful'
    <3>1. ASSUME NEW d \in Calls \ {c}
          PROVE  /\ reply'[d] = reply[d] /\ pc'[d] = pc[d] /\ pos'[d] = pos[d]
                 /\ Typed(d, pos[d])' <=> Typed(d, pos[d])
                 /\ Served(d, pos[d])' <=> Served(d, pos[d])
      BY <1>2, <2>2, <2>3
    <3>2. reply'[c] # NoReply =>
            /\ InExchange(c)'
            /\ TakenForSuccess(c)' <=> Served(c, pos[c])'
            /\ reply'[c].kind = "ok" => Typed(c, pos[c])'
            /\ reply'[c].kind = "rejected" => ~Typed(c, pos[c])'
      BY <1>1, <1>2, <2>2, <2>3 DEF TakenForSuccess, InExchange
    <3>3. \A d \in Calls \ {c} :
            reply'[d] # NoReply =>
              /\ InExchange(d)'
              /\ TakenForSuccess(d)' <=> Served(d, pos[d])'
              /\ reply'[d].kind = "ok" => Typed(d, pos[d])'
              /\ reply'[d].kind = "rejected" => ~Typed(d, pos[d])'
      BY <1>2, <3>1 DEF DeliveryInv, RepliesTruthful, TakenForSuccess, InExchange
    <3> QED
      BY <1>1, <3>2, <3>3 DEF RepliesTruthful
  <2>6. TasksAtKey'
    BY <1>1, <1>2, <2>2 DEF DeliveryInv, TasksAtKey, TypeOK
  <2>7. TypedOK'
    <3>1. \A s \in skipped' : s.pos <= pos[s.cmd] /\ ~Typed(s.cmd, s.pos)
      BY <1>1, <2>1 DEF DeliveryInv, TypedOK
    <3> QED
      BY <1>2, <2>1, <2>2, <3>1 DEF DeliveryInv, TypedOK
  <2> QED
    BY <2>4, <2>5, <2>6, <2>7 DEF DeliveryInv
<1> QED
  BY <1>6, <1>7, <1>8, ServeCases

LEMMA NextDelivery == TypeOK /\ DeliveryInv /\ [Next]_vars => DeliveryInv'
<1> SUFFICES ASSUME TypeOK, DeliveryInv, [Next]_vars
             PROVE  DeliveryInv'
  OBVIOUS
<1>a. /\ {"value_error", "timeout_error", "attribute_error", "cancelled"} \subseteq Failures
      /\ {"transport_error", "pairing_required"} \subseteq TransportErrors
  BY DEF Failures, TransportErrors
<1>0. ASSUME NEW c \in Calls, FirstPost(c), pc[c] \in {"ready", "waiting"},
             UNCHANGED <<reply, typed, skipped>>
      PROVE  DeliveryInv'
  <2>1. Quiet(c) /\ ~Served(c, pos[c])
    BY <1>0, QuietOutsideExchange DEF DeliveryInv, TasksAtKey
  <2>2. CASE session[TransportOf[c]]
    BY <1>0, <2>1, <2>2, PostDelivery DEF FirstPost, Quiet
  <2>3. CASE ~session[TransportOf[c]]
    BY <1>0, <1>a, <2>1, <2>3, FailDelivery DEF FirstPost, Quiet
  <2> QED
    BY <2>2, <2>3
<1>1. ASSUME NEW c \in Calls, SendKey(c)
      PROVE  DeliveryInv'
  <2>1. Quiet(c) /\ pc[c] = "ready"
    BY <1>1, QuietOutsideExchange DEF SendKey
  <2>2. CASE (Raise(c, "transport_error") \/ Raise(c, "pairing_required"))
             /\ UNCHANGED net
    BY <1>1, <1>a, <2>1, <2>2, RaiseDelivery DEF SendKey, Quiet, receiver
  <2>3. CASE pc' = [pc EXCEPT ![c] = "waiting"] /\ UNCHANGED <<pos, outcome, net>>
    <3>1. UNCHANGED <<pos, outcome, net, reply, typed, skipped>>
      BY <1>1, <2>3 DEF SendKey, receiver
    <3>2. \A d, p : /\ Typed(d, p)' <=> Typed(d, p)
                    /\ Served(d, p)' <=> Served(d, p)
      BY <3>1, HistoryKept
    <3>3. RequestsCurrent'
      BY <2>1, <2>3, <3>1, <3>2
         DEF DeliveryInv, RequestsCurrent, Quiet, TypeOK, Requests
    <3>4. RepliesTruthful'
      BY <2>1, <2>3, <3>1, <3>2
         DEF DeliveryInv, RepliesTruthful, TakenForSuccess, Quiet, InExchange, TypeOK
    <3>5. TasksAtKey'
      BY <2>1, <2>3, <3>1, <3>2 DEF DeliveryInv, TasksAtKey, TypeOK
    <3>6. TypedOK'
      BY <3>1, <3>2 DEF DeliveryInv, TypedOK
    <3> QED
      BY <3>3, <3>4, <3>5, <3>6 DEF DeliveryInv
  <2> QED
    BY <1>0, <1>1, <2>1, <2>2, <2>3 DEF SendKey, receiver
<1>2. ASSUME NEW c \in Calls, Acquire(c)
      PROVE  DeliveryInv'
  BY <1>0, <1>2 DEF Acquire, receiver
<1>3. ASSUME NEW c \in Calls, ReadChallenge(c)
      PROVE  DeliveryInv'
  <2>1. /\ pc[c] = "challenge" /\ InExchange(c) /\ \A r \in net : r.cmd # c
        /\ reply' = [reply EXCEPT ![c] = NoReply] /\ UNCHANGED <<typed, skipped>>
    BY <1>3, QuietWhileReading DEF ReadChallenge, InExchange, receiver
  <2>2. CASE SecondPost(c, reply[c].nonce) /\ reply[c].kind = "challenge"
    <3>1. ~Served(c, pos[c])
      BY <1>3, <2>2 DEF DeliveryInv, RepliesTruthful, TakenForSuccess, ReadChallenge
    <3>2. CASE session[TransportOf[c]]
      BY <2>1, <2>2, <3>1, <3>2, PostDelivery DEF SecondPost
    <3>3. CASE ~session[TransportOf[c]]
      BY <1>a, <2>1, <2>2, <3>3, FailDelivery DEF SecondPost
    <3> QED
      BY <3>2, <3>3
  <2>3. CASE KeyDone(c) /\ reply[c].kind \in {"ok", "rejected"} /\ UNCHANGED net
    <3>1. TakenForSuccess(c)
      BY <2>1, <2>3 DEF TakenForSuccess
    <3> QED
      BY <1>3, <2>1, <2>3, <3>1, KeyDoneDelivery DEF ReadChallenge
  <2>4. CASE (Raise(c, "transport_error") \/ Finish(c, "value_error"))
             /\ UNCHANGED net
    BY <1>a, <2>1, <2>4, FailDelivery, RaiseDelivery
  <2> QED
    BY <1>3, <2>2, <2>3, <2>4 DEF ReadChallenge
<1>4. ASSUME NEW c \in Calls, ReadResult(c)
      PROVE  DeliveryInv'
  <2>1. /\ InExchange(c) /\ UNCHANGED <<net, typed, skipped>> /\ reply[c] # NoReply
        /\ reply' = [reply EXCEPT ![c] = NoReply]
    BY <1>4 DEF ReadResult, InExchange, receiver
  <2>2. CASE KeyDone(c) /\ reply[c].kind \in {"ok", "no_result"}
    BY <2>1, <2>2, KeyDoneDelivery DEF TakenForSuccess
  <2>3. CASE Raise(c, "pairing_required") \/ Raise(c, "transport_error")
    BY <1>a, <2>1, <2>3, RaiseDelivery
  <2> QED
    BY <1>4, <2>2, <2>3 DEF ReadResult
<1>5. ASSUME NEW c \in Calls, GiveUp(c) \/ Cancel(c)
      PROVE  DeliveryInv'
  <2>1. /\ Raise(c, "transport_error") \/ Finish(c, "cancelled")
        /\ reply' = [reply EXCEPT ![c] = NoReply]
        /\ UNCHANGED <<net, typed, skipped>>
    BY <1>5 DEF GiveUp, Cancel, receiver
  <2> QED
    BY <1>a, <2>1, FailDelivery, RaiseDelivery
<1>6. ASSUME NEW c \in Calls, LaunchEnd(c) \/ Call(c) \/ LaunchPost(c)
      PROVE  DeliveryInv'
  <2>1. /\ Quiet(c) /\ UNCHANGED <<net, reply, typed, skipped>>
        /\ pc[c] \in {"idle", "launch"} /\ pos[c] = 1
    BY <1>6, QuietOutsideExchange
       DEF LaunchEnd, Call, LaunchPost, box, receiver, DeliveryInv, TasksAtKey
  <2>2. CASE Raise(c, "transport_error") \/ \E how \in Failures : Finish(c, how)
    <3>1. CASE Raise(c, "transport_error")
      BY <1>a, <2>1, <3>1, RaiseDelivery DEF Quiet
    <3>2. ASSUME NEW how \in Failures, Finish(c, how)
          PROVE  DeliveryInv'
      <4>1. how # "swallowed"
        BY DEF Failures, TransportErrors
      <4> QED
        BY <2>1, <3>2, <4>1, FailDelivery DEF Quiet
    <3> QED
      BY <2>2, <3>1, <3>2
  <2>3. CASE ~(Raise(c, "transport_error") \/ \E how \in Failures : Finish(c, how))
    <3>1. \/ Finish(c, "ok") /\ keys[c] = <<>>
          \/ pc' = [pc EXCEPT ![c] = "ready"] /\ keys[c] # <<>>
             /\ UNCHANGED <<pos, outcome>>
          \/ pc' = [pc EXCEPT ![c] = "launch"] /\ keys[c] = <<>>
             /\ UNCHANGED <<pos, outcome>>
      <4>1. CallOf[c].op = "launch_app" => keys[c] = <<>>
        BY DEF keys, Plan
      <4> QED
        BY <1>6, <1>a, <2>3, <4>1 DEF LaunchEnd, Call, LaunchPost, DeliveryInv, TasksAtKey
    <3>2. \A d, p : /\ Typed(d, p)' <=> Typed(d, p)
                    /\ Served(d, p)' <=> Served(d, p)
      BY <2>1, HistoryKept
    <3>3. pos' = pos
      BY <3>1 DEF Finish
    <3>4. RequestsCurrent'
      BY <2>1, <3>1, <3>2, <3>3
         DEF DeliveryInv, RequestsCurrent, Quiet, TypeOK, Requests, Finish
    <3>5. RepliesTruthful'
      BY <2>1, <3>1, <3>2, <3>3
         DEF DeliveryInv, RepliesTruthful, TakenForSuccess, Quiet, InExchange, TypeOK,
             Finish
    <3>6. keys[c] # <<>> => ~Served(c, 1) /\ 1 \in DOMAIN keys[c]
      BY <2>1, PlanIsSequence DEF DeliveryInv, TasksAtKey
    <3>7. TasksAtKey'
      BY <2>1, <3>1, <3>2, <3>3, <3>6 DEF DeliveryInv, TasksAtKey, TypeOK, Finish
    <3>8. TypedOK'
      BY <2>1, <3>2, <3>3 DEF DeliveryInv, TypedOK
    <3> QED
      BY <3>4, <3>5, <3>7, <3>8 DEF DeliveryInv
  <2> QED
    BY <2>2, <2>3
<1>7. CASE (\E t \in Transports : async_close(t) \/ Revoke(t)) \/ UNCHANGED vars
  <2>1. UNCHANGED <<pc, pos, outcome, net, reply, typed, skipped>>
    BY <1>7 DEF async_close, Revoke, client, box, receiver, vars
  <2>2. \A d, p : /\ Typed(d, p)' <=> Typed(d, p)
                  /\ Served(d, p)' <=> Served(d, p)
    BY <2>1, HistoryKept
  <2> QED
    BY <2>1, <2>2 DEF DeliveryInv, RequestsCurrent, RepliesTruthful, TakenForSuccess,
                      TasksAtKey, TypedOK, InExchange
<1> QED
  BY <1>1, <1>2, <1>3, <1>4, <1>5, <1>6, <1>7, ServeDelivery DEF Next, Resume

LEMMA Delivers == Spec => [](TypeOK /\ DeliveryInv)
<1>1. TypeOK /\ DeliveryInv /\ [Next]_vars => (TypeOK /\ DeliveryInv)'
  BY NextTypeOK, NextDelivery
<1>2. Init => TypeOK /\ DeliveryInv
  BY InitTypeOK, InitDelivery
<1> QED
  BY <1>1, <1>2, PTL DEF Spec

(* The invariant that carries the delivery of keys. *)
THEOREM DeliveryInvariant == Spec => []DeliveryInv
  BY Delivers, PTL

(* The receiver executes the keys of a call in order, each at most once. *)
THEOREM KeysInOrder == Spec => []TypedInOrder
<1>1. DeliveryInv => TypedInOrder
  BY DEF DeliveryInv, TypedOK, TypedInOrder
<1> QED
  BY <1>1, Delivers, PTL

(* Before the key a call is at every key was served, after it none was     *)
(* executed; a call that succeeded had all of them served.                 *)
THEOREM KeysArePrefix == Spec => []PrefixTyped
<1> SUFFICES TypeOK /\ DeliveryInv => PrefixTyped
  BY Delivers, PTL
<1> SUFFICES ASSUME TypeOK, DeliveryInv, NEW c \in Calls
             PROVE  /\ \A p \in 1..(pos[c] - 1) : Served(c, p)
                    /\ \A i \in DOMAIN typed : typed[i].cmd = c => typed[i].pos <= pos[c]
                    /\ outcome[c] = "ok" => \A p \in DOMAIN keys[c] : Served(c, p)
                    /\ outcome[c] = "swallowed" => CallOf[c].op = "power"
  BY DEF PrefixTyped
<1>1. \A p \in 1..(pos[c] - 1) : Served(c, p)
  BY DEF DeliveryInv, TasksAtKey
<1>2. \A i \in DOMAIN typed : typed[i].cmd = c => typed[i].pos <= pos[c]
  BY DEF DeliveryInv, TypedOK
<1>3. ASSUME outcome[c] = "ok", NEW p \in DOMAIN keys[c]
      PROVE  Served(c, p)
  <2>1. keys[c] \in Seq(KeyNames) /\ pos[c] \in Nat
    BY PlanIsSequence DEF TypeOK
  <2>2. keys[c] # <<>>
    BY <1>3
  <2>3. pos[c] = Len(keys[c]) /\ Served(c, pos[c])
    BY <1>3, <2>2 DEF DeliveryInv, TasksAtKey
  <2>4. p \in 1..(pos[c] - 1) \/ p = pos[c]
    BY <2>1, <2>3
  <2> QED
    BY <1>1, <2>3, <2>4
<1>4. outcome[c] = "swallowed" => CallOf[c].op = "power"
  BY DEF DeliveryInv, TasksAtKey
<1> QED
  BY <1>1, <1>2, <1>3, <1>4

(* A receiver that wants authorization and gives every answer a result     *)
(* leaves nothing out in an answer that is read as success.                *)
Conforming == Faults \cap {"no_auth", "no_result"} = {}

(* With it, a service call that succeeds has had all its keys executed.    *)
SuccessIsExecution ==
  \A c \in Calls : outcome[c] = "ok" => \A p \in DOMAIN keys[c] : Typed(c, p)

THEOREM SuccessMeansExecuted == Conforming /\ Spec => []SuccessIsExecution
<1> SUFFICES ASSUME Conforming
             PROVE  Spec => []SuccessIsExecution
  OBVIOUS
<1>1. Init => skipped = {}
  BY DEF Init
<1>2. skipped = {} /\ [Next]_vars => (skipped = {})'
  <2> SUFFICES ASSUME skipped = {}, [Next]_vars
               PROVE  skipped' = skipped
    OBVIOUS
  <2>1. ASSUME NEW r \in net, Serve(r)
        PROVE  skipped' = skipped
    BY <2>1 DEF Serve, ServeFirst, ServeSecond, Execute, Conforming
  <2>2. ASSUME NEW c \in Calls, Resume(c) \/ Call(c) \/ LaunchPost(c) \/ Cancel(c)
        PROVE  skipped' = skipped
    BY <2>2 DEF Resume, SendKey, Acquire, ReadChallenge, ReadResult, GiveUp, LaunchEnd,
                Call, LaunchPost, Cancel, box, receiver
  <2>3. ASSUME NEW t \in Transports, async_close(t) \/ Revoke(t)
        PROVE  skipped' = skipped
    BY <2>3 DEF async_close, Revoke, box, receiver
  <2>4. CASE UNCHANGED vars
    BY <2>4 DEF vars, box, receiver
  <2> QED
    BY <2>1, <2>2, <2>3, <2>4 DEF Next
<1>3. PrefixTyped /\ skipped = {} => SuccessIsExecution
  BY DEF PrefixTyped, SuccessIsExecution, Served
<1> QED
  BY <1>1, <1>2, <1>3, KeysArePrefix, PTL DEF Spec

-----------------------------------------------------------------------------
(* A tune that nobody interrupts is exact. *)

(* The receiver executes keys of plans only. *)
ExecutedKeys == \A i \in DOMAIN typed : typed[i].pos \in DOMAIN keys[typed[i].cmd]

LEMMA NextExecutedKeys == TypeOK /\ DeliveryInv /\ ExecutedKeys /\ [Next]_vars => ExecutedKeys'
<1> SUFFICES ASSUME TypeOK, DeliveryInv, ExecutedKeys, [Next]_vars
             PROVE  ExecutedKeys'
  OBVIOUS
<1> USE DEF ExecutedKeys
<1>1. CASE UNCHANGED typed
  BY <1>1
<1>2. ASSUME NEW r \in net, Serve(r)
      PROVE  ExecutedKeys'
  <2>1. r.pos \in DOMAIN keys[r.cmd]
    BY DEF DeliveryInv, RequestsCurrent
  <2>2. CASE UNCHANGED typed
    BY <2>2
  <2>3. CASE Execute(r)
    <3>1. typed \in Seq([cmd : Calls, pos : Nat \ {0}])
      BY DEF TypeOK
    <3> DEFINE e == Entry(r)
    <3>2. typed' = Append(typed, e) /\ e.cmd = r.cmd /\ e.pos = r.pos
      BY <2>3 DEF Execute, Entry
    <3> HIDE DEF e
    <3>3. \A i \in DOMAIN typed' : typed'[i] = e \/ (i \in DOMAIN typed /\ typed'[i] = typed[i])
      BY <3>1, <3>2
    <3> QED
      BY <2>1, <3>2, <3>3
  <2> QED
    BY <1>2, <2>2, <2>3, ServeCases DEF Skip
<1>3. ASSUME NEW c \in Calls, Resume(c) \/ Call(c) \/ LaunchPost(c) \/ Cancel(c)
      PROVE  UNCHANGED typed
  BY <1>3 DEF Resume, SendKey, Acquire, ReadChallenge, ReadResult, GiveUp, LaunchEnd,
              Call, LaunchPost, Cancel, box, receiver
<1>4. ASSUME NEW t \in Transports, async_close(t) \/ Revoke(t)
      PROVE  UNCHANGED typed
  BY <1>4 DEF async_close, Revoke, box, receiver
<1>5. CASE UNCHANGED vars
  BY <1>1, <1>5 DEF vars, box, receiver
<1> QED
  BY <1>1, <1>2, <1>3, <1>4, <1>5 DEF Next

LEMMA Executes == Spec => [](TypeOK /\ DeliveryInv /\ ExecutedKeys)
<1>1. Init => ExecutedKeys
  BY DEF Init, ExecutedKeys
<1> QED
  BY <1>1, NextExecutedKeys, Delivers, PTL DEF Spec

(* The last key of a tune is its only Enter. *)
LEMMA EnterIsLast ==
  ASSUME NEW c \in Calls, CallOf[c].op = "tune",
         NEW p \in DOMAIN keys[c], keys[c][p] = "Enter"
  PROVE  p = Len(keys[c])
<1> DEFINE channel == CallOf[c].channel
           digits == [i \in DOMAIN channel |-> DIGIT_KEYS[channel[i]]]
<1>1. IsCall(CallOf[c]) /\ keys[c] = Plan(CallOf[c])
  BY TransportAssumption DEF keys
<1>2. channel \in Seq(STRING)
  BY <1>1 DEF IsCall
<1>3. Valid(channel) /\ keys[c] = Append(digits, "Enter")
  BY <1>1 DEF Plan, channel_to_keys
<1>4. \A char \in DOMAIN DIGIT_KEYS : DIGIT_KEYS[char] # "Enter"
  BY DEF DIGIT_KEYS, Digits
<1>5. \A i \in DOMAIN channel : digits[i] # "Enter"
  BY <1>3, <1>4 DEF Valid
<1>6. digits \in Seq({digits[i] : i \in DOMAIN channel}) /\ Len(digits) = Len(channel)
  BY <1>2
<1>7. \A i \in DOMAIN keys[c] : i # Len(keys[c]) => i \in DOMAIN channel /\ keys[c][i] = digits[i]
  <2> HIDE DEF digits
  <2> QED
    BY <1>2, <1>3, <1>6
<1> QED
  BY <1>5, <1>7

(* A set of numbers with zero and with the successors of its members. *)
LEMMA Successors ==
  ASSUME NEW S \in SUBSET Nat, 0 \in S, \A n \in S : n + 1 \in S
  PROVE  S = Nat
<1> DEFINE T == Nat \ S
<1> SUFFICES ASSUME T # {}
             PROVE  FALSE
  OBVIOUS
<1>1. \E x \in T : \A y \in T : ~(<<y, x>> \in OpToRel(<, Nat))
  BY NatLessThanWellFounded, WFMin
<1>2. PICK x \in T : \A y \in T : ~(y < x)
  BY <1>1 DEF OpToRel
<1>3. x \in Nat /\ x # 0
  BY <1>2
<1>4. x - 1 \in Nat /\ x - 1 < x /\ (x - 1) + 1 = x
  BY <1>3
<1>5. x - 1 \in S
  BY <1>2, <1>4
<1> QED
  BY <1>2, <1>4, <1>5

(* Up to the j-th key executed, once a key of its call was, no key of      *)
(* another call was executed.                                              *)
Uninterrupted(j) ==
  \A i, k \in 1..j : i < k /\ typed[i].cmd = typed[j].cmd => typed[k].cmd = typed[j].cmd

(* The receiver left out no key of the call. *)
Whole(c) == \A s \in skipped : s.cmd # c

(* Then the keys just before it are the ones before it in its plan.        *)
LEMMA Consecutive ==
  ASSUME TypeOK, DeliveryInv, NEW j \in DOMAIN typed, Uninterrupted(j),
         Whole(typed[j].cmd),
         NEW n \in Nat, n < typed[j].pos
  PROVE  j - n >= 1 /\ typed[j - n] = [cmd |-> typed[j].cmd, pos |-> typed[j].pos - n]
<1> DEFINE c == typed[j].cmd
           last == typed[j].pos
           Here(m) == m < last => j - m >= 1 /\ typed[j - m] = [cmd |-> c, pos |-> last - m]
           S == {m \in Nat : Here(m)}
<1>1. typed \in Seq([cmd : Calls, pos : Nat \ {0}])
  BY DEF TypeOK
<1>2. DOMAIN typed = 1..Len(typed) /\ Len(typed) \in Nat
  BY <1>1
<1>3. \A i \in DOMAIN typed :
        typed[i].cmd \in Calls /\ typed[i].pos \in Nat
        /\ typed[i] = [cmd |-> typed[i].cmd, pos |-> typed[i].pos]
  BY TypedEntries
<1>4. c \in Calls /\ last \in Nat /\ j \in Nat /\ j >= 1 /\ j <= Len(typed)
  BY <1>2, <1>3
<1>5. last <= pos[c] /\ pos[c] \in Nat
  BY <1>4 DEF DeliveryInv, TypedOK, TypeOK
<1>6. \A i, k \in DOMAIN typed :
        i < k /\ typed[i].cmd = typed[k].cmd => typed[i].pos < typed[k].pos
  BY DEF DeliveryInv, TypedOK
<1>7. 0 \in S
  BY <1>3, <1>4
<1>8. ASSUME NEW m \in S, m + 1 < last
      PROVE  j - (m + 1) >= 1 /\ typed[j - (m + 1)] = [cmd |-> c, pos |-> last - (m + 1)]
  <2> DEFINE p == last - (m + 1)
             k == j - m
  <2>1. m \in Nat /\ m < last
    BY <1>4, <1>8
  <2>2. k >= 1 /\ typed[k] = [cmd |-> c, pos |-> last - m]
    BY <1>8, <2>1
  <2>3. k \in DOMAIN typed /\ k <= j
    BY <1>2, <1>4, <2>1, <2>2
  <2>4. p \in 1..(pos[c] - 1)
    BY <1>4, <1>5, <1>8, <2>1
  <2>5. Typed(c, p)
    BY <1>4, <2>4 DEF DeliveryInv, TasksAtKey, Served, Whole
  <2>6. PICK i \in DOMAIN typed : typed[i] = [cmd |-> c, pos |-> p]
    BY <2>5 DEF Typed
  <2>7. typed[i].cmd = c /\ typed[i].pos = p /\ typed[k].cmd = c /\ typed[k].pos = last - m
    BY <2>2, <2>6
  <2>8. p \in Nat /\ p + 1 = last - m
    BY <1>4, <1>8, <2>1
  <2>9. i < k
    <3>1. i # k
      BY <2>7, <2>8
    <3>2. ~(k < i)
      BY <1>6, <2>3, <2>7, <2>8
    <3> QED
      BY <1>2, <2>3, <3>1, <3>2
  <2>10. CASE i = k - 1
    BY <1>2, <2>6, <2>10, <1>4, <2>1
  <2>11. CASE i # k - 1
    <3>1. i < k - 1 /\ k - 1 \in 1..j /\ i \in 1..j /\ k - 1 \in DOMAIN typed
      BY <1>2, <1>4, <2>3, <2>9, <2>11
    <3>2. typed[k - 1].cmd = c
      BY <2>7, <3>1 DEF Uninterrupted
    <3>3. p < typed[k - 1].pos
      BY <1>6, <2>7, <3>1, <3>2
    <3>4. k - 1 < k
      BY <1>4, <2>1
    <3>5. typed[k - 1].pos < typed[k].pos
      BY <1>6, <2>3, <2>7, <3>1, <3>2, <3>4
    <3>6. typed[k - 1].pos \in Nat
      BY <1>3, <3>1
    <3> QED
      BY <2>7, <2>8, <3>3, <3>5, <3>6
  <2> QED
    BY <2>10, <2>11
<1>9. \A m \in S : m + 1 \in S
  <2> TAKE m \in S
  <2>1. m + 1 \in Nat
    OBVIOUS
  <2>2. Here(m + 1)
    BY <1>8
  <2> QED
    BY <2>1, <2>2
<1>10. S = Nat
  <2>1. S \in SUBSET Nat
    OBVIOUS
  <2> HIDE DEF S
  <2> QED
    BY <1>7, <1>9, <2>1, Successors
<1> QED
  BY <1>10

(* A tune is exact at a place where its keys are not interrupted. *)
ExactAt(j) ==
  LET c == typed[j].cmd IN
  CallOf[c].op = "tune" /\ KeyOf(typed[j]) = "Enter" =>
    \A i \in 1..Len(keys[c]) :
      /\ j - Len(keys[c]) + i >= 1
      /\ typed[j - Len(keys[c]) + i] = [cmd |-> c, pos |-> i]

LEMMA ExactWhereUninterrupted ==
  ASSUME TypeOK, DeliveryInv, ExecutedKeys, NEW j \in DOMAIN typed, Uninterrupted(j),
         Whole(typed[j].cmd)
  PROVE  ExactAt(j)
<1> DEFINE c == typed[j].cmd
           last == typed[j].pos
<1> SUFFICES ASSUME CallOf[c].op = "tune", keys[c][last] = "Enter", NEW i \in 1..Len(keys[c])
             PROVE  /\ j - Len(keys[c]) + i >= 1
                    /\ typed[j - Len(keys[c]) + i] = [cmd |-> c, pos |-> i]
  BY DEF ExactAt, KeyOf
<1>1. c \in Calls /\ last \in Nat /\ last \in DOMAIN keys[c]
  BY TypedEntries DEF ExecutedKeys
<1>2. last = Len(keys[c])
  BY <1>1, EnterIsLast
<1>3. j \in Nat /\ i \in Nat /\ i >= 1 /\ i <= last
  <2>1. typed \in Seq([cmd : Calls, pos : Nat \ {0}])
    BY DEF TypeOK
  <2>2. DOMAIN typed \subseteq Nat
    BY <2>1
  <2>3. i \in 1..last
    BY <1>2
  <2> QED
    BY <1>1, <2>2, <2>3
<1> DEFINE n == last - i
<1>4. n \in Nat /\ n < last /\ j - n = j - last + i /\ last - n = i
  BY <1>1, <1>3
<1>5. j - n >= 1 /\ typed[j - n] = [cmd |-> c, pos |-> last - n]
  BY <1>4, Consecutive
<1> QED
  BY <1>2, <1>4, <1>5

(* Whatever fails, and however requests are late: the Enter of a tune      *)
(* enters that tune's channel unless a key of another call came between    *)
(* two keys of the tune, or the receiver left one of them out without the  *)
(* call being told.  What sgs_interleave shows is the only other way to go *)
(* wrong.                                                                  *)
UninterruptedTunes ==
  \A j \in DOMAIN typed : Uninterrupted(j) /\ Whole(typed[j].cmd) => ExactAt(j)

THEOREM ExactUnlessInterrupted == Spec => []UninterruptedTunes
<1>1. TypeOK /\ DeliveryInv /\ ExecutedKeys => UninterruptedTunes
  BY ExactWhereUninterrupted DEF UninterruptedTunes
<1> QED
  BY <1>1, Executes, PTL

(* If only one call sends keys, nothing interrupts it: its tune is exact,  *)
(* unless the receiver left out one of its keys.                           *)
OneSender == \A c, d \in Calls : keys[c] # <<>> /\ keys[d] # <<>> => c = d

WholeTunes == \A j \in DOMAIN typed : Whole(typed[j].cmd) => ExactAt(j)

THEOREM LoneTuneIsExact == OneSender /\ Spec => []WholeTunes
<1> SUFFICES ASSUME OneSender
             PROVE  Spec => []WholeTunes
  OBVIOUS
<1>1. TypeOK /\ DeliveryInv /\ ExecutedKeys => WholeTunes
  <2> SUFFICES ASSUME TypeOK, DeliveryInv, ExecutedKeys, NEW j \in DOMAIN typed,
                      Whole(typed[j].cmd)
               PROVE  ExactAt(j)
    BY DEF WholeTunes
  <2>1. typed \in Seq([cmd : Calls, pos : Nat \ {0}])
    BY DEF TypeOK
  <2>2. \A i \in 1..j : i \in DOMAIN typed
    BY <2>1
  <2>3. \A i \in DOMAIN typed : typed[i].cmd \in Calls /\ keys[typed[i].cmd] # <<>>
    BY TypedEntries DEF ExecutedKeys
  <2>4. \A i \in 1..j : typed[i].cmd = typed[j].cmd
    BY <2>2, <2>3 DEF OneSender
  <2> QED
    BY <2>4, ExactWhereUninterrupted DEF Uninterrupted
<1> QED
  BY <1>1, Executes, PTL

-----------------------------------------------------------------------------
(* "credentials rejected" is told only of a pairing the receiver forgot.   *)

(* What keeps the nonce of an exchange alive until it is spent: a nonce a  *)
(* challenge brought or a request carries is the call's own and, unless a  *)
(* given-up request was served during the exchange, still honoured; and an *)
(* answer that denies comes of a pairing that is no longer valid.          *)
OwnNonce(c, nonce) == nonce = <<c, pos[c]>> /\ nonce \in live

AnswerKept(c) ==
  reply[c] # NoReply =>
    /\ reply[c].kind = "challenge" => OwnNonce(c, reply[c].nonce)
    /\ reply[c].kind = "denied" => creds[TransportOf[c]] # "valid"

NoncesNamed ==
  /\ \A r \in net : r.nonce \in {NoNonce, <<r.cmd, r.pos>>}
  /\ \A c \in Calls : reply[c] # NoReply /\ reply[c].kind = "challenge" =>
                        reply[c].nonce = <<c, pos[c]>>

NonceKept ==
  /\ NoncesNamed
  /\ \A r \in net : InExchange(r.cmd) /\ r.cmd \notin overtaken /\ r.nonce # NoNonce =>
                      OwnNonce(r.cmd, r.nonce)
  /\ \A c \in Calls \ overtaken : AnswerKept(c)
  /\ NoSpuriousRepair

(* The step in which a call ends, or goes on to its next key.              *)
LEMMA MovedNonceKept ==
  ASSUME NonceKept, TypeOK, NEW c \in Calls, net' = net, overtaken' = overtaken,
         \A d \in Calls \ {c} : /\ pc'[d] = pc[d] /\ pos'[d] = pos[d]
                                /\ reply'[d] = reply[d] /\ outcome'[d] = outcome[d],
         pc'[c] \notin {"challenge", "auth"},
         reply'[c] = NoReply, live' = live, creds' = creds,
         outcome'[c] = "pairing_required" /\ c \notin overtaken =>
           creds[TransportOf[c]] # "valid"
  PROVE  NonceKept'
<1>1. \A r \in net : r.cmd \in Calls
  BY DEF TypeOK, Requests
<1>2. \A r \in net' : InExchange(r.cmd)' /\ r.cmd \notin overtaken' /\ r.nonce # NoNonce =>
                        OwnNonce(r.cmd, r.nonce)'
  BY <1>1 DEF NonceKept, InExchange, OwnNonce
<1>3. \A d \in Calls \ overtaken' : AnswerKept(d)'
  BY DEF NonceKept, AnswerKept, OwnNonce
<1>4. NoSpuriousRepair'
  BY DEF NonceKept, NoSpuriousRepair
<1>5. NoncesNamed'
  BY DEF NonceKept, NoncesNamed
<1> QED
  BY <1>2, <1>3, <1>4, <1>5 DEF NonceKept

LEMMA EndedNonceKept ==
  ASSUME NonceKept, TypeOK, NEW c \in Calls, NEW how,
         Finish(c, how), net' = net, overtaken' = overtaken,
         reply' = [reply EXCEPT ![c] = NoReply] \/ (reply[c] = NoReply /\ reply' = reply),
         how = "pairing_required" /\ c \notin overtaken => creds[TransportOf[c]] # "valid",
         live' = live, creds' = creds
  PROVE  NonceKept'
<1>1. /\ \A d \in Calls \ {c} : /\ pc'[d] = pc[d] /\ pos'[d] = pos[d]
                                /\ outcome'[d] = outcome[d] /\ reply'[d] = reply[d]
      /\ pc'[c] = "done" /\ reply'[c] = NoReply /\ outcome'[c] = how
  BY DEF Finish, TypeOK
<1> QED
  BY <1>1, MovedNonceKept

(* A request is sent without authorization, or with the nonce of the       *)
(* challenge that was read.                                                *)
LEMMA PostNonceKept ==
  ASSUME NonceKept, TypeOK, NEW c \in Calls, NEW nonce, NEW place \in {"challenge", "auth"},
         nonce \in {NoNonce, <<c, pos[c]>>},
         nonce # NoNonce /\ c \notin overtaken => OwnNonce(c, nonce),
         \A r \in net : r.cmd # c,
         pc' = [pc EXCEPT ![c] = place], net' = net \cup {Request(c, nonce)},
         reply' = [reply EXCEPT ![c] = NoReply] \/ (reply[c] = NoReply /\ reply' = reply),
         UNCHANGED <<pos, outcome, live, creds, overtaken>>
  PROVE  NonceKept'
<1>1. /\ pc'[c] = place /\ \A d \in Calls \ {c} : pc'[d] = pc[d]
      /\ reply'[c] = NoReply /\ \A d \in Calls \ {c} : reply'[d] = reply[d]
  BY DEF TypeOK
<1>2. \A r \in net : r.cmd \in Calls \ {c}
  BY DEF TypeOK, Requests
<1>3. \A d \in Calls : \A n : OwnNonce(d, n)' <=> OwnNonce(d, n)
  BY DEF OwnNonce
<1>4. \A r \in net' : InExchange(r.cmd)' /\ r.cmd \notin overtaken' /\ r.nonce # NoNonce =>
                        OwnNonce(r.cmd, r.nonce)'
  BY <1>1, <1>2, <1>3 DEF NonceKept, InExchange, Request
<1>5. \A d \in Calls \ overtaken' : AnswerKept(d)'
  BY <1>1 DEF NonceKept, AnswerKept, OwnNonce
<1>6. NoSpuriousRepair'
  BY DEF NonceKept, NoSpuriousRepair
<1>7. NoncesNamed'
  BY <1>1 DEF NonceKept, NoncesNamed, Request
<1> QED
  BY <1>4, <1>5, <1>6, <1>7 DEF NonceKept

(* Calls that void each other's nonces are calls of one transport. *)
OneBoxOneEntry == OneNonce => \A c, d \in Calls : TransportOf[c] = TransportOf[d]

(* A request that its sender gave up is served: whoever is in its exchange *)
(* is overtaken.                                                           *)
LEMMA LateServeNonceKept ==
  ASSUME NonceKept, TypeOK, DeliveryInv, NEW r \in net, Serve(r), ~InExchange(r.cmd)
  PROVE  NonceKept'
<1>1. /\ UNCHANGED <<pc, pos, outcome, creds>> /\ net' \subseteq net
      /\ overtaken' = overtaken \cup {c \in Calls : InExchange(c)}
  BY DEF Serve, client
<1>2. reply' = reply
  <2>1. ~Awaited(r)
    BY DEF Awaited, InExchange
  <2>2. ASSUME NEW kind, NEW nonce, Answer(r, kind, nonce)
        PROVE  reply' = reply
    BY <2>1, <2>2 DEF Answer, TypeOK
  <2> QED
    BY <2>2, ServeCases
<1>3. \A c \in Calls \ overtaken' : ~InExchange(c) /\ reply'[c] = NoReply
  BY <1>1, <1>2 DEF DeliveryInv, RepliesTruthful
<1>4. \A q \in net' : q.cmd \in Calls /\ (InExchange(q.cmd)' => InExchange(q.cmd))
  BY <1>1 DEF TypeOK, Requests, InExchange
<1> QED
  BY <1>1, <1>2, <1>3, <1>4 DEF NonceKept, NoncesNamed, AnswerKept, NoSpuriousRepair

LEMMA ServeNonceKept ==
  ASSUME OneBoxOneEntry, NonceKept, TypeOK, LockOwned, DeliveryInv, NEW r \in net, Serve(r),
         InExchange(r.cmd)
  PROVE  NonceKept'
<1> DEFINE c == r.cmd
           fresh == <<c, pos[c]>>
<1>1. /\ c \in Calls /\ r.pos = pos[c] /\ reply[c] = NoReply /\ InExchange(c)
      /\ \A q \in net : q.cmd = c => q = r
      /\ r.nonce # NoNonce => r.nonce = fresh
      /\ r.nonce # NoNonce /\ c \notin overtaken => r.nonce \in live
  BY DEF DeliveryInv, RequestsCurrent, TypeOK, Requests, NonceKept, NoncesNamed, OwnNonce
<1>2. UNCHANGED <<pc, pos, outcome, creds, overtaken>> /\ net' = net \ {r}
  BY DEF Serve, client
<1>3. \A d \in Calls \ {c} : reply'[d] = reply[d]
  <2>1. ASSUME NEW kind, NEW nonce, Answer(r, kind, nonce)
        PROVE  \A d \in Calls \ {c} : reply'[d] = reply[d]
    BY <1>1, <2>1 DEF Answer, TypeOK
  <2> QED
    BY <2>1, ServeCases
<1>4. ASSUME NEW d \in Calls \ {c}, NEW n, InExchange(d), OwnNonce(d, n)
      PROVE  n = <<d, pos'[d]>> /\ n \in live'
  <2>1. n # fresh /\ n \in live
    BY <1>4 DEF OwnNonce
  <2>2. CASE OneNonce
    BY <1>1, <1>4, <2>2 DEF OneBoxOneEntry, LockOwned
  <2>3. CASE ~OneNonce
    <3>1. \/ live' = live \cup {<<r.cmd, r.pos>>}
          \/ live' = live
          \/ r.nonce = fresh /\ live' = live \ {r.nonce}
      BY <1>1, <2>3 DEF Serve, ServeFirst, ServeSecond
    <3> QED
      BY <1>2, <1>4, <2>1, <3>1 DEF OwnNonce
  <2> QED
    BY <2>2, <2>3
<1>5. ASSUME NEW q \in net', InExchange(q.cmd)', q.cmd \notin overtaken', q.nonce # NoNonce
      PROVE  OwnNonce(q.cmd, q.nonce)'
  <2>1. q \in net /\ q.cmd \in Calls \ {c}
    BY <1>1, <1>2 DEF TypeOK, Requests
  <2>2. InExchange(q.cmd)
    BY <1>2, <1>5 DEF InExchange
  <2>3. OwnNonce(q.cmd, q.nonce)
    BY <1>2, <1>5, <2>1, <2>2 DEF NonceKept
  <2> QED
    BY <1>4, <2>1, <2>2, <2>3 DEF OwnNonce
<1>6. ASSUME NEW d \in Calls \ {c}, d \notin overtaken
      PROVE  AnswerKept(d)'
  <2>1. CASE reply[d] = NoReply
    BY <1>3, <2>1 DEF AnswerKept
  <2>2. CASE reply[d] # NoReply
    <3>1. InExchange(d) /\ AnswerKept(d)
      BY <1>6, <2>2 DEF DeliveryInv, RepliesTruthful, NonceKept
    <3>2. reply[d].kind = "challenge" => OwnNonce(d, reply[d].nonce)'
      <4> SUFFICES ASSUME reply[d].kind = "challenge"
                   PROVE  reply[d].nonce = <<d, pos'[d]>> /\ reply[d].nonce \in live'
        BY <1>3 DEF OwnNonce
      <4>1. OwnNonce(d, reply[d].nonce)
        BY <2>2, <3>1 DEF AnswerKept
      <4> QED
        BY <1>4, <3>1, <4>1
    <3> QED
      BY <1>2, <1>3, <2>2, <3>1, <3>2 DEF AnswerKept
  <2> QED
    BY <2>1, <2>2
(* What the answer of this call may be. *)
<1>7. ASSUME NEW kind, NEW nonce, Answer(r, kind, nonce), reply'[c] # NoReply
      PROVE  reply'[c].kind = kind /\ reply'[c].nonce = nonce
  BY <1>1, <1>7 DEF Answer, TypeOK
<1>8. ASSUME reply'[c] # NoReply
      PROVE  /\ reply'[c].kind = "challenge" => reply'[c].nonce = fresh /\ fresh \in live'
             /\ reply'[c].kind = "denied" =>
                  ~(r.nonce # NoNonce /\ r.nonce \in live /\ creds[TransportOf[c]] = "valid")
                  /\ r.nonce # NoNonce
  <2>1. CASE ServeFirst(r)
    <3>1. reply'[c].kind # "denied"
      BY <1>7, <1>8, <2>1 DEF ServeFirst
    <3>2. CASE reply'[c].kind = "challenge"
      <4>1. Answer(r, "challenge", fresh) /\ fresh \in live'
        <5>1. \A kind \in {"ok", "rejected"} : \A nonce : ~Answer(r, kind, nonce)
          BY <1>7, <1>8, <3>2
        <5>2. \A fault \in {"redirect", "http_error", "not_digest", "no_nonce"} :
                ~Answer(r, fault, NoNonce)
          BY <1>7, <1>8, <3>2
        <5> QED
          BY <1>1, <2>1, <5>1, <5>2 DEF ServeFirst
      <4> QED
        BY <1>7, <1>8, <3>2, <4>1
    <3> QED
      BY <3>1, <3>2
  <2>2. CASE ServeSecond(r)
    <3>1. reply'[c].kind # "challenge"
      BY <1>7, <1>8, <2>2 DEF ServeSecond
    <3>2. ASSUME reply'[c].kind = "denied"
          PROVE  ~(r.nonce \in live /\ creds[TransportOf[c]] = "valid") /\ r.nonce # NoNonce
      <4>1. \A kind \in {"ok", "no_result", "http_error", "rejected"} :
              ~Answer(r, kind, NoNonce)
        BY <1>7, <1>8, <3>2
      <4> QED
        BY <2>2, <4>1 DEF ServeSecond
    <3> QED
      BY <3>1, <3>2
  <2> QED
    BY <2>1, <2>2 DEF Serve
<1>9. c \notin overtaken => AnswerKept(c)'
  BY <1>1, <1>2, <1>8 DEF AnswerKept, OwnNonce
<1>10. NoncesNamed'
  <2>1. \A d \in Calls \ {c} : reply'[d] # NoReply /\ reply'[d].kind = "challenge" =>
                                 reply'[d].nonce = <<d, pos'[d]>>
    BY <1>2, <1>3 DEF NonceKept, NoncesNamed
  <2> QED
    BY <1>2, <1>8, <2>1 DEF NonceKept, NoncesNamed
<1>11. NoSpuriousRepair'
  BY <1>2 DEF NonceKept, NoSpuriousRepair
<1> QED
  BY <1>2, <1>5, <1>6, <1>9, <1>10, <1>11 DEF NonceKept

LEMMA NextNonceKept ==
  ASSUME OneBoxOneEntry, TypeOK, LockOwned, DeliveryInv, NonceKept, [Next]_vars
  PROVE  NonceKept'
<1>0. ASSUME NEW c \in Calls, FirstPost(c), pc[c] \in {"ready", "waiting"},
             UNCHANGED <<reply, live, creds, overtaken>>
      PROVE  NonceKept'
  <2>1. Quiet(c)
    BY <1>0, QuietOutsideExchange
  <2>2. CASE session[TransportOf[c]]
    BY <1>0, <2>1, <2>2, PostNonceKept DEF FirstPost, Quiet
  <2>3. CASE ~session[TransportOf[c]]
    BY <1>0, <2>1, <2>3, EndedNonceKept DEF FirstPost, Quiet
  <2> QED
    BY <2>2, <2>3
<1>1. ASSUME NEW c \in Calls, SendKey(c)
      PROVE  NonceKept'
  <2>1. Quiet(c) /\ pc[c] = "ready" /\ UNCHANGED <<reply, live, creds, overtaken>>
    BY <1>1, QuietOutsideExchange DEF SendKey, receiver
  <2>2. CASE UNCHANGED net /\ (Raise(c, "transport_error")
               \/ (Raise(c, "pairing_required") /\ creds[TransportOf[c]] = "none"))
    BY <2>1, <2>2, EndedNonceKept DEF Quiet, Raise
  <2>3. CASE pc' = [pc EXCEPT ![c] = "waiting"] /\ UNCHANGED <<pos, outcome, net>>
    <3>1. pc'[c] = "waiting" /\ \A d \in Calls \ {c} : pc'[d] = pc[d]
      BY <2>3 DEF TypeOK
    <3>2. outcome'[c] = "pairing_required" /\ c \notin overtaken =>
            creds[TransportOf[c]] # "valid"
      BY <2>3 DEF NonceKept, NoSpuriousRepair
    <3> QED
      BY <2>1, <2>3, <3>1, <3>2, MovedNonceKept DEF Quiet
  <2>4. CASE FirstPost(c)
    BY <1>0, <2>1, <2>4
  <2> QED
    BY <1>1, <2>1, <2>2, <2>3, <2>4 DEF SendKey
<1>2. ASSUME NEW c \in Calls, Acquire(c)
      PROVE  NonceKept'
  BY <1>0, <1>2 DEF Acquire, receiver
<1>3. ASSUME NEW c \in Calls, KeyDone(c), InExchange(c),
             UNCHANGED <<net, live, creds, overtaken>>,
             reply' = [reply EXCEPT ![c] = NoReply]
      PROVE  NonceKept'
  <2>1. CASE pos[c] < Len(keys[c])
    <3>1. outcome' = outcome /\ pos' = [pos EXCEPT ![c] = pos[c] + 1]
          /\ pc' = [pc EXCEPT ![c] = "ready"]
      BY <1>3, <2>1 DEF KeyDone
    <3>2. \A d \in Calls \ {c} : /\ pc'[d] = pc[d] /\ pos'[d] = pos[d]
                                 /\ outcome'[d] = outcome[d] /\ reply'[d] = reply[d]
      BY <1>3, <3>1 DEF TypeOK
    <3>3. reply'[c] = NoReply /\ pc'[c] = "ready"
      BY <1>3, <3>1 DEF TypeOK
    <3>4. outcome'[c] = "pairing_required" /\ c \notin overtaken =>
            creds[TransportOf[c]] # "valid"
      BY <3>1 DEF NonceKept, NoSpuriousRepair
    <3> QED
      BY <1>3, <3>2, <3>3, <3>4, MovedNonceKept
  <2>2. CASE ~(pos[c] < Len(keys[c]))
    BY <1>3, <2>2, EndedNonceKept DEF KeyDone
  <2> QED
    BY <2>1, <2>2
<1>4. ASSUME NEW c \in Calls, ReadChallenge(c) \/ ReadResult(c)
      PROVE  NonceKept'
  <2>1. /\ InExchange(c) /\ \A r \in net : r.cmd # c
        /\ reply[c] # NoReply /\ reply' = [reply EXCEPT ![c] = NoReply]
        /\ UNCHANGED <<live, creds, overtaken>>
    BY <1>4, QuietWhileReading DEF ReadChallenge, ReadResult, InExchange, receiver
  <2>2. CASE SecondPost(c, reply[c].nonce) /\ reply[c].kind = "challenge"
    <3>1. /\ reply[c].nonce = <<c, pos[c]>>
          /\ c \notin overtaken => OwnNonce(c, reply[c].nonce)
      BY <2>1, <2>2 DEF NonceKept, NoncesNamed, AnswerKept
    <3>2. CASE session[TransportOf[c]]
      BY <2>1, <2>2, <3>1, <3>2, PostNonceKept DEF SecondPost
    <3>3. CASE ~session[TransportOf[c]]
      BY <2>1, <2>2, <3>3, EndedNonceKept DEF SecondPost
    <3> QED
      BY <3>2, <3>3
  <2>3. CASE KeyDone(c) /\ UNCHANGED net
    BY <1>3, <2>1, <2>3
  <2>4. CASE UNCHANGED net /\ (Raise(c, "transport_error") \/ Finish(c, "value_error")
               \/ (Raise(c, "pairing_required") /\ reply[c].kind = "denied"))
    <3>1. c \notin overtaken /\ reply[c].kind = "denied" => creds[TransportOf[c]] # "valid"
      BY <2>1 DEF NonceKept, AnswerKept
    <3> QED
      BY <2>1, <2>4, <3>1, EndedNonceKept DEF Raise
  <2> QED
    BY <1>4, <2>2, <2>3, <2>4 DEF ReadChallenge, ReadResult
<1>5. ASSUME NEW c \in Calls, GiveUp(c) \/ Cancel(c)
      PROVE  NonceKept'
  <2>1. /\ Raise(c, "transport_error") \/ Finish(c, "cancelled")
        /\ reply' = [reply EXCEPT ![c] = NoReply]
        /\ UNCHANGED <<net, live, creds, overtaken>>
    BY <1>5 DEF GiveUp, Cancel, receiver
  <2> QED
    BY <2>1, EndedNonceKept DEF Raise
<1>6. ASSUME NEW c \in Calls, LaunchEnd(c) \/ Call(c) \/ LaunchPost(c)
      PROVE  NonceKept'
  <2>1. Quiet(c) /\ UNCHANGED <<net, reply, live, creds, overtaken, pos>>
    BY <1>6, QuietOutsideExchange
       DEF LaunchEnd, Call, LaunchPost, Raise, Finish, box, receiver
  <2>2. /\ \A d \in Calls \ {c} : pc'[d] = pc[d] /\ outcome'[d] = outcome[d]
        /\ outcome'[c] = outcome[c] \/ outcome'[c] # "pairing_required"
        /\ pc'[c] \in {"ready", "launch", "done"}
    BY <1>6 DEF LaunchEnd, Call, LaunchPost, Raise, Finish, TypeOK
  <2>3. outcome'[c] = "pairing_required" /\ c \notin overtaken =>
          creds[TransportOf[c]] # "valid"
    BY <2>2 DEF NonceKept, NoSpuriousRepair
  <2> QED
    BY <2>1, <2>2, <2>3, MovedNonceKept DEF Quiet
<1>7. CASE (\E t \in Transports : async_close(t) \/ Revoke(t)) \/ UNCHANGED vars
  <2>1. UNCHANGED <<pc, pos, outcome, net, reply, live, overtaken>>
    BY <1>7 DEF async_close, Revoke, client, box, receiver, vars
  <2>2. \A t \in Transports : creds[t] # "valid" => creds'[t] # "valid"
    BY <1>7 DEF async_close, Revoke, client, vars, TypeOK
  <2>3. \A c \in Calls : TransportOf[c] \in Transports
    BY TransportAssumption
  <2>4. \A d \in Calls : \A n : OwnNonce(d, n)' <=> OwnNonce(d, n)
    BY <2>1 DEF OwnNonce
  <2>5. \A r \in net : r.cmd \in Calls
    BY DEF TypeOK, Requests
  <2> QED
    BY <2>1, <2>2, <2>3, <2>4, <2>5
       DEF NonceKept, NoncesNamed, AnswerKept, InExchange, NoSpuriousRepair
<1>8. ASSUME NEW r \in net, Serve(r)
      PROVE  NonceKept'
  BY <1>8, ServeNonceKept, LateServeNonceKept
<1> QED
  BY <1>1, <1>2, <1>4, <1>5, <1>6, <1>7, <1>8 DEF Next, Resume

(* "credentials rejected - re-pair" is reported only of a pairing that the *)
(* receiver forgot, unless a request that its sender gave up was served    *)
(* during the exchange, if the calls of a receiver that honours one nonce  *)
(* share one transport.                                                    *)
THEOREM OnlyDueRepairs == OneBoxOneEntry /\ Spec => []NoSpuriousRepair
<1> SUFFICES ASSUME OneBoxOneEntry
             PROVE  Spec => []NoSpuriousRepair
  OBVIOUS
<1>1. Init => NonceKept
  BY DEF Init, NonceKept, NoncesNamed, AnswerKept, NoSpuriousRepair
<1>2. TypeOK /\ LockOwned /\ DeliveryInv /\ NonceKept /\ [Next]_vars => NonceKept'
  BY NextNonceKept
<1>3. TypeOK /\ LockOwned /\ [Next]_vars => LockOwned'
  BY NextLockOwned
<1>4. NonceKept => NoSpuriousRepair
  BY DEF NonceKept
<1> QED
  BY <1>1, <1>2, <1>3, <1>4, InitLockOwned, Delivers, PTL DEF Spec

-----------------------------------------------------------------------------
(* The command path implements KeyDelivery. *)

StatusFn == [c \in Calls |-> Status(c)]
Returning == {c \in Calls : CallOf[c].op = "power"}

LEMMA InitDelivers == Init => Delivery!Init
  BY DEF Init, Delivery!Init, Status, Failures, TransportErrors

LEMMA StatusValues ==
  /\ "pending" \notin Failures /\ "ok" \notin Failures /\ "swallowed" \notin Failures
  /\ \A c : outcome[c] = "pending" <=> Status(c) = "pending"
  BY DEF Status, Failures, TransportErrors

(* A call's outcome is decided: its status changes and no other. *)
LEMMA StatusDecided ==
  ASSUME TypeOK, NEW c \in Calls, NEW how, outcome' = [outcome EXCEPT ![c] = how]
  PROVE  /\ how \in Failures => StatusFn' = [StatusFn EXCEPT ![c] = "failed"]
         /\ how \in {"ok", "swallowed"} => StatusFn' = [StatusFn EXCEPT ![c] = "ok"]
  BY StatusValues DEF StatusFn, Status, TypeOK

(* The step in which a call fails, or returns regardless. *)
LEMMA FailDelivers ==
  ASSUME TypeOK, DeliveryInv, NEW c \in Calls, NEW how \in Failures \cup {"swallowed"},
         Finish(c, how), how = "swallowed" => CallOf[c].op = "power",
         pc[c] # "done", UNCHANGED <<typed, skipped>>
  PROVE  Delivery!Fail(c) \/ Delivery!Succeed(c)
<1>1. outcome[c] = "pending" /\ outcome' = [outcome EXCEPT ![c] = how] /\ pos' = pos
  BY DEF DeliveryInv, TasksAtKey, Finish
<1>2. StatusFn[c] = "pending"
  BY <1>1, StatusValues DEF StatusFn
<1>3. CASE how \in Failures
  <2>1. StatusFn' = [StatusFn EXCEPT ![c] = "failed"]
    BY <1>1, <1>3, StatusDecided
  <2> QED
    BY <1>1, <1>2, <2>1 DEF Delivery!Fail, StatusFn
<1>4. CASE how = "swallowed"
  <2>1. StatusFn' = [StatusFn EXCEPT ![c] = "ok"] /\ c \in Returning
    BY <1>1, <1>4, StatusDecided DEF Returning
  <2> QED
    BY <1>1, <1>2, <2>1 DEF Delivery!Succeed, StatusFn, Returning
<1> QED
  BY <1>3, <1>4

LEMMA RaiseDelivers ==
  ASSUME TypeOK, DeliveryInv, NEW c \in Calls, NEW error \in TransportErrors,
         Raise(c, error), pc[c] # "done", UNCHANGED <<typed, skipped>>
  PROVE  Delivery!Fail(c) \/ Delivery!Succeed(c)
<1>1. PICK how \in {error, "swallowed"} :
        Finish(c, how) /\ (how = "swallowed" => CallOf[c].op = "power")
  BY RaiseEnds
<1>2. how \in Failures \cup {"swallowed"}
  BY DEF Failures
<1> QED
  BY <1>1, <1>2, FailDelivers

LEMMA ServedIsServed ==
  ASSUME NEW c \in Calls
  PROVE  Delivery!Served(c) <=> Served(c, pos[c])
  BY DEF Delivery!Served, Delivery!At, Served, Typed

LEMMA KeyDoneDelivers ==
  ASSUME TypeOK, DeliveryInv, NEW c \in Calls, KeyDone(c), InExchange(c),
         Served(c, pos[c]), UNCHANGED <<typed, skipped>>
  PROVE  Delivery!Advance(c) \/ Delivery!Succeed(c)
<1>1. /\ outcome[c] = "pending" /\ pos[c] \in DOMAIN keys[c] /\ pos[c] \in Nat
      /\ keys[c] \in Seq(KeyNames)
  BY PlanIsSequence DEF DeliveryInv, TasksAtKey, InExchange, TypeOK
<1>2. Delivery!Served(c) /\ StatusFn[c] = "pending"
  BY <1>1, ServedIsServed, StatusValues DEF StatusFn
<1>3. CASE pos[c] < Len(keys[c])
  <2>1. outcome' = outcome /\ pos' = [pos EXCEPT ![c] = pos[c] + 1]
    BY <1>3 DEF KeyDone
  <2>2. StatusFn' = StatusFn
    BY <2>1 DEF StatusFn, Status
  <2> QED
    BY <1>2, <1>3, <2>1, <2>2 DEF Delivery!Advance, StatusFn
<1>4. CASE ~(pos[c] < Len(keys[c]))
  <2>1. outcome' = [outcome EXCEPT ![c] = "ok"] /\ pos' = pos
    BY <1>4 DEF KeyDone, Finish
  <2>2. StatusFn' = [StatusFn EXCEPT ![c] = "ok"]
    BY <2>1, StatusDecided
  <2>3. pos[c] = Len(keys[c])
    BY <1>1, <1>4
  <2> QED
    BY <1>2, <2>1, <2>2, <2>3 DEF Delivery!Succeed, StatusFn
<1> QED
  BY <1>3, <1>4

LEMMA StutterDelivers ==
  ASSUME UNCHANGED <<typed, skipped, pos, outcome>>
  PROVE  UNCHANGED Delivery!vars
  BY DEF Delivery!vars, Status

LEMMA ServeDelivers ==
  ASSUME TypeOK, DeliveryInv, NEW r \in net, Serve(r)
  PROVE  (\E c \in Calls : Delivery!Serve(c)) \/ UNCHANGED Delivery!vars
<1> DEFINE c == r.cmd
<1>1. /\ c \in Calls /\ r.pos = pos[c] /\ pos[c] \in DOMAIN keys[c]
      /\ ~Served(c, pos[c]) /\ outcome[c] # "ok"
  BY DEF DeliveryInv, RequestsCurrent, TypeOK, Requests
<1>2. UNCHANGED <<pos, outcome>>
  BY DEF Serve, client
<1>3. CASE UNCHANGED <<typed, skipped>>
  BY <1>2, <1>3, StutterDelivers
<1>4. CASE Execute(r) \/ Skip(r)
  <2>1. Entry(r) = Delivery!At(c)
    BY <1>1 DEF Entry, Delivery!At
  <2>2. ~Delivery!Served(c)
    BY <1>1, ServedIsServed
  <2>3. StatusFn[c] # "ok" \/ c \in Returning
    BY <1>1 DEF StatusFn, Status, Returning, DeliveryInv, TasksAtKey
  <2>4. StatusFn' = StatusFn
    BY <1>2 DEF StatusFn, Status
  <2>5. Delivery!Serve(c)
    BY <1>1, <1>2, <1>4, <2>1, <2>2, <2>3, <2>4
       DEF Delivery!Serve, StatusFn, Returning, Execute, Skip
  <2> QED
    BY <1>1, <2>5
<1> QED
  BY <1>3, <1>4, ServeCases

LEMMA NextDelivers ==
  TypeOK /\ DeliveryInv /\ [Next]_vars => [Delivery!Next]_(Delivery!vars)
<1> SUFFICES ASSUME TypeOK, DeliveryInv, [Next]_vars
             PROVE  Delivery!Next \/ UNCHANGED Delivery!vars
  OBVIOUS
<1>a. /\ {"value_error", "timeout_error", "attribute_error", "cancelled"} \subseteq Failures
      /\ {"transport_error", "pairing_required"} \subseteq TransportErrors
  BY DEF Failures, TransportErrors
<1>1. ASSUME NEW c \in Calls, pc[c] # "done", UNCHANGED <<typed, skipped>>,
             \/ \E how \in Failures : Finish(c, how)
             \/ \E error \in TransportErrors : Raise(c, error)
             \/ UNCHANGED <<pos, outcome>>
      PROVE  Delivery!Next \/ UNCHANGED Delivery!vars
  <2>1. "swallowed" \notin Failures
    BY StatusValues
  <2> QED
    BY <1>1, <2>1, FailDelivers, RaiseDelivers, StutterDelivers DEF Delivery!Next
<1>2. ASSUME NEW c \in Calls, SendKey(c) \/ Acquire(c)
      PROVE  Delivery!Next \/ UNCHANGED Delivery!vars
  BY <1>a, <1>1, <1>2 DEF SendKey, Acquire, FirstPost, receiver
<1>3. ASSUME NEW c \in Calls, ReadChallenge(c) \/ ReadResult(c)
      PROVE  Delivery!Next \/ UNCHANGED Delivery!vars
  <2>1. InExchange(c) /\ pc[c] # "done" /\ reply[c] # NoReply /\ UNCHANGED <<typed, skipped>>
    BY <1>3 DEF ReadChallenge, ReadResult, InExchange, receiver
  <2>2. CASE KeyDone(c) /\ TakenForSuccess(c)
    <3>1. Served(c, pos[c])
      BY <2>1, <2>2 DEF DeliveryInv, RepliesTruthful
    <3> QED
      BY <2>1, <2>2, <3>1, KeyDoneDelivers DEF Delivery!Next
  <2>3. CASE \/ \E how \in Failures : Finish(c, how)
             \/ \E error \in TransportErrors : Raise(c, error)
             \/ UNCHANGED <<pos, outcome>>
    BY <1>1, <2>1, <2>3
  <2> QED
    BY <1>3, <1>a, <2>2, <2>3 DEF ReadChallenge, ReadResult, SecondPost, TakenForSuccess
<1>4. ASSUME NEW c \in Calls, GiveUp(c) \/ Cancel(c)
      PROVE  Delivery!Next \/ UNCHANGED Delivery!vars
  BY <1>a, <1>1, <1>4 DEF GiveUp, Cancel, InExchange, receiver
<1>5. ASSUME NEW c \in Calls, LaunchEnd(c) \/ Call(c) \/ LaunchPost(c)
      PROVE  Delivery!Next \/ UNCHANGED Delivery!vars
  <2>1. pc[c] # "done" /\ UNCHANGED <<typed, skipped>>
    BY <1>5 DEF LaunchEnd, Call, LaunchPost, box, receiver
  <2>2. CASE /\ ~\E how \in Failures : Finish(c, how)
             /\ ~\E error \in TransportErrors : Raise(c, error)
             /\ Finish(c, "ok")
    <3>1. keys[c] = <<>>
      BY <1>5, <1>a, <2>2 DEF LaunchEnd, Call, LaunchPost, Finish, DeliveryInv, TasksAtKey, TypeOK
    <3>2. outcome[c] = "pending" /\ outcome' = [outcome EXCEPT ![c] = "ok"] /\ pos' = pos
      BY <2>1, <2>2 DEF Finish, DeliveryInv, TasksAtKey
    <3>3. StatusFn[c] = "pending" /\ StatusFn' = [StatusFn EXCEPT ![c] = "ok"]
      BY <3>2, StatusValues, StatusDecided DEF StatusFn
    <3>4. Delivery!Succeed(c)
      BY <2>1, <3>1, <3>2, <3>3 DEF Delivery!Succeed, StatusFn
    <3> QED
      BY <3>4 DEF Delivery!Next
  <2>3. CASE \/ \E how \in Failures : Finish(c, how)
             \/ \E error \in TransportErrors : Raise(c, error)
             \/ UNCHANGED <<pos, outcome>>
    BY <1>1, <2>1, <2>3
  <2> QED
    BY <1>5, <1>a, <2>2, <2>3 DEF LaunchEnd, Call, LaunchPost
<1>6. CASE (\E t \in Transports : async_close(t) \/ Revoke(t)) \/ UNCHANGED vars
  BY <1>6, StutterDelivers DEF async_close, Revoke, client, box, receiver, vars
<1>7. ASSUME NEW r \in net, Serve(r)
      PROVE  Delivery!Next \/ UNCHANGED Delivery!vars
  BY <1>7, ServeDelivers DEF Delivery!Next
<1> QED
  BY <1>2, <1>3, <1>4, <1>5, <1>6, <1>7 DEF Next, Resume

(* Every behaviour of the command path is one KeyDelivery allows. *)
THEOREM Implements == Spec => DeliversKeys
  BY InitDelivers, NextDelivers, Delivers, PTL DEF Spec, DeliversKeys, Delivery!Spec
=============================================================================
