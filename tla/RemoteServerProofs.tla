-------------------------- MODULE RemoteServerProofs --------------------------
(***************************************************************************)
(* Proofs about the web remote for any clicks, visits, faults and polls,   *)
(* either nonce policy, and whether or not a request outlives its thread.  *)
(***************************************************************************)
EXTENDS RemoteServer, FiniteSets, SequenceTheorems, FiniteSetTheorems, TLAPS

(* What the receiver has to execute for a channel is a sequence. *)
LEMMA ChannelIsSequence ==
  ASSUME NEW text \in Seq(STRING)
  PROVE  \E S : send_channel(text) \in Seq(S)
<1> DEFINE digits == {i \in DOMAIN text : text[i] \in Digits}
           places == Ascending(digits)
           n == Cardinality(digits)
           pick(k) == text[places[k]]
           S == {pick(k) : k \in 1..n} \cup {"Enter"}
<1>1. n \in Nat
  <2>1. DOMAIN text = 1..Len(text) /\ Len(text) \in Nat
    OBVIOUS
  <2>2. IsFiniteSet(1..Len(text))
    BY <2>1, FS_Interval
  <2>3. IsFiniteSet(digits)
    BY <2>1, <2>2, FS_Subset
  <2> QED
    BY <2>3, FS_CardinalityType
<1>2. send_channel(text) = Append([k \in 1..n |-> pick(k)], "Enter")
  <2>1. DOMAIN places = 1..n
    BY DEF Ascending
  <2> QED
    BY <2>1 DEF send_channel
<1> HIDE DEF n, pick
<1>3. [k \in 1..n |-> pick(k)] \in Seq(S)
  BY <1>1
<1>4. "Enter" \in S
  OBVIOUS
<1> HIDE DEF S
<1>5. Append([k \in 1..n |-> pick(k)], "Enter") \in Seq(S)
  BY <1>3, <1>4
<1> QED
  BY <1>2, <1>5

LEMMA KeysAreSequences ==
  ASSUME NEW c \in Clicks
  PROVE  /\ Len(keys[c]) \in Nat /\ DOMAIN keys[c] = 1..Len(keys[c])
         /\ keys[c] # <<>> <=> 1 \in DOMAIN keys[c]
         /\ Ask[c].api # "tune" => Len(keys[c]) <= 1
<1> DEFINE text == Ask[c].text
<1>1. text \in Seq(STRING) /\ (Ask[c].api # "tune" => Len(text) <= 1)
  BY RemoteAssumption
<1>0. keys[c] = IF text = <<>> THEN <<>>
                ELSE IF Ask[c].api = "tune" THEN send_channel(text) ELSE text
  BY DEF keys
<1> HIDE DEF text
<1>2. PICK S : keys[c] \in Seq(S)
  <2>1. <<>> \in Seq(STRING)
    OBVIOUS
  <2> QED
    BY <1>0, <1>1, <2>1, ChannelIsSequence
<1>3. Ask[c].api # "tune" => Len(keys[c]) <= 1
  BY <1>0, <1>1
<1> QED
  BY <1>2, <1>3

-----------------------------------------------------------------------------
(* The invariant.  As in the transport of the integration, a request on    *)
(* its way is for the key its click is at, the only one of its click, and  *)
(* means that the key was not served yet; an answer that waits to be read  *)
(* and leaves no doubt says whether it was; and what the page was told     *)
(* agrees with that.                                                       *)

InThread(c) == stage[c] \in {"first", "second", "dial"}

Requests == [cmd : Clicks, pos : Nat \ {0}, nonce : Nonces \cup {NoNonce}]

(* Answers that the thread takes for success, and those that refuse the    *)
(* key; the others leave it in doubt.                                      *)
Successes == {"ok", "plain_ok"}
Refusals == {"challenge", "no_challenge", "denied", "rejected"}

(* The server, the receiver's state and the page's indicator; the threads  *)
(* and the network.                                                        *)
PageOK ==
  /\ up \in BOOLEAN /\ visit \in Visits
  /\ control \in BOOLEAN /\ changes \in 0..MaxChanges
  /\ poll \in [Polls -> 0..MaxChanges \cup {Nothing, NoReply}]
  /\ dot \in 0..MaxChanges \cup {Nothing}

ThreadsOK ==
  /\ stage \in [Clicks -> {"idle", "first", "second", "dial", "done"}]
  /\ pos \in [Clicks -> Nat \ {0}]
  /\ \A c \in Clicks : pos[c] \in DOMAIN keys[c] \/ pos[c] = 1
  /\ told \in [Clicks -> {"pending", "ok", "failed"} \cup Doubtful]
  /\ net \subseteq Requests
  /\ reply \in [Clicks -> Answers \cup {NoReply}]
  /\ live \subseteq Nonces
  /\ typed \in Seq([cmd : Clicks, pos : Nat \ {0}])
  /\ skipped \subseteq [cmd : Clicks, pos : Nat \ {0}]

RequestsCurrent ==
  \A r \in net :
    /\ r.pos = pos[r.cmd] /\ r.pos \in DOMAIN keys[r.cmd] /\ ~Served(r.cmd, r.pos)
    /\ InThread(r.cmd) \/ told[r.cmd] = "offline"
       \/ (told[r.cmd] = "failed" /\ Ask[r.cmd].api = "app")
    /\ reply[r.cmd] = NoReply
    /\ \A q \in net : q.cmd = r.cmd => q = r

RepliesTruthful ==
  \A c \in Clicks : reply[c] # NoReply =>
    /\ InThread(c)
    /\ reply[c] \in Successes => Served(c, pos[c])
    /\ reply[c] \in Refusals => ~Served(c, pos[c])

(* What is known of one click. *)
AtKey(c) ==
  /\ stage[c] = "done" <=> told[c] # "pending"
  /\ told[c] = "ok" => pos[c] = Len(keys[c]) /\ Served(c, pos[c])
  /\ told[c] = "failed" => ~Typed(c, pos[c]) \/ Ask[c].api = "app"
  /\ \A p \in 1..(pos[c] - 1) : Served(c, p)
  /\ stage[c] = "idle" => pos[c] = 1 /\ ~Served(c, 1)
  /\ InThread(c) => pos[c] \in DOMAIN keys[c]
  /\ stage[c] = "dial" => Ask[c].api = "app"

ThreadsAtKey == \A c \in Clicks : AtKey(c)

TypedOK ==
  /\ \A i \in DOMAIN typed :
       /\ typed[i].pos <= pos[typed[i].cmd]
       /\ \A j \in DOMAIN typed :
            i < j /\ typed[i].cmd = typed[j].cmd => typed[i].pos < typed[j].pos
  /\ \A e \in skipped : e.pos <= pos[e.cmd]

ThreadInv == ThreadsOK /\ RequestsCurrent /\ RepliesTruthful /\ ThreadsAtKey /\ TypedOK
IInv == PageOK /\ ThreadInv

(* Every entry of the receiver's history names a click and a position. *)
LEMMA TypedEntries ==
  ASSUME ThreadInv
  PROVE  \A i \in DOMAIN typed :
           /\ typed[i].cmd \in Clicks /\ typed[i].pos \in Nat \ {0}
           /\ typed[i] = [cmd |-> typed[i].cmd, pos |-> typed[i].pos]
<1> DEFINE S == [cmd : Clicks, pos : Nat \ {0}]
<1>1. typed \in Seq(S)
  BY DEF ThreadInv, ThreadsOK
<1> HIDE DEF S
<1>2. \A i \in DOMAIN typed : typed[i] \in S
  BY <1>1
<1> QED
  BY <1>2 DEF S

LEMMA SkippedEntries ==
  ASSUME ThreadInv
  PROVE  \A e \in skipped : e.cmd \in Clicks /\ e.pos \in Nat \ {0}
  BY DEF ThreadInv, ThreadsOK

(* A step that changes neither history changes nothing that was served. *)
LEMMA HistoryKept ==
  ASSUME UNCHANGED <<typed, skipped>>
  PROVE  \A d, p : /\ Typed(d, p)' <=> Typed(d, p)
                   /\ Served(d, p)' <=> Served(d, p)
  BY DEF Typed, Served

LEMMA InvTypeOK == IInv => TypeOK
<1> SUFFICES ASSUME IInv
             PROVE  TypeOK
  OBVIOUS
<1>1. \A c \in Clicks : pos[c] \in 1..Len(keys[c]) \/ pos[c] = 1
  BY KeysAreSequences DEF IInv, ThreadInv, ThreadsOK
<1>2. \A q \in net : q.cmd \in Clicks /\ q.pos \in DOMAIN keys[q.cmd]
                    /\ q.nonce \in Nonces \cup {NoNonce}
  BY DEF IInv, ThreadInv, ThreadsOK, RequestsCurrent, Requests
<1>3. \A i \in DOMAIN typed : typed[i].cmd \in Clicks
  BY TypedEntries DEF IInv
<1>4. \A e \in skipped : e.cmd \in Clicks
  BY SkippedEntries DEF IInv
<1> QED
  BY <1>1, <1>2, <1>3, <1>4 DEF IInv, PageOK, ThreadInv, ThreadsOK, TypeOK

LEMMA InitInv == Init => IInv
<1> SUFFICES ASSUME Init
             PROVE  IInv
  OBVIOUS
<1>1. \A c \in Clicks, p \in Nat : ~Served(c, p) /\ ~Typed(c, p)
  BY DEF Init, Typed, Served
<1>2. PageOK
  <2>1. control \in BOOLEAN
    BY DEF Init, discover_urls
  <2> QED
    BY <2>1, RemoteAssumption DEF Init, PageOK
<1>3. ThreadsOK
  BY DEF Init, ThreadsOK
<1>4. ThreadsAtKey
  BY <1>1 DEF Init, ThreadsAtKey, AtKey, InThread
<1> QED
  BY <1>1, <1>2, <1>3, <1>4
     DEF Init, IInv, ThreadInv, RequestsCurrent, RepliesTruthful, TypedOK

-----------------------------------------------------------------------------
(* The three ways in which a step disturbs the threads.                    *)

LEMMA OwnRequests ==
  ASSUME ThreadInv, NEW r \in net
  PROVE  r.cmd \in Clicks /\ r.pos \in Nat \ {0} /\ r.nonce \in Nonces \cup {NoNonce}
  BY DEF ThreadInv, ThreadsOK, Requests

(* The answer of a thread was read, or it has none. *)
AnswerRead(c) == reply' = [reply EXCEPT ![c] = NoReply] \/ (reply[c] = NoReply /\ reply' = reply)

(* The thread of a click ends: its page is told what is known. *)
LEMMA EndedInv ==
  ASSUME ThreadInv, NEW c \in Clicks, NEW answer \in {"ok", "failed"} \cup Doubtful,
         stage' = [stage EXCEPT ![c] = "done"], told' = [told EXCEPT ![c] = answer],
         net' \subseteq net, AnswerRead(c), UNCHANGED <<pos, receiver>>,
         answer = "ok" => pos[c] = Len(keys[c]) /\ Served(c, pos[c]),
         answer = "failed" => ~Typed(c, pos[c]) \/ Ask[c].api = "app",
         \/ \A r \in net : r.cmd # c
         \/ answer = "offline"
         \/ answer = "failed" /\ Ask[c].api = "app"
  PROVE  ThreadInv'
<1>0. UNCHANGED <<live, typed, skipped>>
  BY DEF receiver
<1>1. /\ stage'[c] = "done" /\ told'[c] = answer /\ reply'[c] = NoReply
      /\ answer # "pending"
      /\ \A d \in Clicks \ {c} : /\ stage'[d] = stage[d] /\ told'[d] = told[d]
                                 /\ reply'[d] = reply[d]
  BY DEF ThreadInv, ThreadsOK, AnswerRead, Doubtful
<1>2. \A d, p : /\ Typed(d, p)' <=> Typed(d, p)
                /\ Served(d, p)' <=> Served(d, p)
  BY <1>0, HistoryKept
<1>3. ThreadsOK'
  BY <1>0 DEF ThreadInv, ThreadsOK, AnswerRead
<1>4. RequestsCurrent'
  <2> SUFFICES ASSUME NEW r \in net'
               PROVE  /\ r.pos = pos[r.cmd] /\ r.pos \in DOMAIN keys[r.cmd]
                      /\ ~Served(r.cmd, r.pos)
                      /\ InThread(r.cmd)' \/ told'[r.cmd] = "offline"
                         \/ (told'[r.cmd] = "failed" /\ Ask[r.cmd].api = "app")
                      /\ reply'[r.cmd] = NoReply
                      /\ \A q \in net' : q.cmd = r.cmd => q = r
    BY <1>2 DEF RequestsCurrent
  <2>1. r \in net /\ r.cmd \in Clicks
    BY OwnRequests
  <2>2. CASE r.cmd = c
    BY <1>1, <2>1, <2>2 DEF ThreadInv, RequestsCurrent
  <2>3. CASE r.cmd # c
    BY <1>1, <2>1, <2>3 DEF ThreadInv, RequestsCurrent, InThread
  <2> QED
    BY <2>2, <2>3
<1>5. RepliesTruthful'
  BY <1>1, <1>2 DEF ThreadInv, RepliesTruthful, InThread
<1>6. ASSUME NEW d \in Clicks
      PROVE  AtKey(d)'
  <2>1. AtKey(d)
    BY DEF ThreadInv, ThreadsAtKey
  <2>2. CASE d = c
    BY <1>1, <1>2, <2>1, <2>2 DEF AtKey, InThread
  <2>3. CASE d # c
    BY <1>1, <1>2, <2>1, <2>3 DEF AtKey, InThread
  <2> QED
    BY <2>2, <2>3
<1>7. TypedOK'
  BY <1>0 DEF ThreadInv, TypedOK
<1> QED
  BY <1>3, <1>4, <1>5, <1>6, <1>7 DEF ThreadInv, ThreadsAtKey

(* A thread sends a request for the key its click is at or goes on to. *)
LEMMA PostedInv ==
  ASSUME ThreadInv, NEW c \in Clicks, NEW p \in DOMAIN keys[c],
         NEW nonce \in Nonces \cup {NoNonce}, NEW place \in {"first", "second", "dial"},
         stage' = [stage EXCEPT ![c] = place], pos' = [pos EXCEPT ![c] = p],
         net' = net \cup {[cmd |-> c, pos |-> p, nonce |-> nonce]},
         AnswerRead(c), UNCHANGED <<told, receiver>>,
         told[c] = "pending", ~Served(c, p), \A q \in 1..(p - 1) : Served(c, q), pos[c] <= p,
         \A r \in net : r.cmd # c, place = "dial" => Ask[c].api = "app"
  PROVE  ThreadInv'
<1> DEFINE new == [cmd |-> c, pos |-> p, nonce |-> nonce]
<1>0. p \in Nat \ {0}
  BY KeysAreSequences
<1>1. /\ stage'[c] = place /\ reply'[c] = NoReply /\ pos'[c] = p
      /\ \A d \in Clicks \ {c} : /\ stage'[d] = stage[d] /\ pos'[d] = pos[d]
                                 /\ reply'[d] = reply[d]
  BY DEF ThreadInv, ThreadsOK, AnswerRead
<1>a. UNCHANGED <<live, typed, skipped>>
  BY DEF receiver
<1>2. \A d, q : /\ Typed(d, q)' <=> Typed(d, q)
                /\ Served(d, q)' <=> Served(d, q)
  BY <1>a, HistoryKept
<1>3. ThreadsOK'
  <2>1. new \in Requests
    BY <1>0 DEF Requests
  <2>2. \A d \in Clicks : pos'[d] \in DOMAIN keys[d] \/ pos'[d] = 1
    BY <1>1 DEF ThreadInv, ThreadsOK
  <2> QED
    BY <1>0, <1>a, <2>1, <2>2 DEF ThreadInv, ThreadsOK, AnswerRead
<1>4. RequestsCurrent'
  <2>1. \A r \in net : r.cmd \in Clicks \ {c}
    BY OwnRequests
  <2>2. new.cmd = c /\ new.pos = p
    OBVIOUS
  <2>3. ASSUME NEW r \in net
        PROVE  /\ r.pos = pos'[r.cmd] /\ r.pos \in DOMAIN keys[r.cmd]
               /\ ~Served(r.cmd, r.pos)
               /\ InThread(r.cmd)' \/ told'[r.cmd] = "offline"
                  \/ (told'[r.cmd] = "failed" /\ Ask[r.cmd].api = "app")
               /\ reply'[r.cmd] = NoReply
               /\ \A q \in net' : q.cmd = r.cmd => q = r
    BY <1>1, <2>1, <2>2 DEF ThreadInv, RequestsCurrent, InThread
  <2> HIDE DEF new
  <2> QED
    BY <1>1, <1>2, <2>1, <2>2, <2>3 DEF RequestsCurrent, InThread, new
<1>5. RepliesTruthful'
  BY <1>1, <1>2 DEF ThreadInv, RepliesTruthful, InThread
<1>6. ASSUME NEW d \in Clicks
      PROVE  AtKey(d)'
  <2>1. AtKey(d)
    BY DEF ThreadInv, ThreadsAtKey
  <2>2. CASE d = c
    BY <1>1, <1>2, <2>1, <2>2 DEF AtKey, InThread
  <2>3. CASE d # c
    BY <1>1, <1>2, <2>1, <2>3 DEF AtKey, InThread
  <2> QED
    BY <2>2, <2>3
<1>7. TypedOK'
  <2>1. \A d \in Clicks : pos[d] \in Nat /\ pos'[d] \in Nat /\ pos[d] <= pos'[d]
    BY <1>0, <1>1 DEF ThreadInv, ThreadsOK
  <2>2. \A i \in DOMAIN typed : typed[i].cmd \in Clicks /\ typed[i].pos \in Nat
    BY TypedEntries
  <2>3. \A i \in DOMAIN typed : typed[i].pos <= pos'[typed[i].cmd]
    BY <2>1, <2>2 DEF ThreadInv, TypedOK
  <2>4. \A e \in skipped : e.pos <= pos'[e.cmd]
    BY <2>1, SkippedEntries DEF ThreadInv, TypedOK
  <2> QED
    BY <1>a, <2>3, <2>4 DEF ThreadInv, TypedOK
<1> QED
  BY <1>3, <1>4, <1>5, <1>6, <1>7 DEF ThreadInv, ThreadsAtKey

(* What the receiver does with a request, and what it may answer then. *)
LEMMA ServeCases ==
  ASSUME NEW r, Serve(r)
  PROVE  \/ /\ UNCHANGED <<typed, skipped>>
            /\ \E answer \in Answers \ Successes : Answer(r, answer)
         \/ /\ Execute(r) \/ Skip(r)
            /\ \E answer \in Answers \ Refusals : Answer(r, answer)
<1> USE DEF Answers, Successes, Refusals
<1>1. CASE ServeFirst(r)
  BY <1>1 DEF ServeFirst, receiver
<1>2. CASE ServeSecond(r)
  BY <1>2 DEF ServeSecond
<1> QED
  BY <1>1, <1>2 DEF Serve

(* The receiver serves a request. *)
LEMMA ServeInv ==
  ASSUME ThreadInv, NEW r \in net, Serve(r)
  PROVE  ThreadInv'
<1> DEFINE c == r.cmd
           e == [cmd |-> r.cmd, pos |-> r.pos]
           S == [cmd : Clicks, pos : Nat \ {0}]
<1>1. /\ c \in Clicks /\ r.pos = pos[c] /\ r.pos \in Nat \ {0} /\ r.pos \in DOMAIN keys[c]
      /\ ~Served(c, r.pos) /\ ~Typed(c, r.pos) /\ reply[c] = NoReply
      /\ InThread(c) \/ told[c] = "offline" \/ (told[c] = "failed" /\ Ask[c].api = "app")
      /\ \A q \in net : q.cmd = c => q = r
  BY OwnRequests DEF ThreadInv, RequestsCurrent, Served
<1>2. UNCHANGED <<stage, pos, told>> /\ net' = net \ {r}
  BY DEF Serve
<1>3. \A q \in net' : q.cmd \in Clicks \ {c} /\ q \in net /\ q.pos \in Nat
  BY <1>1, <1>2, OwnRequests
<1>4. ASSUME NEW a \in Answers, Answer(r, a)
      PROVE  /\ reply' \in [Clicks -> Answers \cup {NoReply}]
             /\ \A d \in Clicks \ {c} : reply'[d] = reply[d]
             /\ reply'[c] = NoReply \/ (reply'[c] = a /\ InThread(c))
  BY <1>1, <1>4 DEF Answer, InThread, ThreadInv, ThreadsOK
<1>5. typed \in Seq(S) /\ skipped \subseteq S /\ e \in S
  BY <1>1 DEF ThreadInv, ThreadsOK
<1>6. live' \subseteq Nonces
  BY <1>1 DEF Serve, ServeFirst, ServeSecond, Nonces, ThreadInv, ThreadsOK, receiver
<1>7. ASSUME typed' \in Seq(S), skipped' \subseteq S
      PROVE  ThreadsOK'
  <2>1. reply' \in [Clicks -> Answers \cup {NoReply}]
    BY <1>4, ServeCases
  <2> QED
    BY <1>2, <1>6, <1>7, <2>1 DEF ThreadInv, ThreadsOK
(* The key was left alone. *)
<1>8. CASE /\ UNCHANGED <<typed, skipped>>
           /\ \E answer \in Answers \ Successes : Answer(r, answer)
  <2>1. \A d, p : /\ Typed(d, p)' <=> Typed(d, p)
                  /\ Served(d, p)' <=> Served(d, p)
    BY <1>8, HistoryKept
  <2>2. /\ \A d \in Clicks \ {c} : reply'[d] = reply[d]
        /\ reply'[c] = NoReply \/ (reply'[c] \notin Successes /\ InThread(c))
    BY <1>4, <1>8
  <2>3. RequestsCurrent'
    BY <1>2, <1>3, <2>1, <2>2 DEF ThreadInv, RequestsCurrent, InThread
  <2>4. RepliesTruthful'
    BY <1>1, <1>2, <2>1, <2>2 DEF ThreadInv, RepliesTruthful, InThread
  <2>5. ThreadsAtKey'
    BY <1>2, <2>1 DEF ThreadInv, ThreadsAtKey, AtKey, InThread
  <2>6. TypedOK'
    BY <1>2, <1>8 DEF ThreadInv, TypedOK
  <2> QED
    BY <1>5, <1>7, <1>8, <2>3, <2>4, <2>5, <2>6 DEF ThreadInv
(* It was executed, or left out as if it had been. *)
<1>9. CASE /\ Execute(r) \/ Skip(r)
           /\ \E answer \in Answers \ Refusals : Answer(r, answer)
  <2>0. \/ typed' = Append(typed, e) /\ skipped' = skipped
        \/ typed' = typed /\ skipped' = skipped \cup {e}
    BY <1>9 DEF Execute, Skip, Entry
  <2>1. typed' = Append(typed, e) =>
          /\ DOMAIN typed' = DOMAIN typed \cup {Len(typed) + 1}
          /\ \A i \in DOMAIN typed : typed'[i] = typed[i]
          /\ typed'[Len(typed) + 1] = e
          /\ Len(typed) \in Nat /\ DOMAIN typed = 1..Len(typed)
    <3> HIDE DEF S, e
    <3> QED
      BY <1>5
  <2>2. \A d, p : /\ Typed(d, p)' => Typed(d, p) \/ (d = c /\ p = r.pos)
                  /\ Served(d, p)' <=> (Served(d, p) \/ (d = c /\ p = r.pos))
    <3> SUFFICES ASSUME NEW d, NEW p
                 PROVE  /\ Typed(d, p)' => Typed(d, p) \/ (d = c /\ p = r.pos)
                        /\ Served(d, p)' <=> (Served(d, p) \/ (d = c /\ p = r.pos))
      OBVIOUS
    <3>1. e = [cmd |-> d, pos |-> p] <=> d = c /\ p = r.pos
      OBVIOUS
    <3>2. CASE typed' = Append(typed, e) /\ skipped' = skipped
      <4>1. Typed(d, p)' <=> (Typed(d, p) \/ (d = c /\ p = r.pos))
        BY <2>1, <3>1, <3>2 DEF Typed
      <4> QED
        BY <3>2, <4>1 DEF Served
    <3>3. CASE typed' = typed /\ skipped' = skipped \cup {e}
      <4>1. Typed(d, p)' <=> Typed(d, p)
        BY <3>3 DEF Typed
      <4> QED
        BY <3>1, <3>3, <4>1 DEF Served
    <3> QED
      BY <2>0, <3>2, <3>3
  <2>3. /\ \A d \in Clicks \ {c} : reply'[d] = reply[d]
        /\ reply'[c] = NoReply \/ (reply'[c] \notin Refusals /\ InThread(c))
    BY <1>4, <1>9
  <2>4. RequestsCurrent'
    BY <1>2, <1>3, <2>2, <2>3 DEF ThreadInv, RequestsCurrent, InThread
  <2>5. RepliesTruthful'
    BY <1>1, <1>2, <2>2, <2>3 DEF ThreadInv, ThreadsOK, RepliesTruthful, InThread
  <2>6. ThreadsAtKey'
    <3> SUFFICES ASSUME NEW d \in Clicks
                 PROVE  AtKey(d)'
      BY DEF ThreadsAtKey
    <3>1. AtKey(d) /\ pos[d] \in Nat \ {0}
      BY DEF ThreadInv, ThreadsAtKey, ThreadsOK
    <3>2. CASE d = c
      BY <1>1, <1>2, <2>2, <3>1, <3>2 DEF AtKey, InThread
    <3>3. CASE d # c
      BY <1>2, <2>2, <3>1, <3>3 DEF AtKey, InThread
    <3> QED
      BY <3>2, <3>3
  <2>7. CASE typed' = Append(typed, e) /\ skipped' = skipped
    <3>1. ASSUME NEW i \in DOMAIN typed, typed[i].cmd = c
          PROVE  typed[i].pos < r.pos
      <4>1. typed[i] = [cmd |-> typed[i].cmd, pos |-> typed[i].pos] /\ typed[i].pos \in Nat
        BY TypedEntries
      <4>2. typed[i].pos # r.pos
        BY <1>1, <3>1, <4>1 DEF Typed
      <4> QED
        BY <1>1, <3>1, <4>1, <4>2 DEF ThreadInv, TypedOK
    <3>2. ASSUME NEW i \in DOMAIN typed'
          PROVE  typed'[i].pos <= pos[typed'[i].cmd]
      BY <1>1, <2>1, <2>7 DEF ThreadInv, TypedOK
    <3>3. ASSUME NEW i \in DOMAIN typed', NEW j \in DOMAIN typed', i < j,
                 typed'[i].cmd = typed'[j].cmd
          PROVE  typed'[i].pos < typed'[j].pos
      <4>1. i \in DOMAIN typed
        BY <2>1, <2>7, <3>3
      <4>2. CASE j \in DOMAIN typed
        BY <2>1, <2>7, <3>3, <4>1, <4>2 DEF ThreadInv, TypedOK
      <4>3. CASE j = Len(typed) + 1
        BY <2>1, <2>7, <3>1, <3>3, <4>1, <4>3
      <4> QED
        BY <2>1, <2>7, <4>2, <4>3
    <3>4. TypedOK'
      BY <1>2, <2>7, <3>2, <3>3 DEF ThreadInv, TypedOK
    <3>5. typed' \in Seq(S) /\ skipped' \subseteq S
      <4> HIDE DEF S, e
      <4> QED
        BY <1>5, <2>7
    <3> QED
      BY <1>7, <2>4, <2>5, <2>6, <3>4, <3>5 DEF ThreadInv
  <2>8. CASE typed' = typed /\ skipped' = skipped \cup {e}
    <3>1. e.cmd = c /\ e.pos = r.pos /\ r.pos <= pos[c]
      BY <1>1
    <3>2. TypedOK'
      BY <1>2, <2>8, <3>1 DEF ThreadInv, TypedOK
    <3>3. typed' \in Seq(S) /\ skipped' \subseteq S
      BY <1>5, <2>8
    <3> QED
      BY <1>7, <2>4, <2>5, <2>6, <3>2, <3>3 DEF ThreadInv
  <2> QED
    BY <2>0, <2>7, <2>8
<1> QED
  BY <1>8, <1>9, ServeCases

LEMMA QuietOutsideThread ==
  ASSUME ThreadInv, NEW c \in Clicks, stage[c] = "idle"
  PROVE  reply[c] = NoReply /\ \A r \in net : r.cmd # c
  BY DEF ThreadInv, RequestsCurrent, RepliesTruthful, ThreadsAtKey, AtKey, InThread

(* What a thread knows when it reads an answer. *)
LEMMA WhileReading ==
  ASSUME ThreadInv, NEW c \in Clicks, reply[c] # NoReply
  PROVE  /\ \A r \in net : r.cmd # c
         /\ InThread(c) /\ told[c] = "pending"
         /\ pos[c] \in DOMAIN keys[c] /\ pos[c] \in Nat \ {0}
         /\ \A p \in 1..(pos[c] - 1) : Served(c, p)
         /\ reply[c] \in Successes => Served(c, pos[c])
         /\ reply[c] \in Refusals => ~Served(c, pos[c])
  BY DEF ThreadInv, ThreadsOK, RequestsCurrent, RepliesTruthful, ThreadsAtKey, AtKey, InThread

LEMMA NextInv == IInv /\ [Next]_vars => IInv'
<1> SUFFICES ASSUME IInv, [Next]_vars
             PROVE  IInv'
  OBVIOUS
<1>0. ThreadInv
  BY DEF IInv
<1>1. PageOK'
  <2>1. CASE UNCHANGED stateVars /\ UNCHANGED <<visit>> /\ up' \in {up, FALSE}
    BY <2>1 DEF IInv, PageOK, stateVars
  <2>2. ASSUME NEW p \in Polls, PollAnswered(p) \/ PollFailed(p)
        PROVE  PageOK'
    BY <2>2 DEF PollAnswered, PollFailed, PollState, keyVars, IInv, PageOK
  <2>3. ASSUME NEW p \in Polls, ShowState(p)
        PROVE  PageOK'
    <3>1. poll[p] \in 0..MaxChanges \cup {Nothing}
      BY <2>3 DEF ShowState, IInv, PageOK
    <3> QED
      BY <2>3, <3>1 DEF ShowState, keyVars, IInv, PageOK
  <2>4. CASE Change
    <3>1. changes' \in 0..MaxChanges
      BY <2>4, RemoteAssumption DEF Change, IInv, PageOK
    <3> QED
      BY <2>4, <3>1 DEF Change, keyVars, IInv, PageOK
  <2> QED
    BY <2>1, <2>2, <2>3, <2>4
       DEF Next, Click, ThreadStep, Read, GiveUp, Serve, Stop, vars, stateVars, keyVars
<1>2. CASE UNCHANGED keyVars
  <2>1. UNCHANGED <<stage, pos, told, net, reply, live, typed, skipped>>
    BY <1>2 DEF keyVars, receiver
  <2>2. ThreadInv'
    BY <1>0, <2>1 DEF ThreadInv, ThreadsOK, RequestsCurrent, RepliesTruthful, ThreadsAtKey,
                      AtKey, InThread, TypedOK, Typed, Served
  <2> QED
    BY <1>1, <2>2 DEF IInv
<1>3. ASSUME NEW c \in Clicks, Click(c)
      PROVE  ThreadInv'
  <2>1. /\ stage[c] = "idle" /\ UNCHANGED <<reply, receiver>> /\ AnswerRead(c)
        /\ \A r \in net : r.cmd # c
    BY <1>0, <1>3, QuietOutsideThread DEF Click, AnswerRead
  <2>2. told[c] = "pending" /\ pos[c] = 1 /\ ~Served(c, 1) /\ ~Typed(c, 1)
    BY <1>0, <2>1 DEF ThreadInv, ThreadsAtKey, AtKey, ThreadsOK, Served
  <2>3. CASE Tell(c, "offline") \/ Tell(c, "failed")
    BY <1>0, <2>1, <2>2, <2>3, EndedInv DEF Tell, Doubtful
  <2>4. CASE keys[c] # <<>> /\ Start(c, 1)
    <3>1. 1 \in DOMAIN keys[c]
      BY <2>4, KeysAreSequences
    <3>2. \E place \in {"first", "second", "dial"} :
            stage' = [stage EXCEPT ![c] = place] /\ (place = "dial" => Ask[c].api = "app")
      BY <2>4 DEF Start
    <3>3. /\ pos' = [pos EXCEPT ![c] = 1] /\ UNCHANGED told
          /\ net' = net \cup {[cmd |-> c, pos |-> 1, nonce |-> NoNonce]}
      BY <2>4 DEF Start, Post
    <3>4. pos[c] <= 1 /\ \A q \in 1..(1 - 1) : Served(c, q)
      BY <2>2
    <3> QED
      BY <1>0, <2>1, <2>2, <3>1, <3>2, <3>3, <3>4, PostedInv
  <2> QED
    BY <1>3, <2>3, <2>4 DEF Click
<1>4. ASSUME NEW c \in Clicks, Read(c)
      PROVE  ThreadInv'
  <2>1. /\ reply[c] # NoReply /\ AnswerRead(c) /\ UNCHANGED receiver
        /\ \A r \in net : r.cmd # c
        /\ InThread(c) /\ told[c] = "pending"
        /\ pos[c] \in DOMAIN keys[c] /\ pos[c] \in Nat \ {0}
        /\ \A p \in 1..(pos[c] - 1) : Served(c, p)
        /\ reply[c] \in Successes => Served(c, pos[c])
        /\ reply[c] \in Refusals => ~Served(c, pos[c])
    BY <1>0, <1>4, WhileReading DEF Read, AnswerRead
  <2>2. CASE /\ reply[c] = "challenge" /\ stage' = [stage EXCEPT ![c] = "second"]
             /\ Post(c, pos[c], <<c, pos[c]>>) /\ UNCHANGED <<pos, told>>
    <3>1. pos' = [pos EXCEPT ![c] = pos[c]] /\ <<c, pos[c]>> \in Nonces
      BY <1>0, <2>1, <2>2 DEF ThreadInv, ThreadsOK, Nonces
    <3>2. net' = net \cup {[cmd |-> c, pos |-> pos[c], nonce |-> <<c, pos[c]>>]}
      BY <2>2 DEF Post
    <3>3. ~Served(c, pos[c]) /\ pos[c] <= pos[c]
      BY <2>1, <2>2 DEF Refusals
    <3> QED
      BY <1>0, <2>1, <2>2, <3>1, <3>2, <3>3, PostedInv
  <2>3. CASE reply[c] \in {"ok", "plain_ok"} /\ KeySent(c)
    <3>1. Len(keys[c]) \in Nat /\ DOMAIN keys[c] = 1..Len(keys[c]) /\ Served(c, pos[c])
      BY <2>1, <2>3, KeysAreSequences DEF Successes
    <3>2. CASE pos[c] < Len(keys[c])
      <4> DEFINE p == pos[c] + 1
      <4>1. p \in DOMAIN keys[c] /\ pos[c] <= p /\ \A q \in 1..(p - 1) : Served(c, q)
        BY <2>1, <3>1, <3>2
      <4>2. ~Served(c, p)
        <5>1. /\ \A i \in DOMAIN typed : typed[i].cmd = c => typed[i].pos <= pos[c]
              /\ \A e \in skipped : e.cmd = c => e.pos <= pos[c]
          BY <1>0 DEF ThreadInv, TypedOK
        <5> QED
          BY <2>1, <5>1 DEF Typed, Served
      <4>3. Start(c, p)
        BY <2>3, <3>2 DEF KeySent
      <4>4. \E place \in {"first", "second", "dial"} :
              stage' = [stage EXCEPT ![c] = place] /\ (place = "dial" => Ask[c].api = "app")
        BY <4>3 DEF Start
      <4>5. /\ pos' = [pos EXCEPT ![c] = p] /\ UNCHANGED told
            /\ net' = net \cup {[cmd |-> c, pos |-> p, nonce |-> NoNonce]}
        BY <4>3 DEF Start, Post
      <4> HIDE DEF p
      <4> QED
        BY <1>0, <2>1, <4>1, <4>2, <4>4, <4>5, PostedInv
    <3>3. CASE ~(pos[c] < Len(keys[c]))
      <4>1. Tell(c, "ok") /\ pos[c] = Len(keys[c])
        BY <2>1, <2>3, <3>1, <3>3 DEF KeySent
      <4> QED
        BY <1>0, <2>1, <3>1, <4>1, EndedInv DEF Tell
    <3> QED
      BY <3>2, <3>3
  <2>4. CASE reply[c] \in {"no_challenge", "denied", "rejected"} /\ Tell(c, "failed")
    <3>1. ~Typed(c, pos[c])
      BY <2>1, <2>4 DEF Refusals, Served
    <3> QED
      BY <1>0, <2>1, <2>4, <3>1, EndedInv DEF Tell
  <2>5. ASSUME NEW answer \in Doubtful, Tell(c, answer)
        PROVE  ThreadInv'
    <3>1. answer # "ok" /\ answer # "failed"
      BY DEF Doubtful
    <3> QED
      BY <1>0, <2>1, <2>5, <3>1, EndedInv DEF Tell
  <2> QED
    BY <1>4, <2>2, <2>3, <2>4, <2>5 DEF Read, Doubtful
<1>5. ASSUME NEW c \in Clicks, GiveUp(c)
      PROVE  ThreadInv'
  <2> DEFINE answer == IF stage[c] = "dial" THEN "failed" ELSE "offline"
  <2>1. /\ stage' = [stage EXCEPT ![c] = "done"] /\ told' = [told EXCEPT ![c] = answer]
        /\ net' \subseteq net /\ AnswerRead(c) /\ UNCHANGED <<pos, receiver>>
    BY <1>5 DEF GiveUp, AnswerRead
  <2>2. answer = "failed" => Ask[c].api = "app"
    BY <1>0 DEF ThreadInv, ThreadsAtKey, AtKey
  <2>3. answer \in {"failed", "offline"} /\ answer \in {"ok", "failed"} \cup Doubtful
    BY DEF Doubtful
  <2> HIDE DEF answer
  <2> QED
    BY <1>0, <2>1, <2>2, <2>3, EndedInv
<1>6. ASSUME NEW r \in net, Serve(r)
      PROVE  ThreadInv'
  BY <1>0, <1>6, ServeInv
<1>7. \/ \E c \in Clicks : Click(c) \/ Read(c) \/ GiveUp(c)
      \/ \E r \in net : Serve(r)
      \/ UNCHANGED keyVars
  BY DEF Next, ThreadStep, PollAnswered, PollFailed, PollState, ShowState, Change, Stop, vars
<1> QED
  BY <1>1, <1>2, <1>3, <1>4, <1>5, <1>6, <1>7 DEF IInv

LEMMA Invariant == Spec => []IInv
  BY InitInv, NextInv, PTL DEF Spec

(* The type invariant, for every instance. *)
THEOREM TypeInvariant == Spec => []TypeOK
  BY Invariant, InvTypeOK, PTL

-----------------------------------------------------------------------------
(* What the page is told of a click is true of what the receiver executed  *)
(* and left out, for any interleaving of threads that void each other's    *)
(* nonces, for receivers that ask for no authorization or answer without a *)
(* result, and for requests that are served late.                          *)
THEOREM PageToldTruth == Spec => []ToldTruth
<1> SUFFICES ThreadInv => ToldTruth
  BY Invariant, PTL DEF IInv
<1> SUFFICES ASSUME ThreadInv, NEW c \in Clicks
             PROVE  /\ told[c] = "ok" => \A p \in DOMAIN keys[c] : Served(c, p)
                    /\ told[c] = "failed" /\ Ask[c].api # "app" => ~Typed(c, pos[c])
                    /\ \A p \in 1..(pos[c] - 1) : Served(c, p)
                    /\ \A i \in DOMAIN typed : typed[i].cmd = c => typed[i].pos <= pos[c]
  BY DEF ToldTruth
<1>1. AtKey(c) /\ pos[c] \in Nat \ {0}
  BY DEF ThreadInv, ThreadsAtKey, ThreadsOK
<1>2. told[c] = "ok" => \A p \in DOMAIN keys[c] : Served(c, p)
  <2>1. DOMAIN keys[c] = 1..Len(keys[c]) /\ Len(keys[c]) \in Nat
    BY KeysAreSequences
  <2> QED
    BY <1>1, <2>1 DEF AtKey
<1> QED
  BY <1>1, <1>2 DEF AtKey, ThreadInv, TypedOK

-----------------------------------------------------------------------------
(* The server implements KeyDelivery. *)

StatusFn == [c \in Clicks |-> Status(c)]

LEMMA InitDelivers == Init => Delivery!Init
  BY DEF Init, Delivery!Init, Status, Doubtful

(* What the page was told, as the abstract delivery sees it; and what the  *)
(* abstract delivery calls served.                                         *)
LEMMA StatusDecided ==
  ASSUME NEW c
  PROVE  /\ told[c] \in {"pending", "ok", "failed"} => Status(c) = told[c]
         /\ told[c] \in Doubtful => Status(c) = "failed"
  BY DEF Status, Doubtful

LEMMA ServedIsServed ==
  ASSUME NEW c
  PROVE  Delivery!Served(c) <=> Served(c, pos[c])
  BY DEF Delivery!Served, Delivery!At, Served, Typed

LEMMA StutterDelivers ==
  ASSUME UNCHANGED <<typed, skipped, pos, told>>
  PROVE  UNCHANGED Delivery!vars
  BY DEF Delivery!vars, Status

(* The page is told that a click failed, or nothing. *)
LEMMA FailDelivers ==
  ASSUME ThreadInv, NEW c \in Clicks, NEW answer \in {"failed"} \cup Doubtful,
         told[c] = "pending", told' = [told EXCEPT ![c] = answer],
         UNCHANGED <<pos, typed, skipped>>
  PROVE  Delivery!Fail(c)
<1>1. StatusFn' = [StatusFn EXCEPT ![c] = "failed"] /\ StatusFn[c] = "pending"
  BY DEF StatusFn, Status, ThreadInv, ThreadsOK, Doubtful
<1> QED
  BY <1>1 DEF Delivery!Fail, StatusFn, Status

LEMMA KeySentDelivers ==
  ASSUME ThreadInv, NEW c \in Clicks, reply[c] \in {"ok", "plain_ok"}, KeySent(c),
         UNCHANGED <<typed, skipped>>
  PROVE  Delivery!Advance(c) \/ Delivery!Succeed(c)
<1>1. /\ told[c] = "pending" /\ pos[c] \in DOMAIN keys[c] /\ Served(c, pos[c])
      /\ Len(keys[c]) \in Nat /\ DOMAIN keys[c] = 1..Len(keys[c])
  <2>1. reply[c] # NoReply
    BY RemoteAssumption DEF Answers
  <2> QED
    BY <2>1, WhileReading, KeysAreSequences DEF Successes
<1>2. Delivery!Served(c) /\ StatusFn[c] = "pending"
  BY <1>1, ServedIsServed, StatusDecided DEF StatusFn
<1>3. CASE pos[c] < Len(keys[c])
  <2>1. told' = told /\ pos' = [pos EXCEPT ![c] = pos[c] + 1]
    BY <1>3 DEF KeySent, Start
  <2>2. StatusFn' = StatusFn
    BY <2>1 DEF StatusFn, Status
  <2> QED
    BY <1>2, <1>3, <2>1, <2>2 DEF Delivery!Advance, StatusFn, Status
<1>4. CASE ~(pos[c] < Len(keys[c]))
  <2>1. told' = [told EXCEPT ![c] = "ok"] /\ pos' = pos /\ pos[c] = Len(keys[c])
    BY <1>1, <1>4 DEF KeySent, Tell
  <2>2. StatusFn' = [StatusFn EXCEPT ![c] = "ok"]
    BY <2>1 DEF StatusFn, Status, ThreadInv, ThreadsOK, Doubtful
  <2> QED
    BY <1>2, <2>1, <2>2 DEF Delivery!Succeed, StatusFn, Status
<1> QED
  BY <1>3, <1>4

LEMMA ServeDelivers ==
  ASSUME ThreadInv, NEW r \in net, Serve(r)
  PROVE  (\E c \in Clicks : Delivery!Serve(c)) \/ UNCHANGED Delivery!vars
<1> DEFINE c == r.cmd
<1>1. /\ c \in Clicks /\ r.pos = pos[c] /\ pos[c] \in DOMAIN keys[c] /\ ~Served(c, pos[c])
      /\ told[c] \in {"pending", "failed"} \cup Doubtful
  <2>1. told[c] \in {"pending", "ok", "failed"} \cup Doubtful
    BY OwnRequests DEF ThreadInv, ThreadsOK
  <2> QED
    BY <2>1, OwnRequests DEF ThreadInv, RequestsCurrent, ThreadsAtKey, AtKey, InThread
<1>2. UNCHANGED <<pos, told>>
  BY DEF Serve
<1>3. CASE UNCHANGED <<typed, skipped>>
  BY <1>2, <1>3, StutterDelivers
<1>4. CASE Execute(r) \/ Skip(r)
  <2>1. \/ typed' = Append(typed, Delivery!At(c)) /\ UNCHANGED skipped
        \/ skipped' = skipped \cup {Delivery!At(c)} /\ UNCHANGED typed
    BY <1>1, <1>4 DEF Execute, Skip, Entry, Delivery!At
  <2>2. ~Delivery!Served(c)
    BY <1>1, ServedIsServed
  <2>3. StatusFn[c] # "ok" /\ StatusFn' = StatusFn
    BY <1>1, <1>2, StatusDecided DEF StatusFn, Status
  <2>4. Delivery!Serve(c)
    BY <1>1, <1>2, <2>1, <2>2, <2>3 DEF Delivery!Serve, StatusFn, Status
  <2> QED
    BY <1>1, <2>4
<1> QED
  BY <1>3, <1>4, ServeCases

LEMMA NextDelivers == IInv /\ [Next]_vars => [Delivery!Next]_(Delivery!vars)
<1> SUFFICES ASSUME IInv, [Next]_vars
             PROVE  Delivery!Next \/ UNCHANGED Delivery!vars
  OBVIOUS
<1>0. ThreadInv
  BY DEF IInv
<1>1. ASSUME NEW c \in Clicks, Click(c)
      PROVE  Delivery!Next \/ UNCHANGED Delivery!vars
  <2>1. /\ stage[c] = "idle" /\ told[c] = "pending" /\ pos[c] = 1
        /\ UNCHANGED <<typed, skipped>>
    BY <1>0, <1>1 DEF Click, ThreadInv, ThreadsAtKey, AtKey, ThreadsOK, receiver
  <2>2. CASE Tell(c, "offline") \/ Tell(c, "failed")
    BY <1>0, <2>1, <2>2, FailDelivers DEF Tell, Delivery!Next, Doubtful
  <2>3. CASE Start(c, 1)
    <3>1. told' = told /\ pos' = pos
      BY <1>0, <2>1, <2>3 DEF Start, ThreadInv, ThreadsOK
    <3> QED
      BY <2>1, <3>1, StutterDelivers
  <2> QED
    BY <1>1, <2>2, <2>3 DEF Click
<1>2. ASSUME NEW c \in Clicks, Read(c)
      PROVE  Delivery!Next \/ UNCHANGED Delivery!vars
  <2>1. told[c] = "pending" /\ UNCHANGED <<typed, skipped>>
    BY <1>0, <1>2, WhileReading DEF Read, receiver
  <2>2. CASE UNCHANGED <<pos, told>>
    BY <2>1, <2>2, StutterDelivers
  <2>3. CASE reply[c] \in {"ok", "plain_ok"} /\ KeySent(c)
    BY <1>0, <2>1, <2>3, KeySentDelivers DEF Delivery!Next
  <2>4. ASSUME NEW answer \in {"failed"} \cup Doubtful, Tell(c, answer)
        PROVE  Delivery!Next
    BY <1>0, <2>1, <2>4, FailDelivers DEF Tell, Delivery!Next
  <2> QED
    BY <1>2, <2>2, <2>3, <2>4 DEF Read, Doubtful
<1>3. ASSUME NEW c \in Clicks, GiveUp(c)
      PROVE  Delivery!Next \/ UNCHANGED Delivery!vars
  <2>1. told[c] = "pending" /\ UNCHANGED <<pos, typed, skipped>>
    BY <1>0, <1>3 DEF GiveUp, receiver, ThreadInv, ThreadsAtKey, AtKey, ThreadsOK
  <2>2. \E answer \in {"failed"} \cup Doubtful : told' = [told EXCEPT ![c] = answer]
    BY <1>3 DEF GiveUp, Doubtful
  <2> QED
    BY <1>0, <2>1, <2>2, FailDelivers DEF Delivery!Next
<1>4. ASSUME NEW r \in net, Serve(r)
      PROVE  Delivery!Next \/ UNCHANGED Delivery!vars
  BY <1>0, <1>4, ServeDelivers DEF Delivery!Next
<1>5. CASE UNCHANGED keyVars
  BY <1>5, StutterDelivers DEF keyVars, receiver
<1>6. \/ \E c \in Clicks : Click(c) \/ Read(c) \/ GiveUp(c)
      \/ \E r \in net : Serve(r)
      \/ UNCHANGED keyVars
  BY DEF Next, ThreadStep, PollAnswered, PollFailed, PollState, ShowState, Change, Stop, vars
<1> QED
  BY <1>1, <1>2, <1>3, <1>4, <1>5, <1>6

(* Every behaviour of the web remote is one KeyDelivery allows. *)
THEOREM Implements == Spec => DeliversKeys
  BY InitDelivers, NextDelivers, Invariant, PTL DEF Spec, DeliversKeys, Delivery!Spec
=============================================================================
