---------------------------- MODULE RemoteServer ----------------------------
(***************************************************************************)
(* The local web remote (tools/remote_server.py): clicks on its page, the  *)
(* server's thread for each, which sends the keys of the click one Digest  *)
(* exchange after the other, or launches or stops an app, and the receiver *)
(* that answers.  Unlike the transport of the integration, no lock keeps   *)
(* the exchanges of two threads apart.  Every five seconds the page polls  *)
(* for its on/standby indicator, whether the last poll has ended or not.   *)
(***************************************************************************)
EXTENDS Naturals, Sequences, Ascending

CONSTANTS
  Clicks,        \* requests of the page
  Visits,        \* the sets of clicks a user may make at once
  Ask,           \* what a click asks for: [api, text]
  Unsupported,   \* keys this receiver does not accept over IP
  OneNonce,      \* does a new challenge void the nonces before it?
  LateRequests,  \* may a request be served after its thread gave up?
  Faults,        \* faults of the receiver and of the network
  MayStop,       \* may the user stop the server?
  Polls,         \* polls of the page that may overlap: a poll takes at most
                 \* the five seconds of device_info's timeout and a bit
  MaxChanges,    \* how often the receiver enters or leaves standby
  NoNonce, NoReply,
  Nothing        \* an answer without a name, an indicator not set yet

Digits == {"0", "1", "2", "3", "4", "5", "6", "7", "8", "9"}
Answers == {"challenge", "no_challenge", "unexpected", "denied", "rejected",
            "ok", "plain_ok", "no_result", "not_object"}
(* What the page is told when nobody knows whether the key was executed: a *)
(* status other than the one waited for, a result that is none, no answer. *)
Doubtful == {"unexpected", "no_result", "offline"}

ASSUME RemoteAssumption ==
  /\ Visits \subseteq SUBSET Clicks
  /\ \A c \in Clicks :
       /\ Ask[c].api \in {"key", "tune", "app"} /\ Ask[c].text \in Seq(STRING)
       /\ Ask[c].api # "tune" => Len(Ask[c].text) <= 1
  /\ Faults \subseteq {"timeout", "http_error", "no_nonce", "unexpected", "not_json",
                       "no_result"}
  /\ OneNonce \in BOOLEAN /\ LateRequests \in BOOLEAN /\ MayStop \in BOOLEAN
  /\ NoNonce \notin Clicks \X (Nat \ {0})
  /\ MaxChanges \in Nat /\ {Nothing, NoReply} \cap Nat = {} /\ NoReply \notin Answers

(* What the receiver has to execute for a click: the digits of a channel   *)
(* and Enter, a key, or the launch or stop of an app.  An empty text is    *)
(* refused by the server.                                                  *)
send_channel(text) ==
  LET places == Ascending({i \in DOMAIN text : text[i] \in Digits})
  IN  Append([k \in DOMAIN places |-> text[places[k]]], "Enter")

keys == [c \in Clicks |->
           IF Ask[c].text = <<>> THEN <<>>
           ELSE IF Ask[c].api = "tune" THEN send_channel(Ask[c].text) ELSE Ask[c].text]

VARIABLES
  up,     \* does the server accept requests?
  visit,  \* what the user clicks
  stage,  \* click -> what its thread waits for
  pos,    \* click -> the key it is at
  told,   \* click -> what the page was told
  net,    \* requests on their way to the receiver
  reply,  \* click -> the answer its thread has yet to read
  live,   \* nonces the receiver still honours
  typed,  \* what the receiver executed, in order
  skipped,  \* what it left out in an answer that is read as success
  control,  \* does the control URL found or guessed at start answer?
  changes,  \* receiver: how often it entered or left standby
  poll,     \* poll -> the answer on its way to the page, or NoReply
  dot       \* the change the page's indicator shows

receiver == <<live, typed, skipped>>
keyVars == <<visit, stage, pos, told, net, reply, receiver>>
stateVars == <<control, changes, poll, dot>>
vars == <<up, keyVars, stateVars>>

Nonces == Clicks \X (Nat \ {0})

(* discover_urls: the control URL that the description the receiver        *)
(* announced names, or a conventional one that need not answer.            *)
discover_urls ==
  \E announced, described, named, conventional \in BOOLEAN :
    control = IF announced /\ described /\ named THEN TRUE ELSE conventional

Init ==
  /\ up = TRUE /\ visit \in Visits
  /\ stage = [c \in Clicks |-> "idle"] /\ pos = [c \in Clicks |-> 1]
  /\ told = [c \in Clicks |-> "pending"]
  /\ net = {} /\ reply = [c \in Clicks |-> NoReply]
  /\ live = {} /\ typed = <<>> /\ skipped = {}
  /\ discover_urls
  /\ changes = 0 /\ poll = [p \in Polls |-> NoReply] /\ dot = Nothing

-----------------------------------------------------------------------------
(* The server. *)

Post(c, p, nonce) == net' = net \cup {[cmd |-> c, pos |-> p, nonce |-> nonce]}

Tell(c, answer) ==
  /\ stage' = [stage EXCEPT ![c] = "done"]
  /\ told' = [told EXCEPT ![c] = answer]
  /\ UNCHANGED <<pos, net>>

Start(c, p) ==
  /\ stage' = [stage EXCEPT ![c] = IF Ask[c].api = "app" THEN "dial" ELSE "first"]
  /\ pos' = [pos EXCEPT ![c] = p]
  /\ Post(c, p, NoNonce)
  /\ UNCHANGED told

(* The page asks the server; a stopped one refuses the connection. *)
Click(c) ==
  /\ c \in visit /\ stage[c] = "idle"
  /\ \/ ~up /\ Tell(c, "offline")
     \/ up /\ keys[c] = <<>> /\ Tell(c, "failed")
     \/ up /\ keys[c] # <<>> /\ Start(c, 1)
  /\ UNCHANGED <<up, visit, reply, receiver, stateVars>>

(* Mutants: the keys counted from zero, and past the last one. *)
KeySentEarly(c) == IF pos[c] + 1 < Len(keys[c]) THEN Start(c, pos[c] + 1) ELSE Tell(c, "ok")
KeySentPast(c) == IF pos[c] <= Len(keys[c]) THEN Start(c, pos[c] + 1) ELSE Tell(c, "ok")

(* send_key returned ok: the next key, or the answer to the page. *)
KeySent(c) == IF pos[c] < Len(keys[c]) THEN Start(c, pos[c] + 1) ELSE Tell(c, "ok")

(* Mutant: a key that failed does not end the tune. *)
ReadOn(c) ==
  /\ reply[c] # NoReply
  /\ \/ /\ reply[c] = "challenge"
        /\ stage' = [stage EXCEPT ![c] = "second"]
        /\ Post(c, pos[c], <<c, pos[c]>>)
        /\ UNCHANGED <<pos, told>>
     \/ reply[c] # "challenge" /\ KeySent(c)
  /\ reply' = [reply EXCEPT ![c] = NoReply]
  /\ UNCHANGED <<up, visit, receiver, stateVars>>

(* The thread reads an answer.  A key that failed ends the tune.  The      *)
(* status decides when the body is not JSON; JSON that is no object ends   *)
(* the thread without an answer to the page.                               *)
Read(c) ==
  /\ reply[c] # NoReply
  /\ \/ /\ reply[c] = "challenge"
        /\ stage' = [stage EXCEPT ![c] = "second"]
        /\ Post(c, pos[c], <<c, pos[c]>>)
        /\ UNCHANGED <<pos, told>>
     \/ reply[c] \in {"ok", "plain_ok"} /\ KeySent(c)
     \/ reply[c] \in {"no_challenge", "denied", "rejected"} /\ Tell(c, "failed")
     \/ reply[c] \in {"unexpected", "no_result"} /\ Tell(c, reply[c])
     \/ reply[c] = "not_object" /\ Tell(c, "offline")
  /\ reply' = [reply EXCEPT ![c] = NoReply]
  /\ UNCHANGED <<up, visit, receiver, stateVars>>

(* The receiver does not answer in time, or hangs up: the exception ends   *)
(* the thread of a key without an answer to the page, while the launch of  *)
(* an app reports it.                                                      *)
GiveUp(c) ==
  /\ "timeout" \in Faults /\ stage[c] \in {"first", "second", "dial"} /\ reply[c] = NoReply
  /\ stage' = [stage EXCEPT ![c] = "done"]
  /\ told' = [told EXCEPT ![c] = IF stage[c] = "dial" THEN "failed" ELSE "offline"]
  /\ net' = IF LateRequests THEN net ELSE {q \in net : q.cmd # c}
  /\ UNCHANGED <<up, visit, pos, reply, receiver, stateVars>>

(* Ctrl-C: no request is accepted any more, the threads are waited for. *)
Stop ==
  /\ MayStop /\ up
  /\ up' = FALSE
  /\ UNCHANGED <<keyVars, stateVars>>

(* The page polls, the server reads the receiver's state: an answer, or    *)
(* nothing if the receiver did not answer.  A stopped server is not heard. *)
PollState(p, answer) ==
  /\ up /\ poll[p] = NoReply
  /\ poll' = [poll EXCEPT ![p] = answer]
  /\ UNCHANGED <<up, keyVars, control, changes, dot>>

PollAnswered(p) == control /\ PollState(p, changes)
PollFailed(p) == PollState(p, Nothing)

(* Mutant: an indicator that is set stays. *)
ShowOnce(p) ==
  /\ poll[p] # NoReply
  /\ dot' = IF dot = Nothing THEN poll[p] ELSE dot
  /\ poll' = [poll EXCEPT ![p] = NoReply]
  /\ UNCHANGED <<up, keyVars, control, changes>>

(* The answer arrives at the page, in whatever order: without a name the   *)
(* indicator stays as it is.                                               *)
ShowState(p) ==
  /\ poll[p] # NoReply
  /\ dot' = IF poll[p] = Nothing THEN dot ELSE poll[p]
  /\ poll' = [poll EXCEPT ![p] = NoReply]
  /\ UNCHANGED <<up, keyVars, control, changes>>

-----------------------------------------------------------------------------
(* The receiver. *)

Change ==
  /\ changes < MaxChanges /\ changes' = changes + 1
  /\ UNCHANGED <<up, keyVars, control, poll, dot>>

Answer(q, answer) ==
  reply' = [reply EXCEPT ![q.cmd] =
              IF stage[q.cmd] \in {"first", "second", "dial"} THEN answer ELSE @]

Entry(q) == [cmd |-> q.cmd, pos |-> q.pos]
Execute(q) == typed' = Append(typed, Entry(q)) /\ UNCHANGED skipped
Skip(q) == skipped' = skipped \cup {Entry(q)} /\ UNCHANGED typed

Supported(q) == keys[q.cmd][q.pos] \notin Unsupported

(* Without authorization: a challenge, or an error, or the app.  A receiver *)
(* that asks for no authorization executes the key and answers 200, where  *)
(* 401 is waited for; one that launched an app may say so with another     *)
(* status.                                                                 *)
ServeFirst(q) ==
  /\ q.nonce = NoNonce
  /\ \/ /\ Faults \cap {"http_error", "no_nonce"} # {}
        /\ Answer(q, "no_challenge")
        /\ UNCHANGED receiver
     \/ /\ Ask[q.cmd].api # "app"
        /\ live' = (IF OneNonce THEN {} ELSE live) \cup {<<q.cmd, q.pos>>}
        /\ Answer(q, "challenge")
        /\ UNCHANGED <<typed, skipped>>
     \/ /\ Ask[q.cmd].api = "app"
        /\ Execute(q) /\ Answer(q, "ok")
        /\ UNCHANGED live
     \/ /\ "unexpected" \in Faults
        /\ IF Supported(q) THEN Execute(q) ELSE UNCHANGED <<typed, skipped>>
        /\ Answer(q, "unexpected")
        /\ UNCHANGED live

(* With authorization: the key, if the nonce is live and the key supported. *)
(* An answer without a result, or not in JSON, may stand for either.       *)
ServeSecond(q) ==
  /\ q.nonce # NoNonce
  /\ live' = live \ {q.nonce}
  /\ \/ q.nonce \notin live /\ Answer(q, "denied") /\ UNCHANGED <<typed, skipped>>
     \/ /\ q.nonce \in live /\ ~Supported(q)
        /\ Answer(q, "rejected") /\ UNCHANGED <<typed, skipped>>
     \/ q.nonce \in live /\ Supported(q) /\ Execute(q) /\ Answer(q, "ok")
     \/ /\ "not_json" \in Faults /\ Answer(q, "plain_ok")
        /\ (q.nonce \in live /\ Supported(q) /\ Execute(q)) \/ Skip(q)
     \/ /\ "no_result" \in Faults
        /\ \E kind \in {"no_result", "not_object"} : Answer(q, kind)
        /\ \/ q.nonce \in live /\ Supported(q) /\ Execute(q)
           \/ UNCHANGED <<typed, skipped>>

Serve(q) ==
  /\ ServeFirst(q) \/ ServeSecond(q)
  /\ net' = net \ {q}
  /\ UNCHANGED <<up, visit, stage, pos, told, stateVars>>

ThreadStep(c) == Read(c) \/ GiveUp(c)

Next ==
  \/ \E c \in Clicks : Click(c) \/ ThreadStep(c)
  \/ \E q \in net : Serve(q)
  \/ \E p \in Polls : PollAnswered(p) \/ PollFailed(p) \/ ShowState(p)
  \/ Change \/ Stop

Spec == Init /\ [][Next]_vars

(* The page polls for ever; a receiver that is there answers now and then. *)
FairSpec ==
  /\ Spec
  /\ \A p \in Polls : SF_vars(PollAnswered(p)) /\ WF_vars(ShowState(p))

-----------------------------------------------------------------------------
(* Properties. *)

(* Type correctness of the threads, the network and the receiver. *)
TypeOK ==
  /\ up \in BOOLEAN /\ visit \in Visits
  /\ stage \in [Clicks -> {"idle", "first", "second", "dial", "done"}]
  /\ \A c \in Clicks : pos[c] \in 1..Len(keys[c]) \/ pos[c] = 1
  /\ told \in [Clicks -> {"pending", "ok", "failed"} \cup Doubtful]
  /\ \A q \in net : q.cmd \in Clicks /\ q.pos \in DOMAIN keys[q.cmd]
                    /\ q.nonce \in Nonces \cup {NoNonce}
  /\ reply \in [Clicks -> Answers \cup {NoReply}]
  /\ live \subseteq Nonces
  /\ \A i \in DOMAIN typed : typed[i].cmd \in Clicks
  /\ \A e \in skipped : e.cmd \in Clicks
  /\ control \in BOOLEAN /\ changes \in 0..MaxChanges
  /\ poll \in [Polls -> 0..MaxChanges \cup {Nothing, NoReply}]
  /\ dot \in 0..MaxChanges \cup {Nothing}

Typed(c, p) == \E i \in DOMAIN typed : typed[i] = [cmd |-> c, pos |-> p]

(* The receiver executed the key, or left it out in an answer that is not  *)
(* JSON and below 400, which the server reads as success.                  *)
Served(c, p) == Typed(c, p) \/ [cmd |-> c, pos |-> p] \in skipped

(* What the page is told is true, although threads void each other's       *)
(* nonces: "ok" that all keys were served; an error the receiver gave that *)
(* the key it is about was not executed; whatever it is told, the keys     *)
(* before that one were served and none after it executed.  Other errors   *)
(* leave that key in doubt: a receiver that asks for no authorization has  *)
(* executed a key that the page is told failed.                            *)
ToldTruth ==
  \A c \in Clicks :
    /\ told[c] = "ok" => \A p \in DOMAIN keys[c] : Served(c, p)
    /\ told[c] = "failed" /\ Ask[c].api # "app" => ~Typed(c, pos[c])
    /\ \A p \in 1..(pos[c] - 1) : Served(c, p)
    /\ \A i \in DOMAIN typed : typed[i].cmd = c => typed[i].pos <= pos[c]

(* Like the transport of the integration, the server implements the        *)
(* abstract delivery of keys.                                              *)
Status(c) == IF told[c] \in Doubtful THEN "failed" ELSE told[c]

Delivery == INSTANCE KeyDelivery WITH
  Calls <- Clicks, Forgiving <- {},
  status <- [c \in Clicks |-> Status(c)]

DeliversKeys == Delivery!Spec

(* "a live on/standby indicator": while the server runs and reaches the    *)
(* receiver, the page comes to show its state and keeps showing it, also   *)
(* when the answers of overlapping polls arrive in the wrong order.        *)
IndicatorCatchesUp == <>[](up /\ control => dot = changes)
=============================================================================
