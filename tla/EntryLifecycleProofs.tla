------------------------- MODULE EntryLifecycleProofs -------------------------
(***************************************************************************)
(* Proofs about the lifecycle of any number of entries, with any forms and *)
(* faults: who owns the GENA listeners, which interval a loaded entry      *)
(* polls at, which favorites its media player offers of the text that was  *)
(* typed, and when the frontend is registered.                             *)
(***************************************************************************)
EXTENDS EntryLifecycle, FiniteSetTheorems, SequenceTheorems, WellFoundedInduction, TLAPS

Stages == Setup \cup Unload \cup Rest

(* A record with the fields of an entry. *)
Whole(r) ==
  r \in [stage : Stages, options : {r.options}, config : {r.config},
         interval : {r.interval}, favorites : {r.favorites}, session : BOOLEAN,
         listener : {r.listener}, gena : BOOLEAN, reload : BOOLEAN,
         typed : {r.typed}, missed : {r.missed}]

(* Who has a listener, a session and a subscription, by the stage. *)
Owns(r) ==
  /\ r.listener = IF r.gena \/ r.stage = "subscribe" THEN 1 ELSE 0
  /\ r.stage \in {"not_loaded", "setup_retry", "frontend"} => ~r.session /\ ~r.gena
  /\ r.stage \in {"connect", "refresh", "subscribe"} => ~r.gena
  /\ r.stage = "unsubscribe" => r.gena

(* Which interval a setup works with, by the stage: the one it read, which *)
(* the options still have unless a change was missed or a reload is due.   *)
Reads(r) ==
  /\ r.stage \in {"refresh", "subscribe", "platforms", "entities", "loaded"} =>
       r.interval = ScanInterval(r.config)
  /\ r.stage \in (Setup \ {"frontend"}) \cup {"loaded"} =>
       \/ r.config = r.options.scan_interval
       \/ "scan_interval" \in r.missed
       \/ r.stage = "loaded" /\ r.reload

Sound(r) == Whole(r) /\ Owns(r) /\ Reads(r)

Shape ==
  /\ entry = [e \in Entries |-> entry[e]]
  /\ \A e \in Entries : Sound(entry[e])

(* One entry goes on, the others stay as they are. *)
LEMMA Updated ==
  ASSUME Shape, NEW e \in Entries, NEW to, Sound(to), entry' = [entry EXCEPT ![e] = to]
  PROVE  /\ Shape' /\ entry'[e] = to
         /\ \A d \in Entries : d # e => entry'[d] = entry[d]
  BY DEF Shape

LEMMA InitShape == Init => Shape
<1> SUFFICES ASSUME Init
             PROVE  Shape
  OBVIOUS
<1>1. Sound(NewEntry)
  BY DEF Sound, Whole, Owns, Reads, NewEntry, Stages, Setup, Rest
<1> HIDE DEF NewEntry
<1> QED
  BY <1>1 DEF Init, Shape

LEMMA StartConnectingShape ==
  ASSUME Shape, NEW e \in Entries, StartConnecting(e),
         entry[e].stage \in {"not_loaded", "setup_retry", "frontend"}
  PROVE  Shape' /\ entry'[e].stage = "connect" /\ \A d \in Entries : d # e => entry'[d] = entry[d]
<1> DEFINE r == entry[e]
           to == [r EXCEPT !.stage = "connect", !.session = TRUE,
                           !.config = r.options.scan_interval,
                           !.reload = FALSE, !.missed = {}]
<1>1. Sound(r)
  BY DEF Shape
<1>2. Whole(r) /\ r.gena = FALSE /\ r.listener = 0
  BY <1>1 DEF Sound, Owns, Whole
<1>3. /\ to.stage = "connect" /\ to.gena = r.gena /\ to.listener = r.listener
      /\ to.options = r.options /\ to.config = r.options.scan_interval
  BY <1>2 DEF Whole
<1>4. Whole(to)
  BY <1>2 DEF Whole, Stages, Setup
<1>5. Owns(to) /\ Reads(to)
  BY <1>2, <1>3 DEF Owns, Reads
<1>6. entry' = [entry EXCEPT ![e] = to]
  BY DEF StartConnecting
<1> HIDE DEF to
<1> QED
  BY <1>3, <1>4, <1>5, <1>6, Updated DEF Sound

(* A step that only leads one entry to another stage, in which it neither  *)
(* has less than before nor awaits a subscription.                         *)
LEMMA StageShape ==
  ASSUME Shape, NEW e \in Entries,
         NEW stage \in {"platforms", "loaded", "unload_platforms", "unsubscribe", "failed_unload"},
         entry' = [entry EXCEPT ![e].stage = stage],
         entry[e].stage # "subscribe",
         stage = "unsubscribe" => entry[e].gena,
         stage \in {"platforms", "loaded"} => entry[e].stage \in {"refresh", "entities"}
  PROVE  Shape' /\ entry'[e].stage = stage /\ \A d \in Entries : d # e => entry'[d] = entry[d]
<1> DEFINE r == entry[e]
           to == [r EXCEPT !.stage = stage]
<1>1. Sound(r)
  BY DEF Shape
<1>2. /\ to.stage = stage /\ to.listener = r.listener /\ to.gena = r.gena
      /\ to.session = r.session /\ to.interval = r.interval /\ to.config = r.config
      /\ to.options = r.options /\ to.missed = r.missed
  BY <1>1 DEF Sound, Whole
<1>3. Whole(to)
  BY <1>1 DEF Sound, Whole, Stages, Setup, Unload, Rest
<1>4. Owns(to)
  BY <1>1, <1>2 DEF Sound, Owns
<1>5. Reads(to)
  BY <1>1, <1>2 DEF Sound, Reads, Setup
<1>6. entry' = [entry EXCEPT ![e] = to]
  OBVIOUS
<1> HIDE DEF to
<1> QED
  BY <1>2, <1>3, <1>4, <1>5, <1>6, Updated DEF Sound

LEMMA UnloadedShape ==
  ASSUME Shape, NEW e \in Entries, Unloaded(e, 0)
  PROVE  Shape' /\ entry'[e].stage = "not_loaded" /\ \A d \in Entries : d # e => entry'[d] = entry[d]
<1> DEFINE r == entry[e]
           to == [r EXCEPT !.stage = "not_loaded", !.session = FALSE,
                           !.interval = None, !.gena = FALSE,
                           !.favorites = NoFavorites, !.listener = 0]
<1>1. Sound(r)
  BY DEF Shape
<1>2. /\ to.stage = "not_loaded" /\ to.session = FALSE /\ to.gena = FALSE /\ to.listener = 0
  BY <1>1 DEF Sound, Whole
<1>3. Whole(to)
  BY <1>1 DEF Sound, Whole, Stages, Rest
<1>4. Owns(to) /\ Reads(to)
  BY <1>2 DEF Owns, Reads, Setup
<1>5. entry' = [entry EXCEPT ![e] = to]
  BY DEF Unloaded
<1> HIDE DEF to
<1> QED
  BY <1>2, <1>3, <1>4, <1>5, Updated DEF Sound

(* A step of one entry that has nothing to do with the frontend. *)
Passes(e) ==
  /\ \A d \in Entries : d # e => entry'[d] = entry[d]
  /\ UNCHANGED <<flag, registered>>
  /\ \/ entry'[e].stage = entry[e].stage
     \/ /\ "frontend" \notin {entry[e].stage, entry'[e].stage}
        /\ entry[e].stage \notin {"not_loaded", "setup_retry"} \/ flag

LEMMA ConnectShape ==
  ASSUME Shape, NEW e \in Entries, Connect(e)
  PROVE  Shape' /\ Passes(e)
<1> DEFINE r == entry[e]
<1>1. Sound(r) /\ r.stage = "connect" /\ r.gena = FALSE /\ r.listener = 0
  BY DEF Connect, At, Shape, Sound, Whole, Owns
<1>2. CASE Connected(e)
  <2> DEFINE to == [r EXCEPT !.stage = "refresh", !.interval = ScanInterval(r.config)]
  <2>1. /\ to.stage = "refresh" /\ to.interval = ScanInterval(to.config) /\ to.config = r.config
        /\ to.gena = r.gena /\ to.listener = r.listener
        /\ to.options = r.options /\ to.missed = r.missed
    BY <1>1 DEF Sound, Whole
  <2>2. Whole(to)
    BY <1>1 DEF Sound, Whole, Stages, Setup
  <2>3. Owns(to) /\ Reads(to)
    BY <1>1, <2>1 DEF Sound, Owns, Reads, Setup
  <2>4. entry' = [entry EXCEPT ![e] = to]
    BY <1>2 DEF Connected
  <2> HIDE DEF to
  <2> QED
    BY <1>1, <2>1, <2>2, <2>3, <2>4, Updated DEF Sound, Connect, Passes
<1>3. CASE entry' = [entry EXCEPT ![e] = [@ EXCEPT !.stage = "setup_retry",
                                                   !.session = FALSE, !.reload = TRUE]]
  <2> DEFINE to == [r EXCEPT !.stage = "setup_retry", !.session = FALSE, !.reload = TRUE]
  <2>1. /\ to.stage = "setup_retry" /\ to.session = FALSE
        /\ to.gena = r.gena /\ to.listener = r.listener
    BY <1>1 DEF Sound, Whole
  <2>2. Whole(to)
    BY <1>1 DEF Sound, Whole, Stages, Rest
  <2>3. Owns(to) /\ Reads(to)
    BY <1>1, <2>1 DEF Owns, Reads, Setup
  <2>4. entry' = [entry EXCEPT ![e] = to]
    BY <1>3
  <2> HIDE DEF to
  <2> QED
    BY <1>1, <2>1, <2>2, <2>3, <2>4, Updated DEF Sound, Connect, Passes
<1> QED
  BY <1>2, <1>3 DEF Connect

LEMMA RefreshedShape ==
  ASSUME Shape, NEW e \in Entries, Refreshed(e)
  PROVE  Shape' /\ Passes(e)
<1> DEFINE r == entry[e]
<1>1. Sound(r) /\ r.stage = "refresh" /\ r.gena = FALSE /\ r.listener = 0
  BY DEF Refreshed, At, Shape, Sound, Whole, Owns
<1>2. CASE entry' = [entry EXCEPT ![e] = [@ EXCEPT !.stage = "subscribe",
                                                   !.listener = entry[e].listener + 1]]
  <2> DEFINE to == [r EXCEPT !.stage = "subscribe", !.listener = r.listener + 1]
  <2>1. /\ to.stage = "subscribe" /\ to.listener = 1 /\ to.gena = r.gena
        /\ to.interval = r.interval /\ to.config = r.config
        /\ to.options = r.options /\ to.missed = r.missed
    BY <1>1 DEF Sound, Whole
  <2>2. Whole(to)
    <3>1. 1 = r.listener + 1
      BY <1>1
    <3> QED
      BY <1>1 DEF Sound, Whole, Stages, Setup
  <2>3. Owns(to)
    BY <1>1, <2>1 DEF Owns
  <2>4. Reads(to)
    BY <1>1, <2>1 DEF Sound, Reads, Setup
  <2>5. entry' = [entry EXCEPT ![e] = to]
    BY <1>2
  <2> HIDE DEF to
  <2> QED
    BY <1>1, <2>1, <2>2, <2>3, <2>4, <2>5, Updated DEF Sound, Refreshed, Passes
<1>3. CASE entry' = [entry EXCEPT ![e].stage = "platforms"]
  BY <1>1, <1>3, StageShape DEF Refreshed, Passes
<1> QED
  BY <1>2, <1>3 DEF Refreshed

LEMMA SubscribedShape ==
  ASSUME Shape, NEW e \in Entries, Subscribed(e)
  PROVE  Shape' /\ Passes(e)
<1> DEFINE r == entry[e]
<1>1. Sound(r) /\ r.stage = "subscribe" /\ r.gena = FALSE /\ r.listener = 1
  BY DEF Subscribed, At, Shape, Sound, Whole, Owns
<1>2. CASE entry' = [entry EXCEPT ![e] = [@ EXCEPT !.stage = "platforms", !.gena = TRUE]]
  <2> DEFINE to == [r EXCEPT !.stage = "platforms", !.gena = TRUE]
  <2>1. /\ to.stage = "platforms" /\ to.listener = 1 /\ to.gena = TRUE
        /\ to.interval = r.interval /\ to.config = r.config
        /\ to.options = r.options /\ to.missed = r.missed
    BY <1>1 DEF Sound, Whole
  <2>2. Whole(to)
    BY <1>1 DEF Sound, Whole, Stages, Setup
  <2>3. Owns(to)
    BY <1>1, <2>1 DEF Owns
  <2>4. Reads(to)
    BY <1>1, <2>1 DEF Sound, Reads, Setup
  <2>5. entry' = [entry EXCEPT ![e] = to]
    BY <1>2
  <2> HIDE DEF to
  <2> QED
    BY <1>1, <2>1, <2>2, <2>3, <2>4, <2>5, Updated DEF Sound, Subscribed, Passes
<1>3. CASE entry' = [entry EXCEPT ![e] = [@ EXCEPT !.stage = "platforms",
                                                   !.listener = entry[e].listener - 1]]
  <2> DEFINE to == [r EXCEPT !.stage = "platforms", !.listener = r.listener - 1]
  <2>1. /\ to.stage = "platforms" /\ to.listener = 0 /\ to.gena = r.gena
        /\ to.interval = r.interval /\ to.config = r.config
        /\ to.options = r.options /\ to.missed = r.missed
    BY <1>1 DEF Sound, Whole
  <2>2. Whole(to)
    <3>1. 0 = r.listener - 1
      BY <1>1
    <3> QED
      BY <1>1 DEF Sound, Whole, Stages, Setup
  <2>3. Owns(to)
    BY <1>1, <2>1 DEF Owns
  <2>4. Reads(to)
    BY <1>1, <2>1 DEF Sound, Reads, Setup
  <2>5. entry' = [entry EXCEPT ![e] = to]
    BY <1>3
  <2> HIDE DEF to
  <2> QED
    BY <1>1, <2>1, <2>2, <2>3, <2>4, <2>5, Updated DEF Sound, Subscribed, Passes
<1> QED
  BY <1>2, <1>3 DEF Subscribed

LEMMA AddEntitiesShape ==
  ASSUME Shape, NEW e \in Entries, AddEntities(e)
  PROVE  Shape' /\ Passes(e)
<1> DEFINE r == entry[e]
           to == [r EXCEPT !.stage = "entities", !.favorites = r.options.favorites]
<1>1. Sound(r) /\ r.stage = "platforms"
  BY DEF AddEntities, At, Shape
<1>2. /\ to.stage = "entities" /\ to.listener = r.listener /\ to.gena = r.gena
      /\ to.interval = r.interval /\ to.config = r.config
      /\ to.options = r.options /\ to.missed = r.missed
  BY <1>1 DEF Sound, Whole
<1>3. Whole(to)
  BY <1>1 DEF Sound, Whole, Stages, Setup
<1>4. Owns(to)
  BY <1>1, <1>2 DEF Sound, Owns
<1>5. Reads(to)
  BY <1>1, <1>2 DEF Sound, Reads, Setup
<1>6. entry' = [entry EXCEPT ![e] = to]
  BY DEF AddEntities
<1> HIDE DEF to
<1> QED
  BY <1>1, <1>2, <1>3, <1>4, <1>5, <1>6, Updated DEF Sound, AddEntities, Passes

LEMMA UnloadShape ==
  ASSUME Shape, NEW e \in Entries,
         BeginUnload(e) \/ Disable(e) \/ PlatformsUp(e) \/ PlatformsDown(e) \/ Unsubscribed(e)
  PROVE  Shape' /\ Passes(e)
<1>1. Sound(entry[e])
  BY DEF Shape
<1>2. CASE BeginUnload(e) \/ Disable(e)
  BY <1>2, StageShape DEF BeginUnload, Disable, At, Passes
<1>3. CASE PlatformsUp(e)
  BY <1>3, StageShape DEF PlatformsUp, At, Passes
<1>4. CASE At(e, "unload_platforms") /\ ~entry[e].gena /\ Unloaded(e, entry[e].listener)
  <2>1. entry[e].listener = 0
    BY <1>1, <1>4 DEF Sound, Owns, At
  <2> QED
    BY <1>4, <2>1, UnloadedShape DEF At, Passes, BeginUnload, Disable, PlatformsUp,
       PlatformsDown, Unsubscribed
<1>5. CASE PlatformsDown(e) /\ ~(~entry[e].gena /\ Unloaded(e, entry[e].listener))
  BY <1>5, StageShape DEF PlatformsDown, At, Passes
<1>6. CASE Unsubscribed(e) /\ Unloaded(e, entry[e].listener - 1)
  <2>1. entry[e].listener - 1 = 0
    BY <1>1, <1>6 DEF Sound, Owns, At, Unsubscribed
  <2> QED
    BY <1>6, <2>1, UnloadedShape DEF At, Passes, Unsubscribed
<1>7. CASE Unsubscribed(e) /\ ~Unloaded(e, entry[e].listener - 1)
  BY <1>7, StageShape DEF Unsubscribed, At, Passes
<1> QED
  BY <1>2, <1>3, <1>4, <1>5, <1>6, <1>7 DEF PlatformsDown

(* Of a change of options a loaded entry hears, and one whose setup is     *)
(* under way has missed that its interval is not the one it read.          *)
LEMMA ChangeShape ==
  ASSUME Shape, NEW e \in Entries, ChangeOptions(e)
  PROVE  Shape' /\ Passes(e)
<1> DEFINE r == entry[e]
<1>1. Sound(r)
  BY DEF Shape
<1>2. PICK options, typed :
        entry' = [entry EXCEPT ![e] = [@ EXCEPT
                    !.options = options, !.typed = typed,
                    !.reload = entry[e].reload \/ At(e, "loaded"),
                    !.missed = entry[e].missed \cup Unseen(e)]]
  BY DEF ChangeOptions, Save
<1> DEFINE to == [r EXCEPT !.options = options, !.typed = typed,
                           !.reload = r.reload \/ At(e, "loaded"),
                           !.missed = r.missed \cup Unseen(e)]
<1>3. /\ to.stage = r.stage /\ to.listener = r.listener /\ to.gena = r.gena
      /\ to.session = r.session /\ to.interval = r.interval /\ to.config = r.config
      /\ to.missed = r.missed \cup Unseen(e) /\ (r.stage = "loaded" => to.reload)
  BY <1>1 DEF Sound, Whole, At
<1>4. Whole(to)
  <2>1. (r.reload \/ At(e, "loaded")) \in BOOLEAN
    OBVIOUS
  <2> QED
    BY <1>1, <2>1 DEF Sound, Whole
<1>5. Owns(to)
  BY <1>1, <1>3 DEF Sound, Owns
<1>6. Reads(to)
  <2>1. r.stage \in Setup \ {"frontend"} => "scan_interval" \in to.missed
    BY <1>3 DEF Unseen, At
  <2> QED
    BY <1>1, <1>3, <2>1 DEF Sound, Reads, Setup
<1>7. entry' = [entry EXCEPT ![e] = to]
  BY <1>2
<1> HIDE DEF to
<1> QED
  BY <1>3, <1>4, <1>5, <1>6, <1>7, Updated DEF Sound, ChangeOptions, Passes

LEMMA BeginSetupShape ==
  ASSUME Shape, NEW e \in Entries, BeginSetup(e)
  PROVE  /\ Shape' /\ UNCHANGED <<flag, registered>>
         /\ \A d \in Entries : d # e => entry'[d] = entry[d]
         /\ entry[e].stage # "frontend"
         /\ entry'[e].stage = IF flag THEN "connect" ELSE "frontend"
<1> DEFINE r == entry[e]
<1>1. Sound(r) /\ r.stage \in {"not_loaded", "setup_retry"}
  BY DEF BeginSetup, Shape
<1>2. CASE flag /\ StartConnecting(e)
  BY <1>1, <1>2, StartConnectingShape DEF BeginSetup
<1>3. CASE ~flag /\ entry' = [entry EXCEPT ![e] = [@ EXCEPT !.stage = "frontend", !.reload = FALSE]]
  <2> DEFINE to == [r EXCEPT !.stage = "frontend", !.reload = FALSE]
  <2>1. /\ to.stage = "frontend" /\ to.listener = r.listener
        /\ to.gena = r.gena /\ to.session = r.session
    BY <1>1 DEF Sound, Whole
  <2>2. Whole(to)
    BY <1>1 DEF Sound, Whole, Stages, Setup
  <2>3. Owns(to) /\ Reads(to)
    BY <1>1, <2>1 DEF Sound, Owns, Reads, Setup
  <2>4. entry' = [entry EXCEPT ![e] = to]
    BY <1>3
  <2> HIDE DEF to
  <2> QED
    BY <1>1, <1>3, <2>1, <2>2, <2>3, <2>4, Updated DEF Sound, BeginSetup
<1> QED
  BY <1>2, <1>3 DEF BeginSetup

LEMMA RegisterShape ==
  ASSUME Shape, NEW e \in Entries, RegisterFrontend(e)
  PROVE  /\ Shape' /\ entry[e].stage = "frontend" /\ entry'[e].stage = "connect"
         /\ \A d \in Entries : d # e => entry'[d] = entry[d]
  BY StartConnectingShape DEF RegisterFrontend, At

LEMMA Steps ==
  ASSUME Shape, NEW e \in Entries, Step(e) \/ Disable(e) \/ ChangeOptions(e)
  PROVE  Shape' /\ (Passes(e) \/ BeginSetup(e) \/ RegisterFrontend(e))
  BY ConnectShape, RefreshedShape, SubscribedShape, AddEntitiesShape, UnloadShape, ChangeShape,
     BeginSetupShape, RegisterShape DEF Step

LEMMA NextShape == Shape /\ [Next]_vars => Shape'
<1>1. ASSUME Shape, UNCHANGED vars
      PROVE  Shape'
  BY <1>1 DEF Shape, vars
<1> QED
  BY <1>1, Steps DEF Next

LEMMA AlwaysShape == Spec => []Shape
  BY InitShape, NextShape, PTL DEF Spec

(* Through retries, reloads and failed subscriptions an entry has at most  *)
(* one GENA listener, the one its runtime data can stop (__init__.py); an  *)
(* entry that is not loaded has none, and no session.                      *)
THEOREM OwnedListeners == Spec => []ListenersOwned
<1>1. Shape => ListenersOwned
  BY DEF Shape, Sound, Owns, ListenersOwned, At
<1> QED
  BY <1>1, AlwaysShape, PTL

(* A loaded entry polls every so many seconds as its options say now, or   *)
(* every ten if they say nothing (async_setup_entry, _async_reload_entry), *)
(* unless they changed in the course of its last setup, before it listened *)
(* to them.  Nothing is claimed of options of zero seconds.                *)
THEOREM AppliedOptions == Spec => []OptionsApplied
<1>1. ASSUME Shape, NEW e \in Entries, Works(e, "scan_interval")
      PROVE  entry[e].interval = ScanInterval(entry[e].options.scan_interval)
  BY <1>1 DEF Shape, Sound, Reads, Works, At
<1>2. ASSUME NEW seconds, seconds # 0
      PROVE  ScanInterval(seconds) = IF seconds = None THEN DEFAULT_SCAN_INTERVAL ELSE seconds
  BY <1>2 DEF ScanInterval
<1>3. Shape => OptionsApplied
  BY <1>1, <1>2 DEF OptionsApplied
<1> QED
  BY <1>3, AlwaysShape, PTL

-----------------------------------------------------------------------------
(* What a text makes of favorites, and the favorites of a text. *)

(* The largest of some numbers up to n. *)
LEMMA MaxOf ==
  ASSUME NEW n \in Nat, NEW S \in SUBSET (1..n), S # {}
  PROVE  Max(S) \in S /\ \A i \in S : i <= Max(S)
<1> DEFINE T == {n - i : i \in S}
<1>1. \A i \in S : i \in Nat /\ n - i \in Nat
  OBVIOUS
<1>2. T \subseteq Nat /\ T # {}
  BY <1>1
<1>3. \E x \in T : \A y \in T : ~(<<y, x>> \in OpToRel(<, Nat))
  BY <1>2, NatLessThanWellFounded, WFMin
<1>4. PICK x \in T : \A y \in T : ~(y < x)
  BY <1>2, <1>3 DEF OpToRel
<1>5. PICK m \in S : x = n - m
  OBVIOUS
<1>6. ASSUME NEW i \in S
      PROVE  m >= i
  <2>1. ~(n - i < n - m)
    BY <1>4, <1>5
  <2>2. i \in Nat /\ m \in Nat
    BY <1>1
  <2> HIDE DEF T
  <2> QED
    BY <2>1, <2>2
<1>7. Max(S) \in S /\ \A i \in S : Max(S) >= i
  BY <1>6 DEF Max
<1> QED
  BY <1>1, <1>7

(* A line is its name and what follows it. *)
LEMMA HeadAndTail ==
  ASSUME NEW line \in Seq(STRING), line # <<>>
  PROVE  <<Head(line)>> \o Tail(line) = line
<1>1. Head(line) \in STRING /\ Tail(line) \in Seq(STRING) /\ Len(Tail(line)) = Len(line) - 1
      /\ \A i \in 1..Len(Tail(line)) : Tail(line)[i] = line[i + 1]
  BY HeadTailProperties
<1> DEFINE s == <<Head(line)>>
           t == Tail(line)
<1>2. s \in Seq(STRING) /\ Len(s) = 1 /\ s[1] = line[1]
  BY <1>1
<1>3. Len(line) \in Nat /\ Len(t) \in Nat /\ t \in Seq(STRING)
  BY <1>1, LenProperties
<1> HIDE DEF s, t
<1>4. /\ s \o t \in Seq(STRING) /\ Len(s \o t) = Len(s) + Len(t)
      /\ \A i \in 1..Len(s) + Len(t) : (s \o t)[i] = IF i <= Len(s) THEN s[i] ELSE t[i - Len(s)]
  BY <1>2, <1>3, ConcatProperties
<1>5. Len(t) = Len(line) - 1 /\ \A i \in 1..Len(t) : t[i] = line[i + 1]
  BY <1>1 DEF t
<1>6. Len(s \o t) = Len(line)
  BY <1>2, <1>3, <1>4, <1>5
<1>7. ASSUME NEW i \in 1..Len(s \o t)
      PROVE  (s \o t)[i] = line[i]
  <2>1. CASE i = 1
    BY <1>2, <1>3, <1>4, <1>6, <2>1
  <2>2. CASE i # 1
    <3>1. i - 1 \in 1..Len(t) /\ (i - 1) + 1 = i
      BY <1>3, <1>5, <1>6, <2>2
    <3>2. t[i - 1] = line[i]
      BY <1>5, <3>1
    <3>3. i \in 1..Len(s) + Len(t) /\ ~(i <= Len(s)) /\ i - Len(s) = i - 1
      BY <1>2, <1>3, <1>4, <2>2
    <3> QED
      BY <1>4, <3>2, <3>3
  <2> QED
    BY <2>1, <2>2
<1>8. s \o t = line
  BY <1>4, <1>6, <1>7, SeqEqual
<1> QED
  BY <1>8 DEF s, t

(* The elements of a finite set, in some order. *)
LEMMA InSomeOrder ==
  ASSUME NEW S, IsFiniteSet(S)
  PROVE  /\ SetToSeq(S) \in [1..Cardinality(S) -> S] /\ Cardinality(S) \in Nat
         /\ {SetToSeq(S)[i] : i \in 1..Cardinality(S)} = S
<1> DEFINE n == Cardinality(S)
           f == SetToSeq(S)
<1>1. n \in Nat /\ ExistsBijection(1..n, S)
  BY FS_CardinalityType
<1>2. \E g \in [1..n -> S] : IsInjective(g)
  BY <1>1 DEF ExistsBijection, Bijection, Injection, IsInjective
<1>3. f \in [1..n -> S] /\ IsInjective(f)
  BY <1>2 DEF SetToSeq
<1>4. f \in Injection(1..n, S) /\ Cardinality(1..n) = Cardinality(S)
  BY <1>1, <1>3, FS_Interval DEF Injection
<1>5. f \in Surjection(1..n, S)
  BY <1>4, FS_Injection
<1> QED
  BY <1>1, <1>3, <1>5 DEF Surjection

(* The favorites that were typed, one line for each. *)
TypedAs(favorites, typed) ==
  /\ DOMAIN favorites = {Head(line) : line \in typed}
  /\ \A line \in typed : favorites[Head(line)] = Tail(line)

(* The lines that count in a text are among those of the forms. *)
Known(text) ==
  /\ text \in Seq(Seq(STRING))
  /\ \A i \in DOMAIN text : Assigns(text[i]) => text[i] \in Lines

(* A text gives the favorites of its last lines. *)
LEMMA FromText ==
  ASSUME NEW text, Known(text)
  PROVE  /\ favorites_from_text(text) \in Dicts
         /\ LastLines(text) \subseteq Lines /\ IsFiniteSet(LastLines(text))
         /\ TypedAs(favorites_from_text(text), LastLines(text))
<1> DEFINE n == Len(text)
           favorites == favorites_from_text(text)
<1>1. n \in Nat /\ DOMAIN text = 1..n
  BY LenProperties DEF Known
<1>2. Given(text) \subseteq 1..n /\ \A i \in Given(text) : text[i] \in Lines
  BY <1>1 DEF Given, Known
<1>3. DOMAIN favorites = {Head(text[i]) : i \in Given(text)}
  BY DEF favorites_from_text
<1>4. ASSUME NEW name \in DOMAIN favorites
      PROVE  \E i \in Given(text) :
               /\ Head(text[i]) = name /\ favorites[name] = Tail(text[i])
               /\ \A j \in Given(text) : Head(text[j]) = name => j <= i
  <2>1. GivenTo(name, text) \in SUBSET (1..n) /\ GivenTo(name, text) # {}
    BY <1>2, <1>3 DEF GivenTo
  <2>2. /\ Max(GivenTo(name, text)) \in GivenTo(name, text)
        /\ \A i \in GivenTo(name, text) : i <= Max(GivenTo(name, text))
    BY <1>1, <2>1, MaxOf
  <2>3. favorites[name] = Tail(text[Max(GivenTo(name, text))])
    BY <1>3 DEF favorites_from_text
  <2> HIDE DEF favorites
  <2> QED
    BY <2>2, <2>3 DEF GivenTo
<1>5. favorites = [name \in DOMAIN favorites |-> favorites[name]]
  BY DEF favorites_from_text
<1> HIDE DEF favorites
<1>6. favorites \in Dicts
  <2> DEFINE names == {Head(line) : line \in Lines}
             channels == {Tail(line) : line \in Lines}
  <2>1. DOMAIN favorites \in SUBSET names
    BY <1>2, <1>3
  <2>2. \A name \in DOMAIN favorites : favorites[name] \in channels
    BY <1>2, <1>4
  <2>3. favorites \in [DOMAIN favorites -> channels]
    BY <1>5, <2>2
  <2> QED
    BY <2>1, <2>3 DEF Dicts
<1>7. LastLines(text) \subseteq Lines
  BY <1>2 DEF LastLines
<1>8. IsFiniteSet(LastLines(text))
  <2> DEFINE last == {i \in Given(text) : \A j \in Given(text) : j > i => Head(text[j]) # Head(text[i])}
             g == [i \in last |-> text[i]]
  <2>1. IsFiniteSet(last)
    <3>1. IsFiniteSet(1..n) /\ last \in SUBSET (1..n)
      BY <1>1, <1>2, FS_Interval
    <3> QED
      BY <3>1, FS_Subset
  <2>2. g \in Surjection(last, LastLines(text))
    BY DEF Surjection, LastLines
  <2> QED
    BY <2>1, <2>2, FS_Surjection
<1>9. ASSUME NEW name \in DOMAIN favorites
      PROVE  \E line \in LastLines(text) : Head(line) = name
  <2>1. PICK i \in Given(text) :
          Head(text[i]) = name /\ \A j \in Given(text) : Head(text[j]) = name => j <= i
    BY <1>4
  <2>2. \A j \in Given(text) : j > i => Head(text[j]) # Head(text[i])
    BY <1>2, <2>1
  <2> QED
    BY <2>1, <2>2 DEF LastLines
<1>10. ASSUME NEW line \in LastLines(text)
       PROVE  Head(line) \in DOMAIN favorites /\ favorites[Head(line)] = Tail(line)
  <2>1. PICK i \in Given(text) :
          line = text[i] /\ \A j \in Given(text) : j > i => Head(text[j]) # Head(text[i])
    BY DEF LastLines
  <2>2. Head(line) \in DOMAIN favorites
    BY <1>3, <2>1
  <2>3. PICK m \in Given(text) :
          /\ Head(text[m]) = Head(line) /\ favorites[Head(line)] = Tail(text[m])
          /\ \A j \in Given(text) : Head(text[j]) = Head(line) => j <= m
    BY <1>4, <2>2
  <2>4. i <= m /\ ~(m > i)
    BY <2>1, <2>3
  <2>5. i = m
    BY <1>2, <2>4
  <2> QED
    BY <2>1, <2>2, <2>3, <2>5
<1>11. TypedAs(favorites, LastLines(text))
  BY <1>9, <1>10 DEF TypedAs
<1> QED
  BY <1>6, <1>7, <1>8, <1>11 DEF favorites

LEMMA LinesType ==
  \A line \in Lines : line \in Seq(STRING) /\ line # <<>> /\ Assigns(line)
<1> SUFFICES ASSUME NEW line \in Lines
             PROVE  line \in Seq(STRING) /\ line # <<>> /\ Assigns(line)
  OBVIOUS
<1>1. PICK form \in Forms : form.text # None /\ line \in ToSet(form.text)
  BY DEF Lines
<1>2. form.text \in Seq(Seq(STRING))
  BY <1>1, LifecycleAssumption
<1>3. line \in Seq(STRING)
  BY <1>1, <1>2, LenProperties DEF ToSet
<1>4. Assigns(line)
  BY DEF Lines
<1>5. line # <<>>
  <2>1. Len(line) > 1
    BY <1>4 DEF Assigns
  <2>2. Len(<<>>) = 0
    BY EmptySeq
  <2> QED
    BY <2>1, <2>2
<1> QED
  BY <1>3, <1>4, <1>5

(* The text of a form, and the text the form is opened with. *)
LEMMA TypedText ==
  ASSUME NEW form \in Forms, form.text # None
  PROVE  Known(form.text)
  BY LifecycleAssumption DEF Known, Lines, ToSet

(* Favorites make a text that gives them back. *)
LEMMA ToText ==
  ASSUME NEW favorites \in Dicts, NEW typed \in SUBSET Lines, IsFiniteSet(typed),
         TypedAs(favorites, typed)
  PROVE  /\ Known(favorites_to_text(favorites))
         /\ favorites_from_text(favorites_to_text(favorites)) = favorites
<1> DEFINE text == SetToSeq(typed)
           n == Cardinality(typed)
           again == favorites_from_text(text)
<1>1. favorites_to_text(favorites) = text
  <2>1. ASSUME NEW line \in typed
        PROVE  <<Head(line)>> \o favorites[Head(line)] = line
    <3>1. line \in Seq(STRING) /\ line # <<>>
      BY LinesType
    <3>2. <<Head(line)>> \o Tail(line) = line
      BY <3>1, HeadAndTail
    <3>3. favorites[Head(line)] = Tail(line)
      BY DEF TypedAs
    <3> QED
      BY <3>2, <3>3
  <2> DEFINE given(name) == <<name>> \o favorites[name]
  <2>2. \A line \in typed : given(Head(line)) = line
    BY <2>1
  <2>3. DOMAIN favorites = {Head(line) : line \in typed}
    BY DEF TypedAs
  <2> HIDE DEF given
  <2>4. {given(name) : name \in DOMAIN favorites} = typed
    BY <2>2, <2>3
  <2> QED
    BY <2>4 DEF favorites_to_text, given
<1>2. n \in Nat /\ text \in [1..n -> typed] /\ {text[i] : i \in 1..n} = typed
  BY InSomeOrder
<1> HIDE DEF text, n
<1>3. text \in Seq(Seq(STRING)) /\ DOMAIN text = 1..n /\ \A i \in 1..n : text[i] \in Lines
  <2>1. text \in [1..n -> Seq(STRING)]
    BY <1>2, LinesType
  <2> QED
    BY <1>2, <2>1, SeqDef
<1>4. Known(text) /\ Given(text) = 1..n
  BY <1>3, LinesType DEF Known, Given
<1>5. DOMAIN again = DOMAIN favorites
  <2>1. DOMAIN again = {Head(text[i]) : i \in 1..n}
    BY <1>4 DEF favorites_from_text
  <2>2. \A line \in typed : \E i \in 1..n : line = text[i]
    BY <1>2
  <2> QED
    BY <1>2, <2>1, <2>2 DEF TypedAs
<1>6. ASSUME NEW name \in DOMAIN favorites
      PROVE  again[name] = favorites[name]
  <2>1. GivenTo(name, text) \in SUBSET (1..n) /\ GivenTo(name, text) # {}
    <3>1. \E i \in 1..n : Head(text[i]) = name
      BY <1>4, <1>5 DEF favorites_from_text
    <3> QED
      BY <1>4, <3>1 DEF GivenTo
  <2>2. PICK i \in 1..n : i = Max(GivenTo(name, text)) /\ Head(text[i]) = name
    BY <1>2, <2>1, MaxOf DEF GivenTo
  <2>3. again[name] = Tail(text[i])
    BY <1>5, <2>2 DEF favorites_from_text
  <2>4. text[i] \in typed
    BY <1>2
  <2> QED
    BY <2>2, <2>3, <2>4 DEF TypedAs
<1>7. again = favorites
  <2>1. favorites = [name \in DOMAIN favorites |-> favorites[name]]
    BY DEF Dicts
  <2>2. again = [name \in DOMAIN again |-> again[name]]
    BY DEF favorites_from_text
  <2> HIDE DEF again
  <2> QED
    BY <1>5, <1>6, <2>1, <2>2
<1> QED
  BY <1>1, <1>4, <1>7

-----------------------------------------------------------------------------
(* The favorites in the options are those of the text that was typed, and  *)
(* what else an entry keeps is of its type; the media player has these     *)
(* favorites unless they changed after it took them, of which it hears     *)
(* once the entry is loaded.                                               *)
Kept(r) ==
  /\ r.options \in [scan_interval : Scans \cup {None}, favorites : Dicts]
  /\ r.config \in Scans \cup {None}
  /\ r.interval \in (Scans \ {0}) \cup {None, DEFAULT_SCAN_INTERVAL}
  /\ r.favorites \in Dicts
  /\ r.typed \in SUBSET Lines /\ IsFiniteSet(r.typed)
  /\ r.missed \in SUBSET {"scan_interval", "favorites"}
  /\ TypedAs(r.options.favorites, r.typed)

Offers(r) ==
  /\ Kept(r)
  /\ r.stage \in {"entities", "loaded"} =>
       \/ r.favorites = r.options.favorites
       \/ "favorites" \in r.missed
       \/ r.stage = "loaded" /\ r.reload

Offered == \A e \in Entries : Offers(entry[e])

LEMMA NoFavoritesType == NoFavorites \in Dicts /\ TypedAs(NoFavorites, {})
<1> DEFINE channels == {Tail(line) : line \in Lines}
<1>1. NoFavorites \in [{} -> channels]
  BY DEF NoFavorites
<1>2. {} \in SUBSET {Head(line) : line \in Lines}
  OBVIOUS
<1>3. NoFavorites \in Dicts
  BY <1>1, <1>2 DEF Dicts
<1> QED
  BY <1>3 DEF TypedAs, NoFavorites

LEMMA ScanIntervalType ==
  ASSUME NEW seconds \in Scans \cup {None}
  PROVE  ScanInterval(seconds) \in (Scans \ {0}) \cup {None, DEFAULT_SCAN_INTERVAL}
  BY DEF ScanInterval

LEMMA InitOffered == Init => Offered
<1> SUFFICES ASSUME Init
             PROVE  Offered
  OBVIOUS
<1>1. Offers(NewEntry)
  BY NoFavoritesType, FS_EmptySet DEF NewEntry, Offers, Kept
<1> HIDE DEF NewEntry
<1> QED
  BY <1>1 DEF Init, Offered

(* The media player is not there, or gone with the step. *)
LEMMA AbsentOffered ==
  ASSUME Shape, Offered, NEW e \in Entries,
         Step(e) \/ Disable(e), ~AddEntities(e), ~PlatformsUp(e)
  PROVE  Offers(entry'[e])
<1> DEFINE r == entry[e]
           to == entry'[e]
<1>1. Whole(r) /\ Offers(r)
  BY DEF Shape, Sound, Offered
<1>2. ASSUME NEW x, entry' = [entry EXCEPT ![e] = x]
      PROVE  to = x
  BY <1>2 DEF Shape
<1>3. CASE BeginSetup(e) \/ RegisterFrontend(e)
  <2>1. \/ to = [r EXCEPT !.stage = "frontend", !.reload = FALSE]
        \/ to = [r EXCEPT !.stage = "connect", !.session = TRUE,
                          !.config = r.options.scan_interval, !.reload = FALSE, !.missed = {}]
    BY <1>2, <1>3 DEF BeginSetup, RegisterFrontend, StartConnecting
  <2> QED
    BY <1>1, <2>1 DEF Whole, Offers, Kept
<1>4. CASE Connect(e)
  <2>1. \/ to = [r EXCEPT !.stage = "refresh", !.interval = ScanInterval(r.config)]
        \/ to = [r EXCEPT !.stage = "setup_retry", !.session = FALSE, !.reload = TRUE]
    BY <1>2, <1>4 DEF Connect, Connected
  <2>2. ScanInterval(r.config) \in (Scans \ {0}) \cup {None, DEFAULT_SCAN_INTERVAL}
    BY <1>1, ScanIntervalType DEF Offers, Kept
  <2> QED
    BY <1>1, <2>1, <2>2 DEF Whole, Offers, Kept
<1>5. CASE Refreshed(e) \/ Subscribed(e)
  <2>1. \/ to = [r EXCEPT !.stage = "subscribe", !.listener = r.listener + 1]
        \/ to = [r EXCEPT !.stage = "platforms"]
        \/ to = [r EXCEPT !.stage = "platforms", !.gena = TRUE]
        \/ to = [r EXCEPT !.stage = "platforms", !.listener = r.listener - 1]
    BY <1>2, <1>5 DEF Refreshed, Subscribed
  <2> QED
    BY <1>1, <2>1 DEF Whole, Offers, Kept
<1>6. CASE BeginUnload(e) \/ Disable(e)
  <2>1. to = [r EXCEPT !.stage = "unload_platforms"]
    BY <1>2, <1>6 DEF BeginUnload, Disable
  <2> QED
    BY <1>1, <2>1 DEF Whole, Offers, Kept
<1>7. CASE PlatformsDown(e) \/ Unsubscribed(e)
  <2>1. \/ to = [r EXCEPT !.stage = "unsubscribe"]
        \/ to = [r EXCEPT !.stage = "failed_unload"]
        \/ \E n : to = [r EXCEPT !.stage = "not_loaded", !.session = FALSE, !.interval = None,
                                 !.gena = FALSE, !.favorites = NoFavorites, !.listener = n]
    BY <1>2, <1>7 DEF PlatformsDown, Unsubscribed, Unloaded
  <2> QED
    BY <1>1, <2>1, NoFavoritesType DEF Whole, Offers, Kept
<1> QED
  BY <1>3, <1>4, <1>5, <1>6, <1>7 DEF Step

LEMMA PlayerOffered ==
  ASSUME Shape, Offered, NEW e \in Entries, AddEntities(e) \/ PlatformsUp(e)
  PROVE  Offers(entry'[e])
<1> DEFINE r == entry[e]
           to == entry'[e]
<1>1. Whole(r) /\ Offers(r)
  BY DEF Shape, Sound, Offered
<1>2. ASSUME NEW x, entry' = [entry EXCEPT ![e] = x]
      PROVE  to = x
  BY <1>2 DEF Shape
<1>3. CASE AddEntities(e)
  <2>1. to = [r EXCEPT !.stage = "entities", !.favorites = r.options.favorites]
    BY <1>2, <1>3 DEF AddEntities
  <2> QED
    BY <1>1, <2>1 DEF Whole, Offers, Kept
<1>4. CASE PlatformsUp(e)
  <2>1. r.stage = "entities" /\ to = [r EXCEPT !.stage = "loaded"]
    BY <1>2, <1>4 DEF PlatformsUp, At
  <2> QED
    BY <1>1, <2>1 DEF Whole, Offers, Kept
<1> QED
  BY <1>3, <1>4

LEMMA ChangeOffered ==
  ASSUME Shape, Offered, NEW e \in Entries, ChangeOptions(e)
  PROVE  Offers(entry'[e])
<1> DEFINE r == entry[e]
           to == entry'[e]
<1>1. Whole(r) /\ Offers(r)
  BY DEF Shape, Sound, Offered
<1>2. ASSUME NEW x, entry' = [entry EXCEPT ![e] = x]
      PROVE  to = x
  BY <1>2 DEF Shape
<1>3. PICK options, text :
        /\ options = [scan_interval |-> options.scan_interval, favorites |-> favorites_from_text(text)]
        /\ options.scan_interval \in Scans /\ Known(text)
        /\ entry' = [entry EXCEPT ![e] = [@ EXCEPT
                       !.options = options, !.typed = LastLines(text),
                       !.reload = entry[e].reload \/ At(e, "loaded"),
                       !.missed = entry[e].missed \cup Unseen(e)]]
  <2>1. Known(favorites_to_text(r.options.favorites))
    BY <1>1, ToText DEF Offers, Kept
  <2>2. PICK form \in Forms :
          LET text == IF form.text = None THEN favorites_to_text(r.options.favorites)
                      ELSE form.text
              options == [scan_interval |-> form.scan_interval,
                          favorites |-> favorites_from_text(text)]
          IN entry' = [entry EXCEPT ![e] = [@ EXCEPT
                         !.options = options, !.typed = LastLines(text),
                         !.reload = entry[e].reload \/ At(e, "loaded"),
                         !.missed = entry[e].missed \cup Unseen(e)]]
    BY DEF ChangeOptions, Save
  <2> DEFINE text == IF form.text = None THEN favorites_to_text(r.options.favorites)
                     ELSE form.text
             options == [scan_interval |-> form.scan_interval,
                         favorites |-> favorites_from_text(text)]
  <2>3. Known(text) /\ form.scan_interval \in Scans
    BY <2>1, TypedText DEF Scans
  <2>4. /\ options.scan_interval = form.scan_interval
        /\ options = [scan_interval |-> options.scan_interval, favorites |-> favorites_from_text(text)]
    OBVIOUS
  <2> HIDE DEF text
  <2> QED
    BY <2>2, <2>3, <2>4 DEF text
<1>4. to = [r EXCEPT !.options = options, !.typed = LastLines(text),
                     !.reload = r.reload \/ At(e, "loaded"),
                     !.missed = r.missed \cup Unseen(e)]
  BY <1>2, <1>3
<1>5. /\ to.options = options /\ to.typed = LastLines(text) /\ to.favorites = r.favorites
      /\ to.stage = r.stage /\ to.missed = r.missed \cup Unseen(e)
  BY <1>1, <1>4 DEF Whole
<1>6. r.stage = "loaded" => to.reload
  <2>1. to.reload = (r.reload \/ At(e, "loaded"))
    BY <1>1, <1>4 DEF Whole
  <2> QED
    BY <2>1 DEF At
<1>7. r.stage = "entities" => "favorites" \in to.missed
  BY <1>5 DEF Unseen, At
<1>8. /\ options.favorites = favorites_from_text(text)
      /\ to.config = r.config /\ to.interval = r.interval
  BY <1>1, <1>3, <1>4 DEF Whole
<1>9. /\ options.favorites \in Dicts
      /\ LastLines(text) \in SUBSET Lines /\ IsFiniteSet(LastLines(text))
      /\ TypedAs(options.favorites, LastLines(text))
  BY <1>3, <1>8, FromText
<1>10. options \in [scan_interval : Scans \cup {None}, favorites : Dicts]
  BY <1>3, <1>8, <1>9
<1>11. Unseen(e) \subseteq {"scan_interval", "favorites"}
  BY DEF Unseen
<1>12. Kept(to)
  BY <1>1, <1>5, <1>8, <1>9, <1>10, <1>11 DEF Offers, Kept
<1> QED
  BY <1>5, <1>6, <1>7, <1>12 DEF Offers

LEMMA NextOffered == Shape /\ Offered /\ [Next]_vars => Offered'
<1>1. ASSUME Offered, UNCHANGED vars
      PROVE  Offered'
  BY <1>1 DEF Offered, Offers, vars
<1>2. ASSUME Shape, Offered, NEW e \in Entries, Step(e) \/ Disable(e) \/ ChangeOptions(e)
      PROVE  Offered'
  <2>1. Offers(entry'[e])
    BY <1>2, AbsentOffered, PlayerOffered, ChangeOffered
  <2>2. \A d \in Entries : d # e => entry'[d] = entry[d]
    BY <1>2, Steps, BeginSetupShape, RegisterShape DEF Passes
  <2> QED
    BY <1>2, <2>1, <2>2 DEF Offered
<1> QED
  BY <1>1, <1>2 DEF Next

LEMMA AlwaysOffered == Spec => [](Shape /\ Offered)
  BY InitShape, NextShape, InitOffered, NextOffered, PTL DEF Spec

(* A loaded entry offers each favorite of the text its user typed last,    *)
(* whatever text, with the channel of its last line; selecting it or       *)
(* playing it by name tunes that channel, an app's name selects the app,   *)
(* and the text that the form is opened with next gives the favorites back *)
(* (_favorites_from_text, _favorites_to_text, media_player.py); unless the *)
(* options changed in the course of its last setup, after the media player *)
(* took them.                                                              *)
THEOREM WorkingSources == Spec => []SourcesWork
<1>1. ASSUME Offered, NEW e \in Entries, Works(e, "favorites")
      PROVE  /\ entry[e].favorites \in Dicts /\ entry[e].typed \in SUBSET Lines
             /\ IsFiniteSet(entry[e].typed) /\ TypedAs(entry[e].favorites, entry[e].typed)
  BY <1>1 DEF Offered, Offers, Kept, Works, At
<1>2. ASSUME NEW favorites \in Dicts, NEW typed \in SUBSET Lines, IsFiniteSet(typed),
             TypedAs(favorites, typed)
      PROVE  /\ source_list(favorites) = {Head(line) : line \in typed} \cup Apps
             /\ \A line \in typed :
                  /\ \A media_type \in ChannelTypes :
                       play_media(favorites, media_type, Head(line)) = <<"tune", Tail(line)>>
                  /\ select_source(favorites, Head(line)) =
                       IF Head(line) \in Apps THEN <<"launch", Head(line)>>
                       ELSE <<"tune", Tail(line)>>
             /\ favorites_from_text(favorites_to_text(favorites)) = favorites
  <2>1. favorites_from_text(favorites_to_text(favorites)) = favorites
    BY <1>2, ToText
  <2>2. source_list(favorites) = {Head(line) : line \in typed} \cup Apps
    BY <1>2 DEF TypedAs, source_list
  <2>3. ASSUME NEW line \in typed
        PROVE  /\ \A media_type \in ChannelTypes :
                       play_media(favorites, media_type, Head(line)) = <<"tune", Tail(line)>>
               /\ select_source(favorites, Head(line)) =
                    IF Head(line) \in Apps THEN <<"launch", Head(line)>>
                    ELSE <<"tune", Tail(line)>>
    <3>1. Head(line) \in DOMAIN favorites /\ favorites[Head(line)] = Tail(line)
      BY <1>2 DEF TypedAs
    <3> QED
      BY <3>1 DEF play_media, select_source
  <2> QED
    BY <2>1, <2>2, <2>3
<1>3. Offered => SourcesWork
  BY <1>1, <1>2 DEF SourcesWork
<1> QED
  BY <1>3, AlwaysOffered, PTL

-----------------------------------------------------------------------------
(* Who has got past the frontend, when it was registered or found so. *)
Quiet == {"not_loaded", "setup_retry", "frontend"}

Served ==
  /\ flag \in BOOLEAN /\ registered \in Nat
  /\ flag <=> registered > 0
  /\ \A e \in Entries : entry[e].stage \in Quiet \/ flag

(* An entry comes to wait only as long as nobody registered the frontend. *)
Late == \A e \in Entries : At(e, "frontend")' => At(e, "frontend")

LEMMA InitServed == Init => Served
<1> SUFFICES ASSUME Init
             PROVE  Served
  OBVIOUS
<1>1. \A e \in Entries : entry[e].stage = "not_loaded"
  BY DEF Init, NewEntry
<1>2. flag \in BOOLEAN /\ ~flag /\ registered = 0
  BY DEF Init
<1> QED
  BY <1>1, <1>2 DEF Served, Quiet

LEMMA NextServed == Shape /\ Served /\ [Next]_vars => Served' /\ (registered > 0 => Late)
<1> SUFFICES ASSUME Shape, Served, [Next]_vars
             PROVE  Served' /\ (registered > 0 => Late)
  OBVIOUS
<1>1. ASSUME NEW e \in Entries, Passes(e)
      PROVE  Served' /\ Late
  <2>1. \A d \in Entries : entry'[d].stage \in Quiet \/ flag
    BY <1>1 DEF Passes, Served, Quiet
  <2>2. Late
    BY <1>1 DEF Passes, Late, At
  <2> QED
    BY <1>1, <2>1, <2>2 DEF Passes, Served
<1>2. ASSUME NEW e \in Entries, BeginSetup(e)
      PROVE  Served' /\ (registered > 0 => Late)
  <2>1. UNCHANGED <<flag, registered>> /\ (\A d \in Entries : d # e => entry'[d] = entry[d])
    BY <1>2, BeginSetupShape
  <2>2. CASE flag
    BY <1>2, <2>1, <2>2, BeginSetupShape DEF Served, Late, At
  <2>3. CASE ~flag
    <3>1. entry'[e].stage = "frontend"
      BY <1>2, <2>3, BeginSetupShape
    <3> QED
      BY <2>1, <2>3, <3>1 DEF Served, Quiet
  <2> QED
    BY <2>2, <2>3
<1>3. ASSUME NEW e \in Entries, RegisterFrontend(e)
      PROVE  Served' /\ Late
  <2>1. registered' = registered + 1 /\ flag' = TRUE
    BY <1>3 DEF RegisterFrontend
  <2>2. Late
    BY <1>3, RegisterShape DEF Late, At
  <2> QED
    BY <2>1, <2>2 DEF Served
<1>4. ASSUME UNCHANGED vars
      PROVE  Served' /\ Late
  BY <1>4 DEF vars, Served, Late, At
<1> QED
  BY <1>1, <1>2, <1>3, <1>4, Steps DEF Next

(* However many entries are set up at once, retried or reloaded, the card  *)
(* is registered before the first of them is loaded, and once it is, only  *)
(* those register it again that were about to (frontend.py): none that is  *)
(* set up, retried or reloaded from then on.                               *)
THEOREM ServedCard == Spec => CardServed
<1>1. Served => \A e \in Entries : At(e, "loaded") => registered > 0
  BY DEF Served, At, Quiet
<1>2. Shape /\ Served /\ [Next]_vars =>
        [registered > 0 => \A e \in Entries : At(e, "frontend")' => At(e, "frontend")]_vars
  BY NextServed DEF Late
<1> QED
  BY <1>1, <1>2, InitShape, NextShape, InitServed, NextServed, PTL DEF Spec, CardServed

-----------------------------------------------------------------------------
Budget == faults \in 0..MaxFaults /\ changes \in 0..MaxOptions

LEMMA InitBudget == Init => Budget
  BY LifecycleAssumption DEF Init, Budget

LEMMA NextBudget == Budget /\ [Next]_vars => Budget'
<1> SUFFICES ASSUME Budget, [Next]_vars
             PROVE  Budget'
  OBVIOUS
<1>1. faults' = faults \/ (faults < MaxFaults /\ faults' = faults + 1)
  BY DEF Next, Step, Disable, ChangeOptions, BeginSetup, RegisterFrontend, Connect, Connected,
     Refreshed, Subscribed, AddEntities, PlatformsUp, BeginUnload, PlatformsDown, Unsubscribed,
     Unloaded, Fault, vars
<1>2. changes' = changes \/ (changes < MaxOptions /\ changes' = changes + 1)
  BY DEF Next, Step, Disable, ChangeOptions, BeginSetup, RegisterFrontend, Connect, Connected,
     Refreshed, Subscribed, AddEntities, PlatformsUp, BeginUnload, PlatformsDown, Unsubscribed,
     Unloaded, Fault, vars
<1> QED
  BY <1>1, <1>2, LifecycleAssumption DEF Budget

(* An entry with its fields, each of its type. *)
LEMMA EntryType ==
  ASSUME NEW r, Sound(r), Kept(r)
  PROVE  r \in [stage : Setup \cup Unload \cup Rest,
                options : [scan_interval : Scans \cup {None}, favorites : Dicts],
                config : Scans \cup {None}, favorites : Dicts,
                interval : (Scans \ {0}) \cup {None, DEFAULT_SCAN_INTERVAL},
                session : BOOLEAN, listener : Nat, gena : BOOLEAN, reload : BOOLEAN,
                typed : SUBSET Lines, missed : SUBSET {"scan_interval", "favorites"}]
<1>1. r.listener \in Nat
  BY DEF Sound, Owns
<1>2. Whole(r)
  BY DEF Sound
<1> QED
  BY <1>1, <1>2 DEF Whole, Kept, Stages

(* Type correctness of the entries and of the frontend's registration: the *)
(* options of an entry are those of a form, its favorites those of texts,  *)
(* and no coordinator polls at an interval of zero (async_setup_entry).    *)
THEOREM TypeInvariant == Spec => []TypeOK
<1>1. ASSUME Shape, Offered, Served, Budget
      PROVE  TypeOK
  <2>1. \A e \in Entries : Sound(entry[e]) /\ Kept(entry[e])
    BY <1>1 DEF Shape, Offered, Offers
  <2>2. entry = [e \in Entries |-> entry[e]]
    BY <1>1 DEF Shape
  <2> QED
    BY <1>1, <2>1, <2>2, EntryType DEF TypeOK, Served, Budget
<1> QED
  BY <1>1, AlwaysOffered, InitShape, NextShape, InitServed, NextServed, InitBudget, NextBudget,
     PTL DEF Spec
=============================================================================
