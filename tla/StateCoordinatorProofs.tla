------------------------ MODULE StateCoordinatorProofs ------------------------
(***************************************************************************)
(* Proofs about the coordinator for any number of changes and faults:      *)
(* whatever overlaps, is lost or fails, another refresh is always ahead.   *)
(***************************************************************************)
EXTENDS StateCoordinator, SequenceTheorems, TLAPS

(* What a poll may hold, and a notification. *)
Polled == 0..MaxChanges \cup {Idle, Asked, Unknown, Failed}
News == 0..MaxChanges \cup {Unknown}

LEMMA InitTypeOK == Init => TypeOK
<1> SUFFICES ASSUME Init
             PROVE  TypeOK
  OBVIOUS
<1>1. 0 \in 0..MaxChanges /\ 0 \in 0..MaxFaults
  BY CoordinatorAssumption
<1>2. notes \in Seq(News)
  <2>1. 0 \in News
    BY <1>1 DEF News
  <2>2. <<0>> \in Seq(News) /\ <<>> \in Seq(News)
    BY <2>1
  <2> QED
    BY <2>2 DEF Init
<1>3. data \in 0..MaxChanges \cup {Unknown, None}
  BY <1>1 DEF Init
<1>4. polls \in [Slots -> Polled]
  BY DEF Init, Polled
<1>5. timer \in BOOLEAN /\ requested \in BOOLEAN /\ assumed_on \in BOOLEAN
  BY DEF Init, update_interval, supports_state
<1> QED
  BY <1>1, <1>2, <1>3, <1>4, <1>5 DEF Init, TypeOK, News, Polled

(* What a refresh that ends makes of its answer is data. *)
LEMMA AnswerType ==
  ASSUME NEW answer \in Polled, answer \notin {Idle, Asked}
  PROVE  state_from_devinfo(answer) \in 0..MaxChanges \cup {Unknown, None}
  BY DEF state_from_devinfo, Polled

LEMMA NextTypeOK == TypeOK /\ [Next]_vars => TypeOK'
<1> SUFFICES ASSUME TypeOK, [Next]_vars
             PROVE  TypeOK'
  OBVIOUS
<1> USE CoordinatorAssumption DEF source, update_interval, supports_state
<1>0. /\ polls \in [Slots -> Polled] /\ notes \in Seq(News)
      /\ changes \in 0..MaxChanges
  BY DEF TypeOK, Polled, News
<1>1. CASE RequestRefresh
  BY <1>1 DEF RequestRefresh, TypeOK
<1>2. ASSUME NEW s \in Slots, StartPoll(s)
      PROVE  TypeOK'
  BY <1>2 DEF StartPoll, TypeOK
<1>3. ASSUME NEW s \in Slots, AnswerPoll(s)
      PROVE  TypeOK'
  <2>1. PICK answer \in Polled : polls' = [polls EXCEPT ![s] = answer]
    BY <1>0, <1>3 DEF AnswerPoll, Polled
  <2>2. polls' \in [Slots -> Polled]
    BY <1>0, <2>1
  <2>3. faults' \in 0..MaxFaults
    BY <1>3 DEF AnswerPoll, TypeOK
  <2> QED
    BY <1>3, <2>2, <2>3 DEF AnswerPoll, TypeOK, Polled
<1>4. ASSUME NEW s \in Slots, EndPoll(s)
      PROVE  TypeOK'
  <2>1. data' \in 0..MaxChanges \cup {Unknown, None}
    BY <1>0, <1>4, AnswerType DEF EndPoll
  <2>2. polls' \in [Slots -> Polled]
    BY <1>0, <1>4 DEF EndPoll, Polled
  <2> QED
    BY <1>4, <2>1, <2>2 DEF EndPoll, TypeOK, Polled
<1>5. CASE handle_push
  <2>1. Head(notes) \in News /\ Tail(notes) \in Seq(News)
    BY <1>0, <1>5 DEF handle_push
  <2> QED
    BY <1>5, <2>1 DEF handle_push, TypeOK, News
<1>6. CASE NoteFault
  <2>1. notes' \in Seq(News)
    BY <1>0, <1>6 DEF NoteFault, LoseNote, OtherNote, News
  <2>2. UNCHANGED assumed_on /\ faults' \in 0..MaxFaults
    BY <1>6 DEF NoteFault, LoseNote, OtherNote, TypeOK
  <2> QED
    BY <1>6, <2>1, <2>2 DEF NoteFault, TypeOK, News
<1>7. ASSUME Turn, assumed_on' \in BOOLEAN
      PROVE  TypeOK'
  <2>1. changes' \in 0..MaxChanges
    BY <1>0, <1>7 DEF Turn
  <2>2. changes + 1 \in News
    BY <1>7, <2>1 DEF Turn, News
  <2>3. notes' \in Seq(News)
    BY <1>0, <1>7, <2>2 DEF Turn
  <2> QED
    BY <1>7, <2>1, <2>3 DEF Turn, TypeOK, News
<1>8. CASE Change \/ \E on \in BOOLEAN : try_power(on)
  BY <1>7, <1>8 DEF Change, try_power, TypeOK
<1>9. CASE UNCHANGED vars
  BY <1>9 DEF vars, TypeOK
<1> QED
  BY <1>1, <1>2, <1>3, <1>4, <1>5, <1>6, <1>8, <1>9 DEF Next

(* Type correctness of the coordinator, its polls and the notifications. *)
THEOREM TypeInvariant == Spec => []TypeOK
  BY InitTypeOK, NextTypeOK, PTL DEF Spec

(* A refresh that starts takes the timer's place; one that ends, and a     *)
(* push, set the timer.                                                    *)
LEMMA NextRefreshAhead == TypeOK /\ RefreshAhead /\ [Next]_vars => RefreshAhead'
<1> SUFFICES ASSUME TypeOK, RefreshAhead, [Next]_vars, described'
             PROVE  timer' \/ \E s \in Slots : polls'[s] # Idle
  BY DEF RefreshAhead
<1> USE CoordinatorAssumption
<1>0. /\ polls \in [Slots -> Polled]
      /\ described /\ (timer \/ \E s \in Slots : polls[s] # Idle)
  <2>1. described' = described
    BY DEF Next, vars, source, RequestRefresh, handle_push, NoteFault, Change, Turn,
           try_power, StartPoll, AnswerPoll, EndPoll
  <2> QED
    BY <2>1 DEF TypeOK, RefreshAhead, Polled
<1>1. ASSUME NEW s \in Slots, StartPoll(s)
      PROVE  polls'[s] # Idle
  BY <1>0, <1>1 DEF StartPoll, supports_state
<1>2. ASSUME NEW s \in Slots, AnswerPoll(s)
      PROVE  polls'[s] # Idle
  <2>1. changes # Idle
    <3>1. changes \in Nat
      BY DEF TypeOK
    <3>2. Idle \notin Nat
      BY Zenon
    <3> QED
      BY <3>1, <3>2
  <2>2. CASE polls' = [polls EXCEPT ![s] = changes]
    BY <1>0, <2>1, <2>2
  <2>3. ASSUME NEW answer \in {Failed, Unknown}, polls' = [polls EXCEPT ![s] = answer]
        PROVE  polls'[s] # Idle
    BY <1>0, <2>3
  <2> QED
    BY <1>2, <2>2, <2>3 DEF AnswerPoll
<1>3. ASSUME NEW s \in Slots, EndPoll(s)
      PROVE  timer'
  BY <1>0, <1>3 DEF EndPoll, update_interval, supports_state
<1>4. CASE handle_push
  BY <1>0, <1>4 DEF handle_push, update_interval, supports_state
<1>5. CASE UNCHANGED <<timer, polls>>
  BY <1>0, <1>5
<1> QED
  BY <1>1, <1>2, <1>3, <1>4, <1>5
     DEF Next, vars, RequestRefresh, NoteFault, Change, Turn, try_power

(* Polling is the fallback source of truth: for a receiver whose control   *)
(* URL was found at connect time a refresh is scheduled or under way at    *)
(* all times (DataUpdateCoordinator as coordinator.py uses it).            *)
THEOREM AlwaysRefreshed == Spec => []RefreshAhead
<1>1. Init => RefreshAhead
  BY DEF Init, RefreshAhead, update_interval, supports_state
<1> QED
  BY <1>1, TypeInvariant, NextRefreshAhead, PTL DEF Spec
=============================================================================
